--------------------------- MODULE TenantAccessProofs ---------------------------
(***************************************************************************)
(* Theorems about TenantAccess and Tenancy for any sets of requests, people *)
(* and handlers, or of accounts, invitations and desks, however their       *)
(* statements interleave.                                                   *)
(***************************************************************************)
EXTENDS TenantAccess, Tenancy, FiniteSetTheorems, TLAPS

Entered == {"approved", "active", "completed", "expired"}
Refused == {"rejected", "cancelled"}

\* A row's status keeps what became of it: nothing while it waits, a grant once it was
\* approved, a refusal once it was rejected or cancelled; and a handler that writes
\* without looking again has loaded a granted row, which stays granted.
StatusKeepsDecision ==
  /\ \A r \in Requests :
       /\ request[r].status \in {"none", "pending"} => r \notin granted \cup refused
       /\ request[r].status \in Entered => r \in granted \ refused
       /\ request[r].status \in Refused => r \notin granted
  /\ \A h \in Handlers :
       handler[h].at \in {"enter", "exit", "end"} =>
         request[handler[h].on].status \in Entered

\* What a handler is at says what it was loaded with.
LoadsFit ==
  \A h \in Handlers :
    /\ handler[h].at \notin {"idle", "create"} => handler[h].on \in Requests
    /\ handler[h].at \in {"approved", "rejected"} => handler[h].by \in Members
    /\ handler[h].at = "create" => handler[h].by \in Requesters

AccessInv == AccessTypeOK /\ LoadsFit /\ StatusKeepsDecision

USE DEF Stages, RequestRows, NoRequest, Resting, Entered, Refused
-----------------------------------------------------------------------------
LEMMA AccessInitially == AccessInit => AccessInv
BY DEF AccessInit, AccessInv, AccessTypeOK, LoadsFit, StatusKeepsDecision

\* Steps that only read a row, or drop what was read.
LEMMA LoadsPreserve ==
  ASSUME AccessInv, NEW h \in Handlers, NEW at, NEW r, NEW u, Loads(h, at, r, u),
         \/ at = "create" /\ r = None /\ u \in Requesters
         \/ at \in {"approved", "rejected"} /\ r \in Requests /\ u \in Members
         \/ /\ at \in {"enter", "exit", "end"} /\ r \in Requests
            /\ u \in Requesters \cup {None} /\ request[r].status \in Entered
  PROVE  AccessInv'
<1> USE DEF AccessInv, Loads, Take
<1>1. AccessTypeOK'
  BY DEF AccessTypeOK
<1>2. LoadsFit'
  BY DEF AccessTypeOK, LoadsFit
<1>3. StatusKeepsDecision'
  BY DEF AccessTypeOK, LoadsFit, StatusKeepsDecision
<1> QED
  BY <1>1, <1>2, <1>3

\* Steps of a handler that write the row it has loaded.
LEMMA HandlerStep ==
  ASSUME AccessInv, NEW h \in Handlers, Handle(h)
  PROVE  AccessInv'
<1>1. ASSUME NEW u \in Requesters, CreateRequest(h, u) PROVE AccessInv'
  BY <1>1, LoadsPreserve DEF CreateRequest
<1>2. ASSUME NEW r \in Requests, Insert(h, r) PROVE AccessInv'
  <2> USE <1>2 DEF Insert, Rest, AccessInv
  <2>1. AccessTypeOK'
    BY DEF AccessTypeOK, LoadsFit
  <2>2. LoadsFit'
    BY DEF AccessTypeOK, LoadsFit
  <2>3. StatusKeepsDecision'
    BY DEF AccessTypeOK, LoadsFit, StatusKeepsDecision
  <2> QED
    BY <2>1, <2>2, <2>3
<1>3. ASSUME NEW r \in Requests, EnterTenant(h, r) PROVE AccessInv'
  BY <1>3, LoadsPreserve DEF EnterTenant, AccessInv, AccessTypeOK
<1>4. ASSUME NEW r \in Requests, ExitTenant(h, r) PROVE AccessInv'
  BY <1>4, LoadsPreserve DEF ExitTenant, AccessInv, AccessTypeOK
<1>5. ASSUME NEW r \in Requests, TerminateSession(h, r) PROVE AccessInv'
  BY <1>5, LoadsPreserve DEF TerminateSession, AccessInv, AccessTypeOK
<1>6. ASSUME NEW r \in Requests, NEW m \in Members,
             NEW decision \in {"approved", "rejected"},
             LoadForDecision(h, r, m, decision)
      PROVE  AccessInv'
  BY <1>6, LoadsPreserve DEF LoadForDecision
<1>7. ASSUME UpdateStatus(h) PROVE AccessInv'
  <2> DEFINE r == handler[h].on
             decision == handler[h].at
  <2> USE <1>7 DEF UpdateStatus, Rest, AccessInv, AccessTypeOK, LoadsFit
  <2>1. r \in Requests /\ handler[h].by \in Members /\ decision \in {"approved", "rejected"}
    OBVIOUS
  <2>2. CASE request[r].status = "pending"
    <3>1. request' = [request EXCEPT ![r].status = decision, ![r].approvedBy = handler[h].by]
      BY <2>2
    <3>2. granted' = granted \cup (IF decision = "approved" THEN {r} ELSE {})
      BY <2>2
    <3>3. refused' = refused \cup (IF decision = "rejected" THEN {r} ELSE {})
      BY <2>2
    <3>4. AccessTypeOK' /\ LoadsFit'
      BY SMTT(60), <2>1, <3>1, <3>2, <3>3
    <3>5. \A q \in Requests : q # r => request'[q] = request[q]
      BY <3>1
    <3>6. request'[r].status = decision
      BY <2>1, <3>1
    <3>7. StatusKeepsDecision'
      BY <2>1, <2>2, <3>2, <3>3, <3>5, <3>6 DEF StatusKeepsDecision
    <3> QED
      BY <3>4, <3>7
  <2>3. CASE request[r].status # "pending"
    BY <2>3 DEF StatusKeepsDecision
  <2> QED
    BY <2>2, <2>3
<1>8. ASSUME StartOrResumeSession(h) \/ PauseOrCompleteSession(h) \/ CompleteSession(h)
      PROVE  AccessInv'
  <2> USE DEF StartOrResumeSession, PauseOrCompleteSession, CompleteSession, Rest,
              AccessInv, AccessTypeOK, LoadsFit
  <2>1. AccessTypeOK' /\ LoadsFit'
    <3>1. CASE StartOrResumeSession(h)
      BY SMTT(60), <3>1
    <3>2. CASE PauseOrCompleteSession(h)
      BY SMTT(60), <3>2
    <3>3. CASE CompleteSession(h)
      BY <3>3
    <3> QED
      BY <1>8, <3>1, <3>2, <3>3
  <2>2. /\ handler[h].at \in {"enter", "exit", "end"} /\ handler[h].on \in Requests
        /\ \A q \in Requests : q # handler[h].on => request'[q] = request[q]
        /\ request'[handler[h].on].status \in {"active", "approved", "completed"}
        /\ \A g \in Handlers : handler'[g].at \in {"enter", "exit", "end"} =>
                                handler'[g] = handler[g]
        /\ granted' = granted /\ refused' = refused
    BY <1>8
  <2>3. StatusKeepsDecision'
    BY <2>2 DEF StatusKeepsDecision
  <2> QED
    BY <2>1, <2>3
<1>9. ASSUME HandlerFails(h) PROVE AccessInv'
  BY <1>9 DEF HandlerFails, Rest, AccessInv, AccessTypeOK, LoadsFit, StatusKeepsDecision
<1> QED
  BY <1>1, <1>2, <1>3, <1>4, <1>5, <1>6, <1>7, <1>8, <1>9 DEF Handle

LEMMA AccessStep == AccessInv /\ [AccessNext]_access => AccessInv'
<1> SUFFICES ASSUME AccessInv, [AccessNext]_access PROVE AccessInv'
  OBVIOUS
<1> USE DEF AccessInv, AccessTypeOK, LoadsFit, StatusKeepsDecision
<1>1. CASE UNCHANGED access
  BY <1>1 DEF access
<1>2. ASSUME NEW h \in Handlers, Handle(h) PROVE AccessInv'
  BY <1>2, HandlerStep
<1>3. ASSUME NEW r \in Requests, CancelRequest(r) PROVE AccessInv'
  BY <1>3 DEF CancelRequest
<1>4. ASSUME NEW r \in Requests, Lapse(r) PROVE AccessInv'
  <2>1. \A q \in Requests : request'[q].status = request[q].status
    BY <1>4 DEF Lapse
  <2>2. AccessTypeOK' /\ LoadsFit'
    BY <1>4 DEF Lapse
  <2>3. UNCHANGED <<handler, granted, refused>>
    BY <1>4 DEF Lapse
  <2>4. StatusKeepsDecision'
    BY <2>1, <2>3
  <2> QED
    BY <2>2, <2>4
<1>5. CASE ExpireOverdueSessions
  <2>1. \A q \in Requests :
          \/ request'[q] = request[q]
          \/ request[q].status \in Entered /\ request'[q].status = "expired"
             /\ request'[q] = [request[q] EXCEPT !.status = "expired"]
    BY <1>5 DEF ExpireOverdueSessions, Overdue
  <2>2. UNCHANGED <<approvers, handler, granted, refused, turns>>
    BY <1>5 DEF ExpireOverdueSessions
  <2>3. DOMAIN request' = Requests /\ request' = [q \in Requests |-> request'[q]]
    BY <1>5 DEF ExpireOverdueSessions
  <2>4. ASSUME NEW q \in Requests PROVE request'[q] \in RequestRows
    <3>1. request[q] \in RequestRows
      OBVIOUS
    <3>2. CASE request'[q] = [request[q] EXCEPT !.status = "expired"]
      BY <3>1, <3>2
    <3> QED
      BY <2>1, <3>1, <3>2
  <2>5. AccessTypeOK' /\ LoadsFit'
    BY <2>2, <2>3, <2>4
  <2>6. \A h \in Handlers : handler[h].at \in {"enter", "exit", "end"} =>
                             handler[h].on \in Requests
    OBVIOUS
  <2>7. StatusKeepsDecision'
    BY <2>1, <2>2, <2>6
  <2> QED
    BY <2>5, <2>7
<1>6. ASSUME NEW M \in SUBSET Members, SetApprovers(M) PROVE AccessInv'
  BY <1>6 DEF SetApprovers
<1> QED
  BY <1>1, <1>2, <1>3, <1>4, <1>5, <1>6 DEF AccessNext

LEMMA AccessInvariant == AccessSpec => []AccessInv
BY AccessInitially, AccessStep, PTL DEF AccessSpec

\* The variables of TenantAccess have their types.
THEOREM AccessTypeCorrect == AccessSpec => []AccessTypeOK
BY AccessInvariant, PTL DEF AccessInv

\* Whoever is inside a tenant, or may go in, has a request that somebody approved and
\* nobody refused, although no write of a session looks at the row it writes.
THEOREM InsideCorrect == AccessSpec => []InsideWasGranted
<1>1. AccessInv => InsideWasGranted
  BY DEF AccessInv, StatusKeepsDecision, InsideWasGranted
<1> QED
  BY <1>1, AccessInvariant, PTL

-----------------------------------------------------------------------------
(* Handlers of one request that take turns *)

\* No two handlers are at work on one request, or on one that one administrator makes.
TakingTurns ==
  \A g, h \in Handlers :
    /\ handler[g].at # "idle" /\ handler[h].at # "idle" /\ handler[g].on = handler[h].on
    /\ handler[h].on = None => handler[g].by = handler[h].by
    => g = h

\* An administrator has one open request, and none while one is to be made.
OneOpen ==
  /\ \A q, r \in Requests : IsOpen(q) /\ IsOpen(r) /\ request[q].of = request[r].of => q = r
  /\ \A h \in Handlers : handler[h].at = "create" =>
       \A r \in Requests : request[r].of = handler[h].by => ~IsOpen(r)

\* A handler of a session has loaded a row that has not changed since, but that its time
\* may have passed and a list have ended it.
LoadsHold ==
  \A h \in Handlers :
    LET row == request[handler[h].on]
    IN  /\ handler[h].at = "create" => handler[h].on = None
        /\ handler[h].at = "enter" =>
             /\ handler[h].until \in {"none", "ahead"}
             /\ handler[h].until = "none" => row.until = "none" /\ row.status = "approved"
             /\ handler[h].until = "ahead" =>
                  \/ row.until \in {"ahead", "past"} /\ row.status = "approved"
                  \/ row.until = "past" /\ row.status = "expired"
        /\ handler[h].at = "exit" /\ handler[h].until = "ahead" =>
             \/ row.until \in {"ahead", "past"} /\ row.status = "active"
             \/ row.until = "past" /\ row.status = "expired"

TurnsInv == turns => TakingTurns /\ OneOpen /\ LoadsHold

\* No request is opened, and no closed one again.
NothingOpens ==
  \A r \in Requests : IsOpen(r)' => IsOpen(r) /\ request'[r].of = request[r].of

LEMMA FewerOpen ==
  ASSUME OneOpen, NothingOpens,
         \A h \in Handlers : handler'[h].at = "create" => handler'[h] = handler[h],
         \A r \in Requests : request'[r].of = request[r].of
  PROVE  OneOpen'
BY DEF OneOpen, NothingOpens

\* A request is loaded.
LEMMA LoadsTurn ==
  ASSUME AccessInv, TurnsInv, NEW h \in Handlers, NEW at, NEW r, NEW u, Loads(h, at, r, u),
         at # "idle",
         at = "create" => r = None /\ GetOpenRequest(u) = {},
         at # "create" => r \in Requests,
         at = "enter" => request[r].status = "approved" /\ request[r].until # "past"
                         /\ r # None,
         at = "exit" => request[r].status = "active"
  PROVE  TurnsInv'
<1> SUFFICES ASSUME turns' PROVE (TakingTurns /\ OneOpen /\ LoadsHold)'
  BY DEF TurnsInv
<1>1. /\ turns /\ \A g \in Handlers : ~Overlaps(g, r, u)
      /\ UNCHANGED request
  BY DEF Loads, Take
<1>2. TakingTurns /\ OneOpen /\ LoadsHold
  BY <1>1 DEF TurnsInv
<1>3. PICK row : /\ row = [at |-> at, on |-> r, by |-> u,
                           until |-> IF r = None THEN "none" ELSE request[r].until]
                 /\ handler' = [handler EXCEPT ![h] = row]
  BY DEF Loads, Take
<1>4. \A g \in Handlers : handler'[g] = IF g = h THEN row ELSE handler[g]
  BY <1>3 DEF AccessInv, AccessTypeOK
<1>5. row.at = at /\ row.on = r /\ row.by = u /\ (r # None => row.until = request[r].until)
  BY <1>3
<1>6. TakingTurns'
  BY <1>1, <1>2, <1>4, <1>5 DEF TakingTurns, Overlaps
<1>7. OneOpen'
  BY <1>1, <1>2, <1>4, <1>5 DEF OneOpen, GetOpenRequest, IsOpen
<1>8. LoadsHold'
  <2>1. r \in Requests => r # None /\ request[r].until \in {"none", "ahead", "past"}
    BY AccessConstants DEF AccessInv, AccessTypeOK
  <2> QED
    BY <1>1, <1>2, <1>4, <1>5, <2>1 DEF LoadsHold
<1> QED
  BY <1>6, <1>7, <1>8

\* A handler has written the row it was on, or fails.
LEMMA RestTurn ==
  ASSUME AccessInv, TurnsInv, NEW h \in Handlers, handler[h].at # "idle", Rest(h),
         UNCHANGED turns,
         \A r \in Requests : r # handler[h].on => request'[r] = request[r],
         \A r \in Requests : request'[r].of = request[r].of,
         turns => NothingOpens
  PROVE  TurnsInv'
<1> SUFFICES ASSUME turns PROVE (TakingTurns /\ OneOpen /\ LoadsHold)'
  BY DEF TurnsInv
<1>1. TakingTurns /\ OneOpen /\ LoadsHold
  BY DEF TurnsInv
<1>2. \A g \in Handlers : handler'[g] = IF g = h THEN Resting ELSE handler[g]
  BY DEF Rest, AccessInv, AccessTypeOK
<1>3. TakingTurns'
  BY <1>1, <1>2 DEF TakingTurns
<1>4. OneOpen'
  BY <1>1, <1>2, FewerOpen
<1>5. LoadsHold'
  <2> SUFFICES ASSUME NEW g \in Handlers, g # h, handler[g].at \notin {"idle", "create"}
               PROVE  request'[handler[g].on] = request[handler[g].on]
    BY <1>1, <1>2 DEF LoadsHold
  <2>1. handler[g].on # handler[h].on
    BY <1>1, AccessConstants DEF TakingTurns, AccessInv, LoadsFit
  <2> QED
    BY <2>1 DEF AccessInv, LoadsFit
<1> QED
  BY <1>3, <1>4, <1>5

\* A list or the clock changes rows nobody is to write, or in the way handlers expect.
LEMMA ClockTurn ==
  ASSUME AccessInv, TurnsInv, UNCHANGED <<handler, turns>>, NothingOpens,
         \A r \in Requests :
           /\ request'[r].of = request[r].of
           /\ \/ request[r].status = "pending"
              \/ /\ request'[r].status = request[r].status
                 /\ \/ request'[r].until = request[r].until
                    \/ request[r].until = "ahead" /\ request'[r].until = "past"
              \/ /\ request[r].status \in {"approved", "active"} /\ request[r].until = "past"
                 /\ request'[r].status = "expired" /\ request'[r].until = "past"
  PROVE  TurnsInv'
<1> SUFFICES ASSUME turns PROVE (TakingTurns /\ OneOpen /\ LoadsHold)'
  BY DEF TurnsInv
<1>1. TakingTurns /\ OneOpen /\ LoadsHold
  BY DEF TurnsInv
<1>2. OneOpen'
  BY <1>1, FewerOpen
<1>3. LoadsHold'
  <2> SUFFICES ASSUME NEW h \in Handlers
               PROVE  LET row == request'[handler[h].on]
                      IN  /\ handler[h].at = "create" => handler[h].on = None
                          /\ handler[h].at = "enter" =>
                               /\ handler[h].until \in {"none", "ahead"}
                               /\ handler[h].until = "none" =>
                                    row.until = "none" /\ row.status = "approved"
                               /\ handler[h].until = "ahead" =>
                                    \/ row.until \in {"ahead", "past"} /\ row.status = "approved"
                                    \/ row.until = "past" /\ row.status = "expired"
                          /\ handler[h].at = "exit" /\ handler[h].until = "ahead" =>
                               \/ row.until \in {"ahead", "past"} /\ row.status = "active"
                               \/ row.until = "past" /\ row.status = "expired"
    BY DEF LoadsHold
  <2>1. handler[h].at \in {"enter", "exit"} => handler[h].on \in Requests
    BY DEF AccessInv, LoadsFit
  <2> QED
    BY <1>1, <2>1 DEF LoadsHold
<1> QED
  BY <1>1, <1>2, <1>3 DEF TakingTurns

\* What a step of access may do to the requests when turns are taken.
ClosedStay == \A r \in Requests : request[r].status # "none" /\ ~IsOpen(r) => ~IsOpen(r)'

LEMMA HandleTurn ==
  ASSUME AccessInv, TurnsInv, NEW h \in Handlers, Handle(h)
  PROVE  TurnsInv' /\ (turns' => ClosedStay)
<1>1. ASSUME NEW u \in Requesters, CreateRequest(h, u) PROVE TurnsInv' /\ ClosedStay
  <2>1. TurnsInv'
    BY <1>1, LoadsTurn DEF CreateRequest
  <2> QED
    BY <1>1, <2>1 DEF CreateRequest, Loads, ClosedStay, IsOpen
<1>2. ASSUME NEW r \in Requests, Insert(h, r) PROVE TurnsInv' /\ ClosedStay
  <2> DEFINE row == [NoRequest EXCEPT !.status = "pending", !.of = handler[h].by]
  <2>1. \A q \in Requests : request'[q] = IF q = r THEN row ELSE request[q]
    BY <1>2 DEF Insert, AccessInv, AccessTypeOK
  <2>2. row.status = "pending" /\ row.of = handler[h].by
    OBVIOUS
  <2> HIDE DEF row
  <2>3. request[r].status = "none" /\ handler[h].at = "create" /\ UNCHANGED turns
    BY <1>2 DEF Insert
  <2>4. ClosedStay
    BY <2>1, <2>3 DEF ClosedStay, IsOpen
  <2>5. \A g \in Handlers : handler'[g] = IF g = h THEN Resting ELSE handler[g]
    BY <1>2 DEF Insert, Rest, AccessInv, AccessTypeOK
  <2>6. ASSUME turns PROVE (TakingTurns /\ OneOpen /\ LoadsHold)'
    <3>1. TakingTurns /\ OneOpen /\ LoadsHold
      BY <2>6 DEF TurnsInv
    <3>2. \A g \in Handlers : handler'[g].at = "create" =>
            handler'[g] = handler[g] /\ handler[g].by # handler[h].by
      BY <2>3, <2>5, <3>1 DEF TakingTurns, LoadsHold, Resting
    <3>3. \A q \in Requests : q # r => /\ IsOpen(q)' = IsOpen(q)
                                       /\ request'[q].of = request[q].of
      BY <2>1 DEF IsOpen
    <3>4. \A q \in Requests : q # r /\ request[q].of = handler[h].by => ~IsOpen(q)
      BY <2>3, <3>1 DEF OneOpen
    <3>5. OneOpen'
      BY <2>1, <2>2, <3>1, <3>2, <3>3, <3>4 DEF OneOpen, IsOpen
    <3>6. TakingTurns'
      BY <2>5, <3>1 DEF TakingTurns
    <3>7. LoadsHold'
      <4>1. \A g \in Handlers : handler[g].at \in {"enter", "exit"} => handler[g].on \in Requests
        BY DEF AccessInv, LoadsFit
      <4> QED
        BY <2>1, <2>3, <2>5, <3>1, <4>1 DEF LoadsHold
    <3> QED
      BY <3>5, <3>6, <3>7
  <2> QED
    BY <2>3, <2>4, <2>6 DEF TurnsInv
<1>3. ASSUME NEW r \in Requests, EnterTenant(h, r) \/ ExitTenant(h, r) \/ TerminateSession(h, r)
      PROVE  TurnsInv' /\ ClosedStay
  <2>1. PICK at \in {"enter", "exit", "end"} :
          /\ Loads(h, at, r, request[r].of)
          /\ at = "enter" => request[r].status = "approved" /\ request[r].until # "past"
          /\ at = "exit" => request[r].status = "active"
    BY <1>3 DEF EnterTenant, ExitTenant, TerminateSession
  <2>2. r # None
    BY AccessConstants
  <2>3. TurnsInv'
    BY <2>1, <2>2, LoadsTurn
  <2> QED
    BY <2>1, <2>3 DEF Loads, ClosedStay, IsOpen
<1>4. ASSUME NEW r \in Requests, NEW m \in Members, NEW decision \in {"approved", "rejected"},
             LoadForDecision(h, r, m, decision)
      PROVE  TurnsInv' /\ ClosedStay
  <2>1. Loads(h, decision, r, m)
    BY <1>4 DEF LoadForDecision
  <2>2. TurnsInv'
    BY <2>1, LoadsTurn
  <2> QED
    BY <2>1, <2>2 DEF Loads, ClosedStay, IsOpen
<1>5. ASSUME UpdateStatus(h) PROVE TurnsInv' /\ ClosedStay
  <2> DEFINE r == handler[h].on
  <2>1. r \in Requests /\ handler[h].at \in {"approved", "rejected"} /\ Rest(h)
        /\ UNCHANGED turns
    BY <1>5 DEF UpdateStatus, AccessInv, LoadsFit
  <2>2. \A q \in Requests : /\ q # r => request'[q] = request[q]
                            /\ request'[q].of = request[q].of
                            /\ request'[q] = request[q] \/ request[q].status = "pending"
    BY <1>5, <2>1 DEF UpdateStatus, AccessInv, AccessTypeOK
  <2>3. NothingOpens
    BY <2>2 DEF NothingOpens, IsOpen
  <2>4. TurnsInv'
    BY <2>1, <2>2, <2>3, RestTurn
  <2> QED
    BY <2>3, <2>4 DEF NothingOpens, ClosedStay
<1>6. ASSUME StartOrResumeSession(h) \/ PauseOrCompleteSession(h) \/ CompleteSession(h)
      PROVE  TurnsInv' /\ (turns' => ClosedStay)
  <2>1. PICK r \in Requests : r = handler[h].on
    BY <1>6 DEF StartOrResumeSession, PauseOrCompleteSession, CompleteSession, AccessInv,
       LoadsFit
  <2>2. /\ handler[h].at \in {"enter", "exit", "end"} /\ Rest(h)
        /\ UNCHANGED turns
    BY <1>6 DEF StartOrResumeSession, PauseOrCompleteSession, CompleteSession
  <2>3. \A q \in Requests : /\ q # r => request'[q] = request[q]
                            /\ request'[q].of = request[q].of
    BY <1>6, <2>1, <2>2 DEF StartOrResumeSession, PauseOrCompleteSession, CompleteSession,
       AccessInv, AccessTypeOK
  <2>4. ASSUME turns PROVE NothingOpens
    <3>1. LoadsHold
      BY <2>4 DEF TurnsInv
    <3>2. ASSUME StartOrResumeSession(h), IsOpen(r)' PROVE IsOpen(r)
      <4>1. /\ handler[h].at = "enter" /\ request'[r].status = "active"
            /\ request'[r].until = IF handler[h].until = "none" THEN "ahead"
                                   ELSE request[r].until
        BY <2>1, <2>2, <3>2 DEF StartOrResumeSession, AccessInv, AccessTypeOK
      <4> QED
        BY <2>1, <3>1, <3>2, <4>1 DEF LoadsHold, IsOpen
    <3>3. ASSUME PauseOrCompleteSession(h), IsOpen(r)' PROVE IsOpen(r)
      <4>1. /\ handler[h].at = "exit" /\ request'[r].until = request[r].until
            /\ request'[r].status = IF handler[h].until = "ahead" THEN "approved"
                                    ELSE "completed"
        BY <2>1, <2>2, <3>3 DEF PauseOrCompleteSession, AccessInv, AccessTypeOK
      <4> QED
        BY <2>1, <3>1, <3>3, <4>1 DEF LoadsHold, IsOpen
    <3>4. ASSUME CompleteSession(h) PROVE ~IsOpen(r)'
      BY <2>1, <2>2, <3>4 DEF CompleteSession, AccessInv, AccessTypeOK, IsOpen
    <3>5. \A q \in Requests : q # r => IsOpen(q)' = IsOpen(q)
      BY <2>3 DEF IsOpen
    <3> QED
      BY <1>6, <2>3, <3>2, <3>3, <3>4, <3>5 DEF NothingOpens
  <2>5. TurnsInv'
    BY <2>1, <2>2, <2>3, <2>4, RestTurn
  <2> QED
    BY <2>2, <2>4, <2>5 DEF NothingOpens, ClosedStay
<1>7. ASSUME HandlerFails(h) PROVE TurnsInv' /\ ClosedStay
  <2>1. NothingOpens
    BY <1>7 DEF HandlerFails, NothingOpens, IsOpen
  <2>2. TurnsInv'
    BY <1>7, <2>1, RestTurn DEF HandlerFails
  <2> QED
    BY <2>1, <2>2 DEF NothingOpens, ClosedStay
<1> QED
  BY <1>1, <1>2, <1>3, <1>4, <1>5, <1>6, <1>7 DEF Handle

LEMMA AccessTurn ==
  ASSUME AccessInv, TurnsInv, AccessNext
  PROVE  TurnsInv' /\ (turns' => ClosedStay)
<1>1. ASSUME NEW r \in Requests, CancelRequest(r) \/ Lapse(r) PROVE TurnsInv' /\ ClosedStay
  <2>1. \A q \in Requests :
          /\ request'[q].of = request[q].of
          /\ \/ request'[q] = request[q]
             \/ request[q].status = "pending" /\ request'[q].status \in {"pending", "cancelled"}
             \/ /\ request'[q].status = request[q].status
                /\ request[q].until = "ahead" /\ request'[q].until = "past"
    BY <1>1 DEF CancelRequest, Lapse, AccessInv, AccessTypeOK
  <2>2. NothingOpens
    BY <2>1 DEF NothingOpens, IsOpen
  <2>3. UNCHANGED <<handler, turns>>
    BY <1>1 DEF CancelRequest, Lapse
  <2>4. TurnsInv'
    BY <2>1, <2>2, <2>3, ClockTurn
  <2> QED
    BY <2>2, <2>4 DEF NothingOpens, ClosedStay
<1>2. ASSUME ExpireOverdueSessions PROVE TurnsInv' /\ ClosedStay
  <2>1. \A q \in Requests :
          /\ request'[q].of = request[q].of /\ request'[q].until = request[q].until
          /\ \/ request'[q] = request[q]
             \/ /\ request[q].status \in {"approved", "active"} /\ request[q].until = "past"
                /\ request'[q].status = "expired"
    <3> SUFFICES ASSUME NEW q \in Requests, Overdue(q)
                 PROVE  /\ request'[q].of = request[q].of
                        /\ request'[q].until = request[q].until
                        /\ request'[q].status = "expired"
      BY <1>2 DEF ExpireOverdueSessions, Overdue
    <3>1. request[q] \in RequestRows /\ request'[q] = [request[q] EXCEPT !.status = "expired"]
      BY <1>2 DEF ExpireOverdueSessions, AccessInv, AccessTypeOK
    <3> QED
      BY <3>1
  <2>2. NothingOpens
    BY <2>1 DEF NothingOpens, IsOpen
  <2>3. UNCHANGED <<handler, turns>>
    BY <1>2 DEF ExpireOverdueSessions
  <2>4. TurnsInv'
    BY <2>1, <2>2, <2>3, ClockTurn
  <2> QED
    BY <2>2, <2>4 DEF NothingOpens, ClosedStay
<1>3. ASSUME NEW M \in SUBSET Members, SetApprovers(M) PROVE TurnsInv' /\ ClosedStay
  <2>1. NothingOpens /\ UNCHANGED <<request, handler, turns>>
    BY <1>3 DEF SetApprovers, NothingOpens, IsOpen
  <2>2. TurnsInv'
    BY <2>1 DEF TurnsInv, TakingTurns, OneOpen, LoadsHold, IsOpen
  <2> QED
    BY <2>1, <2>2 DEF NothingOpens, ClosedStay
<1> QED
  BY <1>1, <1>2, <1>3, HandleTurn DEF AccessNext

\* While handlers take turns an administrator has one open request at most, and what
\* is closed stays closed: a handler finds the row it loaded, a list or the clock having
\* only closed it (StartOrResumeSession, PauseOrCompleteSession write without looking).
THEOREM SessionsCorrect == AccessSpec => SessionEndsForGood
<1> DEFINE Step == turns' => /\ \A u \in Requesters : Cardinality(GetOpenRequest(u)') <= 1
                             /\ \A r \in Requests :
                                  request[r].status # "none" /\ ~IsOpen(r) => ~IsOpen(r)'
<1>1. AccessInit => TurnsInv
  BY DEF AccessInit, TurnsInv, TakingTurns, OneOpen, LoadsHold, IsOpen
<1>2. AccessInv /\ TurnsInv /\ [AccessNext]_access => TurnsInv'
  <2> SUFFICES ASSUME AccessInv, TurnsInv, [AccessNext]_access PROVE TurnsInv'
    OBVIOUS
  <2>1. CASE UNCHANGED access
    BY <2>1 DEF access, TurnsInv, TakingTurns, OneOpen, LoadsHold, IsOpen
  <2> QED
    BY <2>1, AccessTurn
<1>3. AccessInv /\ TurnsInv /\ [AccessNext]_access => [Step]_access
  <2> SUFFICES ASSUME AccessInv, TurnsInv, AccessNext, turns'
               PROVE  /\ \A u \in Requesters : Cardinality(GetOpenRequest(u)') <= 1
                      /\ \A r \in Requests :
                           request[r].status # "none" /\ ~IsOpen(r) => ~IsOpen(r)'
    OBVIOUS
  <2>1. OneOpen' /\ ClosedStay
    BY AccessTurn DEF TurnsInv
  <2>2. ASSUME NEW u \in Requesters PROVE Cardinality(GetOpenRequest(u)') <= 1
    <3> DEFINE open == {r \in Requests : request'[r].of = u /\ IsOpen(r)'}
    <3>1. GetOpenRequest(u)' = open
      BY DEF GetOpenRequest
    <3>2. \A q, r \in open : q = r
      BY <2>1 DEF OneOpen
    <3> HIDE DEF open
    <3>3. open = {} \/ \E r : open = {r}
      BY <3>2
    <3>4. Cardinality(open) <= 1
      BY <3>3, FS_EmptySet, FS_Singleton
    <3> QED
      BY <3>1, <3>4
  <2> QED
    BY <2>1, <2>2 DEF ClosedStay
<1> QED
  BY <1>1, <1>2, <1>3, AccessInvariant, PTL DEF AccessSpec, SessionEndsForGood
-----------------------------------------------------------------------------
(* Tenancy: registrations by invitation *)

\* The desks that register somebody, and the accounts an invitation made that no
\* registration is at any more.
AtRegistration == {d \in Desks : desk[d].at \in Registering}

Settled(p) == guest[p] # None /\ \A d \in AtRegistration : desk[d].who # p

\* A registration that is under way is of an account its invitation made, and one that
\* is to be accepted has given the seat, unless somebody took it.
RegistrationsFit ==
  /\ \A d \in AtRegistration : /\ desk[d].who \in People /\ desk[d].inv \in Invitations
                               /\ guest[desk[d].who] = desk[d].inv
                               /\ desk[d].at = "accept" =>
                                    \/ seat[desk[d].who] # None
                                    \/ desk[d].who \in removed
  /\ \A d, e \in AtRegistration : desk[d].who = desk[e].who => d = e

\* Who came by an invitation was accepted and has the seat, or had.
GuestsAccepted ==
  \A p \in People : Settled(p) /\ guest[p] \notin spoiled =>
                      /\ invitation[guest[p]].status = "accepted"
                      /\ seat[p] # None \/ p \in removed

\* Behind an accepted invitation is somebody who came by it.
AcceptedHasGuest ==
  \A i \in Invitations \ spoiled :
    invitation[i].status = "accepted" => \E p \in People : Settled(p) /\ guest[p] = i

TenancyInv == RegistrationsFit /\ GuestsAccepted /\ AcceptedHasGuest

\* What a request is at says what it has read.
DesksFit ==
  /\ TenancyTypeOK
  /\ \A d \in Desks :
       /\ desk[d].at \in {"cancel", "check"} => desk[d].inv \in Invitations
       /\ desk[d].at \in {"add", "promote", "role", "remove"} => desk[d].who \in People
       /\ desk[d].at = "invite" => desk[d].role \in SystemRoles

TenancyFits == DesksFit /\ TenancyInv

\* What a step may do while every registration stays where it is or goes on: it takes no
\* seat but one a request removes or a registration takes back, and accepts no
\* invitation and no accepted one back.
LEMMA RegistrationsStay ==
  ASSUME TenancyTypeOK, TenancyInv,
         \A d \in Desks :
           /\ desk'[d].at \in Registering <=> desk[d].at \in Registering
           /\ desk[d].at \in Registering =>
                /\ desk'[d].who = desk[d].who /\ desk'[d].inv = desk[d].inv
                /\ desk'[d].at = "accept" =>
                     desk[d].at = "accept" \/ seat'[desk[d].who] # None,
         \A p \in People :
           seat[p] # None =>
             \/ seat'[p] # None \/ p \in removed'
             \/ \E d \in AtRegistration : desk[d].who = p /\ desk'[d].at # "accept",
         UNCHANGED guest, spoiled \subseteq spoiled', removed \subseteq removed',
         \A i \in Invitations \ spoiled' :
           invitation'[i].status = "accepted" <=> invitation[i].status = "accepted"
  PROVE  TenancyInv'
<1>1. /\ AtRegistration' = AtRegistration
      /\ \A d \in AtRegistration : desk'[d].who = desk[d].who /\ desk'[d].inv = desk[d].inv
  BY DEF AtRegistration
<1>2. RegistrationsFit'
  <2>1. RegistrationsFit
    BY DEF TenancyInv
  <2>2. ASSUME NEW d \in AtRegistration, desk'[d].at = "accept"
        PROVE  seat'[desk'[d].who] # None \/ desk'[d].who \in removed'
    <3>1. desk[d].who \in People /\ desk'[d].who = desk[d].who
      BY <1>1, <2>1 DEF RegistrationsFit
    <3>2. CASE desk[d].at = "accept"
      <4>1. seat[desk[d].who] # None \/ desk[d].who \in removed
        BY <2>1, <3>2 DEF RegistrationsFit
      <4>2. ASSUME NEW e \in AtRegistration, desk[e].who = desk[d].who PROVE desk'[e].at = "accept"
        BY <2>1, <2>2, <4>2 DEF RegistrationsFit
      <4> QED
        BY <3>1, <4>1, <4>2
    <3> QED
      BY <2>2, <3>1, <3>2 DEF AtRegistration
  <2> QED
    BY <1>1, <2>1, <2>2 DEF RegistrationsFit
<1>3. \A p \in People : Settled(p)' <=> Settled(p)
  BY <1>1 DEF Settled
<1>4. GuestsAccepted'
  <2> SUFFICES ASSUME NEW p \in People, Settled(p)', guest'[p] \notin spoiled'
               PROVE  /\ invitation'[guest'[p]].status = "accepted"
                      /\ seat'[p] # None \/ p \in removed'
    BY DEF GuestsAccepted
  <2>1. Settled(p) /\ guest[p] \in Invitations \ spoiled'
    BY <1>3 DEF Settled, TenancyTypeOK
  <2>2. invitation[guest[p]].status = "accepted" /\ (seat[p] # None \/ p \in removed)
    BY <2>1 DEF TenancyInv, GuestsAccepted
  <2> QED
    BY <2>1, <2>2 DEF Settled
<1>5. AcceptedHasGuest'
  BY <1>3 DEF TenancyInv, AcceptedHasGuest
<1> QED
  BY <1>2, <1>4, <1>5 DEF TenancyInv

\* Steps of requests that register nobody.
LEMMA OthersStay ==
  ASSUME TenancyTypeOK, TenancyInv,
         \A d \in Desks : \/ desk'[d] = desk[d]
                          \/ desk[d].at \notin Registering /\ desk'[d].at \notin Registering,
         \A p \in People : seat[p] # None => seat'[p] # None \/ p \in removed',
         UNCHANGED guest, spoiled \subseteq spoiled', removed \subseteq removed',
         \A i \in Invitations \ spoiled' :
           invitation'[i].status = "accepted" <=> invitation[i].status = "accepted"
  PROVE  TenancyInv'
BY RegistrationsStay

LEMMA FreeTypes == Free \in DeskRows /\ Free.at \notin Registering
BY DEF Free, DeskRows, TenantRoles, SystemRoles, Registering

\* A request reads what it needs.
LEMMA ReadsStep ==
  ASSUME TenancyFits, NEW d \in Desks, NEW req \in DeskRows, Reads(d, req),
         req.at \notin Registering,
         req.at \in {"cancel", "check"} => req.inv \in Invitations,
         req.at \in {"add", "promote", "role", "remove"} => req.who \in People,
         req.at = "invite" => req.role \in SystemRoles
  PROVE  TenancyFits'
<1>1. /\ desk' = [desk EXCEPT ![d] = req] /\ desk[d].at = "free"
      /\ UNCHANGED <<tenant, own, email, seat, invitation, guest, removed, spoiled>>
  BY DEF Reads, history
<1>2. \A e \in Desks : desk'[e] = IF e = d THEN req ELSE desk[e]
  BY <1>1 DEF TenancyFits, DesksFit, TenancyTypeOK
<1>3. DesksFit'
  BY <1>1, <1>2 DEF TenancyFits, DesksFit, TenancyTypeOK
<1>4. desk[d].at \notin Registering
  BY <1>1 DEF Registering
<1>5. TenancyInv'
  BY <1>1, <1>2, <1>4, OthersStay DEF TenancyFits, DesksFit
<1> QED
  BY <1>3, <1>5 DEF TenancyFits

\* A request ends, or goes on with a registration.
LEMMA LeavesTypes ==
  ASSUME DesksFit, NEW d \in Desks, Leaves(d)
  PROVE  /\ desk' \in [Desks -> DeskRows]
         /\ \A e \in Desks : desk'[e] = IF e = d THEN Free ELSE desk[e]
BY FreeTypes DEF DesksFit, TenancyTypeOK, Leaves

LEMMA ProceedTypes ==
  ASSUME DesksFit, NEW d \in Desks, NEW at, Proceed(d, at),
         at \in Registering \cup {"register"}
  PROVE  /\ desk' \in [Desks -> DeskRows]
         /\ \A e \in Desks \ {d} : desk'[e] = desk[e]
         /\ desk'[d].at = at /\ desk'[d].who = desk[d].who /\ desk'[d].inv = desk[d].inv
<1>1. desk[d] \in DeskRows
  BY DEF DesksFit, TenancyTypeOK
<1>2. /\ desk' = [desk EXCEPT ![d] = [desk[d] EXCEPT !.at = at]]
      /\ [desk[d] EXCEPT !.at = at] \in DeskRows
  BY <1>1 DEF Proceed, DeskRows, DesksFit, TenancyTypeOK
<1> QED
  BY <1>1, <1>2 DEF DesksFit, TenancyTypeOK, DeskRows

\* The conjuncts of DesksFit' where only the request d moves.
LEMMA DesksStillFit ==
  ASSUME DesksFit, TenancyTypeOK', NEW d \in Desks,
         \A e \in Desks \ {d} : desk'[e] = desk[e],
         desk'[d].at \in {"free", "register"} \cup Registering
  PROVE  DesksFit'
BY DEF DesksFit, Registering

-----------------------------------------------------------------------------
LEMMA OverwriteStep ==
  ASSUME TenancyFits, NEW d \in Desks, desk[d].at \in {"cancel", "check"},
         NEW status \in {"cancelled", "expired"}, Overwrite(d, status)
  PROVE  TenancyFits'
<1> DEFINE i == desk[d].inv
<1>1. /\ invitation' = [invitation EXCEPT ![i].status = status] /\ Leaves(d)
      /\ spoiled' = IF \/ invitation[i].status # "pending"
                       \/ \E e \in Desks \ {d} : desk[e].inv = i
                    THEN spoiled \cup {i} ELSE spoiled
      /\ UNCHANGED <<tenant, own, email, seat, guest, removed>>
  BY DEF Overwrite, SetStatus
<1>2. DesksFit /\ i \in Invitations
  BY DEF TenancyFits, DesksFit
<1>3. /\ invitation' \in [Invitations -> InvitationRows]
      /\ \A j \in Invitations : j # i => invitation'[j] = invitation[j]
      /\ invitation'[i].status = status
  BY <1>1, <1>2 DEF DesksFit, TenancyTypeOK, InvitationRows
<1>4. TenancyTypeOK'
  BY <1>1, <1>2, <1>3, LeavesTypes DEF DesksFit, TenancyTypeOK
<1>5. DesksFit'
  BY <1>1, <1>2, <1>4, LeavesTypes, DesksStillFit DEF Free
<1>6. TenancyInv'
  <2>1. \A j \in Invitations \ spoiled' :
          invitation'[j].status = "accepted" <=> invitation[j].status = "accepted"
    BY <1>1, <1>2, <1>3
  <2>2. \A e \in Desks : \/ desk'[e] = desk[e]
                         \/ desk[e].at \notin Registering /\ desk'[e].at \notin Registering
    BY <1>1, <1>2, LeavesTypes DEF Free, Registering
  <2>3. DesksFit /\ TenancyTypeOK /\ TenancyInv
    BY DEF TenancyFits, DesksFit
  <2> QED
    BY <1>1, <2>1, <2>2, <2>3, OthersStay
<1> QED
  BY <1>5, <1>6 DEF TenancyFits

\* The tenant, its roles and its seats.
LEMMA ManagingStep ==
  ASSUME TenancyFits, Managing
  PROVE  TenancyFits'
<1>1. TenancyTypeOK /\ DesksFit /\ TenancyInv
  BY DEF TenancyFits, DesksFit
<1>2. ASSUME CreateTenant \/ DeleteTenant \/ CreateRole \/ DeleteRole
             \/ \E p \in People : DeleteAccount(p)
      PROVE  TenancyFits'
  <2>1. UNCHANGED <<seat, invitation, desk, guest, removed, spoiled>>
    BY <1>2 DEF CreateTenant, DeleteTenant, CreateRole, DeleteRole, DeleteAccount, history
  <2>2. TenancyTypeOK'
    BY <1>1, <1>2, <2>1 DEF CreateTenant, DeleteTenant, CreateRole, DeleteRole, DeleteAccount,
       history, TenancyTypeOK
  <2>3. TenancyInv'
    BY <1>1, <2>1, OthersStay
  <2> QED
    BY <1>1, <2>1, <2>2, <2>3 DEF TenancyFits, DesksFit
<1>3. ASSUME NEW d \in Desks, SaveTenant(d) PROVE TenancyFits'
  <2>1. /\ Leaves(d) /\ desk[d].at = "save"
        /\ UNCHANGED <<own, email, seat, invitation, guest, removed, spoiled>>
    BY <1>3 DEF SaveTenant, history
  <2>2. tenant' \in {"none", "active", "disabled", "gone"}
    BY <1>1, <1>3 DEF SaveTenant, TenancyTypeOK, DeskRows
  <2>3. TenancyTypeOK'
    BY <1>1, <2>1, <2>2, LeavesTypes DEF TenancyTypeOK
  <2>4. DesksFit'
    BY <1>1, <2>1, <2>3, LeavesTypes, DesksStillFit DEF Free
  <2>5. TenancyInv'
    BY <1>1, <2>1, LeavesTypes, OthersStay DEF Free, Registering
  <2> QED
    BY <2>4, <2>5 DEF TenancyFits
<1>4. ASSUME NEW d \in Desks,
             InsertMember(d) \/ assignTenantAdmin(d) \/ WriteMemberRole(d) \/ DeleteMember(d)
      PROVE  TenancyFits'
  <2>1. /\ Leaves(d) /\ desk[d].at \in {"add", "promote", "role", "remove"}
        /\ desk[d].who \in People /\ desk[d].role \in TenantRoles
        /\ UNCHANGED <<tenant, own, email, invitation, guest, spoiled>>
    BY <1>1, <1>4 DEF InsertMember, assignTenantAdmin, WriteMemberRole, DeleteMember, history,
       DesksFit, TenancyTypeOK, DeskRows
  <2>2. /\ seat' \in [People -> TenantRoles \cup {None}]
        /\ removed \subseteq removed' /\ removed' \subseteq People
        /\ \A p \in People : seat[p] # None => seat'[p] # None \/ p \in removed'
    <3>1. None \notin TenantRoles /\ "admin" \in TenantRoles
      BY TenancyConstants DEF TenantRoles, SystemRoles
    <3>2. seat \in [People -> TenantRoles \cup {None}] /\ removed \subseteq People
      BY <1>1 DEF TenancyTypeOK
    <3>3. CASE InsertMember(d)
      BY <2>1, <3>1, <3>2, <3>3 DEF InsertMember, history
    <3>4. CASE assignTenantAdmin(d)
      BY <2>1, <3>1, <3>2, <3>4 DEF assignTenantAdmin, history
    <3>5. CASE WriteMemberRole(d)
      BY <2>1, <3>1, <3>2, <3>5 DEF WriteMemberRole, history
    <3>6. CASE DeleteMember(d)
      BY <2>1, <3>1, <3>2, <3>6 DEF DeleteMember
    <3> QED
      BY <1>4, <3>3, <3>4, <3>5, <3>6
  <2>3. TenancyTypeOK'
    BY <1>1, <2>1, <2>2, LeavesTypes DEF TenancyTypeOK
  <2>4. DesksFit'
    BY <1>1, <2>1, <2>3, LeavesTypes, DesksStillFit DEF Free
  <2>5. \A e \in Desks : \/ desk'[e] = desk[e]
                         \/ desk[e].at \notin Registering /\ desk'[e].at \notin Registering
    BY <1>1, <2>1, LeavesTypes DEF Free, Registering
  <2>6. TenancyInv'
    BY <1>1, <2>1, <2>2, <2>5, OthersStay
  <2> QED
    BY <2>4, <2>6 DEF TenancyFits
<1>5. ASSUME NEW d \in Desks, NEW status \in {"active", "disabled"}, UpdateTenant(d, status)
      PROVE  TenancyFits'
  <2>1. PICK req : req = [Free EXCEPT !.at = "save", !.status = status] /\ Reads(d, req)
    BY <1>5 DEF UpdateTenant
  <2>2. req \in DeskRows /\ req.at = "save"
    BY <2>1, FreeTypes DEF Free, DeskRows
  <2> QED
    BY <2>1, <2>2, ReadsStep DEF Registering
<1>6. ASSUME NEW d \in Desks, NEW p \in People,
             \/ SetTenantAdmin(d, p) \/ RemoveMember(d, p) \/ DeleteTenantUser(d, p)
             \/ \E r \in TenantRoles : \/ AddMember(d, p, r) \/ UpdateMemberRole(d, p, r)
                                      \/ UpdateTenantUser(d, p, r)
      PROVE  TenancyFits'
  <2>1. ASSUME NEW req \in DeskRows, req.at \in {"add", "promote", "role", "remove"},
               req.who = p, Reads(d, req)
        PROVE  TenancyFits'
    BY <2>1, ReadsStep DEF Registering
  <2>2. CASE SetTenantAdmin(d, p)
    <3>1. PICK req : /\ req = [Free EXCEPT !.at = "promote", !.who = p, !.found = seat[p] # None]
                     /\ Reads(d, req)
      BY <2>2 DEF SetTenantAdmin
    <3>2. (seat[p] # None) \in BOOLEAN
      OBVIOUS
    <3>3. req \in DeskRows /\ req.at = "promote" /\ req.who = p
      BY <3>1, <3>2, FreeTypes DEF Free, DeskRows
    <3> QED
      BY <2>1, <3>1, <3>3
  <2>3. CASE RemoveMember(d, p) \/ DeleteTenantUser(d, p)
    <3>1. PICK req : req = [Free EXCEPT !.at = "remove", !.who = p] /\ Reads(d, req)
      BY <2>3 DEF RemoveMember, DeleteTenantUser
    <3>2. req \in DeskRows /\ req.at = "remove" /\ req.who = p
      BY <3>1, FreeTypes DEF Free, DeskRows
    <3> QED
      BY <2>1, <3>1, <3>2
  <2>4. ASSUME NEW r \in TenantRoles,
               AddMember(d, p, r) \/ UpdateMemberRole(d, p, r) \/ UpdateTenantUser(d, p, r)
        PROVE  TenancyFits'
    <3>1. PICK at \in {"add", "role"} : Reads(d, [Free EXCEPT !.at = at, !.who = p, !.role = r])
      BY <2>4 DEF AddMember, UpdateMemberRole, UpdateTenantUser
    <3>2. PICK req : req = [Free EXCEPT !.at = at, !.who = p, !.role = r] /\ Reads(d, req)
      BY <3>1
    <3>3. req \in DeskRows /\ req.at = at /\ req.who = p
      BY <3>2, FreeTypes DEF Free, DeskRows
    <3> QED
      BY <2>1, <3>2, <3>3
  <2> QED
    BY <1>6, <2>2, <2>3, <2>4
<1> QED
  BY <1>2, <1>3, <1>4, <1>5, <1>6 DEF Managing

\* An account is made, without an invitation or by one.
LEMMA RegisterStep ==
  ASSUME TenancyFits, NEW d \in Desks, NEW p \in People, registerTx(d, p)
  PROVE  TenancyFits'
<1>1. TenancyTypeOK /\ DesksFit /\ TenancyInv
  BY DEF TenancyFits, DesksFit
<1>2. /\ desk[d].at = "register" /\ desk[d] \in DeskRows
      /\ desk[d].to \in Emails \cup {None} /\ desk[d].inv \in Invitations \cup {None}
      /\ UNCHANGED <<tenant, own, invitation, removed, spoiled>>
  BY <1>1 DEF registerTx, TenancyTypeOK, DeskRows
<1>3. ASSUME Leaves(d), UNCHANGED guest, email' \in [People -> Emails \cup {None}],
             seat' \in [People -> TenantRoles \cup {None}],
             \A q \in People : seat[q] # None => seat'[q] # None
      PROVE  TenancyFits'
  <2>1. TenancyTypeOK'
    BY <1>1, <1>2, <1>3, LeavesTypes DEF TenancyTypeOK
  <2>2. DesksFit'
    BY <1>1, <1>3, <2>1, LeavesTypes, DesksStillFit DEF Free
  <2>3. TenancyInv'
    BY <1>1, <1>2, <1>3, LeavesTypes, OthersStay DEF Free, Registering
  <2> QED
    BY <2>2, <2>3 DEF TenancyFits
<1>4. CASE EmailTaken(desk[d].to)
  <2>1. Leaves(d) /\ UNCHANGED <<email, seat, guest>>
    BY <1>4 DEF registerTx
  <2> QED
    BY <1>1, <1>3, <2>1 DEF TenancyTypeOK
<1>5. CASE ~EmailTaken(desk[d].to) /\ desk[d].inv = None
  <2>1. /\ Leaves(d) /\ UNCHANGED guest
        /\ email' = [email EXCEPT ![p] = desk[d].to]
        /\ seat' = [seat EXCEPT ![p] = "viewer"]
    BY <1>5 DEF registerTx
  <2>2. "viewer" \in TenantRoles /\ "viewer" # None
    BY TenancyConstants DEF TenantRoles, SystemRoles
  <2> QED
    BY <1>1, <1>2, <1>3, <2>1, <2>2 DEF TenancyTypeOK
<1>6. CASE ~EmailTaken(desk[d].to) /\ desk[d].inv # None
  <2>1. PICK i : i = desk[d].inv
    OBVIOUS
  <2>2. /\ Fresh(p) /\ email' = [email EXCEPT ![p] = desk[d].to]
        /\ guest' = [guest EXCEPT ![p] = i]
        /\ desk' = [desk EXCEPT ![d].at = "join", ![d].who = p] /\ UNCHANGED seat
    BY <1>6, <2>1 DEF registerTx
  <2>3. i \in Invitations /\ guest[p] = None
    BY <1>2, <1>6, <2>1, <2>2 DEF Fresh
  <2>4. /\ desk' \in [Desks -> DeskRows]
        /\ \A e \in Desks \ {d} : desk'[e] = desk[e]
        /\ desk'[d].at = "join" /\ desk'[d].who = p /\ desk'[d].inv = i
    <3>1. desk' = [desk EXCEPT ![d] = [desk[d] EXCEPT !.at = "join", !.who = p]]
      BY <1>1, <2>2 DEF TenancyTypeOK
    <3>2. PICK req : /\ req = [desk[d] EXCEPT !.at = "join", !.who = p]
                     /\ desk' = [desk EXCEPT ![d] = req]
      BY <3>1
    <3>3. req \in DeskRows /\ req.at = "join" /\ req.who = p /\ req.inv = i
      BY <1>2, <2>1, <3>2 DEF DeskRows, Registering
    <3> QED
      BY <1>1, <3>2, <3>3 DEF TenancyTypeOK
  <2>5. TenancyTypeOK'
    BY <1>1, <1>2, <2>2, <2>3, <2>4 DEF TenancyTypeOK
  <2>6. DesksFit'
    BY <1>1, <2>4, <2>5, DesksStillFit DEF Registering
  <2>7. AtRegistration' = AtRegistration \cup {d}
    BY <2>4 DEF AtRegistration, Registering
  <2>8. \A q \in People : guest'[q] = IF q = p THEN i ELSE guest[q]
    BY <1>1, <2>2 DEF TenancyTypeOK
  <2>9. d \notin AtRegistration
    BY <1>2 DEF AtRegistration, Registering
  <2>10. \A e \in AtRegistration : desk[e].who \in People \ {p} /\ desk'[e] = desk[e]
    <3>1. \A e \in AtRegistration : /\ e \in Desks /\ desk[e].who \in People
                                    /\ guest[desk[e].who] = desk[e].inv
                                    /\ desk[e].inv \in Invitations
      BY <1>1 DEF TenancyInv, RegistrationsFit, AtRegistration
    <3>2. None \notin Invitations
      BY TenancyConstants
    <3> QED
      BY <2>3, <2>4, <2>9, <3>1, <3>2
  <2>11. RegistrationsFit'
    <3>1. RegistrationsFit
      BY <1>1 DEF TenancyInv
    <3>2. \A e \in AtRegistration :
            /\ desk'[e].who \in People /\ desk'[e].inv \in Invitations
            /\ guest'[desk'[e].who] = desk'[e].inv
            /\ desk'[e].at = "accept" =>
                 seat'[desk'[e].who] # None \/ desk'[e].who \in removed'
      <4> SUFFICES ASSUME NEW e \in AtRegistration
                   PROVE  /\ desk'[e].who \in People /\ desk'[e].inv \in Invitations
                          /\ guest'[desk'[e].who] = desk'[e].inv
                          /\ desk'[e].at = "accept" =>
                               seat'[desk'[e].who] # None \/ desk'[e].who \in removed'
        OBVIOUS
      <4>1. desk'[e] = desk[e] /\ desk[e].who \in People \ {p}
        BY <2>10
      <4>2. /\ desk[e].inv \in Invitations /\ guest[desk[e].who] = desk[e].inv
            /\ desk[e].at = "accept" => seat[desk[e].who] # None \/ desk[e].who \in removed
        BY <3>1 DEF RegistrationsFit
      <4>3. UNCHANGED <<seat, removed>>
        BY <1>2, <2>2
      <4>4. guest'[desk[e].who] = guest[desk[e].who]
        BY <2>8, <4>1
      <4> QED
        BY <4>1, <4>2, <4>3, <4>4
    <3>3. \A e, f \in AtRegistration : desk'[e].who = desk'[f].who => e = f
      BY <2>10, <3>1 DEF RegistrationsFit
    <3>4. /\ desk'[d].who = p /\ guest'[p] = desk'[d].inv /\ desk'[d].inv \in Invitations
          /\ desk'[d].at # "accept"
      BY <2>3, <2>4, <2>8
    <3>5. \A e \in AtRegistration : desk'[e].who # p
      BY <2>10
    <3> QED
      BY <2>7, <3>2, <3>3, <3>4, <3>5 DEF RegistrationsFit
  <2>12. \A q \in People : Settled(q)' <=> Settled(q)
    <3>1. ~Settled(p)' /\ ~Settled(p)
      BY <2>3, <2>4, <2>7 DEF Settled
    <3>2. ASSUME NEW q \in People \ {p} PROVE Settled(q)' <=> Settled(q)
      BY <2>4, <2>7, <2>8, <2>10 DEF Settled
    <3> QED
      BY <3>1, <3>2
  <2>13. ~Settled(p)
    BY <2>3 DEF Settled
  <2>14. GuestsAccepted'
    BY <1>1, <1>2, <2>2, <2>8, <2>12, <2>13 DEF TenancyInv, GuestsAccepted
  <2>15. AcceptedHasGuest'
    BY <1>1, <1>2, <2>8, <2>12, <2>13 DEF TenancyInv, AcceptedHasGuest
  <2> QED
    BY <2>6, <2>11, <2>14, <2>15 DEF TenancyFits, TenancyInv
<1> QED
  BY <1>4, <1>5, <1>6

\* A registration that goes on, with its seat given or to be taken back.
LEMMA GoesOnStep ==
  ASSUME TenancyFits, NEW d \in Desks, JoinTenant(d) \/ CompletionFails(d) \/ RollbackMember(d)
  PROVE  TenancyFits'
<1>1. TenancyTypeOK /\ DesksFit /\ TenancyInv
  BY DEF TenancyFits, DesksFit
<1>2. /\ desk[d].at \in {"join", "accept", "unjoin"}
      /\ UNCHANGED <<tenant, own, email, invitation, guest, removed, spoiled>>
  BY DEF JoinTenant, CompletionFails, RollbackMember, history
<1>3. /\ d \in AtRegistration /\ desk[d].who \in People /\ desk[d].role \in TenantRoles
  BY <1>1, <1>2 DEF AtRegistration, Registering, TenancyInv, RegistrationsFit, TenancyTypeOK,
     DeskRows
<1>4. None \notin TenantRoles
  BY TenancyConstants DEF TenantRoles, SystemRoles
<1>5. PICK at \in {"accept", "unjoin", "unregister"} :
        /\ Proceed(d, at) /\ seat' \in [People -> TenantRoles \cup {None}]
        /\ at = "accept" => seat'[desk[d].who] # None
        /\ \A q \in People : \/ seat[q] # None => seat'[q] # None
                             \/ q = desk[d].who /\ at # "accept"
  <2>1. seat \in [People -> TenantRoles \cup {None}]
    BY <1>1 DEF TenancyTypeOK
  <2>2. CASE JoinTenant(d)
    <3>1. CASE seat[desk[d].who] = None
      <4>1. Proceed(d, "accept") /\ seat' = [seat EXCEPT ![desk[d].who] = desk[d].role]
        BY <2>2, <3>1 DEF JoinTenant
      <4> QED
        BY <1>3, <1>4, <2>1, <4>1
    <3>2. CASE seat[desk[d].who] # None
      <4>1. Proceed(d, "unjoin") /\ UNCHANGED seat
        BY <2>2, <3>2 DEF JoinTenant
      <4> QED
        BY <2>1, <4>1
    <3> QED
      BY <3>1, <3>2
  <2>3. CASE CompletionFails(d)
    <3>1. Proceed(d, "unjoin") /\ UNCHANGED seat
      BY <2>3 DEF CompletionFails
    <3> QED
      BY <2>1, <3>1
  <2>4. CASE RollbackMember(d)
    <3>1. Proceed(d, "unregister") /\ seat' = [seat EXCEPT ![desk[d].who] = None]
      BY <2>4 DEF RollbackMember
    <3> QED
      BY <1>3, <2>1, <3>1
  <2> QED
    BY <2>2, <2>3, <2>4
<1>6. /\ desk' \in [Desks -> DeskRows]
      /\ \A e \in Desks \ {d} : desk'[e] = desk[e]
      /\ desk'[d].at = at /\ desk'[d].who = desk[d].who /\ desk'[d].inv = desk[d].inv
  BY <1>1, <1>5, ProceedTypes DEF Registering
<1>7. TenancyTypeOK'
  BY <1>1, <1>2, <1>5, <1>6 DEF TenancyTypeOK
<1>8. DesksFit'
  BY <1>1, <1>6, <1>7, DesksStillFit DEF Registering
<1>9. TenancyInv'
  <2>1. \A e \in Desks :
           /\ desk'[e].at \in Registering <=> desk[e].at \in Registering
           /\ desk[e].at \in Registering =>
                /\ desk'[e].who = desk[e].who /\ desk'[e].inv = desk[e].inv
                /\ desk'[e].at = "accept" =>
                     desk[e].at = "accept" \/ seat'[desk[e].who] # None
    BY <1>2, <1>5, <1>6 DEF Registering
  <2>2. \A p \in People :
           seat[p] # None =>
             \/ seat'[p] # None \/ p \in removed'
             \/ \E e \in AtRegistration : desk[e].who = p /\ desk'[e].at # "accept"
    BY <1>3, <1>5, <1>6
  <2> QED
    BY <1>1, <1>2, <2>1, <2>2, RegistrationsStay
<1> QED
  BY <1>8, <1>9 DEF TenancyFits

\* A registration ends: the invitation is accepted, or what was made is taken back, or it
\* is cut off and the invitation spoiled.
LEMMA EndsStep ==
  ASSUME TenancyFits, NEW d \in Desks,
         Accept(d) \/ RollbackUser(d) \/ (CutOff(d) /\ desk[d].at \in Registering)
  PROVE  TenancyFits'
<1>1. TenancyTypeOK /\ DesksFit /\ TenancyInv
  BY DEF TenancyFits, DesksFit
<1>2. /\ d \in AtRegistration /\ Leaves(d)
      /\ UNCHANGED <<tenant, own, seat, removed>>
  BY DEF Accept, RollbackUser, CutOff, AtRegistration, Registering, history
<1>3. PICK p \in People, i \in Invitations :
        p = desk[d].who /\ i = desk[d].inv /\ guest[p] = i
  BY <1>1, <1>2 DEF TenancyInv, RegistrationsFit
<1>4. /\ desk' \in [Desks -> DeskRows]
      /\ \A e \in Desks : desk'[e] = IF e = d THEN Free ELSE desk[e]
  BY <1>1, <1>2, LeavesTypes
<1>5. AtRegistration' = AtRegistration \ {d}
  BY <1>4, FreeTypes DEF AtRegistration
<1>6. \A e \in AtRegistration \ {d} : desk'[e] = desk[e] /\ desk[e].who # p
  BY <1>1, <1>2, <1>3, <1>4 DEF TenancyInv, RegistrationsFit, AtRegistration
<1>7. /\ \A q \in People \ {p} : guest'[q] = guest[q]
      /\ guest' \in [People -> Invitations \cup {None}]
      /\ email' \in [People -> Emails \cup {None}]
      /\ spoiled \subseteq spoiled' /\ spoiled' \subseteq Invitations
      /\ invitation' \in [Invitations -> InvitationRows]
      /\ \A j \in Invitations : invitation'[j].status = IF Accept(d) /\ j = i THEN "accepted"
                                                        ELSE invitation[j].status
  <2>1. CASE Accept(d)
    <3>1. /\ invitation' = [invitation EXCEPT ![i].status = "accepted"]
          /\ UNCHANGED <<guest, email, spoiled>>
      BY <1>3, <2>1 DEF Accept, SetStatus, history
    <3>2. /\ invitation' \in [Invitations -> InvitationRows]
          /\ \A j \in Invitations : invitation'[j].status = IF j = i THEN "accepted"
                                                            ELSE invitation[j].status
      BY <1>1, <1>3, <3>1 DEF TenancyTypeOK, InvitationRows
    <3> QED
      BY <1>1, <2>1, <3>1, <3>2 DEF TenancyTypeOK
  <2>2. CASE RollbackUser(d) /\ ~Accept(d)
    <3>1. /\ email' = [email EXCEPT ![p] = None] /\ guest' = [guest EXCEPT ![p] = None]
          /\ UNCHANGED <<invitation, spoiled>>
      BY <1>3, <2>2 DEF RollbackUser
    <3> QED
      BY <1>1, <1>3, <2>2, <3>1 DEF TenancyTypeOK
  <2>3. CASE CutOff(d) /\ ~Accept(d) /\ desk[d].at \in Registering
    <3>1. spoiled' = spoiled \cup {i} /\ UNCHANGED <<email, invitation, guest>>
      BY <1>3, <2>3 DEF CutOff
    <3> QED
      BY <1>1, <1>3, <2>3, <3>1 DEF TenancyTypeOK
  <2> QED
    BY <2>1, <2>2, <2>3
<1>8. TenancyTypeOK'
  BY <1>1, <1>2, <1>4, <1>7 DEF TenancyTypeOK
<1>9. DesksFit'
  BY <1>1, <1>4, <1>8, DesksStillFit DEF Free
<1>10. RegistrationsFit'
  <2>1. \A e \in AtRegistration \ {d} : guest'[desk[e].who] = guest[desk[e].who]
    BY <1>1, <1>6, <1>7 DEF TenancyInv, RegistrationsFit
  <2> QED
    BY <1>1, <1>2, <1>5, <1>6, <2>1 DEF TenancyInv, RegistrationsFit
<1>11. \A q \in People \ {p} : Settled(q)' <=> Settled(q)
  BY <1>2, <1>3, <1>5, <1>6, <1>7 DEF Settled
<1>12. ~Settled(p)
  BY <1>2, <1>3 DEF Settled
<1>13. ASSUME Settled(p)', guest'[p] \notin spoiled'
       PROVE  /\ Accept(d) /\ guest'[p] = i
              /\ seat'[p] # None \/ p \in removed'
  <2>1. ~RollbackUser(d)
    <3>1. RollbackUser(d) => guest' = [guest EXCEPT ![p] = None]
      BY <1>3 DEF RollbackUser
    <3>2. RollbackUser(d) => guest'[p] = None
      BY <1>1, <1>3, <3>1 DEF TenancyTypeOK
    <3> QED
      BY <1>13, <3>2 DEF Settled
  <2>2. CutOff(d) /\ desk[d].at \in Registering => guest' = guest /\ i \in spoiled'
    BY <1>3 DEF CutOff
  <2>3. Accept(d) /\ desk[d].at = "accept" /\ UNCHANGED guest
    BY <1>3, <1>13, <2>1, <2>2 DEF Accept, history
  <2>4. seat[p] # None \/ p \in removed
    BY <1>1, <1>2, <1>3, <2>3 DEF TenancyInv, RegistrationsFit
  <2> QED
    BY <1>2, <1>3, <2>3, <2>4
<1>14. GuestsAccepted'
  <2> SUFFICES ASSUME NEW q \in People, Settled(q)', guest'[q] \notin spoiled'
               PROVE  /\ invitation'[guest'[q]].status = "accepted"
                      /\ seat'[q] # None \/ q \in removed'
    BY DEF GuestsAccepted
  <2>1. CASE q = p
    BY <1>3, <1>7, <1>13, <2>1
  <2>2. CASE q # p
    <3>1. Settled(q) /\ guest'[q] = guest[q] /\ guest[q] \in Invitations
      BY <1>1, <1>7, <1>11, <2>2 DEF Settled, TenancyTypeOK
    <3>2. invitation[guest[q]].status = "accepted" /\ (seat[q] # None \/ q \in removed)
      BY <1>1, <1>7, <3>1 DEF TenancyInv, GuestsAccepted
    <3> QED
      BY <1>2, <1>7, <3>1, <3>2
  <2> QED
    BY <2>1, <2>2
<1>15. AcceptedHasGuest'
  <2> SUFFICES ASSUME NEW j \in Invitations \ spoiled', invitation'[j].status = "accepted"
               PROVE  \E q \in People : Settled(q)' /\ guest'[q] = j
    BY DEF AcceptedHasGuest
  <2>1. CASE Accept(d) /\ j = i
    <3>1. UNCHANGED guest
      BY <2>1 DEF Accept, history
    <3>2. Settled(p)'
      <4>1. guest'[p] # None
        BY <1>3, <3>1, TenancyConstants
      <4> QED
        BY <1>5, <1>6, <4>1 DEF Settled
    <3> QED
      BY <1>3, <2>1, <3>1, <3>2
  <2>2. CASE ~(Accept(d) /\ j = i)
    <3>1. invitation[j].status = "accepted" /\ j \notin spoiled
      BY <1>7, <2>2
    <3>2. PICK q \in People : Settled(q) /\ guest[q] = j
      BY <1>1, <3>1 DEF TenancyInv, AcceptedHasGuest
    <3>3. q # p
      BY <1>12, <3>2
    <3> QED
      BY <1>7, <1>11, <3>2, <3>3
  <2> QED
    BY <2>1, <2>2
<1> QED
  BY <1>9, <1>10, <1>14, <1>15 DEF TenancyFits, TenancyInv

LEMMA InvitingStep ==
  ASSUME TenancyFits, Inviting
  PROVE  TenancyFits'
<1>1. TenancyTypeOK /\ DesksFit /\ TenancyInv
  BY DEF TenancyFits, DesksFit
<1>2. ASSUME invitation' = Aged,
             UNCHANGED <<tenant, own, email, seat, guest, removed, spoiled>>
      PROVE  /\ invitation' \in [Invitations -> InvitationRows]
             /\ \A i \in Invitations :
                  invitation'[i].status = "accepted" <=> invitation[i].status = "accepted"
  <2> SUFFICES ASSUME NEW i \in Invitations
               PROVE  /\ Aged[i] \in InvitationRows
                      /\ Aged[i].status = "accepted" <=> invitation[i].status = "accepted"
    BY <1>2 DEF Aged
  <2>1. invitation[i] \in InvitationRows
    BY <1>1 DEF TenancyTypeOK
  <2>2. PICK row : row = [invitation[i] EXCEPT !.status = "expired"]
    OBVIOUS
  <2>3. row \in InvitationRows /\ row.status = "expired"
    BY <2>1, <2>2 DEF InvitationRows
  <2> QED
    BY <2>1, <2>2, <2>3 DEF Aged
<1>3. ASSUME ExpireOldInvitations PROVE TenancyFits'
  <2>1. UNCHANGED <<tenant, own, email, seat, desk, guest, removed, spoiled>>
    BY <1>3 DEF ExpireOldInvitations, history
  <2>2. /\ invitation' \in [Invitations -> InvitationRows]
        /\ \A i \in Invitations :
             invitation'[i].status = "accepted" <=> invitation[i].status = "accepted"
    BY <1>2, <1>3, <2>1 DEF ExpireOldInvitations
  <2>3. DesksFit'
    BY <1>1, <2>1, <2>2 DEF DesksFit, TenancyTypeOK
  <2>4. TenancyInv'
    BY <1>1, <2>1, <2>2, OthersStay
  <2> QED
    BY <2>3, <2>4 DEF TenancyFits
<1>4. ASSUME NEW i \in Invitations, Age(i) PROVE TenancyFits'
  <2>1. /\ invitation' = [invitation EXCEPT ![i].late = TRUE]
        /\ UNCHANGED <<tenant, own, email, seat, desk, guest, removed, spoiled>>
    BY <1>4 DEF Age, history
  <2>2. /\ invitation' \in [Invitations -> InvitationRows]
        /\ \A j \in Invitations : invitation'[j].status = invitation[j].status
    BY <1>1, <2>1 DEF TenancyTypeOK, InvitationRows
  <2>3. DesksFit'
    BY <1>1, <2>1, <2>2 DEF DesksFit, TenancyTypeOK
  <2>4. TenancyInv'
    BY <1>1, <2>1, <2>2, OthersStay
  <2> QED
    BY <2>3, <2>4 DEF TenancyFits
<1>5. ASSUME NEW d \in Desks, NEW e \in Emails,
             CreateTenantUser(d, e) \/ \E r \in SystemRoles : InviteToTenant(d, e, r)
      PROVE  TenancyFits'
  <2>1. PICK at \in {"register", "invite"}, role \in SystemRoles :
          \/ Reads(d, [Free EXCEPT !.at = at, !.to = e])
          \/ Reads(d, [Free EXCEPT !.at = at, !.to = e, !.role = role])
    BY <1>5 DEF CreateTenantUser, InviteToTenant, SystemRoles
  <2>2. PICK req : /\ \/ req = [Free EXCEPT !.at = at, !.to = e]
                      \/ req = [Free EXCEPT !.at = at, !.to = e, !.role = role]
                   /\ Reads(d, req)
    BY <2>1
  <2>3. req \in DeskRows /\ req.at = at /\ req.role \in SystemRoles
    BY <2>2, FreeTypes DEF Free, DeskRows, TenantRoles, SystemRoles
  <2> QED
    BY <2>2, <2>3, ReadsStep DEF Registering
<1>6. ASSUME NEW d \in Desks, NEW i \in Invitations, CancelInvitation(d, i) PROVE TenancyFits'
  <2>1. PICK req : req = [Free EXCEPT !.at = "cancel", !.inv = i] /\ Reads(d, req)
    BY <1>6 DEF CancelInvitation
  <2>2. req \in DeskRows /\ req.at = "cancel" /\ req.inv = i
    BY <2>1, FreeTypes DEF Free, DeskRows
  <2> QED
    BY <2>1, <2>2, ReadsStep DEF Registering
<1>7. ASSUME NEW d \in Desks, NEW i \in Invitations, CreateInvitation(d, i) PROVE TenancyFits'
  <2>1. PICK row : /\ row = [NoInvitation EXCEPT !.status = "pending", !.to = desk[d].to,
                                                 !.role = desk[d].role]
                   /\ invitation' = [invitation EXCEPT ![i] = row]
    BY <1>7 DEF CreateInvitation
  <2>2. /\ desk[d].at = "invite" /\ Leaves(d) /\ invitation[i].status = "none"
        /\ UNCHANGED <<tenant, own, email, seat, guest, removed, spoiled>>
    BY <1>7 DEF CreateInvitation, history
  <2>3. row \in InvitationRows /\ row.status = "pending"
    <3>1. desk[d].to \in Emails \cup {None} /\ desk[d].role \in SystemRoles
      BY <1>1, <2>2 DEF DesksFit, TenancyTypeOK, DeskRows
    <3> QED
      BY <2>1, <3>1 DEF NoInvitation, InvitationRows
  <2>4. TenancyTypeOK'
    BY <1>1, <2>1, <2>2, <2>3, LeavesTypes DEF TenancyTypeOK
  <2>5. DesksFit'
    BY <1>1, <2>2, <2>4, LeavesTypes, DesksStillFit DEF Free
  <2>6. \A j \in Invitations :
          invitation'[j].status = "accepted" <=> invitation[j].status = "accepted"
    BY <1>1, <2>1, <2>2, <2>3 DEF TenancyTypeOK
  <2>7. TenancyInv'
    BY <1>1, <2>2, <2>6, LeavesTypes, OthersStay DEF Free, Registering
  <2> QED
    BY <2>5, <2>7 DEF TenancyFits
<1>8. ASSUME NEW d \in Desks, NEW i \in Invitations, loadValidInvitation(d, i)
      PROVE  TenancyFits'
  <2>1. PICK req : /\ req = [Free EXCEPT !.at = "check", !.inv = i, !.to = invitation[i].to,
                                         !.role = invitation[i].role]
                   /\ desk' = [desk EXCEPT ![d] = req]
    BY <1>8 DEF loadValidInvitation
  <2>2. /\ desk[d].at = "free" /\ invitation' = Aged
        /\ UNCHANGED <<tenant, own, email, seat, guest, removed, spoiled>>
    BY <1>8 DEF loadValidInvitation, history
  <2>3. req \in DeskRows /\ req.at = "check" /\ req.inv = i
    <3>1. invitation[i].to \in Emails \cup {None} /\ invitation[i].role \in TenantRoles
      BY <1>1 DEF TenancyTypeOK, InvitationRows, TenantRoles
    <3> QED
      BY <2>1, <3>1, FreeTypes DEF Free, DeskRows
  <2>4. /\ invitation' \in [Invitations -> InvitationRows]
        /\ \A j \in Invitations :
             invitation'[j].status = "accepted" <=> invitation[j].status = "accepted"
    BY <1>2, <2>2
  <2>5. \A e \in Desks : desk'[e] = IF e = d THEN req ELSE desk[e]
    BY <1>1, <2>1 DEF TenancyTypeOK
  <2>6. DesksFit'
    BY <1>1, <2>1, <2>2, <2>3, <2>4, <2>5 DEF DesksFit, TenancyTypeOK
  <2>7. TenancyInv'
    BY <1>1, <2>2, <2>3, <2>4, <2>5, OthersStay DEF Registering
  <2> QED
    BY <2>6, <2>7 DEF TenancyFits
<1>9. ASSUME NEW d \in Desks, WriteCancelled(d) \/ InvitationTooLate(d) PROVE TenancyFits'
  BY <1>9, OverwriteStep DEF WriteCancelled, InvitationTooLate
<1>10. ASSUME NEW d \in Desks,
              ensureInvitationTargetsValid(d) \/ (CutOff(d) /\ desk[d].at \notin Registering)
       PROVE  TenancyFits'
  <2>1. /\ desk[d].at \notin Registering /\ (Leaves(d) \/ Proceed(d, "register"))
        /\ UNCHANGED <<tenant, own, email, seat, invitation, guest, removed, spoiled>>
    BY <1>10 DEF ensureInvitationTargetsValid, CutOff, history, Registering
  <2>2. /\ desk' \in [Desks -> DeskRows]
        /\ \A e \in Desks \ {d} : desk'[e] = desk[e]
        /\ desk'[d].at \in {"free", "register"}
    BY <1>1, <2>1, LeavesTypes, ProceedTypes DEF Free
  <2>3. TenancyTypeOK'
    BY <1>1, <2>1, <2>2 DEF TenancyTypeOK
  <2>4. DesksFit'
    BY <1>1, <2>2, <2>3, DesksStillFit
  <2>5. \A e \in Desks : \/ desk'[e] = desk[e]
                         \/ desk[e].at \notin Registering /\ desk'[e].at \notin Registering
    BY <2>1, <2>2 DEF Registering
  <2>6. TenancyInv'
    BY <1>1, <2>1, <2>5, OthersStay
  <2> QED
    BY <2>4, <2>6 DEF TenancyFits
<1> QED
  BY <1>3, <1>4, <1>5, <1>6, <1>7, <1>8, <1>9, <1>10, RegisterStep, GoesOnStep, EndsStep
     DEF Inviting

\* An invitation says accepted if and only if an account was made by it, which has its
\* seat until a request takes it: each registration owns its account until it is whole
\* or undone, and no other request gives the seat back.
THEOREM InvitationsCorrect == TenancySpec => []InvitationIsTrue
<1>1. TenancyInit => TenancyFits
  <2> SUFFICES ASSUME TenancyInit PROVE TenancyFits
    OBVIOUS
  <2>1. NoInvitation \in InvitationRows /\ NoInvitation.status = "none"
    BY DEF NoInvitation, InvitationRows, SystemRoles
  <2>2. /\ \A d \in Desks : desk[d] = Free
        /\ \A p \in People : guest[p] = None
        /\ \A i \in Invitations : invitation[i] = NoInvitation
    BY DEF TenancyInit
  <2>3. TenancyTypeOK
    BY <2>1, FreeTypes DEF TenancyInit, TenancyTypeOK
  <2>4. AtRegistration = {} /\ \A p \in People : ~Settled(p)
    BY <2>2, FreeTypes DEF AtRegistration, Settled
  <2>5. TenancyInv
    BY <2>1, <2>2, <2>4 DEF TenancyInv, RegistrationsFit, GuestsAccepted, AcceptedHasGuest
  <2>6. DesksFit
    BY <2>2, <2>3 DEF DesksFit, Free
  <2> QED
    BY <2>5, <2>6 DEF TenancyFits
<1>2. TenancyFits /\ [TenancyNext]_tenancy => TenancyFits'
  <2> SUFFICES ASSUME TenancyFits, [TenancyNext]_tenancy PROVE TenancyFits'
    OBVIOUS
  <2>1. CASE UNCHANGED tenancy
    BY <2>1 DEF tenancy, TenancyFits, DesksFit, TenancyTypeOK, TenancyInv, RegistrationsFit,
       GuestsAccepted, AcceptedHasGuest, Settled, AtRegistration
  <2> QED
    BY <2>1, ManagingStep, InvitingStep DEF TenancyNext
<1>3. TenancyFits => InvitationIsTrue
  <2> SUFFICES ASSUME TenancyFits, NEW i \in Invitations \ spoiled,
                      \A d \in Desks : desk[d].at \in Registering => desk[d].inv # i
               PROVE  /\ invitation[i].status = "accepted" <=> \E p \in People : guest[p] = i
                      /\ \A p \in People : guest[p] = i => seat[p] # None \/ p \in removed
    BY DEF InvitationIsTrue
  <2>1. ASSUME NEW p \in People, guest[p] = i PROVE Settled(p)
    <3>1. \A d \in AtRegistration : desk[d].who # p
      BY <2>1 DEF TenancyFits, TenancyInv, RegistrationsFit, AtRegistration
    <3> QED
      BY <2>1, <3>1, TenancyConstants DEF Settled
  <2> QED
    BY <2>1 DEF TenancyFits, TenancyInv, GuestsAccepted, AcceptedHasGuest
<1> QED
  BY <1>1, <1>2, <1>3, PTL DEF TenancySpec
=============================================================================
