------------------------------ MODULE TenantAccess ------------------------------
(***************************************************************************)
(* The access of platform administrators to one tenant.  An administrator   *)
(* asks, an approver of the tenant decides, and an approved request may be  *)
(* entered, left and entered again until its time is over or it is given    *)
(* up.  A request is a row of impersonation_requests; no column but status  *)
(* guards a write, and only the writes that leave pending use that one.     *)
(*                                                                         *)
(* A handler reads the row, decides, and writes.  That the tenant is active *)
(* when a request is made, and who its administrators are, is given.        *)
(***************************************************************************)
EXTENDS Null, Naturals, FiniteSets

CONSTANTS Requests,      \* rows of impersonation_requests
          Requesters,    \* platform administrators
          Members,       \* users of the tenant
          TenantAdmins,  \* those with its role admin
          Handlers       \* requests of users at work at once

ASSUME AccessConstants == /\ TenantAdmins \subseteq Members
                          /\ None \notin Requests \cup Requesters \cup Members

VARIABLES
  request,    \* the rows
  approvers,  \* the tenant's list of approvers
  handler,    \* what each handler has read
  granted,    \* requests somebody approved (history)
  refused,    \* requests rejected or cancelled (history)
  turns       \* no two handlers of one request, or making one, have overlapped (history)

access == <<request, approvers, handler, granted, refused, turns>>

Stages == {"none", "pending", "approved", "active", "completed", "expired", "rejected",
           "cancelled"}
RequestRows == [status : Stages, of : Requesters \cup {None}, approvedBy : Members \cup {None},
                until : {"none", "ahead", "past"}]
NoRequest == [status |-> "none", of |-> None, approvedBy |-> None, until |-> "none"]
Resting == [at |-> "idle", on |-> None, by |-> None, until |-> "none"]

AccessTypeOK ==
  /\ request \in [Requests -> RequestRows]
  /\ approvers \subseteq Members
  /\ handler \in [Handlers -> [at : {"idle", "create", "approved", "rejected", "enter",
                                     "exit", "end"},
                               on : Requests \cup {None},
                               by : Requesters \cup Members \cup {None},
                               until : {"none", "ahead", "past"}]]
  /\ granted \subseteq Requests /\ refused \subseteq Requests
  /\ turns \in BOOLEAN

AccessInit ==
  /\ request = [r \in Requests |-> NoRequest]
  /\ approvers \in SUBSET Members
  /\ handler = [h \in Handlers |-> Resting]
  /\ granted = {} /\ refused = {}
  /\ turns = TRUE
-----------------------------------------------------------------------------
(* Handlers *)

\* A handler that makes a request is on none yet: it overlaps with another that makes one
\* for the same administrator, as after a double click.
Overlaps(g, r, u) == /\ handler[g].at # "idle" /\ handler[g].on = r
                     /\ r = None => handler[g].by = u

Take(h, at, r, u) ==
  /\ handler[h].at = "idle"
  /\ handler' = [handler EXCEPT ![h] = [at |-> at, on |-> r, by |-> u,
                   until |-> IF r = None THEN "none" ELSE request[r].until]]
  /\ turns' = (turns /\ \A g \in Handlers : ~Overlaps(g, r, u))

Rest(h) == handler' = [handler EXCEPT ![h] = Resting]

Loads(h, at, r, u) == Take(h, at, r, u) /\ UNCHANGED <<request, approvers, granted, refused>>

\* A request that waits, can be entered, or is entered and not overdue.
IsOpen(r) == \/ request[r].status = "pending"
             \/ request[r].status = "approved" /\ request[r].until # "past"
             \/ request[r].status = "active" /\ request[r].until = "ahead"

GetOpenRequest(u) == {r \in Requests : request[r].of = u /\ IsOpen(r)}

CreateRequest(h, u) == GetOpenRequest(u) = {} /\ Loads(h, "create", None, u)

Insert(h, r) ==
  /\ handler[h].at = "create"
  /\ request[r].status = "none"
  /\ request' = [request EXCEPT ![r] = [NoRequest EXCEPT !.status = "pending",
                                                         !.of = handler[h].by]]
  /\ Rest(h)
  /\ UNCHANGED <<approvers, granted, refused, turns>>

\* The tenant's administrators decide when it has no list of approvers.
IsApprover(m) == IF approvers # {} THEN m \in approvers ELSE m \in TenantAdmins

LoadForDecision(h, r, m, decision) ==
  /\ IsApprover(m)
  /\ request[r].status = "pending"
  /\ Loads(h, decision, r, m)

\* Mutant: the row is written whatever its status is now.
DecideAnyway(h) ==
  /\ handler[h].at \in {"approved", "rejected"}
  /\ LET r == handler[h].on
         decision == handler[h].at
     IN  /\ request' = [request EXCEPT ![r].status = decision,
                                       ![r].approvedBy = handler[h].by]
         /\ granted' = granted \cup (IF decision = "approved" THEN {r} ELSE {})
         /\ refused' = refused \cup (IF decision = "rejected" THEN {r} ELSE {})
  /\ Rest(h)
  /\ UNCHANGED <<approvers, turns>>

\* Approve and Reject write a row that is still pending.
UpdateStatus(h) ==
  /\ handler[h].at \in {"approved", "rejected"}
  /\ LET r == handler[h].on
         decision == handler[h].at
     IN  IF request[r].status = "pending"
         THEN /\ request' = [request EXCEPT ![r].status = decision,
                                            ![r].approvedBy = handler[h].by]
              /\ granted' = granted \cup (IF decision = "approved" THEN {r} ELSE {})
              /\ refused' = refused \cup (IF decision = "rejected" THEN {r} ELSE {})
         ELSE UNCHANGED <<request, granted, refused>>
  /\ Rest(h)
  /\ UNCHANGED <<approvers, turns>>

CancelRequest(r) ==
  /\ request[r].status = "pending"
  /\ request' = [request EXCEPT ![r].status = "cancelled"]
  /\ refused' = refused \cup {r}
  /\ UNCHANGED <<approvers, handler, granted, turns>>
-----------------------------------------------------------------------------
(* Sessions *)

EnterTenant(h, r) ==
  /\ request[r].status = "approved"
  /\ request[r].until # "past"
  /\ Loads(h, "enter", r, request[r].of)

\* Mutant: every entry starts the clock.
StartSessionAfresh(h) ==
  /\ handler[h].at = "enter"
  /\ request' = [request EXCEPT ![handler[h].on].status = "active",
                                ![handler[h].on].until = "ahead"]
  /\ Rest(h)
  /\ UNCHANGED <<approvers, granted, refused, turns>>

\* The first entry starts the clock, a later one leaves it.
StartOrResumeSession(h) ==
  /\ handler[h].at = "enter"
  /\ request' = [request EXCEPT ![handler[h].on].status = "active",
                                ![handler[h].on].until =
                                  IF handler[h].until = "none" THEN "ahead" ELSE @]
  /\ Rest(h)
  /\ UNCHANGED <<approvers, granted, refused, turns>>

ExitTenant(h, r) ==
  /\ request[r].status = "active"
  /\ Loads(h, "exit", r, request[r].of)

\* A session with time left may be entered again.
PauseOrCompleteSession(h) ==
  /\ handler[h].at = "exit"
  /\ request' = [request EXCEPT ![handler[h].on].status =
                   IF handler[h].until = "ahead" THEN "approved" ELSE "completed"]
  /\ Rest(h)
  /\ UNCHANGED <<approvers, granted, refused, turns>>

TerminateSession(h, r) ==
  /\ request[r].status \in {"active", "approved"}
  /\ Loads(h, "end", r, request[r].of)

CompleteSession(h) ==
  /\ handler[h].at = "end"
  /\ request' = [request EXCEPT ![handler[h].on].status = "completed"]
  /\ Rest(h)
  /\ UNCHANGED <<approvers, granted, refused, turns>>

\* A handler's statement fails: nothing is written.
HandlerFails(h) ==
  /\ handler[h].at # "idle"
  /\ Rest(h)
  /\ UNCHANGED <<request, approvers, granted, refused, turns>>

Overdue(r) == request[r].status \in {"active", "approved"} /\ request[r].until = "past"

\* Every list of requests ends those that are overdue.
ExpireOverdueSessions ==
  /\ \E r \in Requests : Overdue(r)
  /\ request' = [r \in Requests |-> IF Overdue(r)
                                    THEN [request[r] EXCEPT !.status = "expired"]
                                    ELSE request[r]]
  /\ UNCHANGED <<approvers, handler, granted, refused, turns>>

\* session_expires_at passes.
Lapse(r) ==
  /\ request[r].until = "ahead"
  /\ request' = [request EXCEPT ![r].until = "past"]
  /\ UNCHANGED <<approvers, handler, granted, refused, turns>>

\* One transaction replaces the list.
SetApprovers(M) ==
  /\ approvers' = M
  /\ UNCHANGED <<request, handler, granted, refused, turns>>
-----------------------------------------------------------------------------
Handle(h) ==
  \/ \E u \in Requesters : CreateRequest(h, u)
  \/ \E r \in Requests :
       \/ Insert(h, r) \/ EnterTenant(h, r) \/ ExitTenant(h, r) \/ TerminateSession(h, r)
       \/ \E m \in Members, decision \in {"approved", "rejected"} :
            LoadForDecision(h, r, m, decision)
  \/ UpdateStatus(h) \/ StartOrResumeSession(h) \/ PauseOrCompleteSession(h)
  \/ CompleteSession(h) \/ HandlerFails(h)

AccessNext ==
  \/ \E h \in Handlers : Handle(h)
  \/ \E r \in Requests : CancelRequest(r) \/ Lapse(r)
  \/ ExpireOverdueSessions
  \/ \E M \in SUBSET Members : SetApprovers(M)

AccessSpec == AccessInit /\ [][AccessNext]_access
-----------------------------------------------------------------------------
(* Properties *)

\* Whatever crosses, an administrator is inside the tenant, or may go in, only on a
\* request that somebody approved and that nobody rejected or withdrew, before or after.
InsideWasGranted ==
  \A r \in Requests : request[r].status \in {"approved", "active"} =>
                        r \in granted \ refused

\* While the handlers of a request take turns, and those in which one administrator makes
\* requests, though lists, the clock and other administrators cross them, an administrator has at most one open request for the tenant, and one that is closed,
\* its session ended or its time over, is never open again.
SessionEndsForGood ==
  [][turns' => /\ \A u \in Requesters : Cardinality(GetOpenRequest(u)') <= 1
               /\ \A r \in Requests :
                    request[r].status # "none" /\ ~IsOpen(r) => ~IsOpen(r)']_access
=============================================================================
