----------------------------- MODULE AccountsProofs -----------------------------
(***************************************************************************)
(* Theorems about Accounts for any sets of accounts, sessions and           *)
(* requests, however their statements interleave.                           *)
(***************************************************************************)
EXTENDS Accounts, TLAPS

\* A session that was issued belongs to an account, and its access token does not
\* outlive its refresh token.
SessionsFit ==
  /\ session = [s \in Sessions |-> session[s]]
  /\ \A s \in Sessions :
       /\ session[s] = [of |-> session[s].of, platform |-> session[s].platform,
                        lives |-> session[s].lives]
       /\ session[s].of \in Users \cup {None}
       /\ session[s].lives \subseteq {"access", "refresh"}
       /\ session[s] # NoSession => session[s].of \in Users
       /\ "access" \in session[s].lives => "refresh" \in session[s].lives

\* What a request is at says what it was begun with.
CallsFit ==
  /\ errand = [c \in Calls |-> errand[c]]
  /\ \A c \in Calls :
       /\ errand[c] = [at |-> errand[c].at, by |-> errand[c].by, on |-> errand[c].on,
                     seen |-> errand[c].seen, change |-> errand[c].change]
       /\ errand[c].at \in {"refresh", "rotate", "logout"} => errand[c].by \in Sessions
       /\ errand[c].at \in {"login", "wrong", "rotate"} => errand[c].on \in Users

\* As long as a session that was logged out has a token that is not expired, its key is
\* in Redis, to be kept as long as the refresh token.
EndedAreRevoked ==
  \A s \in ended :
    /\ s \in Sessions /\ session[s].of \in Users
    /\ "refresh" \in session[s].lives =>
         [key |-> "session", of |-> s, until |-> "refresh"] \in revoked

AccountsInv == SessionsFit /\ CallsFit /\ EndedAreRevoked

USE DEF NoSession, IdleCall, Writing
-----------------------------------------------------------------------------
LEMMA AccountsInitially == AccountsInit => AccountsInv
<1> SUFFICES ASSUME AccountsInit PROVE AccountsInv
  OBVIOUS
<1>1. /\ session = [s \in Sessions |-> NoSession]
      /\ errand = [c \in Calls |-> IdleCall] /\ ended = {}
  BY DEF AccountsInit
<1>2. SessionsFit
  BY <1>1 DEF SessionsFit
<1>3. CallsFit
  BY <1>1 DEF CallsFit
<1> QED
  BY <1>1, <1>2, <1>3 DEF AccountsInv, EndedAreRevoked

\* A request is begun, with what it is at saying what it names; no session changes.
LEMMA BeginStep ==
  ASSUME AccountsInv, NEW c \in Calls, NEW req, Begin(c, req),
         req = [at |-> req.at, by |-> req.by, on |-> req.on, seen |-> req.seen,
                change |-> req.change],
         req.at \in {"refresh", "rotate", "logout"} => req.by \in Sessions,
         req.at \in {"login", "wrong", "rotate"} => req.on \in Users,
         UNCHANGED <<session, revoked, ended>>
  PROVE  AccountsInv'
<1>1. CallsFit'
  BY DEF AccountsInv, CallsFit, Begin
<1>2. SessionsFit' /\ EndedAreRevoked'
  BY DEF AccountsInv, SessionsFit, EndedAreRevoked
<1> QED
  BY <1>1, <1>2 DEF AccountsInv

\* A request ends, and no session changes.
LEMMA FinishStep ==
  ASSUME AccountsInv, NEW c \in Calls, Finish(c), UNCHANGED <<session, revoked, ended>>
  PROVE  AccountsInv'
<1>1. CallsFit'
  BY DEF AccountsInv, CallsFit, Finish
<1>2. SessionsFit' /\ EndedAreRevoked'
  BY DEF AccountsInv, SessionsFit, EndedAreRevoked
<1> QED
  BY <1>1, <1>2 DEF AccountsInv

\* A request ends by issuing a session.
LEMMA IssueStep ==
  ASSUME AccountsInv, NEW c \in Calls, NEW s \in Sessions, NEW u \in Users, NEW platform,
         GenerateTokenPair(s, u, platform), Finish(c), revoked \subseteq revoked',
         UNCHANGED ended
  PROVE  AccountsInv'
<1>1. CallsFit'
  BY DEF AccountsInv, CallsFit, Finish
<1>2. SessionsFit'
  BY DEF AccountsInv, SessionsFit, GenerateTokenPair
<1>3. s \notin ended
  <2>1. session[s].of = None
    BY DEF GenerateTokenPair
  <2>2. session[s].of \notin Users
    BY <2>1, AccountConstants
  <2> QED
    BY <2>2 DEF AccountsInv, EndedAreRevoked
<1>4. \A q \in ended : q \in Sessions /\ session'[q] = session[q]
  BY <1>3 DEF GenerateTokenPair, AccountsInv, SessionsFit, EndedAreRevoked
<1>5. EndedAreRevoked'
  BY <1>4 DEF AccountsInv, EndedAreRevoked
<1> QED
  BY <1>1, <1>2, <1>5 DEF AccountsInv

LEMMA LogoutStep ==
  ASSUME AccountsInv, NEW c \in Calls, BlacklistSession(c)
  PROVE  AccountsInv'
<1> DEFINE s == errand[c].by
<1>1. CallsFit' /\ SessionsFit'
  BY DEF BlacklistSession, AccountsInv, CallsFit, SessionsFit, Finish
<1>2. CASE "access" \in session[s].lives
  <2>1. s \in Sessions /\ session[s].of \in Users /\ "refresh" \in session[s].lives
    BY <1>2 DEF BlacklistSession, AccountsInv, CallsFit, SessionsFit
  <2>2. /\ revoked' = revoked \cup {[key |-> "session", of |-> s, until |-> "refresh"]}
        /\ ended' = ended \cup {s} /\ session' = session
    BY <1>2, <2>1 DEF BlacklistSession, Revoke
  <2>3. EndedAreRevoked'
    BY <2>1, <2>2 DEF AccountsInv, EndedAreRevoked
  <2> QED
    BY <1>1, <2>3 DEF AccountsInv
<1>3. CASE "access" \notin session[s].lives
  <2>1. UNCHANGED <<session, revoked, ended>> /\ Finish(c)
    BY <1>3 DEF BlacklistSession
  <2> QED
    BY <2>1, FinishStep
<1> QED
  BY <1>2, <1>3

LEMMA ExpireStep ==
  ASSUME AccountsInv, NEW s \in Sessions, Expire(s)
  PROVE  AccountsInv'
<1>1. PICK gone \in {"access", "refresh"} :
      /\ gone = "refresh" => "access" \notin session[s].lives
      /\ session' = [session EXCEPT ![s].lives = @ \ {gone}]
      /\ revoked' = {k \in revoked : ~(k.of = s /\ k.until = gone)}
      /\ UNCHANGED <<errand, ended>> /\ session[s].lives # {}
  BY DEF Expire
<1>2. /\ session' = [q \in Sessions |-> session'[q]]
      /\ \A q \in Sessions \ {s} : session'[q] = session[q]
      /\ session'[s] = [session[s] EXCEPT !.lives = session[s].lives \ {gone}]
  <2> HIDE DEF NoSession
  <2>1. session = [q \in Sessions |-> session[q]]
    BY DEF AccountsInv, SessionsFit
  <2> QED
    BY <1>1, <2>1
<1>3. session[s].of \in Users
  BY <1>1 DEF AccountsInv, SessionsFit, NoSession
<1> DEFINE shorter == session'[s]
<1>4. /\ shorter = [of |-> shorter.of, platform |-> shorter.platform, lives |-> shorter.lives]
      /\ shorter.of = session[s].of
      /\ shorter.lives = session[s].lives \ {gone}
  BY <1>2 DEF AccountsInv, SessionsFit
<1>5. SessionsFit'
  <2> HIDE DEF shorter, NoSession
  <2>1. \A q \in Sessions \ {s} :
          /\ session'[q] = [of |-> session'[q].of, platform |-> session'[q].platform,
                           lives |-> session'[q].lives]
          /\ session'[q].of \in Users \cup {None}
          /\ session'[q].lives \subseteq {"access", "refresh"}
          /\ session'[q] # NoSession => session'[q].of \in Users
          /\ "access" \in session'[q].lives => "refresh" \in session'[q].lives
    BY <1>2 DEF AccountsInv, SessionsFit
  <2>2. /\ shorter.of \in Users
        /\ shorter.lives \subseteq {"access", "refresh"}
        /\ "access" \in shorter.lives => "refresh" \in shorter.lives
    BY <1>1, <1>3, <1>4 DEF AccountsInv, SessionsFit
  <2> QED
    BY <1>2, <1>4, <2>1, <2>2 DEF SessionsFit, shorter
<1>6. ASSUME NEW q \in ended, "refresh" \in session'[q].lives
      PROVE  [key |-> "session", of |-> q, until |-> "refresh"] \in revoked'
  <2>1. q \in Sessions /\ [key |-> "session", of |-> q, until |-> "refresh"] \in revoked
    BY <1>2, <1>4, <1>6 DEF AccountsInv, EndedAreRevoked
  <2>2. CASE q = s
    BY <1>1, <1>4, <1>6, <2>1, <2>2
  <2>3. CASE q # s
    BY <1>1, <2>1, <2>3
  <2> QED
    BY <2>2, <2>3
<1>7. EndedAreRevoked'
  <2>1. \A q \in ended : q \in Sessions /\ session'[q].of = session[q].of
                         /\ session[q].of \in Users
    BY <1>2, <1>4 DEF AccountsInv, EndedAreRevoked
  <2> QED
    BY <1>1, <1>6, <2>1 DEF EndedAreRevoked
<1>8. CallsFit'
  BY <1>1 DEF AccountsInv, CallsFit
<1> QED
  BY <1>5, <1>7, <1>8 DEF AccountsInv

LEMMA AccountsStep == AccountsInv /\ [AccountsNext]_accounts => AccountsInv'
<1> SUFFICES ASSUME AccountsInv, [AccountsNext]_accounts PROVE AccountsInv'
  OBVIOUS
<1>1. CASE UNCHANGED accounts
  BY <1>1 DEF accounts, AccountsInv, SessionsFit, CallsFit, EndedAreRevoked
<1>2. CASE LoggingIn
  <2>1. ASSUME NEW c \in Calls, NEW u \in Users, Login(c, u) PROVE AccountsInv'
    <3>1. PICK at \in {"login", "wrong"} :
            Begin(c, [IdleCall EXCEPT !.at = at, !.on = u, !.seen = user[u]])
      BY <2>1 DEF Login
    <3>2. PICK req : req = [IdleCall EXCEPT !.at = at, !.on = u, !.seen = user[u]]
                     /\ Begin(c, req)
      BY <3>1
    <3>3. /\ req.at = at /\ req.on = u
          /\ req = [at |-> req.at, by |-> req.by, on |-> req.on, seen |-> req.seen,
                       change |-> req.change]
      BY <3>2
    <3>4. UNCHANGED <<session, revoked, ended>>
      BY <2>1 DEF Login
    <3> QED
      BY <3>2, <3>3, <3>4, BeginStep
  <2>2. ASSUME NEW c \in Calls, NEW s \in Sessions, RecordSuccessfulLogin(c, s)
        PROVE  AccountsInv'
    <3>1. errand[c].on \in Users
      BY <2>2 DEF RecordSuccessfulLogin, AccountsInv, CallsFit
    <3> QED
      BY <2>2, <3>1, IssueStep DEF RecordSuccessfulLogin
  <2>3. ASSUME NEW c \in Calls, IncrementFailedLogin(c) \/ CallFails(c) PROVE AccountsInv'
    BY <2>3, FinishStep DEF IncrementFailedLogin, CallFails
  <2> QED
    BY <1>2, <2>1, <2>2, <2>3 DEF LoggingIn
<1>3. CASE Refreshing
  <2>1. ASSUME NEW c \in Calls, NEW s \in Sessions, RefreshToken(c, s) PROVE AccountsInv'
    <3>1. PICK req : req = [IdleCall EXCEPT !.at = "refresh", !.by = s] /\ Begin(c, req)
      BY <2>1 DEF RefreshToken
    <3>2. /\ req.at = "refresh" /\ req.by = s
          /\ req = [at |-> req.at, by |-> req.by, on |-> req.on, seen |-> req.seen,
                       change |-> req.change]
      BY <3>1
    <3>3. UNCHANGED <<session, revoked, ended>>
      BY <2>1 DEF RefreshToken
    <3> QED
      BY <3>1, <3>2, <3>3, BeginStep
  <2>2. ASSUME NEW c \in Calls, NEW s \in Sessions, Rotate(c, s) PROVE AccountsInv'
    <3>1. errand[c].on \in Users
      BY <2>2 DEF Rotate, AccountsInv, CallsFit
    <3> QED
      BY <2>2, <3>1, IssueStep DEF Rotate, Revoke
  <2>3. ASSUME NEW c \in Calls, NEW s \in Sessions, Logout(c, s) PROVE AccountsInv'
    <3>1. PICK req : req = [IdleCall EXCEPT !.at = "logout", !.by = s] /\ Begin(c, req)
      BY <2>3 DEF Logout
    <3>2. /\ req.at = "logout" /\ req.by = s
          /\ req = [at |-> req.at, by |-> req.by, on |-> req.on, seen |-> req.seen,
                       change |-> req.change]
      BY <3>1
    <3>3. UNCHANGED <<session, revoked, ended>>
      BY <2>3 DEF Logout
    <3> QED
      BY <3>1, <3>2, <3>3, BeginStep
  <2>4. ASSUME NEW c \in Calls, RefreshUserInfo(c) PROVE AccountsInv'
    <3> DEFINE by == errand[c].by
               u == session[by].of
    <3>1. by \in Sessions /\ UNCHANGED <<session, revoked, ended>>
      BY <2>4 DEF RefreshUserInfo, AccountsInv, CallsFit
    <3>2. CASE ActiveUser(u)
      <4>1. u \in Users
        BY <3>1, <3>2 DEF ActiveUser, AccountsInv, SessionsFit
      <4>2. errand' = [errand EXCEPT ![c] = [at |-> "rotate", by |-> by, on |-> u,
                                         seen |-> user[u], change |-> errand[c].change]]
        BY <2>4, <3>2 DEF RefreshUserInfo, AccountsInv, CallsFit
      <4> QED
        BY <3>1, <4>1, <4>2 DEF AccountsInv, SessionsFit, CallsFit, EndedAreRevoked
    <3>3. CASE ~ActiveUser(u)
      BY <2>4, <3>1, <3>3, FinishStep DEF RefreshUserInfo
    <3> QED
      BY <3>2, <3>3
  <2>5. ASSUME NEW c \in Calls, BlacklistSession(c) PROVE AccountsInv'
    BY <2>5, LogoutStep
  <2>6. ASSUME NEW s \in Sessions, Expire(s) PROVE AccountsInv'
    BY <2>6, ExpireStep
  <2> QED
    BY <1>3, <2>1, <2>2, <2>3, <2>4, <2>5, <2>6 DEF Refreshing
<1>4. CASE Administering
  <2>1. ASSUME NEW s \in Sessions, NEW u \in Users, NEW R \in SUBSET Roles,
               CreateUser(s, u, R)
        PROVE  AccountsInv'
    BY <2>1 DEF CreateUser, AccountsInv, SessionsFit, CallsFit, EndedAreRevoked
  <2>2. ASSUME NEW c \in Calls, NEW s \in Sessions, UpdateProfile(c, s) PROVE AccountsInv'
    <3> DEFINE u == session[s].of
    <3>1. PICK req : req = [at |-> "update", by |-> s, on |-> u, seen |-> user[u],
                            change |-> NoChange] /\ Begin(c, req)
      BY <2>2 DEF UpdateProfile
    <3>2. /\ req.at = "update"
          /\ req = [at |-> req.at, by |-> req.by, on |-> req.on, seen |-> req.seen,
                       change |-> req.change]
      BY <3>1
    <3>3. UNCHANGED <<session, revoked, ended>>
      BY <2>2 DEF UpdateProfile
    <3> QED
      BY <3>1, <3>2, <3>3, BeginStep
  <2>3. ASSUME NEW c \in Calls, NEW s \in Sessions, NEW u \in Users, NEW change \in Changes,
               UpdateUser(c, s, u, change)
        PROVE  AccountsInv'
    <3>1. PICK req : req = [at |-> "update", by |-> s, on |-> u, seen |-> user[u],
                            change |-> change] /\ Begin(c, req)
      BY <2>3 DEF UpdateUser
    <3>2. /\ req.at = "update"
          /\ req = [at |-> req.at, by |-> req.by, on |-> req.on, seen |-> req.seen,
                       change |-> req.change]
      BY <3>1
    <3>3. UNCHANGED <<session, revoked, ended>>
      BY <2>3 DEF UpdateUser
    <3> QED
      BY <3>1, <3>2, <3>3, BeginStep
  <2>4. ASSUME NEW c \in Calls, NEW s \in Sessions, NEW u \in Users,
               NEW R \in SUBSET Roles, AssignUserRoles(c, s, u, R)
        PROVE  AccountsInv'
    <3>1. PICK req : req = [IdleCall EXCEPT !.at = "assign", !.by = s, !.on = u,
                                           !.change = [NoChange EXCEPT !.roles = R]] /\ Begin(c, req)
      BY <2>4 DEF AssignUserRoles
    <3>2. /\ req.at = "assign"
          /\ req = [at |-> req.at, by |-> req.by, on |-> req.on, seen |-> req.seen,
                       change |-> req.change]
      BY <3>1
    <3>3. UNCHANGED <<session, revoked, ended>>
      BY <2>4 DEF AssignUserRoles
    <3> QED
      BY <3>1, <3>2, <3>3, BeginStep
  <2>5. ASSUME NEW c \in Calls, NEW s \in Sessions, NEW u \in Users, DeleteUser(c, s, u)
        PROVE  AccountsInv'
    <3>1. PICK req : req = [IdleCall EXCEPT !.at = "delete", !.by = s, !.on = u] /\ Begin(c, req)
      BY <2>5 DEF DeleteUser
    <3>2. /\ req.at = "delete"
          /\ req = [at |-> req.at, by |-> req.by, on |-> req.on, seen |-> req.seen,
                       change |-> req.change]
      BY <3>1
    <3>3. UNCHANGED <<session, revoked, ended>>
      BY <2>5 DEF DeleteUser
    <3> QED
      BY <3>1, <3>2, <3>3, BeginStep
  <2>6. ASSUME NEW c \in Calls,
               UpdatePlatformUserWithRole(c) \/ AssignRoles(c) \/ DeleteUserRow(c)
        PROVE  AccountsInv'
    <3>1. Finish(c) /\ UNCHANGED <<session, revoked, ended>>
      BY <2>6 DEF UpdatePlatformUserWithRole, AssignRoles, DeleteUserRow
    <3> QED
      BY <3>1, FinishStep
  <2> QED
    BY <1>4, <2>1, <2>2, <2>3, <2>4, <2>5, <2>6 DEF Administering
<1> QED
  BY <1>1, <1>2, <1>3, <1>4 DEF AccountsNext

\* Logging out ends a session: whatever refresh, administration, expiry of tokens or of
\* keys in Redis crosses it, neither of its tokens is accepted again.
THEOREM LogoutCorrect == AccountsSpec => []LogoutEndsSession
<1>1. AccountsInv => LogoutEndsSession
  <2> SUFFICES ASSUME AccountsInv, NEW s \in ended
               PROVE  ~Authenticated(s) /\ ~ValidRefresh(s)
    BY DEF LogoutEndsSession
  <2>1. CASE "refresh" \in session[s].lives
    <3>1. [key |-> "session", of |-> s, until |-> "refresh"] \in revoked
      BY <2>1 DEF AccountsInv, EndedAreRevoked
    <3>2. IsTokenRevoked(s, "access") /\ IsTokenRevoked(s, "refresh")
      BY <3>1 DEF IsTokenRevoked
    <3> QED
      BY <3>2 DEF Authenticated, ValidRefresh
  <2>2. CASE "refresh" \notin session[s].lives
    BY <2>2 DEF AccountsInv, SessionsFit, EndedAreRevoked, Authenticated, ValidRefresh
  <2> QED
    BY <2>1, <2>2
<1> QED
  BY <1>1, AccountsInitially, AccountsStep, PTL DEF AccountsSpec

-----------------------------------------------------------------------------
(* Types *)

LEMMA IdleTypes == IdleCall \in ErrandRows /\ NoUser \in UserRows
<1>1. NoUser \in UserRows
  BY AccountConstants DEF NoUser, UserRows
<1> QED
  BY <1>1 DEF ErrandRows, Changes, NoChange

\* A row keeps its type when wrong passwords are counted or forgotten.
LEMMA CountTypes ==
  ASSUME NEW row \in UserRows, NEW count \in 0..MaxFailed,
         NEW status \in {"active", "inactive", "locked"}
  PROVE  /\ [row EXCEPT !.failed = count] \in UserRows
         /\ [row EXCEPT !.status = status, !.failed = count] \in UserRows
         /\ [row EXCEPT !.failed = count, !.status = status] \in UserRows
BY DEF UserRows

\* What a request is at keeps its type when one is begun or ends.
LEMMA BeginTypes ==
  ASSUME AccountsTypeOK, NEW c \in Calls, NEW req \in ErrandRows, Begin(c, req)
  PROVE  errand' \in [Calls -> ErrandRows] /\ orderly' \in BOOLEAN
BY DEF AccountsTypeOK, Begin

LEMMA FinishTypes ==
  ASSUME AccountsTypeOK, NEW c \in Calls, Finish(c)
  PROVE  errand' \in [Calls -> ErrandRows]
BY IdleTypes DEF AccountsTypeOK, Finish

LEMMA IssueTypes ==
  ASSUME AccountsTypeOK, NEW s \in Sessions, NEW u \in Users, NEW platform \in BOOLEAN,
         GenerateTokenPair(s, u, platform)
  PROVE  session' \in [Sessions -> SessionRows]
<1>1. [of |-> u, platform |-> platform, lives |-> {"access", "refresh"}] \in SessionRows
  BY DEF SessionRows
<1> QED
  BY <1>1 DEF AccountsTypeOK, GenerateTokenPair

LEMMA RevokeTypes ==
  ASSUME AccountsTypeOK, NEW s \in Sessions, NEW key \in {"session", "refresh"},
         NEW until \in {"access", "refresh"}, Revoke(key, s, until)
  PROVE  revoked' \subseteq Keys
BY DEF AccountsTypeOK, Revoke, Keys

LEMMA TypesInitially == AccountsInit => AccountsTypeOK
<1> SUFFICES ASSUME AccountsInit PROVE AccountsTypeOK
  OBVIOUS
<1>1. user \in [Users -> UserRows]
  <2>1. [NoUser EXCEPT !.row = "there", !.platform = TRUE, !.roles = {"platform_admin"}]
          \in UserRows
    BY IdleTypes, AccountConstants DEF NoUser, UserRows
  <2> QED
    BY <2>1, IdleTypes DEF AccountsInit
<1>2. NoSession \in SessionRows
  BY DEF SessionRows
<1> QED
  BY <1>1, <1>2, IdleTypes DEF AccountsInit, AccountsTypeOK

LEMMA LoggingInTypes ==
  ASSUME AccountsTypeOK, AccountsInv, LoggingIn
  PROVE  AccountsTypeOK'
<1>1. ASSUME NEW c \in Calls, NEW u \in Users, Login(c, u) PROVE AccountsTypeOK'
  <2>1. PICK at \in {"login", "wrong"} :
          Begin(c, [IdleCall EXCEPT !.at = at, !.on = u, !.seen = user[u]])
    BY <1>1 DEF Login
  <2>2. [IdleCall EXCEPT !.at = at, !.on = u, !.seen = user[u]] \in ErrandRows
    BY IdleTypes DEF ErrandRows, AccountsTypeOK
  <2>3. UNCHANGED <<user, session, revoked, ended>>
    BY <1>1 DEF Login
  <2> QED
    BY <2>1, <2>2, <2>3, BeginTypes DEF AccountsTypeOK
<1>2. ASSUME NEW c \in Calls, NEW s \in Sessions, RecordSuccessfulLogin(c, s)
      PROVE  AccountsTypeOK'
  <2> DEFINE u == errand[c].on
  <2>1. u \in Users /\ errand[c].seen.platform \in BOOLEAN
    BY <1>2 DEF RecordSuccessfulLogin, AccountsInv, CallsFit, AccountsTypeOK, ErrandRows,
       UserRows
  <2>2. session' \in [Sessions -> SessionRows]
    BY <1>2, <2>1, IssueTypes DEF RecordSuccessfulLogin
  <2>3. user' \in [Users -> UserRows]
    <3>1. user[u] \in UserRows /\ 0 \in 0..MaxFailed
      BY <2>1, AccountConstants DEF AccountsTypeOK
    <3>2. [user[u] EXCEPT !.status = "active", !.failed = 0] \in UserRows
      BY <3>1, CountTypes
    <3> QED
      BY <1>2, <2>1, <3>2 DEF RecordSuccessfulLogin, AccountsTypeOK
  <2> QED
    BY <1>2, <2>2, <2>3, FinishTypes DEF RecordSuccessfulLogin, AccountsTypeOK
<1>3. ASSUME NEW c \in Calls, IncrementFailedLogin(c) PROVE AccountsTypeOK'
  <2> DEFINE u == errand[c].on
             count == user[u].failed + 1
  <2>1. u \in Users /\ user[u] \in UserRows /\ user[u].failed \in 0..MaxFailed
    BY <1>3 DEF IncrementFailedLogin, AccountsInv, CallsFit, AccountsTypeOK, UserRows
  <2>2. count < MaxFailed => [user[u] EXCEPT !.failed = count] \in UserRows
    <3>1. count < MaxFailed => count \in 0..MaxFailed
      BY <2>1, AccountConstants
    <3> HIDE DEF count
    <3> QED
      BY <2>1, <3>1, CountTypes
  <2>3. [user[u] EXCEPT !.failed = MaxFailed, !.status = "locked"] \in UserRows
    <3>1. MaxFailed \in 0..MaxFailed
      BY AccountConstants
    <3> QED
      BY <2>1, <3>1, CountTypes
  <2>4. user' \in [Users -> UserRows]
    BY <1>3, <2>1, <2>2, <2>3 DEF IncrementFailedLogin, AccountsTypeOK
  <2> QED
    BY <1>3, <2>4, FinishTypes DEF IncrementFailedLogin, AccountsTypeOK
<1>4. ASSUME NEW c \in Calls, CallFails(c) PROVE AccountsTypeOK'
  BY <1>4, FinishTypes DEF CallFails, AccountsTypeOK
<1> QED
  BY <1>1, <1>2, <1>3, <1>4 DEF LoggingIn

LEMMA RefreshingTypes ==
  ASSUME AccountsTypeOK, AccountsInv, Refreshing
  PROVE  AccountsTypeOK'
<1>1. ASSUME NEW c \in Calls, NEW s \in Sessions, RefreshToken(c, s) PROVE AccountsTypeOK'
  <2>1. [IdleCall EXCEPT !.at = "refresh", !.by = s] \in ErrandRows
    BY IdleTypes DEF ErrandRows
  <2> QED
    BY <1>1, <2>1, BeginTypes DEF RefreshToken, AccountsTypeOK
<1>2. ASSUME NEW c \in Calls, NEW s \in Sessions, Logout(c, s) PROVE AccountsTypeOK'
  <2>1. [IdleCall EXCEPT !.at = "logout", !.by = s] \in ErrandRows
    BY IdleTypes DEF ErrandRows
  <2> QED
    BY <1>2, <2>1, BeginTypes DEF Logout, AccountsTypeOK
<1>3. ASSUME NEW c \in Calls, NEW s \in Sessions, Rotate(c, s) PROVE AccountsTypeOK'
  <2>1. /\ errand[c].on \in Users /\ errand[c].by \in Sessions
        /\ errand[c].seen.platform \in BOOLEAN
    BY <1>3 DEF Rotate, AccountsInv, CallsFit, AccountsTypeOK, ErrandRows, UserRows
  <2>2. session' \in [Sessions -> SessionRows]
    BY <1>3, <2>1, IssueTypes DEF Rotate
  <2>3. revoked' \subseteq Keys
    BY <1>3, <2>1, RevokeTypes DEF Rotate
  <2> QED
    BY <1>3, <2>2, <2>3, FinishTypes DEF Rotate, AccountsTypeOK
<1>4. ASSUME NEW c \in Calls, RefreshUserInfo(c) PROVE AccountsTypeOK'
  <2> DEFINE u == session[errand[c].by].of
  <2>1. CASE ActiveUser(u)
    <3>1. u \in Users
      BY <1>4, <2>1 DEF RefreshUserInfo, ActiveUser, AccountsInv, SessionsFit, CallsFit
    <3>2. [errand[c] EXCEPT !.at = "rotate", !.on = u, !.seen = user[u]] \in ErrandRows
      BY <3>1 DEF AccountsTypeOK, ErrandRows
    <3>3. errand' = [errand EXCEPT ![c] = [errand[c] EXCEPT !.at = "rotate", !.on = u,
                                                            !.seen = user[u]]]
      BY <1>4, <2>1 DEF RefreshUserInfo, AccountsTypeOK
    <3> QED
      BY <1>4, <3>2, <3>3 DEF RefreshUserInfo, AccountsTypeOK
  <2>2. CASE ~ActiveUser(u)
    BY <1>4, <2>2, FinishTypes DEF RefreshUserInfo, AccountsTypeOK
  <2> QED
    BY <2>1, <2>2
<1>5. ASSUME NEW c \in Calls, BlacklistSession(c) PROVE AccountsTypeOK'
  <2>1. errand[c].by \in Sessions
    BY <1>5 DEF BlacklistSession, AccountsInv, CallsFit
  <2>2. revoked' \subseteq Keys /\ ended' \subseteq Sessions
    BY <1>5, <2>1, RevokeTypes DEF BlacklistSession, AccountsTypeOK
  <2> QED
    BY <1>5, <2>2, FinishTypes DEF BlacklistSession, AccountsTypeOK
<1>6. ASSUME NEW s \in Sessions, Expire(s) PROVE AccountsTypeOK'
  <2>1. PICK gone : /\ session' = [session EXCEPT ![s].lives = @ \ {gone}]
                    /\ revoked' \subseteq revoked
    BY <1>6 DEF Expire
  <2>2. [session[s] EXCEPT !.lives = @ \ {gone}] \in SessionRows
    BY DEF AccountsTypeOK, SessionRows
  <2>3. session' \in [Sessions -> SessionRows]
    BY <2>1, <2>2 DEF AccountsTypeOK
  <2> QED
    BY <1>6, <2>1, <2>3 DEF Expire, AccountsTypeOK
<1> QED
  BY <1>1, <1>2, <1>3, <1>4, <1>5, <1>6 DEF Refreshing

LEMMA AdministeringTypes ==
  ASSUME AccountsTypeOK, AccountsInv, Administering
  PROVE  AccountsTypeOK'
<1> USE DEF Changes
<1>1. ASSUME NEW s \in Sessions, NEW u \in Users, NEW R \in SUBSET Roles, CreateUser(s, u, R)
      PROVE  AccountsTypeOK'
  <2>1. [NoUser EXCEPT !.row = "there", !.platform = TRUE, !.roles = R] \in UserRows
    BY IdleTypes DEF NoUser, UserRows
  <2> QED
    BY <1>1, <2>1 DEF CreateUser, AccountsTypeOK
<1>2. ASSUME NEW c \in Calls, NEW s \in Sessions, UpdateProfile(c, s) PROVE AccountsTypeOK'
  <2> DEFINE u == session[s].of
  <2>1. u \in Users
    BY <1>2 DEF UpdateProfile, Authenticated, ActiveUser, AccountsInv, SessionsFit
  <2>2. [at |-> "update", by |-> s, on |-> u, seen |-> user[u], change |-> NoChange]
          \in ErrandRows
    BY <2>1 DEF ErrandRows, AccountsTypeOK, NoChange
  <2> QED
    BY <1>2, <2>2, BeginTypes DEF UpdateProfile, AccountsTypeOK
<1>3. ASSUME NEW c \in Calls, NEW s \in Sessions, NEW u \in Users, NEW change \in Changes,
             UpdateUser(c, s, u, change)
      PROVE  AccountsTypeOK'
  <2>1. [at |-> "update", by |-> s, on |-> u, seen |-> user[u], change |-> change]
          \in ErrandRows
    BY DEF ErrandRows, AccountsTypeOK
  <2> QED
    BY <1>3, <2>1, BeginTypes DEF UpdateUser, AccountsTypeOK
<1>4. ASSUME NEW c \in Calls, NEW s \in Sessions, NEW u \in Users, NEW R \in SUBSET Roles,
             AssignUserRoles(c, s, u, R)
      PROVE  AccountsTypeOK'
  <2>1. [NoChange EXCEPT !.roles = R] \in Changes
    BY DEF NoChange
  <2>2. [IdleCall EXCEPT !.at = "assign", !.by = s, !.on = u,
                         !.change = [NoChange EXCEPT !.roles = R]] \in ErrandRows
    BY <2>1, IdleTypes DEF ErrandRows
  <2> QED
    BY <1>4, <2>2, BeginTypes DEF AssignUserRoles, AccountsTypeOK
<1>5. ASSUME NEW c \in Calls, NEW s \in Sessions, NEW u \in Users, DeleteUser(c, s, u)
      PROVE  AccountsTypeOK'
  <2>1. [IdleCall EXCEPT !.at = "delete", !.by = s, !.on = u] \in ErrandRows
    BY IdleTypes DEF ErrandRows
  <2> QED
    BY <1>5, <2>1, BeginTypes DEF DeleteUser, AccountsTypeOK
<1>6. ASSUME NEW c \in Calls,
             UpdatePlatformUserWithRole(c) \/ AssignRoles(c) \/ DeleteUserRow(c)
      PROVE  AccountsTypeOK'
  <2> DEFINE u == errand[c].on
             change == errand[c].change
  <2>1. /\ errand[c].seen \in UserRows /\ change \in Changes
        /\ u \in Users => user[u] \in UserRows
    BY DEF AccountsTypeOK, ErrandRows
  <2>2. user' \in [Users -> UserRows]
    <3>1. ASSUME u \in Users, UpdatePlatformUserWithRole(c) PROVE user' \in [Users -> UserRows]
      <4> DEFINE saved == [errand[c].seen EXCEPT
              !.status = IF change.status = None THEN @ ELSE change.status,
              !.platform = IF change.roles = {} THEN @ ELSE TRUE,
              !.roles = IF change.roles = {} THEN @ \cup user[u].roles ELSE change.roles]
      <4>1. saved \in UserRows
        BY <2>1, <3>1 DEF UserRows
      <4>2. user' = [user EXCEPT ![u] = saved]
        BY <3>1 DEF UpdatePlatformUserWithRole
      <4> HIDE DEF saved
      <4> QED
        BY <4>1, <4>2 DEF AccountsTypeOK
    <3>2. ASSUME u \in Users, AssignRoles(c) PROVE user' \in [Users -> UserRows]
      <4>1. PICK b \in BOOLEAN, R \in SUBSET Roles :
              user' = [user EXCEPT ![u].roles = R, ![u].platform = b]
        <5>1. change.roles \in SUBSET Roles /\ user[u].platform \in BOOLEAN
          BY <2>1, <3>2 DEF UserRows
        <5>2. user' = [user EXCEPT ![u].roles = change.roles,
                                   ![u].platform = IF user[u].row = "there"
                                                   THEN change.roles # {} ELSE user[u].platform]
          BY <3>2 DEF AssignRoles, AccountsTypeOK
        <5> QED
          BY <5>1, <5>2
      <4>2. [user[u] EXCEPT !.roles = R, !.platform = b] \in UserRows
        BY <2>1, <3>2 DEF UserRows
      <4> QED
        BY <4>1, <4>2 DEF AccountsTypeOK
    <3>3. ASSUME u \in Users, DeleteUserRow(c) PROVE user' \in [Users -> UserRows]
      <4>1. [NoUser EXCEPT !.row = "deleted", !.roles = user[u].roles] \in UserRows
        BY <2>1, <3>3, IdleTypes DEF NoUser, UserRows
      <4> QED
        BY <3>3, <4>1 DEF DeleteUserRow, AccountsTypeOK
    <3>4. CASE u \notin Users
      BY <1>6, <3>4 DEF UpdatePlatformUserWithRole, AssignRoles, DeleteUserRow, AccountsTypeOK
    <3> QED
      BY <1>6, <3>1, <3>2, <3>3, <3>4
  <2>3. Finish(c) /\ UNCHANGED <<session, revoked, ended, orderly>>
    BY <1>6 DEF UpdatePlatformUserWithRole, AssignRoles, DeleteUserRow
  <2> QED
    BY <2>2, <2>3, FinishTypes DEF AccountsTypeOK
<1> QED
  BY <1>1, <1>2, <1>3, <1>4, <1>5, <1>6 DEF Administering

\* The rows, the sessions, the keys in Redis and what every request has read have their
\* types, whoever does what when.
THEOREM AccountsTypesCorrect == AccountsSpec => [](AccountsTypeOK /\ AccountsInv)
<1>1. AccountsInit => AccountsTypeOK /\ AccountsInv
  BY TypesInitially, AccountsInitially
<1>2. AccountsTypeOK /\ AccountsInv /\ [AccountsNext]_accounts
        => AccountsTypeOK' /\ AccountsInv'
  <2> SUFFICES ASSUME AccountsTypeOK, AccountsInv, [AccountsNext]_accounts
               PROVE  AccountsTypeOK'
    BY AccountsStep
  <2>1. CASE UNCHANGED accounts
    BY <2>1 DEF accounts, AccountsTypeOK
  <2> QED
    BY <2>1, LoggingInTypes, RefreshingTypes, AdministeringTypes DEF AccountsNext
<1> QED
  BY <1>1, <1>2, PTL DEF AccountsSpec

-----------------------------------------------------------------------------
(* Administrators who take turns *)

\* A platform user that was not disabled.
Stays(u) == user[u].row = "there" /\ user[u].platform /\ user[u].status # "inactive"

AtWork == {c \in Calls : errand[c].at \in Writing}

OneAtWork == \A c, d \in AtWork : c = d

\* No other role of the platform is given to accounts.
OneRole == Roles = {"platform_admin"}

\* Then an account that has a role, which is platform_admin, is flagged a platform user, and
\* no other is.
FlagsAgree ==
  \A u \in Users : user[u].row = "there" =>
                      (user[u].platform <=> "platform_admin" \in user[u].roles)

\* Somebody else than the account a request is about is a platform user.
AnotherStays(c) == \E v \in Users : v # errand[c].on /\ Stays(v)

\* A request has checked that it does not take the last one: it has read the row as it
\* is, and keeps it, or leaves another.
ChecksHold ==
  \A c \in Calls :
    LET change == errand[c].change
        u == errand[c].on
    IN  /\ errand[c].at = "update" =>
             /\ u \in Users /\ errand[c].seen = user[u] /\ user[u].row = "there"
             /\ change.status \in {"active", None} \/ AnotherStays(c)
        /\ errand[c].at = "assign" =>
             u \in Users /\ (change.roles # {} \/ AnotherStays(c))
        /\ errand[c].at = "delete" => AnotherStays(c)

SomebodyStays == \E u \in Users : Stays(u)

TurnsInv == orderly => OneAtWork /\ FlagsAgree /\ ChecksHold /\ SomebodyStays

AccountsFit == AccountsTypeOK /\ AccountsInv

\* A request is begun that will write, or one that will not, and no account changes.
LEMMA BeginTurn ==
  ASSUME AccountsFit, TurnsInv, NEW c \in Calls, NEW req, Begin(c, req), UNCHANGED user,
         orderly /\ FlagsAgree /\ SomebodyStays =>
           /\ req.at = "update" =>
                /\ req.on \in Users /\ req.seen = user[req.on] /\ user[req.on].row = "there"
                /\ \/ req.change.status \in {"active", None}
                   \/ \E v \in Users : v # req.on /\ Stays(v)
           /\ req.at = "assign" =>
                /\ req.on \in Users
                /\ req.change.roles # {} \/ \E v \in Users : v # req.on /\ Stays(v)
           /\ req.at = "delete" => \E v \in Users : v # req.on /\ Stays(v)
  PROVE  TurnsInv'
<1> SUFFICES ASSUME orderly' PROVE (OneAtWork /\ FlagsAgree /\ ChecksHold /\ SomebodyStays)'
  BY DEF TurnsInv
<1>1. orderly /\ (req.at \in Writing => \A d \in Calls : errand[d].at \notin Writing)
  BY DEF Begin
<1>2. OneAtWork /\ FlagsAgree /\ ChecksHold /\ SomebodyStays
  BY <1>1 DEF TurnsInv
<1>3. \A d \in Calls : errand'[d] = IF d = c THEN req ELSE errand[d]
  BY DEF Begin, AccountsFit, AccountsTypeOK
<1>4. OneAtWork'
  BY <1>1, <1>2, <1>3 DEF OneAtWork, AtWork
<1>5. ChecksHold'
  BY <1>1, <1>2, <1>3 DEF ChecksHold, AnotherStays, Stays
<1> QED
  BY <1>2, <1>4, <1>5 DEF FlagsAgree, SomebodyStays, Stays

\* A request that does not write goes on.
LEMMA QuietTurn ==
  ASSUME AccountsFit, TurnsInv, UNCHANGED <<user, orderly>>,
         \A d \in Calls : \/ errand'[d] = errand[d]
                          \/ errand'[d].at \notin Writing
  PROVE  TurnsInv'
<1> SUFFICES ASSUME orderly PROVE (OneAtWork /\ FlagsAgree /\ ChecksHold /\ SomebodyStays)'
  BY DEF TurnsInv
<1>1. OneAtWork /\ FlagsAgree /\ ChecksHold /\ SomebodyStays
  BY DEF TurnsInv
<1>2. OneAtWork'
  BY <1>1 DEF OneAtWork, AtWork
<1>3. ChecksHold'
  BY <1>1 DEF ChecksHold, AnotherStays, Stays
<1> QED
  BY <1>1, <1>2, <1>3 DEF FlagsAgree, SomebodyStays, Stays

\* A request that writes has written: while they take turns no other is at work.
LEMMA WriteTurn ==
  ASSUME AccountsFit, TurnsInv, NEW c \in Calls, errand[c].at \in Writing, Finish(c),
         UNCHANGED orderly,
         orderly => FlagsAgree' /\ SomebodyStays'
  PROVE  TurnsInv'
<1> SUFFICES ASSUME orderly PROVE (OneAtWork /\ ChecksHold)'
  BY DEF TurnsInv
<1>1. \A d \in Calls : errand'[d] = IF d = c THEN IdleCall ELSE errand[d]
  BY DEF Finish, AccountsFit, AccountsTypeOK
<1>2. \A d \in Calls : errand'[d].at \notin Writing
  BY <1>1 DEF TurnsInv, OneAtWork, AtWork
<1> QED
  BY <1>2 DEF OneAtWork, AtWork, ChecksHold

\* The account whose row is written keeps it as a platform user, or another stays.
LEMMA Staying ==
  ASSUME AccountsFit, NEW u \in Users, NEW saved, user' = [user EXCEPT ![u] = saved],
         SomebodyStays,
         \/ \E v \in Users : v # u /\ Stays(v)
         \/ Stays(u) => saved.row = "there" /\ saved.platform /\ saved.status # "inactive"
  PROVE  SomebodyStays'
<1>1. \A v \in Users : user'[v] = IF v = u THEN saved ELSE user[v]
  BY DEF AccountsFit, AccountsTypeOK
<1> QED
  BY <1>1 DEF SomebodyStays, Stays

LEMMA FlagsKept ==
  ASSUME AccountsFit, NEW u \in Users, NEW saved, user' = [user EXCEPT ![u] = saved],
         FlagsAgree,
         saved.row = "there" => (saved.platform <=> "platform_admin" \in saved.roles)
  PROVE  FlagsAgree'
<1>1. \A v \in Users : user'[v] = IF v = u THEN saved ELSE user[v]
  BY DEF AccountsFit, AccountsTypeOK
<1> QED
  BY <1>1 DEF FlagsAgree

\* Whoever administers is an active platform user.
LEMMA WhoAdministers ==
  ASSUME OneRole, AccountsFit, FlagsAgree, NEW s \in Sessions, Administers(s)
  PROVE  LET a == session[s].of IN
         a \in Users /\ a \in PlatformUsers /\ user[a].status = "active" /\ Stays(a)
<1> DEFINE a == session[s].of
<1>1. a \in Users
  BY DEF Administers, Authenticated, ActiveUser, AccountsFit, AccountsInv, SessionsFit
<1>2. /\ user[a].row = "there" /\ user[a].status = "active"
      /\ user[a].roles \cap ManagingRoles # {}
  BY DEF Administers, Authenticated, ActiveUser
<1>3. user[a].roles \subseteq Roles
  BY <1>1 DEF AccountsFit, AccountsTypeOK, UserRows
<1>4. "platform_admin" \in user[a].roles
  BY <1>2, <1>3 DEF OneRole
<1> QED
  BY <1>1, <1>2, <1>4 DEF FlagsAgree, PlatformUsers, Stays

LEMMA LoggingInTurn ==
  ASSUME AccountsFit, TurnsInv, LoggingIn
  PROVE  TurnsInv'
<1>1. ASSUME NEW c \in Calls, NEW u \in Users, Login(c, u) PROVE TurnsInv'
  <2>1. PICK at \in {"login", "wrong"} :
          Begin(c, [IdleCall EXCEPT !.at = at, !.on = u, !.seen = user[u]])
    BY <1>1 DEF Login
  <2>2. PICK req : req = [IdleCall EXCEPT !.at = at, !.on = u, !.seen = user[u]]
                   /\ Begin(c, req)
    BY <2>1
  <2>3. req.at = at /\ UNCHANGED user
    BY <1>1, <2>2 DEF Login
  <2> QED
    BY <2>2, <2>3, BeginTurn
<1>2. ASSUME NEW c \in Calls, NEW s \in Sessions, RecordSuccessfulLogin(c, s)
      PROVE  TurnsInv'
  <2> DEFINE u == errand[c].on
             saved == [user[u] EXCEPT !.status = "active", !.failed = 0]
  <2>1. u \in Users /\ user[u] \in UserRows
    BY <1>2 DEF RecordSuccessfulLogin, AccountsFit, AccountsInv, CallsFit, AccountsTypeOK
  <2>2. /\ saved.row = user[u].row /\ saved.platform = user[u].platform
        /\ saved.roles = user[u].roles /\ saved.status = "active"
    BY <2>1 DEF UserRows
  <2>3. user' = user \/ user' = [user EXCEPT ![u] = saved]
    BY <1>2, <2>1 DEF RecordSuccessfulLogin, AccountsFit, AccountsTypeOK
  <2> HIDE DEF saved
  <2>4. orderly => FlagsAgree' /\ SomebodyStays'
    <3> SUFFICES ASSUME orderly PROVE FlagsAgree' /\ SomebodyStays'
      OBVIOUS
    <3>1. FlagsAgree /\ SomebodyStays
      BY DEF TurnsInv
    <3>2. CASE user' = user
      BY <3>1, <3>2 DEF FlagsAgree, SomebodyStays, Stays
    <3>3. CASE user' = [user EXCEPT ![u] = saved]
      <4>1. FlagsAgree'
        <5>1. saved.row = "there" => (saved.platform <=> "platform_admin" \in saved.roles)
          BY <2>1, <2>2, <3>1 DEF FlagsAgree
        <5> QED
          BY <2>1, <3>1, <3>3, <5>1, FlagsKept
      <4>2. SomebodyStays'
        <5>1. Stays(u) => saved.row = "there" /\ saved.platform /\ saved.status # "inactive"
          BY <2>2 DEF Stays
        <5> QED
          BY <2>1, <3>1, <3>3, <5>1, Staying
      <4> QED
        BY <4>1, <4>2
    <3> QED
      BY <2>3, <3>2, <3>3
  <2> QED
    BY <1>2, <2>4, WriteTurn DEF RecordSuccessfulLogin
<1>3. ASSUME NEW c \in Calls, IncrementFailedLogin(c) PROVE TurnsInv'
  <2> DEFINE u == errand[c].on
  <2>1. orderly => FlagsAgree' /\ SomebodyStays'
    <3> SUFFICES ASSUME orderly PROVE FlagsAgree' /\ SomebodyStays'
      OBVIOUS
    <3>1. FlagsAgree /\ SomebodyStays
      BY DEF TurnsInv
    <3>2. \A v \in Users : /\ user'[v].row = user[v].row /\ user'[v].roles = user[v].roles
                           /\ user'[v].platform = user[v].platform
                           /\ user'[v].status \in {user[v].status, "locked"}
      <4>1. \A v \in Users : user[v] \in UserRows
        BY DEF AccountsFit, AccountsTypeOK
      <4> QED
        BY <1>3, <4>1 DEF IncrementFailedLogin, AccountsFit, AccountsTypeOK, UserRows
    <3> QED
      BY <3>1, <3>2 DEF FlagsAgree, SomebodyStays, Stays
  <2> QED
    BY <1>3, <2>1, WriteTurn DEF IncrementFailedLogin
<1>4. ASSUME NEW c \in Calls, CallFails(c) PROVE TurnsInv'
  <2>1. \A d \in Calls : errand'[d] = errand[d] \/ errand'[d].at \notin Writing
    BY <1>4 DEF CallFails, Finish, AccountsFit, AccountsTypeOK
  <2> QED
    BY <1>4, <2>1, QuietTurn DEF CallFails
<1> QED
  BY <1>1, <1>2, <1>3, <1>4 DEF LoggingIn

LEMMA RefreshingTurn ==
  ASSUME AccountsFit, TurnsInv, Refreshing
  PROVE  TurnsInv'
<1>1. ASSUME NEW c \in Calls, NEW s \in Sessions, RefreshToken(c, s) \/ Logout(c, s)
      PROVE  TurnsInv'
  <2>1. PICK at \in {"refresh", "logout"} :
          Begin(c, [IdleCall EXCEPT !.at = at, !.by = s])
    BY <1>1 DEF RefreshToken, Logout
  <2>2. PICK req : req = [IdleCall EXCEPT !.at = at, !.by = s] /\ Begin(c, req)
    BY <2>1
  <2>3. req.at = at /\ UNCHANGED user
    BY <1>1, <2>2 DEF RefreshToken, Logout
  <2> QED
    BY <2>2, <2>3, BeginTurn
<1>2. ASSUME \/ \E c \in Calls, s \in Sessions : Rotate(c, s)
             \/ \E c \in Calls : RefreshUserInfo(c) \/ BlacklistSession(c)
             \/ \E s \in Sessions : Expire(s)
      PROVE  TurnsInv'
  <2>1. \A d \in Calls : errand'[d] = errand[d] \/ errand'[d].at \notin Writing
    <3>1. ASSUME NEW c \in Calls, Finish(c)
          PROVE  \A d \in Calls : errand'[d] = errand[d] \/ errand'[d].at \notin Writing
      BY <3>1 DEF Finish, AccountsFit, AccountsTypeOK
    <3>2. ASSUME NEW c \in Calls, RefreshUserInfo(c)
          PROVE  \A d \in Calls : errand'[d] = errand[d] \/ errand'[d].at \notin Writing
      BY <3>1, <3>2 DEF RefreshUserInfo, AccountsFit, AccountsTypeOK, ErrandRows
    <3> QED
      BY <1>2, <3>1, <3>2 DEF Rotate, BlacklistSession, Expire
  <2>2. UNCHANGED <<user, orderly>>
    BY <1>2 DEF Rotate, RefreshUserInfo, BlacklistSession, Expire
  <2> QED
    BY <2>1, <2>2, QuietTurn
<1> QED
  BY <1>1, <1>2 DEF Refreshing

\* A request about an account is checked and begun.
LEMMA CheckedTurn ==
  ASSUME OneRole, AccountsFit, TurnsInv, NEW c \in Calls, NEW s \in Sessions, NEW u \in Users
  PROVE  /\ UpdateProfile(c, s) => TurnsInv'
         /\ \A change \in Changes : UpdateUser(c, s, u, change) => TurnsInv'
         /\ \A R \in SUBSET Roles : AssignUserRoles(c, s, u, R) => TurnsInv'
         /\ DeleteUser(c, s, u) => TurnsInv'
<1> DEFINE Other == \E v \in Users : v # u /\ Stays(v)
<1>1. ASSUME UpdateProfile(c, s) PROVE TurnsInv'
  <2> DEFINE a == session[s].of
  <2>1. PICK req : /\ req = [at |-> "update", by |-> s, on |-> a, seen |-> user[a],
                             change |-> NoChange]
                   /\ Begin(c, req) /\ UNCHANGED user
    BY <1>1 DEF UpdateProfile
  <2>2. a \in Users /\ user[a].row = "there"
    BY <1>1 DEF UpdateProfile, Authenticated, ActiveUser, AccountsFit, AccountsInv, SessionsFit
  <2>3. /\ req.at = "update" /\ req.on = a /\ req.seen = user[a]
        /\ req.change.status = None
    BY <2>1 DEF NoChange
  <2> QED
    BY <2>1, <2>2, <2>3, BeginTurn
<1>2. FlagsAgree /\ Administers(s) /\ ~isLastPlatformAdmin(u) => Other
  <2> SUFFICES ASSUME FlagsAgree, Administers(s), ~isLastPlatformAdmin(u) PROVE Other
    OBVIOUS
  <2> DEFINE a == session[s].of
             active == {v \in PlatformUsers : user[v].status = "active"}
  <2>1. a \in active
    BY WhoAdministers
  <2>2. PICK v \in active : v # u
    BY <2>1 DEF isLastPlatformAdmin
  <2> QED
    BY <2>2 DEF PlatformUsers, Stays
<1>3. ASSUME NEW change \in Changes, UpdateUser(c, s, u, change) PROVE TurnsInv'
  <2>1. PICK req : /\ req = [at |-> "update", by |-> s, on |-> u, seen |-> user[u],
                             change |-> change]
                   /\ Begin(c, req) /\ UNCHANGED user
    BY <1>3 DEF UpdateUser
  <2>2. req.at = "update" /\ req.on = u /\ req.seen = user[u] /\ req.change = change
    BY <2>1
  <2>3. FlagsAgree => change.status \in {"active", None} \/ Other
    BY <1>2, <1>3 DEF UpdateUser
  <2>4. user[u].row = "there"
    BY <1>3 DEF UpdateUser
  <2> QED
    BY <2>1, <2>2, <2>3, <2>4, BeginTurn
<1>4. ASSUME NEW R \in SUBSET Roles, AssignUserRoles(c, s, u, R) PROVE TurnsInv'
  <2>1. PICK req : /\ req = [IdleCall EXCEPT !.at = "assign", !.by = s, !.on = u,
                                            !.change = [NoChange EXCEPT !.roles = R]]
                   /\ Begin(c, req) /\ UNCHANGED user
    BY <1>4 DEF AssignUserRoles
  <2>2. req.at = "assign" /\ req.on = u /\ req.change.roles = R
    BY <2>1 DEF NoChange
  <2>3. FlagsAgree => R # {} \/ Other
    BY <1>2, <1>4 DEF AssignUserRoles
  <2> QED
    BY <2>1, <2>2, <2>3, BeginTurn
<1>5. ASSUME DeleteUser(c, s, u) PROVE TurnsInv'
  <2>1. PICK req : /\ req = [IdleCall EXCEPT !.at = "delete", !.by = s, !.on = u]
                   /\ Begin(c, req) /\ UNCHANGED user
    BY <1>5 DEF DeleteUser
  <2>2. req.at = "delete" /\ req.on = u
    BY <2>1
  <2>3. FlagsAgree => Other
    BY <1>5, WhoAdministers DEF DeleteUser
  <2> QED
    BY <2>1, <2>2, <2>3, BeginTurn
<1> QED
  BY <1>1, <1>3, <1>4, <1>5

\* A request writes the account it is about.
LEMMA WritingTurn ==
  ASSUME OneRole, AccountsFit, TurnsInv, NEW c \in Calls,
         UpdatePlatformUserWithRole(c) \/ AssignRoles(c) \/ DeleteUserRow(c)
  PROVE  TurnsInv'
<1> DEFINE u == errand[c].on
           change == errand[c].change
           Other == \E v \in Users : v # u /\ Stays(v)
<1>1. errand[c].at \in Writing /\ Finish(c) /\ UNCHANGED orderly
  BY DEF UpdatePlatformUserWithRole, AssignRoles, DeleteUserRow
<1>2. orderly => FlagsAgree' /\ SomebodyStays'
  <2> SUFFICES ASSUME orderly PROVE FlagsAgree' /\ SomebodyStays'
    OBVIOUS
  <2>1. FlagsAgree /\ SomebodyStays /\ ChecksHold
    BY DEF TurnsInv
  <2>2. u \in Users => user[u] \in UserRows
    BY DEF AccountsFit, AccountsTypeOK
  <2>3. CASE UpdatePlatformUserWithRole(c)
    <3> DEFINE saved == [user[u] EXCEPT
            !.status = IF change.status = None THEN @ ELSE change.status,
            !.platform = IF change.roles = {} THEN @ ELSE TRUE,
            !.roles = IF change.roles = {} THEN @ \cup user[u].roles ELSE change.roles]
    <3>1. /\ u \in Users /\ errand[c].seen = user[u] /\ user[u].row = "there"
          /\ change.status \in {"active", None} \/ Other
      BY <2>1, <2>3 DEF UpdatePlatformUserWithRole, ChecksHold, AnotherStays
    <3>2. user' = [user EXCEPT ![u] = saved]
      BY <2>3, <3>1 DEF UpdatePlatformUserWithRole
    <3>3. /\ saved.row = "there"
          /\ saved.platform = (change.roles # {} \/ user[u].platform)
          /\ saved.status = IF change.status = None THEN user[u].status ELSE change.status
          /\ saved.roles = IF change.roles = {} THEN user[u].roles ELSE change.roles
      BY <2>2, <3>1 DEF UserRows
    <3> HIDE DEF saved
    <3>3a. change.roles # {} => "platform_admin" \in change.roles
      <4>1. change.roles \subseteq Roles
        BY DEF AccountsFit, AccountsTypeOK, ErrandRows, Changes
      <4> QED
        BY <4>1 DEF OneRole
    <3>4. saved.platform <=> "platform_admin" \in saved.roles
      BY <2>1, <3>1, <3>3, <3>3a DEF FlagsAgree
    <3>5. Other \/ (Stays(u) => saved.row = "there" /\ saved.platform
                                /\ saved.status # "inactive")
      BY <3>1, <3>3 DEF Stays
    <3>6. FlagsAgree'
      BY <2>1, <3>1, <3>2, <3>4, FlagsKept
    <3>7. SomebodyStays'
      BY <2>1, <3>1, <3>2, <3>5, Staying
    <3> QED
      BY <3>6, <3>7
  <2>4. CASE AssignRoles(c)
    <3> DEFINE R == change.roles
               saved == [user[u] EXCEPT
                 !.roles = R, !.platform = IF user[u].row = "there" THEN R # {} ELSE @]
    <3>1. u \in Users /\ (R # {} \/ Other)
      BY <2>1, <2>4 DEF AssignRoles, ChecksHold, AnotherStays
    <3>2. user' = [user EXCEPT ![u] = saved]
      BY <2>2, <2>4, <3>1 DEF AssignRoles, AccountsFit, AccountsTypeOK, UserRows
    <3>3. /\ saved.row = user[u].row /\ saved.status = user[u].status /\ saved.roles = R
          /\ user[u].row = "there" => saved.platform = (R # {})
      BY <2>2, <3>1 DEF UserRows
    <3> HIDE DEF saved
    <3>3a. R # {} => "platform_admin" \in R
      <4>1. R \subseteq Roles
        BY DEF AccountsFit, AccountsTypeOK, ErrandRows, Changes
      <4> QED
        BY <4>1 DEF OneRole
    <3>4. saved.row = "there" => (saved.platform <=> "platform_admin" \in saved.roles)
      BY <3>3, <3>3a
    <3>5. Other \/ (Stays(u) => saved.row = "there" /\ saved.platform
                                /\ saved.status # "inactive")
      BY <3>1, <3>3 DEF Stays
    <3>6. FlagsAgree'
      BY <2>1, <3>1, <3>2, <3>4, FlagsKept
    <3>7. SomebodyStays'
      BY <2>1, <3>1, <3>2, <3>5, Staying
    <3> QED
      BY <3>6, <3>7
  <2>5. CASE DeleteUserRow(c)
    <3> DEFINE saved == [NoUser EXCEPT !.row = "deleted", !.roles = user[u].roles]
    <3>1. Other
      BY <2>1, <2>5 DEF DeleteUserRow, ChecksHold, AnotherStays
    <3>2. user' = [user EXCEPT ![u] = saved]
      BY <2>5 DEF DeleteUserRow
    <3>3. saved.row = "deleted"
      BY DEF NoUser
    <3> HIDE DEF saved
    <3>4. CASE u \in Users
      <4>1. FlagsAgree'
        BY <2>1, <3>2, <3>3, <3>4, FlagsKept
      <4>2. SomebodyStays'
        BY <2>1, <3>1, <3>2, <3>4, Staying
      <4> QED
        BY <4>1, <4>2
    <3>5. CASE u \notin Users
      <4>1. user' = user
        BY <3>2, <3>5 DEF AccountsFit, AccountsTypeOK
      <4> QED
        BY <2>1, <4>1 DEF FlagsAgree, SomebodyStays, Stays
    <3> QED
      BY <3>4, <3>5
  <2> QED
    BY <2>3, <2>4, <2>5
<1> QED
  BY <1>1, <1>2, WriteTurn

LEMMA AdministeringTurn ==
  ASSUME OneRole, AccountsFit, TurnsInv, Administering
  PROVE  TurnsInv'
<1>1. ASSUME NEW s \in Sessions, NEW u \in Users, NEW R \in SUBSET Roles, CreateUser(s, u, R)
      PROVE  TurnsInv'
  <2> DEFINE saved == [NoUser EXCEPT !.row = "there", !.platform = TRUE, !.roles = R]
  <2> SUFFICES ASSUME orderly
               PROVE  (OneAtWork /\ FlagsAgree /\ ChecksHold /\ SomebodyStays)'
    BY <1>1 DEF TurnsInv, CreateUser
  <2>1. OneAtWork /\ FlagsAgree /\ ChecksHold /\ SomebodyStays
    BY DEF TurnsInv
  <2>2. user' = [user EXCEPT ![u] = saved] /\ user[u].row = "none" /\ UNCHANGED errand
    BY <1>1 DEF CreateUser
  <2>3. /\ saved.row = "there" /\ saved.platform /\ saved.status = "active"
        /\ "platform_admin" \in saved.roles
    <3>1. R # {} /\ R \subseteq {"platform_admin"}
      BY <1>1 DEF CreateUser, OneRole
    <3>2. saved.roles = R
      BY DEF NoUser
    <3> QED
      BY <3>1, <3>2 DEF NoUser
  <2> HIDE DEF saved
  <2>4. \A v \in Users : user'[v] = IF v = u THEN saved ELSE user[v]
    BY <2>2 DEF AccountsFit, AccountsTypeOK
  <2>5. \A v \in Users : Stays(v) => Stays(v)'
    BY <2>2, <2>4 DEF Stays
  <2>6. ChecksHold'
    <3>1. \A c \in Calls : AnotherStays(c) => AnotherStays(c)'
      BY <2>2, <2>5 DEF AnotherStays
    <3> QED
      BY <2>1, <2>2, <2>4, <3>1 DEF ChecksHold
  <2>7. FlagsAgree'
    BY <2>1, <2>3, <2>4 DEF FlagsAgree
  <2> QED
    BY <2>1, <2>2, <2>5, <2>6, <2>7 DEF OneAtWork, AtWork, SomebodyStays
<1>2. ASSUME NEW c \in Calls, NEW s \in Sessions,
             \/ UpdateProfile(c, s)
             \/ \E u \in Users : \/ \E change \in Changes : UpdateUser(c, s, u, change)
                                 \/ \E R \in SUBSET Roles : AssignUserRoles(c, s, u, R)
                                 \/ DeleteUser(c, s, u)
      PROVE  TurnsInv'
  <2>1. CASE UpdateProfile(c, s)
    <3>1. session[s].of \in Users
      BY <2>1 DEF UpdateProfile, Authenticated, ActiveUser, AccountsFit, AccountsInv, SessionsFit
    <3> QED
      BY <2>1, <3>1, CheckedTurn
  <2> QED
    BY <1>2, <2>1, CheckedTurn
<1> QED
  BY <1>1, <1>2, WritingTurn DEF Administering

\* Administrators who take turns leave a holder of platform_admin whose account is not
\* disabled, where no account has another role of the platform: each check is made on the
\* rows that the write then finds (isLastPlatformAdmin, isProtectedPlatformAdmin), since
\* only the creation of accounts comes between, and it counts the accounts that are flagged
\* platform users, which are then the holders.
THEOREM AdminCorrect ==
  ASSUME Roles = {"platform_admin"}
  PROVE  AccountsSpec => []AdminRemains
<1>0. OneRole
  BY DEF OneRole
<1>1. AccountsInit => TurnsInv
  <2> SUFFICES ASSUME AccountsInit PROVE OneAtWork /\ FlagsAgree /\ ChecksHold /\ SomebodyStays
    BY DEF TurnsInv
  <2>1. \A c \in Calls : errand[c] = IdleCall
    BY DEF AccountsInit
  <2>2. OneAtWork /\ ChecksHold
    BY <2>1 DEF OneAtWork, AtWork, ChecksHold
  <2>3. PICK u \in Users :
          user = [v \in Users |-> IF v = u
                                  THEN [NoUser EXCEPT !.row = "there", !.platform = TRUE,
                                                      !.roles = {"platform_admin"}]
                                  ELSE NoUser]
    BY DEF AccountsInit
  <2>4. /\ user[u].row = "there" /\ user[u].platform /\ user[u].status = "active"
        /\ "platform_admin" \in user[u].roles
        /\ \A v \in Users \ {u} : user[v].row = "none"
    BY <2>3 DEF NoUser
  <2> QED
    BY <2>2, <2>4 DEF FlagsAgree, SomebodyStays, Stays
<1>2. AccountsFit /\ TurnsInv /\ [AccountsNext]_accounts => TurnsInv'
  <2> SUFFICES ASSUME AccountsFit, TurnsInv, [AccountsNext]_accounts PROVE TurnsInv'
    OBVIOUS
  <2>1. CASE UNCHANGED accounts
    <3>1. UNCHANGED <<user, orderly, errand>>
      BY <2>1 DEF accounts
    <3> QED
      BY <3>1, QuietTurn
  <2> QED
    BY <1>0, <2>1, LoggingInTurn, RefreshingTurn, AdministeringTurn DEF AccountsNext
<1>3. TurnsInv => AdminRemains
  BY DEF TurnsInv, FlagsAgree, SomebodyStays, Stays, AdminRemains, PlatformUsers
<1>4. AccountsSpec => []AccountsFit
  BY AccountsTypesCorrect, PTL DEF AccountsFit
<1> QED
  BY <1>1, <1>2, <1>3, <1>4, PTL DEF AccountsSpec
=============================================================================
