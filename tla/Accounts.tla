-------------------------------- MODULE Accounts --------------------------------
(***************************************************************************)
(* The accounts of the platform and the sessions of those logged in.  An    *)
(* account is a row of users, with its platform roles.  A session is a pair *)
(* of tokens: the access token authenticates requests until it expires, the *)
(* refresh token is exchanged for the pair of a new session.  Tokens are    *)
(* signed, not stored; what ends them early is a list of revoked keys in    *)
(* Redis, whose entries last until a time given when they are added.        *)
(*                                                                         *)
(* A request reads rows, decides, and writes.  Passwords and profile data   *)
(* are left out, but not that the writes of a profile write the whole row.  *)
(* An administrator who sets a status sets it to active or inactive.        *)
(***************************************************************************)
EXTENDS Null, Naturals, FiniteSets

CONSTANTS Users,      \* identifiers of accounts
          Sessions,   \* identifiers of sessions
          Calls,      \* requests at work at once
          MaxFailed,  \* wrong passwords that lock an account
          Roles       \* the roles of the platform that are given to accounts

ASSUME AccountConstants == /\ MaxFailed \in Nat \ {0}
                           /\ None \notin Users \cup Sessions
                           /\ "platform_admin" \in Roles

VARIABLES
  user,      \* the rows of users, with their roles
  session,   \* the sessions issued: whose, and which of the tokens are not expired
  revoked,   \* the keys in Redis, with the token each is kept as long as
  errand,    \* what each request is at
  ended,     \* sessions whose logout was answered (history)
  orderly    \* no two requests about accounts have overlapped (history)

accounts == <<user, session, revoked, errand, ended, orderly>>

\* PlatformSystemRoles: those that may manage accounts and their roles.
ManagingRoles == {"platform_admin", "platform_user_admin"}

UserRows == [row : {"none", "there", "deleted"},
             status : {"active", "inactive", "locked"},
             platform : BOOLEAN, roles : SUBSET Roles, failed : 0..MaxFailed]
NoUser == [row |-> "none", status |-> "active", platform |-> FALSE, roles |-> {},
           failed |-> 0]

\* platform is the claim is_platform_admin of both tokens.
SessionRows == [of : Users \cup {None}, platform : BOOLEAN,
                lives : SUBSET {"access", "refresh"}]
NoSession == [of |-> None, platform |-> FALSE, lives |-> {}]

Keys == [key : {"session", "refresh"}, of : Sessions, until : {"access", "refresh"}]

Changes == [status : {"active", "inactive", None}, roles : SUBSET Roles]
NoChange == [status |-> None, roles |-> {}]
IdleCall == [at |-> "idle", by |-> None, on |-> None, seen |-> NoUser, change |-> NoChange]

\* What a request writes to an account once it has read and decided.
Writing == {"login", "wrong", "update", "assign", "delete"}

ErrandRows == [at : {"idle", "refresh", "rotate", "logout"} \cup Writing,
             by : Sessions \cup {None}, on : Users \cup {None},
             seen : UserRows, change : Changes]

AccountsTypeOK ==
  /\ user \in [Users -> UserRows]
  /\ session \in [Sessions -> SessionRows]
  /\ revoked \subseteq Keys
  /\ errand \in [Calls -> ErrandRows]
  /\ ended \subseteq Sessions
  /\ orderly \in BOOLEAN

\* init-admin makes the first account.
AccountsInit ==
  /\ \E u \in Users :
       user = [v \in Users |-> IF v = u
                               THEN [NoUser EXCEPT !.row = "there", !.platform = TRUE,
                                                   !.roles = {"platform_admin"}]
                               ELSE NoUser]
  /\ session = [s \in Sessions |-> NoSession]
  /\ revoked = {}
  /\ errand = [c \in Calls |-> IdleCall]
  /\ ended = {}
  /\ orderly = TRUE
-----------------------------------------------------------------------------
(* Tokens *)

\* Mutant: only the token's own key is looked up.
RevokedByToken(s, token) ==
  \E k \in revoked : k.of = s /\ token = "refresh" /\ k.key = "refresh"

\* A token is revoked by its own key or by its session's.
IsTokenRevoked(s, token) ==
  \E k \in revoked : k.of = s /\ k.key \in {"session", token}

ValidRefresh(s) == "refresh" \in session[s].lives /\ ~IsTokenRevoked(s, "refresh")

ActiveUser(u) == u # None /\ user[u].row = "there" /\ user[u].status = "active"

\* The access token opens a request.
Authenticated(s) == /\ "access" \in session[s].lives
                    /\ ~IsTokenRevoked(s, "access")
                    /\ ActiveUser(session[s].of)

\* A session's claim opens the platform's routes; what it may do there is read from
\* its user's roles.
Administers(s) == /\ Authenticated(s)
                  /\ session[s].platform
                  /\ user[session[s].of].roles \cap ManagingRoles # {}

GenerateTokenPair(s, u, platform) ==
  /\ session[s] = NoSession
  /\ session' = [session EXCEPT ![s] = [of |-> u, platform |-> platform,
                                        lives |-> {"access", "refresh"}]]

Begin(c, req) ==
  /\ errand[c].at = "idle"
  /\ errand' = [errand EXCEPT ![c] = req]
  /\ orderly' = (orderly /\ (req.at \in Writing => \A d \in Calls : errand[d].at \notin Writing))

Finish(c) == errand' = [errand EXCEPT ![c] = IdleCall]
-----------------------------------------------------------------------------
(* Logging in, refreshing, logging out *)

\* The account may log in: what follows depends on the password.
Login(c, u) ==
  /\ user[u].row = "there"
  /\ user[u].status = "active"
  /\ \E at \in {"login", "wrong"} :
       Begin(c, [IdleCall EXCEPT !.at = at, !.on = u, !.seen = user[u]])
  /\ UNCHANGED <<user, session, revoked, ended>>

\* The tokens are made from the row read; the row is written active.
RecordSuccessfulLogin(c, s) ==
  /\ errand[c].at = "login"
  /\ LET u == errand[c].on
     IN  /\ GenerateTokenPair(s, u, errand[c].seen.platform)
         /\ user' = IF user[u].row = "there"
                    THEN [user EXCEPT ![u].status = "active", ![u].failed = 0]
                    ELSE user
  /\ Finish(c)
  /\ UNCHANGED <<revoked, ended, orderly>>

\* One transaction counts the failure and locks the account at the limit.
IncrementFailedLogin(c) ==
  /\ errand[c].at = "wrong"
  /\ LET u == errand[c].on
         count == user[u].failed + 1
     IN  user' = IF user[u].row # "there" THEN user
                 ELSE IF count < MaxFailed THEN [user EXCEPT ![u].failed = count]
                 ELSE [user EXCEPT ![u].failed = MaxFailed, ![u].status = "locked"]
  /\ Finish(c)
  /\ UNCHANGED <<session, revoked, ended, orderly>>

RefreshToken(c, s) ==
  /\ ValidRefresh(s)
  /\ Begin(c, [IdleCall EXCEPT !.at = "refresh", !.by = s])
  /\ UNCHANGED <<user, session, revoked, ended>>

RefreshUserInfo(c) ==
  /\ errand[c].at = "refresh"
  /\ LET u == session[errand[c].by].of
     IN  IF ActiveUser(u)
         THEN errand' = [errand EXCEPT ![c].at = "rotate", ![c].on = u, ![c].seen = user[u]]
         ELSE Finish(c)
  /\ UNCHANGED <<user, session, revoked, ended, orderly>>

\* Add writes nothing for a time that has passed.
Revoke(key, s, until) ==
  revoked' = revoked \cup (IF until \in session[s].lives
                           THEN {[key |-> key, of |-> s, until |-> until]} ELSE {})

\* The new pair is answered once the old refresh token is revoked.
Rotate(c, s) ==
  /\ errand[c].at = "rotate"
  /\ GenerateTokenPair(s, errand[c].on, errand[c].seen.platform)
  /\ Revoke("refresh", errand[c].by, "refresh")
  /\ Finish(c)
  /\ UNCHANGED <<user, ended, orderly>>

\* Logging out passes the middleware like every request.
Logout(c, s) ==
  /\ Authenticated(s)
  /\ Begin(c, [IdleCall EXCEPT !.at = "logout", !.by = s])
  /\ UNCHANGED <<user, session, revoked, ended>>

\* The handler validates the access token again, then revokes the session until the
\* refresh token would expire.
BlacklistSession(c) ==
  /\ errand[c].at = "logout"
  /\ LET s == errand[c].by
     IN  IF "access" \in session[s].lives
         THEN Revoke("session", s, "refresh") /\ ended' = ended \cup {s}
         ELSE UNCHANGED <<revoked, ended>>
  /\ Finish(c)
  /\ UNCHANGED <<user, session, orderly>>

\* Time passes for a session's access token, then for its refresh token; the keys
\* kept as long as it lives go with it.
Expire(s) ==
  /\ session[s].lives # {}
  /\ LET gone == IF "access" \in session[s].lives THEN "access" ELSE "refresh"
     IN  /\ session' = [session EXCEPT ![s].lives = @ \ {gone}]
         /\ revoked' = {k \in revoked : ~(k.of = s /\ k.until = gone)}
  /\ UNCHANGED <<user, errand, ended, orderly>>
-----------------------------------------------------------------------------
(* Administering accounts *)

PlatformUsers == {u \in Users : user[u].row = "there" /\ user[u].platform}

\* Mutant: platform users that are not active count.
LastOfAll(u) == PlatformUsers = {u}

isLastPlatformAdmin(u) == {v \in PlatformUsers : user[v].status = "active"} = {u}

isProtectedPlatformAdmin(u) == PlatformUsers = {u}

\* Registered in one transaction; without a choice the role is platform_admin.
CreateUser(s, u, R) ==
  /\ Administers(s)
  /\ user[u].row = "none" /\ R # {}
  /\ user' = [user EXCEPT ![u] = [NoUser EXCEPT !.row = "there", !.platform = TRUE,
                                               !.roles = R]]
  /\ UNCHANGED <<session, revoked, errand, ended, orderly>>

\* The row is read and the change is checked.
UpdateUser(c, s, u, change) ==
  /\ Administers(s)
  /\ user[u].row = "there"
  /\ isLastPlatformAdmin(u) => /\ change.status \in {"active", None}
                               /\ change.roles \in {{}, {"platform_admin"}}
  /\ Begin(c, [at |-> "update", by |-> s, on |-> u, seen |-> user[u], change |-> change])
  /\ UNCHANGED <<user, session, revoked, ended>>

\* A user edits the own profile, whose row is read.
UpdateProfile(c, s) ==
  /\ Authenticated(s)
  /\ LET u == session[s].of
     IN  Begin(c, [at |-> "update", by |-> s, on |-> u, seen |-> user[u],
                   change |-> NoChange])
  /\ UNCHANGED <<user, session, revoked, ended>>

\* The whole row is saved as it was read but for the change, with the roles read, and
\* inserted if it is gone; a chosen role then replaces the others.
UpdatePlatformUserWithRole(c) ==
  /\ errand[c].at = "update"
  /\ LET u == errand[c].on
         change == errand[c].change
     IN  user' = [user EXCEPT ![u] =
           [errand[c].seen EXCEPT
              !.status = IF change.status = None THEN @ ELSE change.status,
              !.platform = IF change.roles = {} THEN @ ELSE TRUE,
              !.roles = IF change.roles = {} THEN @ \cup user[u].roles
                        ELSE change.roles]]
  /\ Finish(c)
  /\ UNCHANGED <<session, revoked, ended, orderly>>

AssignUserRoles(c, s, u, R) ==
  /\ Administers(s)
  /\ isLastPlatformAdmin(u) => "platform_admin" \in R
  /\ Begin(c, [IdleCall EXCEPT !.at = "assign", !.by = s, !.on = u,
                               !.change = [NoChange EXCEPT !.roles = R]])
  /\ UNCHANGED <<user, session, revoked, ended>>

\* The roles are replaced, and the flag says whether there are any.
AssignRoles(c) ==
  /\ errand[c].at = "assign"
  /\ LET u == errand[c].on
         R == errand[c].change.roles
     IN  user' = [user EXCEPT ![u].roles = R,
                              ![u].platform = IF user[u].row = "there" THEN R # {} ELSE @]
  /\ Finish(c)
  /\ UNCHANGED <<session, revoked, ended, orderly>>

DeleteUser(c, s, u) ==
  /\ Administers(s)
  /\ u # session[s].of
  /\ ~isProtectedPlatformAdmin(u)
  /\ Begin(c, [IdleCall EXCEPT !.at = "delete", !.by = s, !.on = u])
  /\ UNCHANGED <<user, session, revoked, ended>>

\* The rows that give it roles stay.
DeleteUserRow(c) ==
  /\ errand[c].at = "delete"
  /\ LET u == errand[c].on
     IN  user' = [user EXCEPT ![u] = [NoUser EXCEPT !.row = "deleted",
                                                   !.roles = user[u].roles]]
  /\ Finish(c)
  /\ UNCHANGED <<session, revoked, ended, orderly>>

\* A statement of a request fails, or the process dies: nothing more is written.
CallFails(c) ==
  /\ errand[c].at # "idle"
  /\ Finish(c)
  /\ UNCHANGED <<user, session, revoked, ended, orderly>>
-----------------------------------------------------------------------------
LoggingIn ==
  \E c \in Calls : \/ \E u \in Users : Login(c, u)
                  \/ \E s \in Sessions : RecordSuccessfulLogin(c, s)
                  \/ IncrementFailedLogin(c)
                  \/ CallFails(c)

Refreshing ==
  \/ \E c \in Calls, s \in Sessions : \/ RefreshToken(c, s) \/ Rotate(c, s)
                                      \/ Logout(c, s)
  \/ \E c \in Calls : RefreshUserInfo(c) \/ BlacklistSession(c)
  \/ \E s \in Sessions : Expire(s)

Administering ==
  \/ \E s \in Sessions, u \in Users, R \in SUBSET Roles : CreateUser(s, u, R)
  \/ \E c \in Calls, s \in Sessions :
       \/ UpdateProfile(c, s)
       \/ \E u \in Users : \/ \E change \in Changes : UpdateUser(c, s, u, change)
                            \/ \E R \in SUBSET Roles : AssignUserRoles(c, s, u, R)
                            \/ DeleteUser(c, s, u)
  \/ \E c \in Calls : UpdatePlatformUserWithRole(c) \/ AssignRoles(c) \/ DeleteUserRow(c)

AccountsNext == LoggingIn \/ Refreshing \/ Administering

AccountsSpec == AccountsInit /\ [][AccountsNext]_accounts
-----------------------------------------------------------------------------
(* Properties *)

\* Once a logout is answered, neither token of its session is accepted again, whatever
\* crosses it and in whatever order the tokens and the keys in Redis expire.
LogoutEndsSession == \A s \in ended : ~Authenticated(s) /\ ~ValidRefresh(s)

\* While administrators take turns they cannot disable, demote or delete one another until
\* none is left: somebody holds platform_admin whose account is active, or was locked by
\* wrong passwords.  isLastPlatformAdmin counts accounts of any role, so this needs Roles to
\* have no other.
AdminRemains ==
  orderly => \E u \in PlatformUsers : /\ user[u].status # "inactive"
                                      /\ "platform_admin" \in user[u].roles
=============================================================================
