-------------------------------- MODULE Tenancy --------------------------------
(***************************************************************************)
(* A tenant, the seats of its members (rows of user_tenant_roles, one per   *)
(* user), a role of its own beside the built-in admin and viewer, and the   *)
(* invitations by which somebody without an account gets one and a seat.    *)
(*                                                                         *)
(* A handler reads rows, decides, and writes; registering by an invitation  *)
(* is three writes, taken back one by one if a later one fails.  Nothing    *)
(* but unique indexes holds in between: no foreign key, and no status in    *)
(* the WHERE clause of an invitation's update.  Platform users, whom every  *)
(* handler refuses, and the default tenant, which is never switched off,    *)
(* are left out; names other than an account's email are not told apart.    *)
(***************************************************************************)
EXTENDS Null, Naturals, FiniteSets

CONSTANTS People,       \* identifiers of accounts
          Emails,
          Invitations,  \* rows of tenant_invitations
          Desks         \* requests at work at once

SystemRoles == {"admin", "viewer"}
TenantRoles == SystemRoles \cup {"own"}

ASSUME TenancyConstants == None \notin People \cup Emails \cup Invitations \cup TenantRoles

VARIABLES
  tenant,      \* the row of tenants
  own,         \* whether the tenant's own role has a row
  email,       \* the email of every account there is, None where there is none
  seat,        \* the role of every member
  invitation,  \* the rows of tenant_invitations
  desk,        \* what each request has read and is about to write
  guest,       \* the invitation an account was made by (history)
  removed,     \* whose seat a request to remove it took (history)
  spoiled      \* invitations whose registration was cut off, or crossed by a
               \* cancellation or a late registration (history)

tenancy == <<tenant, own, email, seat, invitation, desk, guest, removed, spoiled>>

InvitationRows == [status : {"none", "pending", "accepted", "expired", "cancelled"},
                   to : Emails \cup {None}, role : SystemRoles, late : BOOLEAN]
NoInvitation == [status |-> "none", to |-> None, role |-> "viewer", late |-> FALSE]

\* The writes of a registration that is under way, and those that take it back.
Registering == {"join", "accept", "unjoin", "unregister"}

DeskRows == [at : {"free", "save", "add", "promote", "role", "remove", "register", "invite",
                   "cancel", "check"} \cup Registering,
             who : People \cup {None}, role : TenantRoles, to : Emails \cup {None},
             inv : Invitations \cup {None}, status : {"active", "disabled"}, found : BOOLEAN]
Free == [at |-> "free", who |-> None, role |-> "viewer", to |-> None, inv |-> None,
         status |-> "active", found |-> FALSE]

TenancyTypeOK ==
  /\ tenant \in {"none", "active", "disabled", "gone"}
  /\ own \in BOOLEAN
  /\ email \in [People -> Emails \cup {None}]
  /\ seat \in [People -> TenantRoles \cup {None}]
  /\ invitation \in [Invitations -> InvitationRows]
  /\ desk \in [Desks -> DeskRows]
  /\ guest \in [People -> Invitations \cup {None}]
  /\ removed \subseteq People
  /\ spoiled \subseteq Invitations

TenancyInit ==
  /\ tenant = "none"
  /\ own = FALSE
  /\ email = [p \in People |-> None]
  /\ seat = [p \in People |-> None]
  /\ invitation = [i \in Invitations |-> NoInvitation]
  /\ desk = [d \in Desks |-> Free]
  /\ guest = [p \in People |-> None]
  /\ removed = {} /\ spoiled = {}

history == <<guest, removed, spoiled>>

\* A request has read what it needs and will write.
Reads(d, req) ==
  /\ desk[d].at = "free"
  /\ desk' = [desk EXCEPT ![d] = req]
  /\ UNCHANGED <<tenant, own, email, seat, invitation, history>>

Leaves(d) == desk' = [desk EXCEPT ![d] = Free]
Proceed(d, at) == desk' = [desk EXCEPT ![d].at = at]
-----------------------------------------------------------------------------
(* The tenant and its own role *)

CreateTenant ==
  /\ tenant = "none"
  /\ tenant' = "active"
  /\ UNCHANGED <<own, email, seat, invitation, desk, history>>

UpdateTenant(d, status) ==
  /\ tenant \in {"active", "disabled"}
  /\ Reads(d, [Free EXCEPT !.at = "save", !.status = status])

\* The whole row is saved: one that was deleted meanwhile is there again.
SaveTenant(d) ==
  /\ desk[d].at = "save"
  /\ tenant' = desk[d].status
  /\ Leaves(d)
  /\ UNCHANGED <<own, email, seat, invitation, history>>

\* The seats stay.
DeleteTenant ==
  /\ tenant \in {"active", "disabled"}
  /\ tenant' = "gone"
  /\ UNCHANGED <<own, email, seat, invitation, desk, history>>

\* Nobody looks whether a member holds the role.
CreateRole == ~own /\ own' = TRUE /\ UNCHANGED <<tenant, email, seat, invitation, desk, history>>
DeleteRole == own /\ own' = FALSE /\ UNCHANGED <<tenant, email, seat, invitation, desk, history>>

GetTenantRoleByID(r) == r = "own" => own
-----------------------------------------------------------------------------
(* Seats *)

AddMember(d, p, r) ==
  /\ tenant = "active"
  /\ email[p] # None
  /\ r \in SystemRoles
  /\ seat[p] = None
  /\ Reads(d, [Free EXCEPT !.at = "add", !.who = p, !.role = r])

\* The unique index refuses a second seat.
InsertMember(d) ==
  /\ desk[d].at = "add"
  /\ LET p == desk[d].who
     IN  seat' = IF seat[p] = None THEN [seat EXCEPT ![p] = desk[d].role] ELSE seat
  /\ Leaves(d)
  /\ UNCHANGED <<tenant, own, email, invitation, history>>

SetTenantAdmin(d, p) ==
  /\ email[p] # None
  /\ Reads(d, [Free EXCEPT !.at = "promote", !.who = p, !.found = seat[p] # None])

\* A seat that was found is raised, or made anew if it is gone.
assignTenantAdmin(d) ==
  /\ desk[d].at = "promote"
  /\ LET p == desk[d].who
     IN  seat' = IF desk[d].found \/ seat[p] = None
                 THEN [seat EXCEPT ![p] = "admin"] ELSE seat
  /\ Leaves(d)
  /\ UNCHANGED <<tenant, own, email, invitation, history>>

UpdateMemberRole(d, p, r) ==
  /\ GetTenantRoleByID(r)
  /\ seat[p] # None
  /\ Reads(d, [Free EXCEPT !.at = "role", !.who = p, !.role = r])

\* The same from inside the tenant, for one who has an account.
UpdateTenantUser(d, p, r) == email[p] # None /\ UpdateMemberRole(d, p, r)

\* The role is looked up once more; an update that finds no row is refused.
WriteMemberRole(d) ==
  /\ desk[d].at = "role"
  /\ LET p == desk[d].who
     IN  seat' = IF seat[p] # None /\ GetTenantRoleByID(desk[d].role)
                 THEN [seat EXCEPT ![p] = desk[d].role] ELSE seat
  /\ Leaves(d)
  /\ UNCHANGED <<tenant, own, email, invitation, history>>

\* One member without tenant, role or account makes the list an error.
ListMembers == /\ tenant \in {"active", "disabled"}
               /\ \A p \in People : seat[p] # None => email[p] # None /\ GetTenantRoleByID(seat[p])

Admins == {p \in People : seat[p] = "admin"}

validateTenantAdminRemoval(p) == seat[p] = "admin" => ListMembers /\ Cardinality(Admins) > 1

RemoveMember(d, p) ==
  /\ seat[p] # None
  /\ validateTenantAdminRemoval(p)
  /\ Reads(d, [Free EXCEPT !.at = "remove", !.who = p])

\* The same from inside the tenant.
DeleteTenantUser(d, p) == email[p] # None /\ RemoveMember(d, p)

DeleteMember(d) ==
  /\ desk[d].at = "remove"
  /\ seat' = [seat EXCEPT ![desk[d].who] = None]
  /\ removed' = removed \cup {desk[d].who}
  /\ Leaves(d)
  /\ UNCHANGED <<tenant, own, email, invitation, guest, spoiled>>
-----------------------------------------------------------------------------
(* Accounts *)

EmailTaken(e) == \E p \in People : email[p] = e

\* An identifier never used before.
Fresh(p) == /\ email[p] = None /\ seat[p] = None /\ guest[p] = None
            /\ \A d \in Desks : desk[d].who # p

CreateTenantUser(d, e) ==
  /\ tenant = "active"
  /\ ~EmailTaken(e)
  /\ Reads(d, [Free EXCEPT !.at = "register", !.to = e])

\* One transaction makes the account and, unless an invitation gives the seat, a
\* seat of a viewer; the unique index on the email refuses a second account.
registerTx(d, p) ==
  /\ desk[d].at = "register"
  /\ IF EmailTaken(desk[d].to)
     THEN Leaves(d) /\ UNCHANGED <<email, seat, guest>>
     ELSE /\ Fresh(p)
          /\ email' = [email EXCEPT ![p] = desk[d].to]
          /\ IF desk[d].inv = None
             THEN /\ seat' = [seat EXCEPT ![p] = "viewer"]
                  /\ Leaves(d)
                  /\ UNCHANGED guest
             ELSE /\ guest' = [guest EXCEPT ![p] = desk[d].inv]
                  /\ desk' = [desk EXCEPT ![d].at = "join", ![d].who = p]
                  /\ UNCHANGED seat
  /\ UNCHANGED <<tenant, own, invitation, removed, spoiled>>

\* The platform's administrators delete an account without a look at its seats.
DeleteAccount(p) ==
  /\ email[p] # None
  /\ email' = [email EXCEPT ![p] = None]
  /\ UNCHANGED <<tenant, own, seat, invitation, desk, history>>
-----------------------------------------------------------------------------
(* Invitations *)

CheckEmailPendingInTenant(e) ==
  \E i \in Invitations : invitation[i].status = "pending" /\ invitation[i].to = e

InviteToTenant(d, e, r) ==
  /\ tenant = "active"
  /\ r \in SystemRoles
  /\ ~CheckEmailPendingInTenant(e)
  /\ ~EmailTaken(e)
  /\ Reads(d, [Free EXCEPT !.at = "invite", !.to = e, !.role = r])

CreateInvitation(d, i) ==
  /\ desk[d].at = "invite"
  /\ invitation[i].status = "none"
  /\ invitation' = [invitation EXCEPT ![i] = [NoInvitation EXCEPT !.status = "pending",
                                                !.to = desk[d].to, !.role = desk[d].role]]
  /\ Leaves(d)
  /\ UNCHANGED <<tenant, own, email, seat, history>>

CancelInvitation(d, i) ==
  /\ invitation[i].status = "pending"
  /\ Reads(d, [Free EXCEPT !.at = "cancel", !.inv = i])

SetStatus(i, status) == invitation' = [invitation EXCEPT ![i].status = status]

\* A status written whatever the row says now: it crosses a registration that is
\* under way or through.
Overwrite(d, status) ==
  LET i == desk[d].inv
  IN  /\ SetStatus(i, status)
      /\ spoiled' = IF \/ invitation[i].status # "pending"
                       \/ \E e \in Desks \ {d} : desk[e].inv = i
                    THEN spoiled \cup {i} ELSE spoiled
      /\ Leaves(d)
      /\ UNCHANGED <<tenant, own, email, seat, guest, removed>>

WriteCancelled(d) == desk[d].at = "cancel" /\ Overwrite(d, "cancelled")

\* Time passes for an invitation.
Age(i) ==
  /\ invitation[i].status = "pending" /\ ~invitation[i].late
  /\ invitation' = [invitation EXCEPT ![i].late = TRUE]
  /\ UNCHANGED <<tenant, own, email, seat, desk, history>>

Aged == [i \in Invitations |-> IF invitation[i].status = "pending" /\ invitation[i].late
                               THEN [invitation[i] EXCEPT !.status = "expired"]
                               ELSE invitation[i]]

\* The list of invitations is read.
ExpireOldInvitations ==
  /\ Aged # invitation
  /\ invitation' = Aged
  /\ UNCHANGED <<tenant, own, email, seat, desk, history>>

\* Old ones are set to expired first; the token then finds one that is pending.
loadValidInvitation(d, i) ==
  /\ desk[d].at = "free"
  /\ Aged[i].status = "pending"
  /\ invitation' = Aged
  /\ desk' = [desk EXCEPT ![d] = [Free EXCEPT !.at = "check", !.inv = i,
                                    !.to = invitation[i].to, !.role = invitation[i].role]]
  /\ UNCHANGED <<tenant, own, email, seat, history>>

InvitationTooLate(d) ==
  /\ desk[d].at = "check"
  /\ invitation[desk[d].inv].late
  /\ Overwrite(d, "expired")

\* The tenant must be active, and no account have the email.
ensureInvitationTargetsValid(d) ==
  /\ desk[d].at = "check"
  /\ ~invitation[desk[d].inv].late
  /\ IF tenant = "active" /\ ~EmailTaken(desk[d].to) THEN Proceed(d, "register") ELSE Leaves(d)
  /\ UNCHANGED <<tenant, own, email, seat, invitation, history>>

\* The seat: refused if somebody gave one meanwhile.
JoinTenant(d) ==
  /\ desk[d].at = "join"
  /\ LET p == desk[d].who
     IN  IF seat[p] = None
         THEN seat' = [seat EXCEPT ![p] = desk[d].role] /\ Proceed(d, "accept")
         ELSE Proceed(d, "unjoin") /\ UNCHANGED seat
  /\ UNCHANGED <<tenant, own, email, invitation, history>>

Accept(d) ==
  /\ desk[d].at = "accept"
  /\ SetStatus(desk[d].inv, "accepted")
  /\ Leaves(d)
  /\ UNCHANGED <<tenant, own, email, seat, history>>

\* Mutant: a failed write is reported, and nothing taken back.
FailWithoutRollback(d) ==
  /\ desk[d].at \in {"join", "accept"}
  /\ Leaves(d)
  /\ UNCHANGED <<tenant, own, email, seat, invitation, history>>

\* A write of the registration fails: what was written is taken back.
CompletionFails(d) ==
  /\ desk[d].at \in {"join", "accept"}
  /\ Proceed(d, "unjoin")
  /\ UNCHANGED <<tenant, own, email, seat, invitation, history>>

RollbackMember(d) ==
  /\ desk[d].at = "unjoin"
  /\ seat' = [seat EXCEPT ![desk[d].who] = None]
  /\ Proceed(d, "unregister")
  /\ UNCHANGED <<tenant, own, email, invitation, history>>

RollbackUser(d) ==
  /\ desk[d].at = "unregister"
  /\ email' = [email EXCEPT ![desk[d].who] = None]
  /\ guest' = [guest EXCEPT ![desk[d].who] = None]
  /\ Leaves(d)
  /\ UNCHANGED <<tenant, own, seat, invitation, removed, spoiled>>

\* The process dies under a request, its first write fails, or one that takes
\* something back.
CutOff(d) ==
  /\ desk[d].at # "free"
  /\ spoiled' = IF desk[d].at \in Registering THEN spoiled \cup {desk[d].inv} ELSE spoiled
  /\ Leaves(d)
  /\ UNCHANGED <<tenant, own, email, seat, invitation, guest, removed>>
-----------------------------------------------------------------------------
Managing ==
  \/ CreateTenant \/ DeleteTenant \/ CreateRole \/ DeleteRole
  \/ \E p \in People : DeleteAccount(p)
  \/ \E d \in Desks : SaveTenant(d) \/ InsertMember(d) \/ assignTenantAdmin(d)
                        \/ WriteMemberRole(d) \/ DeleteMember(d)
  \/ \E d \in Desks, status \in {"active", "disabled"} : UpdateTenant(d, status)
  \/ \E d \in Desks, p \in People : \/ SetTenantAdmin(d, p)
                                   \/ RemoveMember(d, p) \/ DeleteTenantUser(d, p)
                                   \/ \E r \in TenantRoles : \/ AddMember(d, p, r)
                                                             \/ UpdateMemberRole(d, p, r)
                                                             \/ UpdateTenantUser(d, p, r)

Inviting ==
  \/ ExpireOldInvitations
  \/ \E i \in Invitations : Age(i)
  \/ \E d \in Desks, e \in Emails : \/ CreateTenantUser(d, e)
                                   \/ \E r \in SystemRoles : InviteToTenant(d, e, r)
  \/ \E d \in Desks, i \in Invitations : \/ CreateInvitation(d, i) \/ CancelInvitation(d, i)
                                        \/ loadValidInvitation(d, i)
  \/ \E d \in Desks : \/ WriteCancelled(d) \/ InvitationTooLate(d)
                      \/ ensureInvitationTargetsValid(d)
                      \/ JoinTenant(d) \/ Accept(d) \/ CompletionFails(d)
                      \/ RollbackMember(d) \/ RollbackUser(d) \/ CutOff(d)
  \/ \E d \in Desks, p \in People : registerTx(d, p)

TenancyNext == Managing \/ Inviting

TenancySpec == TenancyInit /\ [][TenancyNext]_tenancy
-----------------------------------------------------------------------------
(* Properties *)

\* An invitation says accepted if and only if an account was made by it, and the
\* account has its seat until a request takes it: whoever uses the token twice,
\* whatever is edited or fails meanwhile, a registration is whole or undone
\* (completeInvitationRegistration, rollbackInvitationRegistration).
InvitationIsTrue ==
  \A i \in Invitations \ spoiled :
    (\A d \in Desks : desk[d].at \in Registering => desk[d].inv # i) =>
      LET guests == {p \in People : guest[p] = i}
      IN  /\ invitation[i].status = "accepted" <=> guests # {}
          /\ \A p \in guests : seat[p] # None \/ p \in removed
=============================================================================
