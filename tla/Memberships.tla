----------------------------- MODULE Memberships -----------------------------
(***************************************************************************)
(* The members of an organization, their roles, invitations and custom     *)
(* roles (apps/api/src/modules/tenancy/application).                       *)
(*                                                                         *)
(* A call reads members and roles without a lock and decides; its          *)
(* transaction then writes without looking again, except that accepting an *)
(* invitation claims it.  A replacement of roles first ends the            *)
(* assignments that its statement can see and then inserts new ones: two   *)
(* replacements at once do not see each other's.  So a transaction has a   *)
(* begin, where its snapshot is taken, and an end.                         *)
(*                                                                         *)
(* One organization; `admin` stands for the permissions to invite, to      *)
(* update members and to administer roles, `own` for those only owners     *)
(* have.  Sessions are in Sessions and If-Match is in Inventory; property  *)
(* grants are left out, and so are the tokens of invitations, which a      *)
(* resend changes.                                                         *)
(***************************************************************************)
EXTENDS Naturals, FiniteSets

CONSTANTS
  People,            \* users; an invitation is addressed to one of them
  Invites,           \* invitations
  Admissions,        \* calls that are between their first read and their end
  NoUser,            \* SQL NULL of membership_roles.assigned_by_user_id
  RoleLists,         \* the lists of roles that a body may name
  MaxReplacements    \* bound on the role replacements of each member

Roles == {"OWNER", "ADMIN", "CUSTOM"}

ASSUME MembershipAssumption ==
  /\ MaxReplacements \in [People -> Nat] /\ NoUser \notin People
  /\ RoleLists \subseteq (SUBSET Roles) \ {{}}

VARIABLES
  member,      \* rows of tenant_memberships with their effective roles
  invite,      \* rows of invitations
  customKeys,  \* permissions of the custom role
  admission,   \* what each open call has read, and its next step
  founders,    \* history: users that have been owners
  accepted     \* history: how often each invitation has been accepted

membershipVars == <<member, invite, customKeys, admission, founders, accepted>>

NoMember    == [status |-> "NONE", roles |-> {}, replaced |-> 0]
NoInvite    == [status |-> "NONE", expired |-> FALSE, to |-> NoUser, by |-> NoUser, roles |-> {}]
NoAdmission == [op |-> "none"]

\* An assignment: the role, who assigned it, and which replacement of the
\* member's roles inserted it, which tells two rows of the same role apart.
Assigned(roles, by, n) == {[role |-> r, by |-> by, replacement |-> n] : r \in roles}

MembershipInit ==
  /\ member = [u \in People |-> NoMember]
  /\ invite = [i \in Invites |-> NoInvite]
  /\ customKeys = {}
  /\ admission = [c \in Admissions |-> NoAdmission]
  /\ founders = {}
  /\ accepted = [i \in Invites |-> 0]

(***************************************************************************)
(* Authorization.                                                          *)
(***************************************************************************)

RolesOf(u) == {a.role : a \in member[u].roles}

KeysOf(role) == CASE role = "OWNER" -> {"own", "admin"}
                  [] role = "ADMIN" -> {"admin"}
                  [] OTHER          -> customKeys

\* getEffectivePermissionKeys.
EffectiveKeys(u) == UNION {KeysOf(r) : r \in RolesOf(u)}

\* assertPermission.
Permitted(u) == member[u].status = "ACTIVE" /\ "admin" \in EffectiveKeys(u)

IsOwner(u) == "OWNER" \in RolesOf(u)

\* A faulty variant of CanAssign: an invitation was not thought to assign roles.
CanAssignAny(u, roles) == Permitted(u) /\ roles \subseteq Roles

\* assertCanAssignRoles.
CanAssign(u, roles) ==
  /\ Permitted(u)
  /\ "OWNER" \in roles => IsOwner(u)
  /\ \A r \in roles : \A k \in KeysOf(r) :
       IF k = "own" THEN IsOwner(u) /\ r = "OWNER" ELSE k \in EffectiveKeys(u)

(***************************************************************************)
(* Calls.                                                                  *)
(***************************************************************************)

Admit(c, call) == admission[c] = NoAdmission /\ admission' = [admission EXCEPT ![c] = call]
Leave(c) == admission' = [admission EXCEPT ![c] = NoAdmission]

\* createOrganization, in one transaction.
CreateOrganization(u) ==
  /\ \A v \in People : member[v] = NoMember
  /\ member' = [member EXCEPT ![u] =
       [NoMember EXCEPT !.status = "ACTIVE", !.roles = Assigned({"OWNER"}, u, 0)]]
  /\ founders' = {u}
  /\ UNCHANGED <<invite, customKeys, admission, accepted>>

\* The decision of createInvitation; the search for a pending one and the
\* insertion are two statements.
InviteRead(c, u, to, roles) ==
  /\ CanAssign(u, roles)
  /\ ~\E i \in Invites : invite[i].to = to /\ invite[i].status = "PENDING" /\ ~invite[i].expired
  /\ Admit(c, [op |-> "invite", by |-> u, to |-> to, roles |-> roles])
  /\ UNCHANGED <<member, invite, customKeys, founders, accepted>>

InviteWrite(c, i) ==
  LET d == admission[c] IN
  /\ d.op = "invite" /\ invite[i] = NoInvite
  /\ invite' = [invite EXCEPT ![i] =
       [status |-> "PENDING", expired |-> FALSE, to |-> d.to, by |-> d.by, roles |-> d.roles]]
  /\ Leave(c)
  /\ UNCHANGED <<member, customKeys, founders, accepted>>

Expire(i) ==
  /\ invite[i].status = "PENDING" /\ ~invite[i].expired
  /\ invite' = [invite EXCEPT ![i].expired = TRUE]
  /\ UNCHANGED <<member, customKeys, admission, founders, accepted>>

RevokeRead(c, u, i) ==
  /\ Permitted(u) /\ invite[i].status = "PENDING"
  /\ Admit(c, [op |-> "revoke", invite |-> i])
  /\ UNCHANGED <<member, invite, customKeys, founders, accepted>>

\* An acceptance that has claimed the invitation holds its lock.
ClaimOpen(i) == \E e \in Admissions : admission[e].op = "accepting" /\ admission[e].invite = i

\* By id: an invitation accepted meanwhile is revoked as well.
RevokeWrite(c) ==
  /\ admission[c].op = "revoke" /\ ~ClaimOpen(admission[c].invite)
  /\ invite' = [invite EXCEPT ![admission[c].invite].status = "REVOKED"]
  /\ Leave(c)
  /\ UNCHANGED <<member, customKeys, founders, accepted>>

\* patchMember, of the status or of the roles; one that sets both is left out.
PatchRead(c, u, target, call) ==
  /\ Permitted(u) /\ member[target].status # "NONE"
  /\ Admit(c, call)
  /\ UNCHANGED <<member, invite, customKeys, founders, accepted>>

\* wouldRemoveLastOwner.
LastOwner(u) == IsOwner(u) /\ ~\E v \in People \ {u} : IsOwner(v) /\ member[v].status = "ACTIVE"

StatusRead(c, u, target, status) ==
  /\ status = "SUSPENDED" => ~LastOwner(target)
  /\ PatchRead(c, u, target, [op |-> "status", target |-> target, status |-> status])

StatusWrite(c) ==
  LET d == admission[c] IN
  /\ d.op = "status"
  /\ member' = [member EXCEPT ![d.target].status = d.status]
  /\ Leave(c)
  /\ UNCHANGED <<invite, customKeys, founders, accepted>>

RolesRead(c, u, target, roles) ==
  /\ CanAssign(u, roles)
  /\ LastOwner(target) => "OWNER" \in roles
  /\ PatchRead(c, u, target, [op |-> "roles", by |-> u, target |-> target, roles |-> roles])

RolesBegin(c) ==
  LET d == admission[c] IN
  /\ d.op = "roles"
  /\ admission' = [admission EXCEPT ![c] =
       [op |-> "replace", by |-> d.by, target |-> d.target, roles |-> d.roles,
        seen |-> member[d.target].roles]]
  /\ UNCHANGED <<member, invite, customKeys, founders, accepted>>

\* The effective roles of u after the assignments `seen` are ended.
Replaced(u, seen, roles, by) ==
  (member[u].roles \ seen) \cup Assigned(roles, by, member[u].replaced + 1)

RolesEnd(c) ==
  LET d == admission[c]  u == d.target IN
  /\ d.op = "replace" /\ member[u].replaced < MaxReplacements[u]
  /\ member' = [member EXCEPT ![u].roles = Replaced(u, d.seen, d.roles, d.by),
                              ![u].replaced = @ + 1]
  /\ founders' = founders \cup (IF "OWNER" \in d.roles THEN {u} ELSE {})
  /\ Leave(c)
  /\ UNCHANGED <<invite, customKeys, accepted>>

\* The addressee accepts; the roles are looked up again, not the inviter's right
\* to assign them.
AcceptRead(c, i) ==
  /\ invite[i].status = "PENDING" /\ ~invite[i].expired
  /\ Admit(c, [op |-> "accept", invite |-> i])
  /\ UNCHANGED <<member, invite, customKeys, founders, accepted>>

\* A faulty variant of Claimed: what was read outside the transaction will do.
ClaimedBefore(i) == invite[i].status # "NONE"

\* The claim of the invitation finds its row.
Claimed(i) == invite[i].status = "PENDING" /\ ~invite[i].expired

\* The claim locks the invitation; a suspended member is refused.
AcceptBegin(c) ==
  LET d == admission[c]  i == d.invite  u == invite[i].to IN
  /\ d.op = "accept" /\ Claimed(i)
  /\ ~ClaimOpen(i)
  /\ member[u].status # "SUSPENDED"
  /\ admission' = [admission EXCEPT ![c] =
       [op |-> "accepting", invite |-> i, existing |-> member[u].status, seen |-> member[u].roles]]
  /\ UNCHANGED <<member, invite, customKeys, founders, accepted>>

\* Two first memberships of one user meet at a unique index; an existing one
\* keeps its status.
AcceptEnd(c) ==
  LET d == admission[c]  i == d.invite  u == invite[i].to  row == member[u] IN
  /\ d.op = "accepting" /\ row.replaced < MaxReplacements[u]
  /\ d.existing = "NONE" => row.status = "NONE"
  /\ invite' = [invite EXCEPT ![i].status = "ACCEPTED"]
  /\ accepted' = [accepted EXCEPT ![i] = @ + 1]
  /\ member' = [member EXCEPT ![u] =
       [status   |-> IF d.existing = "NONE" THEN "ACTIVE" ELSE row.status,
        roles    |-> Replaced(u, d.seen, invite[i].roles, invite[i].by),
        replaced |-> row.replaced + 1]]
  /\ founders' = founders \cup (IF "OWNER" \in invite[i].roles THEN {u} ELSE {})
  /\ Leave(c)
  /\ UNCHANGED customKeys

\* createRole and patchRole: the actor has every permission of the role.
SetCustomRole(u, keys) ==
  /\ Permitted(u) /\ "own" \notin keys /\ keys \subseteq EffectiveKeys(u)
  /\ customKeys' = keys
  /\ UNCHANGED <<member, invite, admission, founders, accepted>>

\* A refusal, a rollback or a crash.
Desert(c) ==
  /\ admission[c] # NoAdmission
  /\ Leave(c)
  /\ UNCHANGED <<member, invite, customKeys, founders, accepted>>

MembershipNext ==
  \/ \E u \in People :
       \/ CreateOrganization(u)
       \/ \E keys \in SUBSET {"own", "admin"} : SetCustomRole(u, keys)
       \/ \E c \in Admissions, to \in People :
            \/ \E roles \in RoleLists : InviteRead(c, u, to, roles) \/ RolesRead(c, u, to, roles)
            \/ \E status \in {"ACTIVE", "SUSPENDED"} : StatusRead(c, u, to, status)
       \/ \E c \in Admissions, i \in Invites : RevokeRead(c, u, i)
  \/ \E i \in Invites : Expire(i) \/ \E c \in Admissions : InviteWrite(c, i) \/ AcceptRead(c, i)
  \/ \E c \in Admissions :
       \/ RevokeWrite(c) \/ StatusWrite(c) \/ RolesBegin(c) \/ RolesEnd(c)
       \/ AcceptBegin(c) \/ AcceptEnd(c) \/ Desert(c)

MembershipSpec == MembershipInit /\ [][MembershipNext]_membershipVars

(***************************************************************************)
(* Properties.                                                             *)
(***************************************************************************)

\* Rows fit their tables.
MembershipTypeOK ==
  /\ \A u \in People :
       /\ member[u].status \in {"NONE", "ACTIVE", "SUSPENDED"}
       /\ member[u].roles \subseteq [role : Roles, by : People, replacement : Nat]
       /\ member[u].replaced \in 0..MaxReplacements[u]
  /\ invite \in [Invites ->
       [status : {"NONE", "PENDING", "ACCEPTED", "REVOKED"}, expired : BOOLEAN,
        to : People \cup {NoUser}, by : People \cup {NoUser}, roles : SUBSET Roles]]
  /\ customKeys \subseteq {"admin"} /\ founders \subseteq People
  /\ accepted \in [Invites -> Nat]

\* Whoever is an owner was made one by somebody who has been an owner, through
\* whatever patches, invitations, custom roles and replacements of roles at once.
OwnersMakeOwners ==
  \A u \in People : \A a \in member[u].roles : a.role = "OWNER" => a.by \in founders

\* An invitation is accepted at most once, although it may be accepted, revoked
\* and expire at the same time, and nobody gets into the organization without
\* having been invited.
InvitationUsedOnce ==
  /\ \A i \in Invites : accepted[i] <= 1
  /\ \A u \in People : member[u].status # "NONE" =>
       \/ \E a \in founders : u = a
       \/ \E i \in Invites : invite[i].to = u /\ accepted[i] > 0

\* Nobody is in the organization, or its owner, who was not let in by an owner.
RolesEarned == OwnersMakeOwners /\ InvitationUsedOnce

\* docs/reviews/Sprint-04-Review.md, C3: no replacement of roles removes the last
\* owner of the organization.
OwnerRemains ==
  (\E u \in People : member[u] # NoMember)
    => \E u \in People : IsOwner(u) /\ member[u].status = "ACTIVE"

=============================================================================
