---------------------------- MODULE AccessProofs ----------------------------
(***************************************************************************)
(* Proofs about who may do what: memberships, sessions, the gateway and    *)
(* the calls its clients make.                                             *)
(***************************************************************************)
EXTENDS Memberships, Sessions, Gateway, FiniteSetTheorems, TLAPS

-----------------------------------------------------------------------------
(***************************************************************************)
(* Memberships.                                                            *)
(*                                                                         *)
(* For any number of people, invitations and calls at once.                *)
(***************************************************************************)

Assignment == [role : Roles, by : People, replacement : Nat]
MemberRow == [status : {"NONE", "ACTIVE", "SUSPENDED"}, roles : SUBSET Assignment, replaced : Nat]
InviteRow == [status : {"NONE", "PENDING", "ACCEPTED", "REVOKED"}, expired : BOOLEAN,
              to : People \cup {NoUser}, by : People \cup {NoUser}, roles : SUBSET Roles]

MembersTyped ==
  /\ member \in [People -> MemberRow]
  /\ invite \in [Invites -> InviteRow]
  /\ founders \subseteq People
  /\ accepted \in [Invites -> Nat]
  /\ admission = [c \in Admissions |-> admission[c]]

\* Only an owner, and so a founder, hands on OWNER; the founders are members.
OwnersKnown ==
  /\ \A u \in People : IsOwner(u) => u \in founders
  /\ OwnersMakeOwners
  /\ \A f \in founders : member[f].status # "NONE"
  /\ \A i \in Invites : "OWNER" \in invite[i].roles => invite[i].by \in founders

\* What a call has read and will still be so when it writes.
AdmissionFits(r) ==
  /\ r.op \in {"none", "invite", "revoke", "status", "roles", "replace", "accept", "accepting"}
  /\ r.op = "invite" => r.by \in People /\ r.to \in People
  /\ r.op \in {"revoke", "accept", "accepting"} => r.invite \in Invites
  /\ r.op = "status" => r.status \in {"ACTIVE", "SUSPENDED"}
  /\ r.op \in {"status", "roles", "replace"} =>
       r.target \in People /\ member[r.target].status # "NONE"
  /\ r.op \in {"roles", "replace"} => r.by \in People
  /\ r.op \in {"invite", "roles", "replace"} =>
       r.roles \subseteq Roles /\ ("OWNER" \in r.roles => r.by \in founders)

AdmissionsFit == \A c \in Admissions : AdmissionFits(admission[c])

Accepting(c, i) == admission[c].op = "accepting" /\ admission[c].invite = i

\* An open invitation is unused.
OpenUnused(i) ==
  /\ invite[i].status \in {"NONE", "PENDING"} => accepted[i] = 0
  /\ invite[i].status = "PENDING" => invite[i].to \in People /\ invite[i].by \in People

\* The claim of an invitation is one call's, and the invitation stays open under it.
ClaimFits(c, i) ==
  Accepting(c, i) =>
    /\ invite[i].status = "PENDING"
    /\ admission[c].existing # "NONE" => member[invite[i].to].status # "NONE"
    /\ \A e \in Admissions : Accepting(e, i) => e = c

ClaimsAlone ==
  /\ \A i \in Invites : OpenUnused(i)
  /\ \A c \in Admissions, i \in Invites : ClaimFits(c, i)

MemberInv == MembersTyped /\ OwnersKnown /\ AdmissionsFit /\ ClaimsAlone /\ InvitationUsedOnce

-----------------------------------------------------------------------------
LEMMA MembersStart == MembershipInit => MemberInv
<1> SUFFICES ASSUME MembershipInit PROVE MemberInv
  OBVIOUS
<1>1. NoMember \in MemberRow /\ NoInvite \in InviteRow
  BY DEF NoMember, NoInvite, MemberRow, InviteRow
<1>2. MembersTyped
  BY <1>1 DEF MembersTyped, MembershipInit
<1>3. OwnersKnown
  BY DEF OwnersKnown, OwnersMakeOwners, IsOwner, RolesOf, MembershipInit, NoMember, NoInvite
<1>4. AdmissionsFit /\ ClaimsAlone
  BY DEF AdmissionsFit, AdmissionFits, ClaimsAlone, OpenUnused, ClaimFits, Accepting,
     MembershipInit, NoAdmission, NoInvite
<1>5. InvitationUsedOnce
  BY DEF InvitationUsedOnce, MembershipInit, NoMember
<1> QED BY <1>2, <1>3, <1>4, <1>5 DEF MemberInv

\* Nobody leaves the table of members, and founders stay founders.
NoneLeaves ==
  /\ founders \subseteq founders'
  /\ \A u \in People : member[u].status # "NONE" => member'[u].status # "NONE"

\* What a call has read of members and founders stays true until it writes.
LEMMA AdmissionsStay ==
  ASSUME MemberInv, NoneLeaves, NEW c \in Admissions, NEW step,
         admission' = [admission EXCEPT ![c] = step], AdmissionFits(step)'
  PROVE  AdmissionsFit'
<1> SUFFICES ASSUME NEW e \in Admissions PROVE AdmissionFits(admission[e])'
  BY DEF AdmissionsFit
<1>1. admission'[c] = step /\ \A f \in Admissions : f # c => admission'[f] = admission[f]
  BY DEF MemberInv, MembersTyped
<1>2. CASE e = c
  BY <1>1, <1>2 DEF AdmissionFits
<1>3. CASE e # c
  <2> PICK r : r = admission[e]
    OBVIOUS
  <2>1. AdmissionFits(r) /\ admission'[e] = r
    BY <1>1, <1>3 DEF MemberInv, AdmissionsFit
  <2>2. AdmissionFits(r)'
    BY <2>1 DEF AdmissionFits, NoneLeaves
  <2> QED BY <2>1, <2>2 DEF AdmissionFits
<1> QED BY <1>2, <1>3

\* A call that only moves on, and does not begin to accept.
LEMMA ReadsOnly ==
  ASSUME MemberInv, NEW c \in Admissions, NEW step, admission' = [admission EXCEPT ![c] = step],
         AdmissionFits(step), step.op # "accepting",
         UNCHANGED <<member, invite, founders, accepted>>
  PROVE  MemberInv'
<1>1. NoneLeaves /\ AdmissionFits(step)'
  BY DEF NoneLeaves, AdmissionFits
<1>2. AdmissionsFit'
  BY <1>1, AdmissionsStay
<1>3. admission' = [e \in Admissions |-> admission'[e]] /\ admission'[c] = step
      /\ \A f \in Admissions : f # c => admission'[f] = admission[f]
  BY DEF MemberInv, MembersTyped
<1>4. MembersTyped' /\ OwnersKnown' /\ InvitationUsedOnce'
  BY <1>3 DEF MemberInv, MembersTyped, OwnersKnown, OwnersMakeOwners, IsOwner, RolesOf,
     InvitationUsedOnce
<1>5. \A e \in Admissions, i \in Invites :
        Accepting(e, i)' => Accepting(e, i) /\ admission'[e] = admission[e]
  BY <1>3 DEF Accepting
<1>6. ClaimsAlone'
  BY <1>5 DEF MemberInv, ClaimsAlone, OpenUnused, ClaimFits
<1> QED BY <1>2, <1>4, <1>6 DEF MemberInv

\* assertCanAssignRoles: OWNER is handed on by owners, who are founders.
LEMMA AssignsOwner ==
  ASSUME MemberInv, NEW u \in People, NEW roles, CanAssign(u, roles), "OWNER" \in roles
  PROVE  u \in founders
BY DEF CanAssign, MemberInv, OwnersKnown

LEMMA AdmissionReadsKeep ==
  ASSUME MembershipAssumption, MemberInv, NEW c \in Admissions,
         \/ Desert(c) \/ RolesBegin(c)
         \/ \E i \in Invites : AcceptRead(c, i) \/ \E u \in People : RevokeRead(c, u, i)
         \/ \E u \in People, to \in People :
              \/ \E roles \in RoleLists : InviteRead(c, u, to, roles) \/ RolesRead(c, u, to, roles)
              \/ \E status \in {"ACTIVE", "SUSPENDED"} : StatusRead(c, u, to, status)
  PROVE  MemberInv'
<1> USE DEF Admit, Leave
<1>1. CASE Desert(c)
  <2>1. AdmissionFits(NoAdmission) /\ NoAdmission.op # "accepting"
    BY DEF AdmissionFits, NoAdmission
  <2> QED BY <1>1, <2>1, ReadsOnly DEF Desert
<1>2. CASE RolesBegin(c)
  <2> PICK d : d = admission[c]
    OBVIOUS
  <2> PICK step : step = [op |-> "replace", by |-> d.by, target |-> d.target, roles |-> d.roles,
                          seen |-> member[d.target].roles]
    OBVIOUS
  <2>1. d.op = "roles" /\ AdmissionFits(d) /\ admission' = [admission EXCEPT ![c] = step]
        /\ UNCHANGED <<member, invite, founders, accepted>>
    BY <1>2 DEF RolesBegin, MemberInv, AdmissionsFit
  <2>2. step.op = "replace" /\ step.by = d.by /\ step.target = d.target /\ step.roles = d.roles
    OBVIOUS
  <2>3. AdmissionFits(step)
    BY <2>1, <2>2 DEF AdmissionFits
  <2> QED BY <2>1, <2>2, <2>3, ReadsOnly
<1>3. ASSUME NEW i \in Invites, AcceptRead(c, i) PROVE MemberInv'
  <2> DEFINE step == [op |-> "accept", invite |-> i]
  <2>1. AdmissionFits(step) /\ step.op # "accepting"
    BY DEF AdmissionFits
  <2>2. admission' = [admission EXCEPT ![c] = step] /\ UNCHANGED <<member, invite, founders, accepted>>
    BY <1>3 DEF AcceptRead
  <2> HIDE DEF step
  <2> QED BY <2>1, <2>2, ReadsOnly
<1>4. ASSUME NEW i \in Invites, NEW u \in People, RevokeRead(c, u, i) PROVE MemberInv'
  <2> DEFINE step == [op |-> "revoke", invite |-> i]
  <2>1. AdmissionFits(step) /\ step.op # "accepting"
    BY DEF AdmissionFits
  <2>2. admission' = [admission EXCEPT ![c] = step] /\ UNCHANGED <<member, invite, founders, accepted>>
    BY <1>4 DEF RevokeRead
  <2> HIDE DEF step
  <2> QED BY <2>1, <2>2, ReadsOnly
<1>5. ASSUME NEW u \in People, NEW to \in People, NEW roles \in RoleLists, InviteRead(c, u, to, roles)
      PROVE  MemberInv'
  <2> DEFINE step == [op |-> "invite", by |-> u, to |-> to, roles |-> roles]
  <2>1. roles \subseteq Roles /\ ("OWNER" \in roles => u \in founders)
    BY <1>5, AssignsOwner DEF InviteRead, MembershipAssumption
  <2>2. AdmissionFits(step) /\ step.op # "accepting"
    BY <2>1 DEF AdmissionFits
  <2>3. admission' = [admission EXCEPT ![c] = step] /\ UNCHANGED <<member, invite, founders, accepted>>
    BY <1>5 DEF InviteRead
  <2> HIDE DEF step
  <2> QED BY <2>2, <2>3, ReadsOnly
<1>6. ASSUME NEW u \in People, NEW to \in People, NEW roles \in RoleLists, RolesRead(c, u, to, roles)
      PROVE  MemberInv'
  <2> DEFINE step == [op |-> "roles", by |-> u, target |-> to, roles |-> roles]
  <2>1. roles \subseteq Roles /\ ("OWNER" \in roles => u \in founders) /\ member[to].status # "NONE"
    BY <1>6, AssignsOwner DEF RolesRead, PatchRead, MembershipAssumption
  <2>2. AdmissionFits(step) /\ step.op # "accepting"
    BY <2>1 DEF AdmissionFits
  <2>3. admission' = [admission EXCEPT ![c] = step] /\ UNCHANGED <<member, invite, founders, accepted>>
    BY <1>6 DEF RolesRead, PatchRead
  <2> HIDE DEF step
  <2> QED BY <2>2, <2>3, ReadsOnly
<1>7. ASSUME NEW u \in People, NEW to \in People, NEW status \in {"ACTIVE", "SUSPENDED"},
             StatusRead(c, u, to, status)
      PROVE  MemberInv'
  <2> DEFINE step == [op |-> "status", target |-> to, status |-> status]
  <2>1. AdmissionFits(step) /\ step.op # "accepting"
    BY <1>7 DEF AdmissionFits, StatusRead, PatchRead
  <2>2. admission' = [admission EXCEPT ![c] = step] /\ UNCHANGED <<member, invite, founders, accepted>>
    BY <1>7 DEF StatusRead, PatchRead
  <2> HIDE DEF step
  <2> QED BY <2>1, <2>2, ReadsOnly
<1> QED BY <1>1, <1>2, <1>3, <1>4, <1>5, <1>6, <1>7

\* The claim: nobody else accepts the invitation, and it is open.
LEMMA AcceptBeginKeeps ==
  ASSUME MemberInv, NEW c \in Admissions, AcceptBegin(c)
  PROVE  MemberInv'
<1> PICK i : i = admission[c].invite
  OBVIOUS
<1> PICK u : u = invite[i].to
  OBVIOUS
<1> PICK step : step = [op |-> "accepting", invite |-> i, existing |-> member[u].status,
                        seen |-> member[u].roles]
  OBVIOUS
<1>1. /\ admission[c].op = "accept" /\ i \in Invites /\ invite[i].status = "PENDING"
      /\ \A e \in Admissions : ~Accepting(e, i)
      /\ admission' = [admission EXCEPT ![c] = step]
      /\ UNCHANGED <<member, invite, founders, accepted>>
  BY DEF AcceptBegin, Claimed, ClaimOpen, Accepting, MemberInv, AdmissionsFit, AdmissionFits
<1>2. NoneLeaves /\ AdmissionFits(step)'
  BY <1>1 DEF NoneLeaves, AdmissionFits
<1>3. AdmissionsFit'
  BY <1>1, <1>2, AdmissionsStay
<1>4. admission' = [e \in Admissions |-> admission'[e]] /\ admission'[c] = step
      /\ \A f \in Admissions : f # c => admission'[f] = admission[f]
  BY <1>1 DEF MemberInv, MembersTyped
<1>5. MembersTyped' /\ OwnersKnown' /\ InvitationUsedOnce'
  BY <1>1, <1>4 DEF MemberInv, MembersTyped, OwnersKnown, OwnersMakeOwners, IsOwner, RolesOf,
     InvitationUsedOnce
<1>6. ClaimsAlone'
  <2>1. ASSUME NEW e \in Admissions, NEW j \in Invites, Accepting(e, j)' PROVE ClaimFits(e, j)'
    <3>1. CASE e = c
      <4>1. j = i
        BY <3>1, <2>1, <1>4 DEF Accepting
      <4>2. \A f \in Admissions : Accepting(f, j)' => f = c
        BY <4>1, <1>1, <1>4 DEF Accepting
      <4> QED BY <3>1, <4>1, <4>2, <1>1, <1>4 DEF ClaimFits
    <3>2. CASE e # c
      <4>1. Accepting(e, j) /\ admission'[e] = admission[e]
        BY <3>2, <2>1, <1>4 DEF Accepting
      <4>2. j # i
        BY <4>1, <1>1
      <4>3. \A f \in Admissions : Accepting(f, j)' => Accepting(f, j)
        BY <4>2, <1>4 DEF Accepting
      <4> QED BY <4>1, <4>3, <1>1 DEF MemberInv, ClaimsAlone, OpenUnused, ClaimFits
    <3> QED BY <3>1, <3>2
  <2> QED BY <2>1, <1>1 DEF ClaimsAlone, OpenUnused, ClaimFits, MemberInv
<1> QED BY <1>3, <1>5, <1>6 DEF MemberInv

\* A step that changes one invitation, not accepted, that no call is accepting or
\* whose status it leaves alone.
LEMMA InviteChanges ==
  ASSUME MemberInv, NEW i \in Invites, NEW row \in InviteRow, invite' = [invite EXCEPT ![i] = row],
         AdmissionsFit', admission' = [e \in Admissions |-> admission'[e]],
         \A e \in Admissions, j \in Invites :
           Accepting(e, j)' => Accepting(e, j) /\ admission'[e] = admission[e],
         \/ \A e \in Admissions : ~Accepting(e, i)
         \/ row.status = invite[i].status /\ row.to = invite[i].to,
         row.status \in {"NONE", "PENDING"} => accepted[i] = 0,
         row.status = "PENDING" => row.to \in People /\ row.by \in People,
         "OWNER" \in row.roles => row.by \in founders,
         row.to = invite[i].to \/ accepted[i] = 0,
         UNCHANGED <<member, founders, accepted>>
  PROVE  MemberInv'
<1>1. invite'[i] = row /\ \A j \in Invites : j # i => invite'[j] = invite[j]
  BY DEF MemberInv, MembersTyped
<1>2. MembersTyped'
  BY DEF MemberInv, MembersTyped
<1>3. OwnersKnown'
  BY <1>1 DEF MemberInv, OwnersKnown, OwnersMakeOwners, IsOwner, RolesOf
<1>4. ClaimsAlone'
  <2>1. \A j \in Invites : OpenUnused(j)'
    BY <1>1 DEF MemberInv, ClaimsAlone, OpenUnused, ClaimFits
  <2>2. ASSUME NEW e \in Admissions, NEW j \in Invites, Accepting(e, j)' PROVE ClaimFits(e, j)'
    <3>1. Accepting(e, j) /\ admission'[e] = admission[e]
      BY <2>2
    <3>2. invite'[j].status = invite[j].status /\ invite'[j].to = invite[j].to
      BY <1>1, <3>1
    <3> QED BY <3>1, <3>2 DEF MemberInv, ClaimsAlone, OpenUnused, ClaimFits
  <2>3. \A e \in Admissions, j \in Invites : ClaimFits(e, j)'
    BY <2>2 DEF ClaimFits
  <2> QED BY <2>1, <2>3 DEF ClaimsAlone
<1>5. InvitationUsedOnce'
  <2>1. \A j \in Invites : accepted[j] > 0 => invite'[j].to = invite[j].to
    BY <1>1 DEF MemberInv, MembersTyped
  <2> QED BY <2>1 DEF MemberInv, InvitationUsedOnce
<1> QED BY <1>2, <1>3, <1>4, <1>5 DEF MemberInv

LEMMA LeaveFits == AdmissionFits(NoAdmission)' /\ NoAdmission.op # "accepting"
BY DEF AdmissionFits, NoAdmission

LEMMA LeaveLeaves ==
  ASSUME MemberInv, NEW c \in Admissions, Leave(c)
  PROVE  /\ admission' = [e \in Admissions |-> admission'[e]]
         /\ \A e \in Admissions, j \in Invites :
              Accepting(e, j)' => e # c /\ Accepting(e, j) /\ admission'[e] = admission[e]
<1>1. admission' = [e \in Admissions |-> admission'[e]] /\ admission'[c] = NoAdmission
      /\ \A f \in Admissions : f # c => admission'[f] = admission[f]
  BY DEF MemberInv, MembersTyped, Leave
<1> QED BY <1>1, LeaveFits DEF Accepting

LEMMA InviteWritesKeep ==
  ASSUME MemberInv,
         \/ \E i \in Invites : Expire(i) \/ \E c \in Admissions : InviteWrite(c, i)
         \/ \E c \in Admissions : RevokeWrite(c)
  PROVE  MemberInv'
<1>i. \A i \in Invites : invite[i] \in InviteRow
  BY DEF MemberInv, MembersTyped
<1>1. ASSUME NEW i \in Invites, Expire(i) PROVE MemberInv'
  <2> DEFINE row == [invite[i] EXCEPT !.expired = TRUE]
  <2>1. row \in InviteRow /\ row.status = invite[i].status /\ row.to = invite[i].to
        /\ row.by = invite[i].by /\ row.roles = invite[i].roles
    BY <1>i DEF InviteRow
  <2>2. invite' = [invite EXCEPT ![i] = row] /\ UNCHANGED <<member, admission, founders, accepted>>
    BY <1>1 DEF Expire
  <2> HIDE DEF row
  <2>3. AdmissionsFit' /\ admission' = [e \in Admissions |-> admission'[e]]
        /\ \A e \in Admissions, j \in Invites :
             Accepting(e, j)' => Accepting(e, j) /\ admission'[e] = admission[e]
    BY <2>2 DEF MemberInv, MembersTyped, AdmissionsFit, AdmissionFits, Accepting
  <2>4. /\ row.status \in {"NONE", "PENDING"} => accepted[i] = 0
        /\ row.status = "PENDING" => row.to \in People /\ row.by \in People
        /\ "OWNER" \in row.roles => row.by \in founders
    BY <2>1 DEF MemberInv, ClaimsAlone, OpenUnused, ClaimFits, OwnersKnown
  <2> QED BY <2>1, <2>2, <2>3, <2>4, InviteChanges
<1>2. ASSUME NEW i \in Invites, NEW c \in Admissions, InviteWrite(c, i) PROVE MemberInv'
  <2> PICK d : d = admission[c]
    OBVIOUS
  <2> DEFINE row == [status |-> "PENDING", expired |-> FALSE, to |-> d.to, by |-> d.by, roles |-> d.roles]
  <2>1. /\ d.op = "invite" /\ invite[i] = NoInvite /\ invite' = [invite EXCEPT ![i] = row]
        /\ admission' = [admission EXCEPT ![c] = NoAdmission] /\ Leave(c)
        /\ UNCHANGED <<member, founders, accepted>>
    BY <1>2 DEF InviteWrite, Leave
  <2>2. d.by \in People /\ d.to \in People /\ d.roles \subseteq Roles
        /\ ("OWNER" \in d.roles => d.by \in founders)
    BY <2>1 DEF MemberInv, AdmissionsFit, AdmissionFits
  <2>3. row \in InviteRow /\ row.status = "PENDING" /\ row.to = d.to /\ row.by = d.by
        /\ row.roles = d.roles
    BY <2>2 DEF InviteRow
  <2> HIDE DEF row
  <2>4. AdmissionsFit'
    <3>1. NoneLeaves
      BY <2>1 DEF NoneLeaves
    <3> QED BY <2>1, <3>1, LeaveFits, AdmissionsStay
  <2>5. accepted[i] = 0 /\ \A e \in Admissions : ~Accepting(e, i)
    BY <2>1 DEF MemberInv, ClaimsAlone, OpenUnused, ClaimFits, NoInvite
  <2>6. /\ admission' = [e \in Admissions |-> admission'[e]]
        /\ \A e \in Admissions, j \in Invites :
             Accepting(e, j)' => Accepting(e, j) /\ admission'[e] = admission[e]
    BY <2>1, LeaveLeaves
  <2> QED BY <2>1, <2>2, <2>3, <2>4, <2>5, <2>6, InviteChanges
<1>3. ASSUME NEW c \in Admissions, RevokeWrite(c) PROVE MemberInv'
  <2> PICK i : i = admission[c].invite
    OBVIOUS
  <2> DEFINE row == [invite[i] EXCEPT !.status = "REVOKED"]
  <2>1. /\ i \in Invites /\ invite' = [invite EXCEPT ![i] = row]
        /\ admission' = [admission EXCEPT ![c] = NoAdmission] /\ Leave(c)
        /\ (\A e \in Admissions : ~Accepting(e, i)) /\ UNCHANGED <<member, founders, accepted>>
    BY <1>3 DEF RevokeWrite, Leave, ClaimOpen, Accepting, MemberInv, AdmissionsFit, AdmissionFits
  <2>2. row \in InviteRow /\ row.status = "REVOKED" /\ row.to = invite[i].to /\ row.by = invite[i].by
        /\ row.roles = invite[i].roles
    BY <2>1 DEF InviteRow, MemberInv, MembersTyped
  <2> HIDE DEF row
  <2>3. AdmissionsFit'
    <3>1. NoneLeaves
      BY <2>1 DEF NoneLeaves
    <3> QED BY <2>1, <3>1, LeaveFits, AdmissionsStay
  <2>4. "OWNER" \in row.roles => row.by \in founders
    BY <2>1, <2>2 DEF MemberInv, OwnersKnown
  <2>5. /\ admission' = [e \in Admissions |-> admission'[e]]
        /\ \A e \in Admissions, j \in Invites :
             Accepting(e, j)' => Accepting(e, j) /\ admission'[e] = admission[e]
    BY <2>1, LeaveLeaves
  <2> QED BY <2>1, <2>2, <2>3, <2>4, <2>5, InviteChanges
<1> QED BY <1>1, <1>2, <1>3

\* The effective roles that a replacement leaves: what was not seen, and the new.
LEMMA ReplacedRoles ==
  ASSUME MemberInv, NEW u \in People, NEW seen, NEW roles \in SUBSET Roles, NEW by \in People
  PROVE  /\ Replaced(u, seen, roles, by) \in SUBSET Assignment
         /\ \A a \in Replaced(u, seen, roles, by) :
              a \in member[u].roles \/ (a.role \in roles /\ a.by = by)
<1>1. member[u].roles \in SUBSET Assignment /\ member[u].replaced + 1 \in Nat
  BY DEF MemberInv, MembersTyped, MemberRow
<1>2. \A a \in Assigned(roles, by, member[u].replaced + 1) :
        a \in Assignment /\ a.role \in roles /\ a.by = by
  BY <1>1 DEF Assigned, Assignment
<1> QED BY <1>1, <1>2 DEF Replaced

\* A step that writes the row of one member, whose owners stay founders.
LEMMA MemberChanges ==
  ASSUME MemberInv, NEW u \in People, NEW row \in MemberRow, member' = [member EXCEPT ![u] = row],
         row.status # "NONE", founders \subseteq founders', founders' \subseteq founders \cup {u},
         \A a \in row.roles : a.role = "OWNER" => a.by \in founders' /\ u \in founders',
         \A i \in Invites : "OWNER" \in invite'[i].roles => invite'[i].by \in founders
  PROVE  NoneLeaves /\ OwnersKnown'
<1>1. member'[u] = row /\ \A v \in People : v # u => member'[v] = member[v]
  BY DEF MemberInv, MembersTyped
<1>2. NoneLeaves
  BY <1>1 DEF NoneLeaves
<1>3. ASSUME NEW v \in People
      PROVE  /\ \A a \in member'[v].roles : a.role = "OWNER" => a.by \in founders' /\ v \in founders'
             /\ v \in founders' => member'[v].status # "NONE"
  <2>1. CASE v = u
    BY <1>1, <2>1
  <2>2. CASE v # u
    <3>1. /\ \A a \in member[v].roles : a.role = "OWNER" => a.by \in founders /\ v \in founders
          /\ v \in founders => member[v].status # "NONE"
      BY DEF MemberInv, OwnersKnown, OwnersMakeOwners, IsOwner, RolesOf
    <3> QED BY <3>1, <2>2, <1>1
  <2> QED BY <2>1, <2>2
<1>4. founders' \subseteq People
  BY DEF MemberInv, MembersTyped
<1> QED BY <1>2, <1>3, <1>4 DEF OwnersKnown, OwnersMakeOwners, IsOwner, RolesOf

\* Claims and tallies after a step that leaves the invitations alone.
LEMMA ClaimsStay ==
  ASSUME MemberInv, NoneLeaves, UNCHANGED <<invite, accepted>>,
         \A e \in Admissions, j \in Invites :
           Accepting(e, j)' => Accepting(e, j) /\ admission'[e] = admission[e]
  PROVE  ClaimsAlone'
<1>1. ASSUME NEW e \in Admissions, NEW j \in Invites, Accepting(e, j)' PROVE ClaimFits(e, j)'
  <2>1. Accepting(e, j) /\ admission'[e] = admission[e] /\ invite[j].status = "PENDING"
        /\ invite[j].to \in People
    BY <1>1 DEF MemberInv, ClaimsAlone, OpenUnused, ClaimFits
  <2> QED BY <2>1 DEF MemberInv, ClaimsAlone, OpenUnused, ClaimFits, NoneLeaves
<1>2. \A e \in Admissions, j \in Invites : ClaimFits(e, j)'
  BY <1>1 DEF ClaimFits
<1>3. \A j \in Invites : OpenUnused(j)'
  BY DEF MemberInv, ClaimsAlone, OpenUnused, ClaimFits
<1> QED BY <1>2, <1>3 DEF ClaimsAlone

LEMMA StatusWriteKeeps ==
  ASSUME MemberInv, NEW c \in Admissions, StatusWrite(c)
  PROVE  MemberInv'
<1> PICK d : d = admission[c]
  OBVIOUS
<1> PICK u : u = d.target
  OBVIOUS
<1> DEFINE row == [member[u] EXCEPT !.status = d.status]
<1>1. /\ d.op = "status" /\ u \in People /\ d.status \in {"ACTIVE", "SUSPENDED"}
      /\ member[u].status # "NONE" /\ member' = [member EXCEPT ![u] = row]
      /\ Leave(c) /\ UNCHANGED <<invite, founders, accepted>>
  BY DEF StatusWrite, MemberInv, AdmissionsFit, AdmissionFits
<1>2. row \in MemberRow /\ row.status = d.status /\ row.roles = member[u].roles
  BY <1>1 DEF MemberInv, MembersTyped, MemberRow
<1>3. \A a \in row.roles : a.role = "OWNER" => a.by \in founders' /\ u \in founders'
  BY <1>1, <1>2 DEF MemberInv, OwnersKnown, OwnersMakeOwners, IsOwner, RolesOf
<1>4. \A i \in Invites : "OWNER" \in invite'[i].roles => invite'[i].by \in founders
  BY <1>1 DEF MemberInv, OwnersKnown
<1> HIDE DEF row
<1>5. NoneLeaves /\ OwnersKnown'
  BY <1>1, <1>2, <1>3, <1>4, MemberChanges
<1>6. AdmissionsFit'
  BY <1>1, <1>5, LeaveFits, AdmissionsStay DEF Leave
<1>7. /\ admission' = [e \in Admissions |-> admission'[e]]
      /\ \A e \in Admissions, j \in Invites :
           Accepting(e, j)' => Accepting(e, j) /\ admission'[e] = admission[e]
  BY <1>1, LeaveLeaves
<1>8. ClaimsAlone'
  BY <1>1, <1>5, <1>7, ClaimsStay
<1>9. MembersTyped'
  BY <1>1, <1>2, <1>7 DEF MemberInv, MembersTyped
<1>10. InvitationUsedOnce'
  <2>1. \A v \in People : member'[v].status # "NONE" => member[v].status # "NONE"
    BY <1>1 DEF MemberInv, MembersTyped
  <2> QED BY <2>1, <1>1 DEF MemberInv, InvitationUsedOnce
<1> QED BY <1>5, <1>6, <1>8, <1>9, <1>10 DEF MemberInv

LEMMA MemberRows ==
  ASSUME NEW old \in MemberRow, NEW roles \in SUBSET Assignment
  PROVE  [old EXCEPT !.roles = roles, !.replaced = @ + 1]
           = [status |-> old.status, roles |-> roles, replaced |-> old.replaced + 1]
<1> PICK n : n = old.replaced + 1
  OBVIOUS
<1> PICK mid : mid = [old EXCEPT !.roles = roles]
  OBVIOUS
<1>1. /\ [old EXCEPT !.roles = roles] \in MemberRow /\ [old EXCEPT !.roles = roles].status = old.status
      /\ [old EXCEPT !.roles = roles].roles = roles /\ n \in Nat
  BY DEF MemberRow
<1>2. \A m \in MemberRow, k \in Nat :
        [m EXCEPT !.replaced = k] = [status |-> m.status, roles |-> m.roles, replaced |-> k]
  BY DEF MemberRow
<1>3. [old EXCEPT !.roles = roles, !.replaced = @ + 1] = [mid EXCEPT !.replaced = n]
  BY DEF MemberRow
<1>4. [mid EXCEPT !.replaced = n] = [status |-> mid.status, roles |-> mid.roles, replaced |-> n]
  BY <1>1, <1>2
<1> QED BY <1>1, <1>3, <1>4

LEMMA RolesEndKeeps ==
  ASSUME MemberInv, NEW c \in Admissions, RolesEnd(c)
  PROVE  MemberInv'
<1> PICK d : d = admission[c]
  OBVIOUS
<1> PICK u : u = d.target
  OBVIOUS
<1> PICK roles : roles = Replaced(u, d.seen, d.roles, d.by)
  OBVIOUS
<1> DEFINE row == [status |-> member[u].status, roles |-> roles, replaced |-> member[u].replaced + 1]
<1>1. /\ d.op = "replace" /\ Leave(c) /\ UNCHANGED <<invite, accepted>>
      /\ founders' = founders \cup (IF "OWNER" \in d.roles THEN {u} ELSE {})
  BY DEF RolesEnd
<1>2. /\ u \in People /\ member[u].status # "NONE" /\ d.by \in People /\ d.roles \in SUBSET Roles
      /\ "OWNER" \in d.roles => d.by \in founders
  BY <1>1 DEF MemberInv, AdmissionsFit, AdmissionFits
<1>3. /\ roles \in SUBSET Assignment
      /\ \A a \in roles : a \in member[u].roles \/ (a.role \in d.roles /\ a.by = d.by)
  BY <1>2, ReplacedRoles
<1>4. member[u] \in MemberRow /\ member' = [member EXCEPT ![u] = row]
  <2>1. member' = [member EXCEPT ![u].roles = roles, ![u].replaced = @ + 1]
    BY DEF RolesEnd
  <2>2. member[u] \in MemberRow
    BY <1>2 DEF MemberInv, MembersTyped
  <2>3. member' = [member EXCEPT ![u] = [member[u] EXCEPT !.roles = roles, !.replaced = @ + 1]]
    BY <2>1, <1>2 DEF MemberInv, MembersTyped
  <2> QED BY <2>2, <2>3, <1>3, MemberRows
<1>5. /\ row \in MemberRow /\ row.roles = roles /\ row.status # "NONE" /\ row.status = member[u].status
  BY <1>2, <1>3, <1>4 DEF MemberRow
<1>6. \A a \in roles : a.role = "OWNER" => a.by \in founders' /\ u \in founders'
  <2> SUFFICES ASSUME NEW a \in roles, a.role = "OWNER" PROVE a.by \in founders' /\ u \in founders'
    OBVIOUS
  <2>1. CASE a \in member[u].roles
    BY <2>1, <1>1, <1>2 DEF MemberInv, OwnersKnown, OwnersMakeOwners, IsOwner, RolesOf
  <2>2. CASE a.role \in d.roles /\ a.by = d.by
    BY <2>2, <1>1, <1>2
  <2> QED BY <2>1, <2>2, <1>3
<1>7. \A i \in Invites : "OWNER" \in invite'[i].roles => invite'[i].by \in founders
  BY <1>1 DEF MemberInv, OwnersKnown
<1> HIDE DEF row
<1>8. NoneLeaves /\ OwnersKnown'
  <2>1. founders \subseteq founders' /\ founders' \subseteq founders \cup {u}
    BY <1>1
  <2>2. \A a \in row.roles : a.role = "OWNER" => a.by \in founders' /\ u \in founders'
    BY <1>5, <1>6
  <2>3. \A i \in Invites : "OWNER" \in invite'[i].roles => invite'[i].by \in founders
    BY <1>7
  <2> QED BY <2>1, <2>2, <2>3, <1>2, <1>4, <1>5, MemberChanges
<1>9. AdmissionsFit'
  BY <1>1, <1>8, LeaveFits, AdmissionsStay DEF Leave
<1>10. /\ admission' = [e \in Admissions |-> admission'[e]]
       /\ \A e \in Admissions, j \in Invites :
            Accepting(e, j)' => Accepting(e, j) /\ admission'[e] = admission[e]
  BY <1>1, LeaveLeaves
<1>11. ClaimsAlone'
  BY <1>1, <1>8, <1>10, ClaimsStay
<1>12. MembersTyped'
  BY <1>1, <1>2, <1>4, <1>5, <1>10 DEF MemberInv, MembersTyped
<1>13. InvitationUsedOnce'
  <2>1. \A v \in People : member'[v].status # "NONE" => member[v].status # "NONE"
    BY <1>2, <1>4, <1>5 DEF MemberInv, MembersTyped
  <2> QED BY <2>1, <1>1 DEF MemberInv, InvitationUsedOnce
<1> QED BY <1>8, <1>9, <1>11, <1>12, <1>13 DEF MemberInv

LEMMA AcceptEndKeeps ==
  ASSUME MemberInv, NEW c \in Admissions, AcceptEnd(c)
  PROVE  MemberInv'
<1> PICK d : d = admission[c]
  OBVIOUS
<1> PICK i : i = d.invite
  OBVIOUS
<1> PICK u : u = invite[i].to
  OBVIOUS
<1> PICK roles : roles = Replaced(u, d.seen, invite[i].roles, invite[i].by)
  OBVIOUS
<1> DEFINE row == [status |-> IF d.existing = "NONE" THEN "ACTIVE" ELSE member[u].status,
                   roles |-> roles, replaced |-> member[u].replaced + 1]
           used == [invite[i] EXCEPT !.status = "ACCEPTED"]
<1>1. /\ d.op = "accepting" /\ Leave(c)
      /\ invite' = [invite EXCEPT ![i] = used] /\ accepted' = [accepted EXCEPT ![i] = @ + 1]
      /\ member' = [member EXCEPT ![u] = row]
      /\ founders' = founders \cup (IF "OWNER" \in invite[i].roles THEN {u} ELSE {})
  <2>1. invite' = [invite EXCEPT ![i].status = "ACCEPTED"]
    BY DEF AcceptEnd
  <2>2. invite' = [invite EXCEPT ![i] = used]
    BY <2>1
  <2> QED BY <2>2 DEF AcceptEnd
<1>2. i \in Invites /\ Accepting(c, i)
  BY <1>1 DEF MemberInv, AdmissionsFit, AdmissionFits, Accepting
<1>3. /\ invite[i].status = "PENDING" /\ accepted[i] = 0 /\ u \in People /\ invite[i].by \in People
      /\ d.existing # "NONE" => member[u].status # "NONE"
      /\ \A e \in Admissions : Accepting(e, i) => e = c
  BY <1>2 DEF MemberInv, ClaimsAlone, OpenUnused, ClaimFits
<1>4. /\ invite[i] \in InviteRow /\ member[u] \in MemberRow
      /\ "OWNER" \in invite[i].roles => invite[i].by \in founders
  BY <1>2, <1>3 DEF MemberInv, MembersTyped, OwnersKnown
<1>5. /\ used \in InviteRow /\ used.status = "ACCEPTED" /\ used.to = u
      /\ used.by = invite[i].by /\ used.roles = invite[i].roles /\ invite[i].roles \in SUBSET Roles
  BY <1>4 DEF InviteRow
<1>6. /\ roles \in SUBSET Assignment
      /\ \A a \in roles : a \in member[u].roles \/ (a.role \in invite[i].roles /\ a.by = invite[i].by)
  BY <1>3, <1>5, ReplacedRoles
<1>7. row \in MemberRow /\ row.status # "NONE" /\ row.roles = roles
  BY <1>3, <1>4, <1>6 DEF MemberRow
<1>8. \A a \in roles : a.role = "OWNER" => a.by \in founders' /\ u \in founders'
  <2> SUFFICES ASSUME NEW a \in roles, a.role = "OWNER" PROVE a.by \in founders' /\ u \in founders'
    OBVIOUS
  <2>1. CASE a \in member[u].roles
    BY <2>1, <1>1, <1>3 DEF MemberInv, OwnersKnown, OwnersMakeOwners, IsOwner, RolesOf
  <2>2. CASE a.role \in invite[i].roles /\ a.by = invite[i].by
    BY <2>2, <1>1, <1>4
  <2> QED BY <2>1, <2>2, <1>6
<1> HIDE DEF row, used
<1>9. invite'[i] = used /\ \A j \in Invites : j # i => invite'[j] = invite[j]
  BY <1>1, <1>2 DEF MemberInv, MembersTyped
<1>10. \A j \in Invites : "OWNER" \in invite'[j].roles => invite'[j].by \in founders
  BY <1>4, <1>5, <1>9 DEF MemberInv, OwnersKnown
<1>11. NoneLeaves /\ OwnersKnown'
  <2>1. founders \subseteq founders' /\ founders' \subseteq founders \cup {u}
    BY <1>1
  <2>2. \A a \in row.roles : a.role = "OWNER" => a.by \in founders' /\ u \in founders'
    BY <1>7, <1>8
  <2> QED BY <2>1, <2>2, <1>1, <1>3, <1>7, <1>10, MemberChanges
<1>12. AdmissionsFit'
  BY <1>1, <1>11, LeaveFits, AdmissionsStay DEF Leave
<1>13. /\ admission' = [e \in Admissions |-> admission'[e]]
       /\ \A e \in Admissions, j \in Invites :
            Accepting(e, j)' => e # c /\ Accepting(e, j) /\ admission'[e] = admission[e]
  BY <1>1, LeaveLeaves
<1>14. accepted'[i] = 1 /\ (\A j \in Invites : j # i => accepted'[j] = accepted[j])
       /\ accepted' \in [Invites -> Nat]
  BY <1>1, <1>2, <1>3 DEF MemberInv, MembersTyped
<1>15. MembersTyped'
  BY <1>1, <1>2, <1>3, <1>5, <1>7, <1>13, <1>14 DEF MemberInv, MembersTyped
<1>16. ClaimsAlone'
  <2>1. ASSUME NEW e \in Admissions, NEW j \in Invites, Accepting(e, j)' PROVE ClaimFits(e, j)'
    <3>1. Accepting(e, j) /\ admission'[e] = admission[e] /\ e # c
      BY <2>1, <1>13
    <3>2. j # i
      BY <3>1, <1>3
    <3>3. invite'[j] = invite[j] /\ invite[j].status = "PENDING" /\ invite[j].to \in People
      BY <3>1, <3>2, <1>9 DEF MemberInv, ClaimsAlone, OpenUnused, ClaimFits
    <3> QED BY <3>1, <3>3, <1>11, <1>13 DEF MemberInv, ClaimsAlone, OpenUnused, ClaimFits,
               NoneLeaves
  <2>2. \A e \in Admissions, j \in Invites : ClaimFits(e, j)'
    BY <2>1 DEF ClaimFits
  <2>3. \A j \in Invites : OpenUnused(j)'
    BY <1>5, <1>9, <1>14 DEF MemberInv, ClaimsAlone, OpenUnused, ClaimFits
  <2> QED BY <2>2, <2>3 DEF ClaimsAlone
<1>17. InvitationUsedOnce'
  <2>1. \A j \in Invites : accepted'[j] <= 1 /\ invite'[j].to = invite[j].to
                         /\ (accepted[j] > 0 => accepted'[j] > 0)
    BY <1>3, <1>5, <1>9, <1>14 DEF MemberInv, InvitationUsedOnce
  <2>2. ASSUME NEW v \in People, member'[v].status # "NONE"
        PROVE  (\E a \in founders' : v = a) \/ \E j \in Invites : invite'[j].to = v /\ accepted'[j] > 0
    <3>1. CASE v = u
      BY <3>1, <2>1, <1>2, <1>14
    <3>2. CASE v # u
      <4>1. member[v].status # "NONE"
        BY <2>2, <3>2, <1>1 DEF MemberInv, MembersTyped
      <4>2. (\E a \in founders : v = a) \/ \E j \in Invites : invite[j].to = v /\ accepted[j] > 0
        BY <4>1 DEF MemberInv, InvitationUsedOnce
      <4> QED BY <4>2, <2>1, <1>1
    <3> QED BY <3>1, <3>2
  <2> QED BY <2>1, <2>2 DEF InvitationUsedOnce
<1> QED BY <1>11, <1>12, <1>15, <1>16, <1>17 DEF MemberInv

\* The organization is created while it has no members: nothing refers to a founder.
LEMMA FoundingKeeps ==
  ASSUME MemberInv, NEW u \in People, CreateOrganization(u)
  PROVE  MemberInv'
<1> DEFINE row == [NoMember EXCEPT !.status = "ACTIVE", !.roles = Assigned({"OWNER"}, u, 0)]
<1>1. /\ \A v \in People : member[v] = NoMember
      /\ member' = [member EXCEPT ![u] = row] /\ founders' = {u}
      /\ UNCHANGED <<invite, admission, accepted>>
  BY DEF CreateOrganization
<1>2. founders = {}
  BY <1>1 DEF MemberInv, OwnersKnown, MembersTyped, NoMember
<1>3. row \in MemberRow /\ row.status = "ACTIVE" /\ \A a \in row.roles : a.by = u
  <2>1. /\ Assigned({"OWNER"}, u, 0) \in SUBSET Assignment
        /\ \A a \in Assigned({"OWNER"}, u, 0) : a.by = u
    BY DEF Assigned, Assignment, Roles
  <2> QED BY <2>1 DEF MemberRow, NoMember
<1>4. \A i \in Invites : "OWNER" \in invite'[i].roles => invite'[i].by \in founders
  BY <1>1 DEF MemberInv, OwnersKnown
<1> HIDE DEF row
<1>5. NoneLeaves /\ OwnersKnown'
  <2>1. row.status # "NONE" /\ founders \subseteq founders' /\ founders' \subseteq founders \cup {u}
        /\ \A a \in row.roles : a.role = "OWNER" => a.by \in founders' /\ u \in founders'
    BY <1>1, <1>2, <1>3
  <2> QED BY <2>1, <1>1, <1>3, <1>4, MemberChanges
<1>6. AdmissionsFit'
  <2> SUFFICES ASSUME NEW e \in Admissions PROVE AdmissionFits(admission[e])'
    BY DEF AdmissionsFit
  <2> PICK r : r = admission[e]
    OBVIOUS
  <2>1. AdmissionFits(r)'
    BY <1>5 DEF MemberInv, AdmissionsFit, AdmissionFits, NoneLeaves
  <2> QED BY <2>1, <1>1 DEF AdmissionFits
<1>7. ClaimsAlone'
  <2>1. \A e \in Admissions, j \in Invites :
          Accepting(e, j)' => Accepting(e, j) /\ admission'[e] = admission[e]
    BY <1>1 DEF Accepting
  <2> QED BY <2>1, <1>1, <1>5, ClaimsStay
<1>8. MembersTyped'
  BY <1>1, <1>3 DEF MemberInv, MembersTyped
<1>9. InvitationUsedOnce'
  <2>1. \A v \in People : member'[v].status # "NONE" => v = u
    BY <1>1 DEF NoMember, MemberInv, MembersTyped
  <2> QED BY <2>1, <1>1 DEF MemberInv, InvitationUsedOnce
<1> QED BY <1>5, <1>6, <1>7, <1>8, <1>9 DEF MemberInv

LEMMA RestKeeps ==
  ASSUME MemberInv,
         \/ \E u \in People, keys \in SUBSET {"own", "admin"} : SetCustomRole(u, keys)
         \/ UNCHANGED membershipVars
  PROVE  MemberInv'
<1>1. UNCHANGED <<member, invite, admission, founders, accepted>>
  BY DEF SetCustomRole, membershipVars
<1>2. MembersTyped' /\ OwnersKnown' /\ AdmissionsFit' /\ InvitationUsedOnce'
  BY <1>1 DEF MemberInv, MembersTyped, OwnersKnown, OwnersMakeOwners, IsOwner, RolesOf,
     AdmissionsFit,
              AdmissionFits, InvitationUsedOnce
<1>3. ClaimsAlone'
  BY <1>1 DEF MemberInv, ClaimsAlone, OpenUnused, ClaimFits, Accepting
<1> QED BY <1>2, <1>3 DEF MemberInv

LEMMA MembershipStep == MembershipAssumption /\ MemberInv /\ [MembershipNext]_membershipVars => MemberInv'
BY AdmissionReadsKeep, AcceptBeginKeeps, InviteWritesKeep, StatusWriteKeeps, RolesEndKeeps,
   AcceptEndKeeps,
   FoundingKeeps, RestKeeps DEF MembershipNext

\* RolesEarned for any number of people, invitations and calls at once: nobody is in
\* the organization, or its owner, who was not let in by an owner.
THEOREM RolesStayEarned == MembershipSpec => []RolesEarned
<1>1. MemberInv => RolesEarned
  BY DEF MemberInv, OwnersKnown, RolesEarned
<1> QED BY <1>1, MembersStart, MembershipStep, MembershipAssumption, PTL DEF MembershipSpec

-----------------------------------------------------------------------------
(***************************************************************************)
(* Sessions.                                                               *)
(*                                                                         *)
(* For any number of sessions, refresh tokens, challenges and calls.       *)
(***************************************************************************)

\* A challenge that call c has claimed and not yet turned into a session.
Holds(c, k) == caller[c].op \in {"login", "open"} /\ k \in caller[c].by

Known(s) == session[s].status # "NONE"
Revoked(s) == session[s].status = "REVOKED"

SessionRow == [status : {"NONE", "ACTIVE", "REVOKED"}, inOrg : BOOLEAN]
TokenRow == [exists : BOOLEAN, consumed : BOOLEAN, revoked : BOOLEAN, session : SessionIds \cup {"none"}]

Tables ==
  /\ account \in [version : Nat, mfa : BOOLEAN, membership : {"ACTIVE", "SUSPENDED"}]
  /\ session \in [SessionIds -> SessionRow]
  /\ refresh \in [RefreshTokens -> TokenRow]
  /\ challenge \in [Challenges -> {"NONE", "OPEN", "CONSUMED"}]
  /\ opened \in [Challenges -> SUBSET SessionIds] /\ ended \subseteq SessionIds
  /\ caller = [c \in Callers |-> caller[c]]

\* Where a call stands, and what it may rely on there: sessions and tokens it
\* names exist, a login after a second factor has a proof, and a sign-out has
\* ended what it promised or has it still on its list.
CallFits(r) ==
  /\ r.op \in {"rests", "mfa", "login", "open", "family", "familySession", "context", "rotate",
               "replace", "list", "revoke", "tokens", "told", "switch"}
  /\ r.op = "mfa" => r.challenge \in Challenges
  /\ r.op \in {"login", "open"} => r.by \subseteq Challenges /\ (account.mfa => r.by # {})
  /\ r.op = "open" => r.inOrg \in BOOLEAN
  /\ r.op \in {"family", "familySession", "switch"} =>
       r \in [op : {r.op}, session : SessionIds] /\ Known(r.session)
  /\ r.op \in {"context", "rotate", "replace"} => r.token \in RefreshTokens /\ refresh[r.token].exists
  /\ r.op = "list" => r.promised \subseteq SessionIds \ r.kept /\ \A s \in r.promised : Known(s)
  /\ r.op \in {"revoke", "tokens"} =>
       /\ r \in [op : {r.op}, session : SessionIds, rest : SUBSET SessionIds, promised : SUBSET SessionIds]
       /\ Known(r.session) /\ \A s \in r.rest : Known(s)
       /\ r.op = "tokens" => Revoked(r.session)
       /\ \A s \in r.promised : Revoked(s) \/ s \in r.rest \/ s = r.session
  /\ r.op = "told" => r.promised \subseteq SessionIds /\ \A s \in r.promised : Revoked(s)

CallsFit == \A c \in Callers : CallFits(caller[c])

TokensFit == \A t \in RefreshTokens :
  refresh[t].exists => refresh[t].session \in SessionIds /\ Known(refresh[t].session)

\* A challenge is held by one call, or has opened one session, or neither.
ProofsSpentOnce ==
  /\ \A k \in Challenges, c \in Callers :
       Holds(c, k) => /\ challenge[k] = "CONSUMED" /\ opened[k] = {}
                      /\ \A e \in Callers : Holds(e, k) => e = c
  /\ \A k \in Challenges : opened[k] # {} => challenge[k] = "CONSUMED"
  /\ \A k \in Challenges : \A s, x \in opened[k] : s = x

SessionsProven ==
  /\ \A s \in SessionIds : ~Known(s) => session[s] = NoSession
  /\ account.mfa => \A s \in SessionIds : Known(s) => \E k \in Challenges : s \in opened[k]

SessionInv ==
  Tables /\ CallsFit /\ TokensFit /\ ProofsSpentOnce /\ SessionsProven /\ SignedOutStaysOut

-----------------------------------------------------------------------------
LEMMA AtMostOneMember ==
  ASSUME NEW S, \A x, y \in S : x = y
  PROVE  Cardinality(S) <= 1
<1>1. CASE S = {}
  BY <1>1, FS_EmptySet
<1>2. ASSUME NEW x \in S PROVE Cardinality(S) <= 1
  <2>1. S = {x}
    OBVIOUS
  <2> QED BY <2>1, FS_Singleton
<1> QED BY <1>1, <1>2

LEMMA SessionsStart == SessionInit => SessionInv
<1> SUFFICES ASSUME SessionInit PROVE SessionInv
  OBVIOUS
<1>1. Tables
  BY DEF Tables, SessionRow, TokenRow, SessionInit, NoSession, NoToken, Rests
<1>2. CallsFit
  BY DEF CallsFit, CallFits, SessionInit, Rests
<1>3. TokensFit /\ SessionsProven /\ SignedOutStaysOut
  BY DEF TokensFit, SessionsProven, SignedOutStaysOut, Known, SessionInit, NoToken, NoSession
<1>4. ProofsSpentOnce
  BY DEF ProofsSpentOnce, Holds, SessionInit, Rests
<1> QED BY <1>1, <1>2, <1>3, <1>4 DEF SessionInv

\* Sessions and tokens that are there stay, ended sessions stay ended.
Grows ==
  /\ \A s \in SessionIds : (Known(s) => Known(s)') /\ (Revoked(s) => Revoked(s)')
  /\ \A t \in RefreshTokens : refresh[t].exists => refresh'[t].exists
  /\ account'.mfa = account.mfa

\* What a call relies on is not taken from it by another.
LEMMA FitsStays ==
  ASSUME Grows, NEW r, CallFits(r)
  PROVE  CallFits(r)'
<1>1. r.op \in {"login", "open"} => (account'.mfa => r.by # {})
  BY DEF CallFits, Grows
<1>2. r.op \in {"family", "familySession", "switch"} => r.session \in SessionIds /\ Known(r.session)'
  BY DEF CallFits, Grows
<1>3. r.op \in {"context", "rotate", "replace"} => refresh'[r.token].exists
  BY DEF CallFits, Grows
<1>4. r.op = "list" => \A s \in r.promised : Known(s)'
  BY DEF CallFits, Grows
<1>5. r.op \in {"revoke", "tokens"} =>
       /\ Known(r.session)' /\ \A s \in r.rest : Known(s)'
       /\ r.op = "tokens" => Revoked(r.session)'
       /\ \A s \in r.promised : Revoked(s)' \/ s \in r.rest \/ s = r.session
  BY DEF CallFits, Grows
<1>6. r.op = "told" => \A s \in r.promised : Revoked(s)'
  BY DEF CallFits, Grows
<1> QED BY <1>1, <1>2, <1>3, <1>4, <1>5, <1>6 DEF CallFits

\* A statement of call c that takes no challenge and opens no session.
LEMMA CallMoves ==
  ASSUME SessionInv, NEW c \in Callers, NEW step, caller' = [caller EXCEPT ![c] = step],
         CallFits(step)', step.op \in {"login", "open"} => \A k \in step.by : Holds(c, k),
         Tables', TokensFit', Grows, UNCHANGED <<challenge, opened>>,
         \A s \in SessionIds : (Known(s)' => Known(s)) /\ (~Known(s) => session'[s] = session[s]),
         SignedOutStaysOut'
  PROVE  SessionInv'
<1>1. caller'[c] = step /\ \A e \in Callers : e # c => caller'[e] = caller[e]
  BY DEF SessionInv, Tables
<1>2. CallsFit'
  <2> SUFFICES ASSUME NEW e \in Callers PROVE CallFits(caller[e])'
    BY DEF CallsFit
  <2>1. CASE e = c
    BY <1>1, <2>1 DEF CallFits, Known, Revoked
  <2>2. CASE e # c
    <3> PICK r : r = caller[e]
      OBVIOUS
    <3>1. CallFits(r) /\ caller'[e] = r
      BY <1>1, <2>2 DEF SessionInv, CallsFit
    <3>2. CallFits(r)'
      BY <3>1, FitsStays
    <3> QED BY <3>1, <3>2 DEF CallFits, Known, Revoked
  <2> QED BY <2>1, <2>2
<1>3. \A e \in Callers, k \in Challenges : Holds(e, k)' => Holds(e, k)
  BY <1>1 DEF Holds
<1>4. ProofsSpentOnce'
  BY <1>3 DEF SessionInv, ProofsSpentOnce
<1>5. SessionsProven'
  BY DEF SessionInv, SessionsProven, Grows, Known
<1> QED BY <1>2, <1>4, <1>5 DEF SessionInv

\* A statement that writes no row: it only moves its call on.
LEMMA CallReads ==
  ASSUME SessionInv, NEW c \in Callers, NEW step, caller' = [caller EXCEPT ![c] = step],
         CallFits(step), step.op \in {"login", "open"} => \A k \in step.by : Holds(c, k),
         UNCHANGED <<session, refresh, challenge, opened, ended>>,
         account' = account \/ account' = [account EXCEPT !.version = @ + 1]
  PROVE  SessionInv'
<1>0. account'.mfa = account.mfa
      /\ account' \in [version : Nat, mfa : BOOLEAN, membership : {"ACTIVE", "SUSPENDED"}]
  BY DEF SessionInv, Tables
<1>1. Grows /\ Tables'
  <2>1. Grows
    BY <1>0 DEF Grows, Known, Revoked
  <2>2. caller' = [e \in Callers |-> caller'[e]]
    BY DEF SessionInv, Tables
  <2> QED BY <1>0, <2>1, <2>2 DEF SessionInv, Tables
<1>2. CallFits(step)'
  BY <1>1, FitsStays
<1>3. TokensFit' /\ SignedOutStaysOut'
  BY DEF SessionInv, TokensFit, SignedOutStaysOut, Known
<1>4. \A s \in SessionIds : (Known(s)' => Known(s)) /\ (~Known(s) => session'[s] = session[s])
  BY DEF Known
<1> QED BY <1>1, <1>2, <1>3, <1>4, CallMoves

\* A call of logout has the sessions it promised to end on its list.
LEMMA RevokingFits ==
  ASSUME NEW list \in SUBSET SessionIds, NEW promised \in SUBSET SessionIds,
         \A s \in list : Known(s), \A s \in promised : Revoked(s) \/ s \in list,
         NEW step \in Revoking(list, promised)
  PROVE  CallFits(step) /\ step.op \notin {"login", "open"}
<1>1. CASE list = {}
  <2>1. step = [op |-> "told", promised |-> promised]
    BY <1>1 DEF Revoking
  <2> QED BY <1>1, <2>1 DEF CallFits
<1>2. CASE list # {}
  <2>1. PICK s \in list : step = [op |-> "revoke", session |-> s, rest |-> list \ {s}, promised |-> promised]
    BY <1>2 DEF Revoking
  <2> QED BY <2>1 DEF CallFits
<1> QED BY <1>1, <1>2

\* Calls that have read something, were refused, or have told their caller.
LEMMA ReadsKeep ==
  ASSUME SessionInv, NEW c \in Callers,
         \/ Breaks(c) \/ Login(c) \/ LoginRead(c) \/ RotateRead(c) \/ SignOutList(c)
         \/ \E k \in Challenges : MfaRead(c, k)
         \/ \E t \in RefreshTokens : RefreshRead(c, t)
         \/ \E s \in SessionIds : Logout(c, s) \/ SwitchRead(c, s)
         \/ \E kept \in SUBSET SessionIds : SignOut(c, kept)
  PROVE  SessionInv'
<1> USE DEF Goes, Begins
<1> PICK r : r = caller[c]
  OBVIOUS
<1>r. CallFits(r)
  BY DEF SessionInv, CallsFit
<1>s. \A s \in SessionIds : session[s].status = "ACTIVE" => Known(s)
  BY DEF Known
<1>1. CASE Breaks(c)
  <2>1. CallFits(Rests) /\ Rests.op \notin {"login", "open"}
    BY DEF CallFits, Rests
  <2> QED BY <1>1, <2>1, CallReads DEF Breaks
<1>2. CASE Login(c)
  <2> DEFINE step == [op |-> "login", by |-> {}]
  <2>1. CallFits(step) /\ \A k \in step.by : Holds(c, k)
    BY <1>2 DEF Login, CallFits
  <2>2. caller' = [caller EXCEPT ![c] = step]
        /\ UNCHANGED <<account, session, refresh, challenge, opened, ended>>
    BY <1>2 DEF Login
  <2> HIDE DEF step
  <2> QED BY <2>1, <2>2, CallReads
<1>3. CASE LoginRead(c)
  <2> DEFINE step == [op |-> "open", by |-> r.by, inOrg |-> account.membership = "ACTIVE"]
  <2>0. r.op = "login"
    BY <1>3 DEF LoginRead
  <2>1. CallFits(step)
    BY <1>r, <2>0 DEF CallFits
  <2>2. \A k \in step.by : Holds(c, k)
    BY <2>0 DEF Holds
  <2>3. caller' = [caller EXCEPT ![c] = step]
        /\ UNCHANGED <<account, session, refresh, challenge, opened, ended>>
    BY <1>3 DEF LoginRead
  <2> HIDE DEF step
  <2> QED BY <2>1, <2>2, <2>3, CallReads
<1>4. CASE RotateRead(c)
  <2> DEFINE step == [op |-> "replace", token |-> r.token]
  <2>0. r.op = "rotate"
    BY <1>4 DEF RotateRead
  <2>1. CallFits(step) /\ step.op \notin {"login", "open"}
    BY <1>r, <2>0 DEF CallFits
  <2>2. caller' = [caller EXCEPT ![c] = step]
        /\ UNCHANGED <<account, session, refresh, challenge, opened, ended>>
    BY <1>4 DEF RotateRead
  <2> HIDE DEF step
  <2> QED BY <2>1, <2>2, CallReads
<1>5. CASE SignOutList(c)
  <2>1. r.op = "list" /\ \E step \in Revoking(ListedSessions(r.kept), r.promised) :
                            caller' = [caller EXCEPT ![c] = step]
    BY <1>5 DEF SignOutList
  <2>2. PICK step \in Revoking(ListedSessions(r.kept), r.promised) : caller' = [caller EXCEPT ![c] = step]
    BY <2>1
  <2>3. /\ ListedSessions(r.kept) \in SUBSET SessionIds /\ r.promised \in SUBSET SessionIds
        /\ \A s \in ListedSessions(r.kept) : Known(s)
    BY <1>r, <2>1 DEF ListedSessions, ActiveSessions, Known, CallFits
  <2>4. ASSUME NEW s \in r.promised PROVE Revoked(s) \/ s \in ListedSessions(r.kept)
    <3>1. s \in SessionIds \ r.kept /\ Known(s)
      BY <1>r, <2>1 DEF CallFits
    <3>2. session[s].status \in {"NONE", "ACTIVE", "REVOKED"}
      BY <3>1 DEF SessionInv, Tables, SessionRow
    <3> QED BY <3>1, <3>2 DEF ListedSessions, ActiveSessions, Known, Revoked
  <2>5. CallFits(step) /\ step.op \notin {"login", "open"}
    BY <2>2, <2>3, <2>4, RevokingFits
  <2>6. UNCHANGED <<account, session, refresh, challenge, opened, ended>>
    BY <1>5 DEF SignOutList
  <2> QED BY <2>2, <2>5, <2>6, CallReads
<1>6. ASSUME NEW k \in Challenges, MfaRead(c, k) PROVE SessionInv'
  <2> DEFINE step == [op |-> "mfa", challenge |-> k]
  <2>1. CallFits(step) /\ step.op \notin {"login", "open"}
    BY DEF CallFits
  <2>2. caller' = [caller EXCEPT ![c] = step]
        /\ UNCHANGED <<account, session, refresh, challenge, opened, ended>>
    BY <1>6 DEF MfaRead
  <2> HIDE DEF step
  <2> QED BY <2>1, <2>2, CallReads
<1>7. ASSUME NEW t \in RefreshTokens, RefreshRead(c, t) PROVE SessionInv'
  <2>1. refresh[t].exists /\ refresh[t].session \in SessionIds /\ Known(refresh[t].session)
        /\ UNCHANGED <<account, session, refresh, challenge, opened, ended>>
    BY <1>7 DEF RefreshRead, SessionInv, TokensFit
  <2> DEFINE family  == [op |-> "family", session |-> refresh[t].session]
             context == [op |-> "context", token |-> t, inOrg |-> session[refresh[t].session].inOrg]
  <2>2. CallFits(family) /\ family.op \notin {"login", "open"}
    BY <2>1 DEF CallFits
  <2>3. CallFits(context) /\ context.op \notin {"login", "open"}
    BY <2>1 DEF CallFits
  <2>4. caller' = [caller EXCEPT ![c] = family] \/ caller' = [caller EXCEPT ![c] = context]
    BY <1>7 DEF RefreshRead
  <2> HIDE DEF family, context
  <2> QED BY <2>1, <2>2, <2>3, <2>4, CallReads
<1>8. ASSUME NEW s \in SessionIds, Logout(c, s) PROVE SessionInv'
  <2>1. PICK step \in Revoking({s}, {s}) : caller' = [caller EXCEPT ![c] = step]
    BY <1>8 DEF Logout
  <2>2. Known(s) /\ UNCHANGED <<account, session, refresh, challenge, opened, ended>>
    BY <1>8, <1>s DEF Logout
  <2>3. CallFits(step) /\ step.op \notin {"login", "open"}
    BY <2>1, <2>2, RevokingFits
  <2> QED BY <2>1, <2>2, <2>3, CallReads
<1>9. ASSUME NEW s \in SessionIds, SwitchRead(c, s) PROVE SessionInv'
  <2> DEFINE step == [op |-> "switch", session |-> s]
  <2>1. Known(s) /\ caller' = [caller EXCEPT ![c] = step]
        /\ UNCHANGED <<account, session, refresh, challenge, opened, ended>>
    BY <1>9, <1>s DEF SwitchRead
  <2>2. CallFits(step) /\ step.op \notin {"login", "open"}
    BY <2>1 DEF CallFits
  <2> HIDE DEF step
  <2> QED BY <2>1, <2>2, CallReads
<1>10. ASSUME NEW kept \in SUBSET SessionIds, SignOut(c, kept) PROVE SessionInv'
  <2> DEFINE step == [op |-> "list", kept |-> kept, promised |-> ActiveSessions \ kept]
  <2>1. CallFits(step) /\ step.op \notin {"login", "open"}
    BY <1>s DEF CallFits, ActiveSessions
  <2>2. caller' = [caller EXCEPT ![c] = step] /\ account' = [account EXCEPT !.version = @ + 1]
        /\ UNCHANGED <<session, refresh, challenge, opened, ended>>
    BY <1>10 DEF SignOut
  <2> HIDE DEF step
  <2> QED BY <2>1, <2>2, CallReads
<1> QED BY <1>1, <1>2, <1>3, <1>4, <1>5, <1>6, <1>7, <1>8, <1>9, <1>10

\* A statement of call c that changes the row of a session that is there.
LEMMA SessionChanges ==
  ASSUME SessionInv, NEW c \in Callers, NEW step, caller' = [caller EXCEPT ![c] = step],
         NEW s \in SessionIds, Known(s),
         NEW row \in [status : {"ACTIVE", "REVOKED"}, inOrg : BOOLEAN],
         Revoked(s) => row.status = "REVOKED",
         session' = [session EXCEPT ![s] = row],
         CallFits(step)', step.op \notin {"login", "open"},
         UNCHANGED <<account, refresh, challenge, opened, ended>>
  PROVE  SessionInv'
<1>1. session'[s] = row /\ \A x \in SessionIds : x # s => session'[x] = session[x]
  BY DEF SessionInv, Tables
<1>2. Known(s)' /\ (Revoked(s) => Revoked(s)')
  BY <1>1 DEF Known, Revoked
<1>3. \A x \in SessionIds : (Known(x)' <=> Known(x)) /\ (Revoked(x) => Revoked(x)')
                         /\ (~Known(x) => session'[x] = session[x])
  <2> SUFFICES ASSUME NEW x \in SessionIds
               PROVE  (Known(x)' <=> Known(x)) /\ (Revoked(x) => Revoked(x)')
                      /\ (~Known(x) => session'[x] = session[x])
    OBVIOUS
  <2>1. CASE x = s
    BY <1>2, <2>1
  <2>2. CASE x # s
    BY <1>1, <2>2 DEF Known, Revoked
  <2> QED BY <2>1, <2>2
<1>4. Grows
  BY <1>3 DEF Grows
<1>5. Tables'
  <2>1. session' \in [SessionIds -> SessionRow]
    BY DEF SessionInv, Tables, SessionRow
  <2>2. caller' = [e \in Callers |-> caller'[e]]
    BY DEF SessionInv, Tables
  <2> QED BY <2>1, <2>2 DEF SessionInv, Tables
<1>6. TokensFit' /\ SignedOutStaysOut'
  <2>1. TokensFit'
    BY <1>3 DEF SessionInv, TokensFit
  <2>2. ended \subseteq SessionIds /\ \A x \in ended : Revoked(x)
    BY DEF SessionInv, SignedOutStaysOut, Revoked, Tables
  <2>3. \A x \in ended : Revoked(x)'
    BY <1>3, <2>2
  <2> QED BY <2>1, <2>3 DEF SignedOutStaysOut, Revoked
<1> QED BY <1>3, <1>4, <1>5, <1>6, CallMoves

\* A statement of call c that changes tokens: none vanishes and new ones name
\* sessions that are there.
LEMMA TokensChange ==
  ASSUME SessionInv, NEW c \in Callers, NEW step, caller' = [caller EXCEPT ![c] = step],
         CallFits(step), step.op \notin {"login", "open"},
         refresh' \in [RefreshTokens -> TokenRow],
         \A t \in RefreshTokens :
           /\ refresh[t].exists => refresh'[t].exists
           /\ refresh'[t].exists => refresh'[t].session \in SessionIds /\ Known(refresh'[t].session),
         UNCHANGED <<account, session, challenge, opened, ended>>
  PROVE  SessionInv'
<1>1. Grows
  BY DEF Grows, Known, Revoked
<1>2. CallFits(step)'
  BY <1>1, FitsStays
<1>3. caller' = [e \in Callers |-> caller'[e]]
  BY DEF SessionInv, Tables
<1>4. Tables' /\ TokensFit' /\ SignedOutStaysOut'
  BY <1>3 DEF SessionInv, Tables, TokensFit, SignedOutStaysOut, Known
<1>5. \A s \in SessionIds : (Known(s)' => Known(s)) /\ (~Known(s) => session'[s] = session[s])
  BY DEF Known
<1> QED BY <1>1, <1>2, <1>4, <1>5, CallMoves

LEMMA RestFits == CallFits(Rests) /\ CallFits(Rests)' /\ Rests.op \notin {"login", "open"}
BY DEF CallFits, Rests

\* Ends of sessions, switches, and a suspended member found by a refresh.
LEMMA SessionWritesKeep ==
  ASSUME SessionInv, NEW c \in Callers,
         RevokeSession(c) \/ FamilySession(c) \/ SwitchWrite(c) \/ RefreshContext(c)
  PROVE  SessionInv'
<1> USE DEF Goes
<1> PICK r : r = caller[c]
  OBVIOUS
<1>r. CallFits(r)
  BY DEF SessionInv, CallsFit
<1>s. \A s \in SessionIds : session[s] \in SessionRow
  BY DEF SessionInv, Tables
<1>1. CASE RevokeSession(c)
  <2> PICK s : s = r.session
    OBVIOUS
  <2>1. /\ r.op = "revoke" /\ s \in SessionIds /\ Known(s)
        /\ r \in [op : {"revoke"}, session : SessionIds, rest : SUBSET SessionIds, promised : SUBSET SessionIds]
        /\ (\A x \in r.rest : Known(x)) /\ \A x \in r.promised : Revoked(x) \/ x \in r.rest \/ x = s
    BY <1>1, <1>r DEF RevokeSession, CallFits
  <2> DEFINE row == [session[s] EXCEPT !.status = "REVOKED"]
             step == [r EXCEPT !.op = "tokens"]
  <2>2. row \in [status : {"ACTIVE", "REVOKED"}, inOrg : BOOLEAN] /\ row.status = "REVOKED"
    BY <1>s, <2>1 DEF SessionRow
  <2>3. /\ session' = [session EXCEPT ![s] = row] /\ caller' = [caller EXCEPT ![c] = step]
        /\ UNCHANGED <<account, refresh, challenge, opened, ended>>
    BY <1>1, <2>1 DEF RevokeSession
  <2>4. /\ step \in [op : {"tokens"}, session : SessionIds, rest : SUBSET SessionIds, promised : SUBSET SessionIds]
        /\ step.op = "tokens" /\ step.session = s /\ step.rest = r.rest /\ step.promised = r.promised
    BY <2>1
  <2>5. session'[s] = row /\ \A x \in SessionIds : x # s => session'[x] = session[x]
    BY <2>1, <2>3 DEF SessionInv, Tables
  <2> HIDE DEF row, step
  <2>6. \A x \in SessionIds : (Known(x) => Known(x)') /\ (Revoked(x) => Revoked(x)')
    BY <2>2, <2>5 DEF Known, Revoked
  <2>7. Revoked(s)' /\ Known(s)'
    BY <2>1, <2>2, <2>5 DEF Known, Revoked
  <2>8. CallFits(step)'
    BY <2>1, <2>4, <2>6, <2>7 DEF CallFits
  <2> QED BY <2>1, <2>2, <2>3, <2>4, <2>8, SessionChanges
<1>2. CASE FamilySession(c)
  <2> PICK s : s = r.session
    OBVIOUS
  <2>1. s \in SessionIds /\ Known(s)
    BY <1>2, <1>r DEF FamilySession, CallFits
  <2> DEFINE row == [session[s] EXCEPT !.status = "REVOKED"]
  <2>2. row \in [status : {"ACTIVE", "REVOKED"}, inOrg : BOOLEAN] /\ row.status = "REVOKED"
    BY <1>s, <2>1 DEF SessionRow
  <2>3. /\ session' = [session EXCEPT ![s] = row] /\ caller' = [caller EXCEPT ![c] = Rests]
        /\ UNCHANGED <<account, refresh, challenge, opened, ended>>
    BY <1>2, <2>1 DEF FamilySession
  <2> HIDE DEF row
  <2> QED BY <2>1, <2>2, <2>3, RestFits, SessionChanges
<1>3. CASE SwitchWrite(c)
  <2> PICK s : s = r.session
    OBVIOUS
  <2>1. s \in SessionIds /\ Known(s)
    BY <1>3, <1>r DEF SwitchWrite, CallFits
  <2> DEFINE row == [session[s] EXCEPT !.inOrg = TRUE]
  <2>2. row \in [status : {"ACTIVE", "REVOKED"}, inOrg : BOOLEAN] /\ row.status = session[s].status
    BY <1>s, <2>1 DEF Known, SessionRow
  <2>3. /\ session' = [session EXCEPT ![s] = row] /\ caller' = [caller EXCEPT ![c] = Rests]
        /\ UNCHANGED <<account, refresh, challenge, opened, ended>>
    BY <1>3, <2>1 DEF SwitchWrite
  <2>4. Revoked(s) => row.status = "REVOKED"
    BY <2>2 DEF Revoked
  <2> HIDE DEF row
  <2> QED BY <2>1, <2>2, <2>3, <2>4, RestFits, SessionChanges
<1>4. CASE RefreshContext(c)
  <2> PICK t : t = r.token
    OBVIOUS
  <2> PICK s : s = refresh[t].session
    OBVIOUS
  <2>1. t \in RefreshTokens /\ refresh[t].exists /\ s \in SessionIds /\ Known(s)
    BY <1>4, <1>r DEF RefreshContext, CallFits, SessionInv, TokensFit
  <2> DEFINE step == [op |-> "rotate", token |-> t]
             row == [session[s] EXCEPT !.inOrg = FALSE]
  <2>2. CallFits(step) /\ CallFits(step)' /\ step.op \notin {"login", "open"}
    BY <1>4, <2>1 DEF CallFits, RefreshContext
  <2>3. /\ caller' = [caller EXCEPT ![c] = step]
        /\ UNCHANGED <<account, refresh, challenge, opened, ended>>
        /\ session' = session \/ session' = [session EXCEPT ![s] = row]
    BY <1>4, <2>1 DEF RefreshContext
  <2>4. row \in [status : {"ACTIVE", "REVOKED"}, inOrg : BOOLEAN] /\ row.status = session[s].status
    BY <1>s, <2>1 DEF Known, SessionRow
  <2>5. Revoked(s) => row.status = "REVOKED"
    BY <2>4 DEF Revoked
  <2> HIDE DEF row, step
  <2>6. CASE session' = session
    BY <2>2, <2>3, <2>6, CallReads
  <2>7. CASE session' = [session EXCEPT ![s] = row]
    BY <2>1, <2>2, <2>3, <2>4, <2>5, <2>7, SessionChanges
  <2> QED BY <2>3, <2>6, <2>7
<1> QED BY <1>1, <1>2, <1>3, <1>4

\* The rotation of a token, and the end of the tokens of a session.
LEMMA TokenWritesKeep ==
  ASSUME SessionInv, NEW c \in Callers,
         RevokeTokens(c) \/ FamilyTokens(c) \/ \E n \in RefreshTokens : RotateWrite(c, n)
  PROVE  SessionInv'
<1> USE DEF Goes
<1> PICK r : r = caller[c]
  OBVIOUS
<1>r. CallFits(r)
  BY DEF SessionInv, CallsFit
<1>t. \A t \in RefreshTokens : refresh[t] \in TokenRow
  BY DEF SessionInv, Tables
<1>f. \A t \in RefreshTokens : refresh[t].exists => refresh[t].session \in SessionIds /\ Known(refresh[t].session)
  BY DEF SessionInv, TokensFit
<1>v. ASSUME NEW s, refresh' = TokensRevoked(s)
      PROVE  /\ refresh' \in [RefreshTokens -> TokenRow]
             /\ \A t \in RefreshTokens :
                  /\ refresh[t].exists => refresh'[t].exists
                  /\ refresh'[t].exists => refresh'[t].session \in SessionIds /\ Known(refresh'[t].session)
  <2>1. \A t \in RefreshTokens :
          /\ refresh'[t] \in TokenRow
          /\ refresh'[t].exists = refresh[t].exists /\ refresh'[t].session = refresh[t].session
    BY <1>v, <1>t DEF TokensRevoked, TokenRow
  <2>2. refresh' = [t \in RefreshTokens |-> refresh'[t]]
    BY <1>v DEF TokensRevoked
  <2> QED BY <2>1, <2>2, <1>f
<1>1. CASE RevokeTokens(c)
  <2>1. PICK step \in Revoking(r.rest, r.promised) : caller' = [caller EXCEPT ![c] = step]
    BY <1>1 DEF RevokeTokens
  <2>2. /\ r.op = "tokens" /\ refresh' = TokensRevoked(r.session)
        /\ UNCHANGED <<account, session, challenge, opened, ended>>
    BY <1>1 DEF RevokeTokens
  <2>3. /\ r.rest \in SUBSET SessionIds /\ r.promised \in SUBSET SessionIds
        /\ (\A s \in r.rest : Known(s)) /\ \A s \in r.promised : Revoked(s) \/ s \in r.rest
    BY <1>r, <2>2 DEF CallFits
  <2>4. CallFits(step) /\ step.op \notin {"login", "open"}
    BY <2>1, <2>3, RevokingFits
  <2> QED BY <2>1, <2>2, <2>4, <1>v, TokensChange
<1>2. CASE FamilyTokens(c)
  <2> DEFINE step == [r EXCEPT !.op = "familySession"]
  <2>1. r.op = "family" /\ r \in [op : {"family"}, session : SessionIds] /\ Known(r.session)
    BY <1>2, <1>r DEF FamilyTokens, CallFits
  <2>2. step \in [op : {"familySession"}, session : SessionIds] /\ step.op = "familySession"
        /\ step.session = r.session
    BY <2>1
  <2>3. /\ caller' = [caller EXCEPT ![c] = step] /\ refresh' = TokensRevoked(r.session)
        /\ UNCHANGED <<account, session, challenge, opened, ended>>
    BY <1>2 DEF FamilyTokens
  <2> HIDE DEF step
  <2>4. CallFits(step)
    BY <2>1, <2>2 DEF CallFits
  <2> QED BY <2>2, <2>3, <2>4, <1>v, TokensChange
<1>3. ASSUME NEW n \in RefreshTokens, RotateWrite(c, n) PROVE SessionInv'
  <2> PICK t : t = r.token
    OBVIOUS
  <2>1. t \in RefreshTokens /\ refresh[t].exists /\ refresh[n] = NoToken
    BY <1>3, <1>r DEF RotateWrite, CallFits
  <2>2. t # n
    BY <2>1 DEF NoToken
  <2> PICK old : old = [refresh[t] EXCEPT !.consumed = TRUE]
    OBVIOUS
  <2> PICK new : new = Fresh(refresh[t].session)
    OBVIOUS
  <2>3. /\ caller' = [caller EXCEPT ![c] = Rests]
        /\ refresh' = [refresh EXCEPT ![t] = old, ![n] = new]
        /\ UNCHANGED <<account, session, challenge, opened, ended>>
    BY <1>3, <2>1 DEF RotateWrite
  <2>4. /\ old \in TokenRow
        /\ old.exists = refresh[t].exists /\ old.session = refresh[t].session
    BY <1>t, <2>1 DEF TokenRow
  <2>5. /\ new \in TokenRow
        /\ new.exists /\ new.session = refresh[t].session
    BY <1>f, <2>1 DEF Fresh, NoToken, TokenRow
  <2>6. /\ refresh'[t] = old /\ refresh'[n] = new
        /\ \A u \in RefreshTokens \ {t, n} : refresh'[u] = refresh[u]
    BY <2>1, <2>2, <2>3 DEF SessionInv, Tables, TokenRow
  <2>7. refresh' \in [RefreshTokens -> TokenRow]
    BY <2>3, <2>4, <2>5 DEF SessionInv, Tables
  <2>8. \A u \in RefreshTokens :
          /\ refresh[u].exists => refresh'[u].exists
          /\ refresh'[u].exists => refresh'[u].session \in SessionIds /\ Known(refresh'[u].session)
    BY <2>1, <2>4, <2>5, <2>6, <1>f DEF TokenRow
  <2> QED BY <2>3, <2>7, <2>8, RestFits, TokensChange
<1> QED BY <1>1, <1>2, <1>3

\* What the memberships do to sessions is no call's statement.
LEMMA MembershipsKeep ==
  ASSUME SessionInv, Suspend \/ Reinstate \/ UNCHANGED sessionVars
  PROVE  SessionInv'
<1>1. /\ UNCHANGED <<refresh, challenge, caller, opened, ended>> /\ account'.mfa = account.mfa
      /\ account' \in [version : Nat, mfa : BOOLEAN, membership : {"ACTIVE", "SUSPENDED"}]
  BY DEF Suspend, Reinstate, sessionVars, SessionInv, Tables
<1>2. /\ session' \in [SessionIds -> SessionRow]
      /\ \A s \in SessionIds : session'[s].status = session[s].status
                            /\ (session[s].status = "NONE" => session'[s] = session[s])
  <2>1. session \in [SessionIds -> SessionRow]
    BY DEF SessionInv, Tables
  <2>2. CASE UNCHANGED session
    BY <2>1, <2>2
  <2>3. CASE session' = [s \in SessionIds |-> IF session[s].status = "ACTIVE"
                                      THEN [session[s] EXCEPT !.inOrg = FALSE] ELSE session[s]]
    <3>1. \A s \in SessionIds : /\ [session[s] EXCEPT !.inOrg = FALSE] \in SessionRow
                              /\ [session[s] EXCEPT !.inOrg = FALSE].status = session[s].status
      BY <2>1 DEF SessionRow
    <3> QED BY <2>1, <2>3, <3>1
  <2> QED BY <2>2, <2>3 DEF Suspend, Reinstate, sessionVars
<1>3. Grows /\ \A s \in SessionIds : Known(s)' <=> Known(s)
  BY <1>1, <1>2 DEF Grows, Known, Revoked
<1>4. CallsFit'
  <2> SUFFICES ASSUME NEW e \in Callers PROVE CallFits(caller[e])'
    BY DEF CallsFit
  <2> PICK r : r = caller[e]
    OBVIOUS
  <2>1. CallFits(r)' /\ caller'[e] = r
    BY <1>1, <1>3, FitsStays DEF SessionInv, CallsFit
  <2> QED BY <2>1 DEF CallFits, Known, Revoked
<1>5. Tables' /\ TokensFit' /\ ProofsSpentOnce'
  BY <1>1, <1>2, <1>3 DEF SessionInv, Tables, TokensFit, ProofsSpentOnce, Holds
<1>6. SessionsProven'
  BY <1>1, <1>2, <1>3 DEF SessionInv, SessionsProven, Known
<1>7. SignedOutStaysOut'
  BY <1>1, <1>2 DEF SessionInv, SignedOutStaysOut, Tables
<1> QED BY <1>4, <1>5, <1>6, <1>7 DEF SessionInv

LEMMA ChallengesKeep ==
  ASSUME SessionInv,
         (\E k \in Challenges : LoginChallenge(k)) \/ (\E c \in Callers : MfaClaim(c))
  PROVE  SessionInv'
<1>1. /\ UNCHANGED <<account, session, refresh, opened, ended>>
      /\ challenge' \in [Challenges -> {"NONE", "OPEN", "CONSUMED"}]
      /\ caller' = [e \in Callers |-> caller'[e]]
      /\ \A k \in Challenges : challenge[k] = "CONSUMED" => challenge'[k] = "CONSUMED"
  BY DEF LoginChallenge, MfaClaim, Goes, ChallengeOpen, SessionInv, Tables
<1>2. Grows /\ Tables' /\ TokensFit' /\ SessionsProven' /\ SignedOutStaysOut'
  BY <1>1 DEF Grows, Known, Revoked, SessionInv, Tables, TokensFit, SessionsProven,
     SignedOutStaysOut
<1>3. CASE \E k \in Challenges : LoginChallenge(k)
  <2>1. caller' = caller
    BY <1>3 DEF LoginChallenge
  <2>2. CallsFit'
    <3> SUFFICES ASSUME NEW e \in Callers PROVE CallFits(caller[e])'
      BY DEF CallsFit
    <3> PICK r : r = caller[e]
      OBVIOUS
    <3>1. CallFits(r)' /\ caller'[e] = r
      BY <2>1, <1>2, FitsStays DEF SessionInv, CallsFit
    <3> QED BY <3>1 DEF CallFits, Known, Revoked
  <2>3. ProofsSpentOnce'
    BY <1>1, <2>1 DEF SessionInv, ProofsSpentOnce, Holds
  <2> QED BY <1>2, <2>2, <2>3 DEF SessionInv
<1>4. ASSUME NEW c \in Callers, MfaClaim(c) PROVE SessionInv'
  <2> PICK k : k = caller[c].challenge
    OBVIOUS
  <2> DEFINE step == [op |-> "login", by |-> {k}]
  <2>1. /\ k \in Challenges /\ challenge[k] = "OPEN" /\ caller' = [caller EXCEPT ![c] = step]
        /\ challenge' = [challenge EXCEPT ![k] = "CONSUMED"]
    BY <1>4 DEF MfaClaim, ChallengeOpen, Goes, SessionInv, CallsFit, CallFits
  <2>2. CallFits(step)'
    BY <2>1 DEF CallFits
  <2>3. /\ caller'[c] = step /\ step.op = "login" /\ step.by = {k}
        /\ \A e \in Callers : e # c => caller'[e] = caller[e]
    BY <2>1 DEF SessionInv, Tables
  <2> HIDE DEF step
  <2>4. CallsFit'
    <3> SUFFICES ASSUME NEW e \in Callers PROVE CallFits(caller[e])'
      BY DEF CallsFit
    <3>1. CASE e = c
      BY <2>2, <2>3, <3>1 DEF CallFits, Known, Revoked
    <3>2. CASE e # c
      <4> PICK r : r = caller[e]
        OBVIOUS
      <4>1. CallFits(r)' /\ caller'[e] = r
        BY <2>3, <3>2, <1>2, FitsStays DEF SessionInv, CallsFit
      <4> QED BY <4>1 DEF CallFits, Known, Revoked
    <3> QED BY <3>1, <3>2
  <2>5. opened[k] = {} /\ \A e \in Callers : ~Holds(e, k)
    BY <2>1 DEF SessionInv, ProofsSpentOnce
  <2>6. \A e \in Callers, g \in Challenges :
          Holds(e, g)' <=> (IF e = c THEN g = k ELSE Holds(e, g))
    BY <2>3 DEF Holds
  <2>7. challenge'[k] = "CONSUMED" /\ \A g \in Challenges : g # k => challenge'[g] = challenge[g]
    BY <2>1 DEF SessionInv, Tables
  <2>8. ProofsSpentOnce'
    <3>1. ASSUME NEW g \in Challenges, NEW e \in Callers, Holds(e, g)'
          PROVE  /\ challenge'[g] = "CONSUMED" /\ opened'[g] = {}
                 /\ \A f \in Callers : Holds(f, g)' => f = e
      <4>1. CASE g = k
        BY <4>1, <3>1, <2>5, <2>6, <2>7, <1>1
      <4>2. CASE g # k
        BY <4>2, <3>1, <2>6, <2>7, <1>1 DEF SessionInv, ProofsSpentOnce
      <4> QED BY <4>1, <4>2
    <3>2. \A g \in Challenges : opened'[g] # {} => challenge'[g] = "CONSUMED"
      BY <1>1 DEF SessionInv, ProofsSpentOnce
    <3>3. \A g \in Challenges : \A s, x \in opened'[g] : s = x
      BY <1>1 DEF SessionInv, ProofsSpentOnce
    <3> QED BY <3>1, <3>2, <3>3 DEF ProofsSpentOnce
  <2> QED BY <1>2, <2>4, <2>8 DEF SessionInv
<1> QED BY <1>3, <1>4

\* The session that a login opens spends the challenge the login holds.
LEMMA LoginKeeps ==
  ASSUME SessionInv, NEW c \in Callers, NEW n \in SessionIds, NEW t \in RefreshTokens,
         LoginWrite(c, n, t)
  PROVE  SessionInv'
<1> PICK r : r = caller[c]
  OBVIOUS
<1> PICK row : row = [status |-> "ACTIVE", inOrg |-> r.inOrg]
  OBVIOUS
<1> PICK token : token = Fresh(n)
  OBVIOUS
<1>1. /\ r.op = "open" /\ session[n] = NoSession /\ refresh[t] = NoToken
      /\ session' = [session EXCEPT ![n] = row] /\ refresh' = [refresh EXCEPT ![t] = token]
      /\ opened' = [k \in Challenges |-> opened[k] \cup (IF k \in r.by THEN {n} ELSE {})]
      /\ caller' = [caller EXCEPT ![c] = Rests] /\ UNCHANGED <<account, challenge, ended>>
  BY DEF LoginWrite, Goes
<1>2. r.by \subseteq Challenges /\ (account.mfa => r.by # {}) /\ row \in SessionRow
      /\ row.status = "ACTIVE"
  BY <1>1 DEF SessionInv, CallsFit, CallFits, SessionRow
<1>3. token \in TokenRow /\ token.exists /\ token.session = n
  BY DEF Fresh, NoToken, TokenRow
<1>4. /\ session'[n] = row /\ ~Known(n) /\ ~Revoked(n) /\ Known(n)'
      /\ \A s \in SessionIds : s # n => session'[s] = session[s]
  BY <1>1, <1>2 DEF SessionInv, Tables, Known, Revoked, NoSession
<1>5. /\ refresh'[t] = token /\ ~refresh[t].exists
      /\ \A u \in RefreshTokens : u # t => refresh'[u] = refresh[u]
  BY <1>1 DEF SessionInv, Tables, NoToken
<1>6. \A s \in SessionIds : (Known(s) => Known(s)') /\ (Revoked(s) => Revoked(s)')
  BY <1>4 DEF Known, Revoked
<1>7. Grows
  BY <1>1, <1>3, <1>5, <1>6 DEF Grows
<1>8. Tables'
  BY <1>1, <1>2, <1>3 DEF SessionInv, Tables
<1>9. CallsFit'
  <2> SUFFICES ASSUME NEW e \in Callers PROVE CallFits(caller[e])'
    BY DEF CallsFit
  <2>1. caller'[c] = Rests /\ \A f \in Callers : f # c => caller'[f] = caller[f]
    BY <1>1 DEF SessionInv, Tables
  <2>2. CASE e = c
    BY <2>1, <2>2, RestFits DEF CallFits, Known, Revoked
  <2>3. CASE e # c
    <3> PICK q : q = caller[e]
      OBVIOUS
    <3>1. CallFits(q)' /\ caller'[e] = q
      BY <2>1, <2>3, <1>7, FitsStays DEF SessionInv, CallsFit
    <3> QED BY <3>1 DEF CallFits, Known, Revoked
  <2> QED BY <2>2, <2>3
<1>10. TokensFit'
  <2> SUFFICES ASSUME NEW u \in RefreshTokens, refresh'[u].exists
               PROVE  refresh'[u].session \in SessionIds /\ session'[refresh'[u].session].status # "NONE"
    BY DEF TokensFit, Known
  <2>1. CASE u = t
    BY <2>1, <1>3, <1>4, <1>5 DEF Known
  <2>2. CASE u # t
    BY <2>2, <1>5, <1>6 DEF SessionInv, TokensFit, Known
  <2> QED BY <2>1, <2>2
<1>11. \A e \in Callers, k \in Challenges :
         Holds(e, k)' <=> (e # c /\ Holds(e, k))
  BY <1>1 DEF Holds, Rests, SessionInv, Tables
<1>12. \A k \in r.by : opened[k] = {} /\ challenge[k] = "CONSUMED" /\ Holds(c, k)
                       /\ \A e \in Callers : Holds(e, k) => e = c
  BY <1>1, <1>2 DEF Holds, SessionInv, ProofsSpentOnce
<1>13. \A k \in Challenges : opened'[k] = IF k \in r.by THEN {n} ELSE opened[k]
  BY <1>1, <1>12 DEF SessionInv, Tables
<1>14. ProofsSpentOnce'
  <2>1. ASSUME NEW k \in Challenges, NEW e \in Callers, Holds(e, k)'
        PROVE  /\ challenge'[k] = "CONSUMED" /\ opened'[k] = {}
               /\ \A f \in Callers : Holds(f, k)' => f = e
    <3>1. e # c /\ Holds(e, k) /\ k \notin r.by
      BY <2>1, <1>11, <1>12
    <3> QED BY <3>1, <1>1, <1>11, <1>13 DEF SessionInv, ProofsSpentOnce
  <2>2. \A k \in Challenges : opened'[k] # {} => challenge'[k] = "CONSUMED"
    BY <1>1, <1>12, <1>13 DEF SessionInv, ProofsSpentOnce
  <2>3. \A k \in Challenges : \A s, x \in opened'[k] : s = x
    BY <1>13 DEF SessionInv, ProofsSpentOnce
  <2> QED BY <2>1, <2>2, <2>3 DEF ProofsSpentOnce
<1>15. SessionsProven'
  <2>1. \A s \in SessionIds : ~Known(s)' => session'[s] = NoSession
    BY <1>4 DEF SessionInv, SessionsProven, Known
  <2>2. ASSUME account.mfa, NEW s \in SessionIds, Known(s)'
        PROVE  \E k \in Challenges : s \in opened'[k]
    <3>1. CASE s = n
      <4>1. PICK k \in r.by : TRUE
        BY <2>2, <1>2
      <4> QED BY <4>1, <3>1, <1>2, <1>13
    <3>2. CASE s # n
      <4>1. Known(s)
        BY <2>2, <3>2, <1>4 DEF Known
      <4>2. PICK k \in Challenges : s \in opened[k]
        BY <2>2, <4>1 DEF SessionInv, SessionsProven
      <4> QED BY <4>2, <1>1
    <3> QED BY <3>1, <3>2
  <2> QED BY <2>1, <2>2, <1>1 DEF SessionsProven
<1>16. SignedOutStaysOut'
  BY <1>1, <1>6 DEF SessionInv, SignedOutStaysOut, Tables, Revoked
<1> QED BY <1>8, <1>9, <1>10, <1>14, <1>15, <1>16 DEF SessionInv

LEMMA TellKeeps ==
  ASSUME SessionInv, NEW c \in Callers, Tell(c)
  PROVE  SessionInv'
<1> PICK r : r = caller[c]
  OBVIOUS
<1>1. /\ r.op = "told" /\ caller' = [caller EXCEPT ![c] = Rests] /\ ended' = ended \cup r.promised
      /\ UNCHANGED <<account, session, refresh, challenge, opened>>
  BY DEF Tell, Goes
<1>2. r.promised \subseteq SessionIds /\ \A s \in r.promised : Revoked(s)
  BY <1>1 DEF SessionInv, CallsFit, CallFits
<1>3. Grows /\ TokensFit' /\ SignedOutStaysOut'
  BY <1>1, <1>2 DEF Grows, Known, Revoked, SessionInv, TokensFit, SignedOutStaysOut
<1>4. caller' = [e \in Callers |-> caller'[e]]
  BY <1>1 DEF SessionInv, Tables
<1>5. Tables'
  BY <1>1, <1>2, <1>4 DEF SessionInv, Tables
<1>6. \A s \in SessionIds : (Known(s)' => Known(s)) /\ (~Known(s) => session'[s] = session[s])
  BY <1>1 DEF Known
<1> QED BY <1>1, <1>3, <1>5, <1>6, RestFits, CallMoves

LEMMA SessionStep == SessionInv /\ [SessionNext]_sessionVars => SessionInv'
BY ReadsKeep, SessionWritesKeep, TokenWritesKeep, MembershipsKeep, ChallengesKeep, LoginKeeps,
   TellKeeps
   DEF SessionNext

\* SessionsSafe for any number of sessions, tokens, challenges and calls at once,
\* any of which may break off after any of its statements.
THEOREM SessionsStaySafe == SessionSpec => []SessionsSafe
<1>1. SessionInv => SessionsSafe
  <2> SUFFICES ASSUME SessionInv PROVE SessionsSafe
    OBVIOUS
  <2>1. \A k \in Challenges : Cardinality(opened[k]) <= 1
    BY AtMostOneMember DEF SessionInv, ProofsSpentOnce
  <2>2. account.mfa => \A s \in SessionIds :
                      session[s] # NoSession => \E k \in Challenges : s \in opened[k]
    BY DEF SessionInv, SessionsProven
  <2> QED BY <2>1, <2>2 DEF SessionInv, SessionsSafe, ChallengeOnce
<1> QED BY <1>1, SessionsStart, SessionStep, PTL DEF SessionSpec

-----------------------------------------------------------------------------
(***************************************************************************)
(* Gateway.                                                                *)
(*                                                                         *)
(* For any users, organizations, routes and requests under way.            *)
(***************************************************************************)

Ended(q) == q.stage \in {"none", "handled", "refused"}

MembershipRow == [active : BOOLEAN, roles : RoleSets]

\* The organization of a session is one its user is active in: a suspension clears it.
SessionsPlaced ==
  /\ rights \in [Users -> [Orgs -> MembershipRow]]
  /\ live \in [Users -> Orgs \cup {NoOrg, "ended"}]
  /\ \A u \in Users, o \in Orgs : live[u] = o => rights[u][o].active

Reachable(q, R, S) == S[q.user] = q.org /\ R[q.user][q.org].active
Holding(q, R) == RowOf(q.route).keys \cap getEffectivePermissionKeys(q.user, q.org, R) # {}

RequestRow(q) ==
  /\ q = [field \in DOMAIN q |-> q[field]]
  /\ {"stage", "user", "route", "org", "actor", "wasIn", "held", "wrote", "answer"} \subseteq DOMAIN q
  /\ q.user \in Users /\ q.org \in Orgs /\ q.wasIn \in BOOLEAN /\ q.held \in BOOLEAN

\* What a request has been recorded to be includes what it is now.
Remembers(q, R, S) ==
  /\ RequestRow(q)
  /\ Reachable(q, R, S) => q.wasIn
  /\ Holding(q, R) => q.held

\* What each guard has established when it lets the request pass.
Established(q) ==
  /\ q.stage \in {"none", "arrived", "routed", "known", "placed", "member", "admitted", "handled", "refused"}
  /\ q.stage = "known" /\ q.actor = q.org => q.wasIn
  /\ q.stage \in {"placed", "member"} => q.actor = q.org /\ q.wasIn
  /\ q.stage \in {"admitted", "handled"} /\ RowOf(q.route).scope = "organization" => q.wasIn /\ q.held

GateInv ==
  /\ SessionsPlaced
  /\ ~Ended(req) => Remembers(req, rights, live)
  /\ Established(req)

-----------------------------------------------------------------------------
LEMMA GateStart == GateAssumption /\ GateInit => GateInv
<1> SUFFICES ASSUME GateAssumption, GateInit PROVE GateInv
  OBVIOUS
<1>1. SessionsPlaced
  <2> PICK roles \in RoleSets :
           rights = [u \in Users |-> [o \in Orgs |-> [active |-> TRUE, roles |-> roles]]]
    BY DEF GateInit
  <2>1. [active |-> TRUE, roles |-> roles] \in MembershipRow
    BY DEF MembershipRow
  <2>2. rights \in [Users -> [Orgs -> MembershipRow]]
    BY <2>1
  <2>3. \A u \in Users, o \in Orgs : rights[u][o].active
    OBVIOUS
  <2>4. live \in [Users -> Orgs \cup {NoOrg, "ended"}]
    BY DEF GateInit, GateAssumption
  <2> QED BY <2>2, <2>3, <2>4 DEF SessionsPlaced
<1>2. req.stage = "none"
  BY DEF GateInit, NoRequest
<1> QED BY <1>1, <1>2 DEF GateInv, Ended, Established

\* Seen records what the caller is at the moment.
LEMMA SeenRemembers ==
  ASSUME NEW q, NEW R, NEW S, RequestRow(q), ~Ended(q)
  PROVE  /\ Remembers(Seen(q, R, S), R, S)
         /\ Established(q) => Established(Seen(q, R, S))
         /\ Seen(q, R, S).stage = q.stage
<1> PICK wrote : wrote = (q.wrote \/ ~isReadOnlyPermissionSet(getEffectivePermissionKeys(q.user, q.org, R)))
  OBVIOUS
<1> DEFINE s == [q EXCEPT !.wasIn = @ \/ Reachable(q, R, S), !.held = @ \/ Holding(q, R), !.wrote = wrote]
<1>1. Seen(q, R, S) = s
  BY DEF Seen, Ended, Reachable, Holding
<1>2. /\ s.stage = q.stage /\ s.user = q.user /\ s.route = q.route /\ s.org = q.org /\ s.actor = q.actor
      /\ s.wasIn = (q.wasIn \/ Reachable(q, R, S)) /\ s.held = (q.held \/ Holding(q, R))
  BY DEF RequestRow
<1>3. RequestRow(s)
  <2>1. DOMAIN s = DOMAIN q /\ s = [field \in DOMAIN s |-> s[field]]
    BY DEF RequestRow
  <2>2. s.user \in Users /\ s.org \in Orgs /\ s.wasIn \in BOOLEAN /\ s.held \in BOOLEAN
    BY <1>2 DEF RequestRow, Holding
  <2> HIDE DEF s
  <2> QED BY <2>1, <2>2 DEF RequestRow
<1> HIDE DEF s
<1>4. Remembers(s, R, S)
  BY <1>2, <1>3 DEF Remembers, Reachable, Holding
<1>5. Established(q) => Established(s)
  BY <1>2 DEF Established
<1> QED BY <1>1, <1>2, <1>4, <1>5

\* The invariant of the next state, of the request and the rights as they are then.
LEMMA PrimedInv ==
  ASSUME GateInv, UNCHANGED <<rights, live>>, Remembers(req', rights, live), Established(req')
  PROVE  GateInv'
<1>1. SessionsPlaced'
  BY DEF SessionsPlaced, GateInv
<1> PICK q : q = req'
  OBVIOUS
<1>2. Remembers(q, rights, live)' /\ Established(q)'
  BY DEF Remembers, Established, Reachable, Holding, RequestRow, getEffectivePermissionKeys
<1>3. Remembers(req, rights, live)' /\ Established(req)'
  BY <1>2 DEF Remembers, Established, Reachable, Holding, RequestRow, getEffectivePermissionKeys
<1> QED BY <1>1, <1>3 DEF GateInv

LEMMA ArriveKeeps ==
  ASSUME GateInv, NEW u \in Users, NEW c, NEW o \in Orgs, NEW claim, Arrive(u, c, o, claim)
  PROVE  GateInv'
<1> DEFINE q == [stage |-> "arrived", user |-> u, route |-> c.route, org |-> o,
                 claim |-> claim, web |-> c \in Calls, ifMatch |-> c.ifMatch, key |-> c.key,
                 actor |-> NoOrg, wasIn |-> FALSE, held |-> FALSE, wrote |-> FALSE,
                 answer |-> "none"]
<1>1. req' = Seen(q, rights, live) /\ UNCHANGED <<rights, live>>
  BY DEF Arrive
<1>2. RequestRow(q) /\ q.stage = "arrived"
  BY DEF RequestRow
<1>3. ~Ended(q) /\ Established(q)
  BY <1>2 DEF Ended, Established
<1> HIDE DEF q
<1>4. Remembers(req', rights, live) /\ Established(req')
  BY <1>1, <1>2, <1>3, SeenRemembers
<1> QED BY <1>1, <1>4, PrimedInv

\* A guard that lets the request pass to the next, or refuses it.
LEMMA GuardPasses ==
  ASSUME GateInv, ~Ended(req), UNCHANGED <<rights, live>>, Established(req'),
         /\ req'.user = req.user /\ req'.org = req.org /\ req'.route = req.route
         /\ req'.wasIn = req.wasIn /\ req'.held = req.held /\ RequestRow(req')
  PROVE  GateInv'
<1>1. Remembers(req', rights, live)
  BY DEF GateInv, Remembers, Reachable, Holding
<1> QED BY <1>1, PrimedInv

LEMMA RefuseKeeps ==
  ASSUME GateInv, ~Ended(req), NEW code, Refuse(code), UNCHANGED <<rights, live>>
  PROVE  GateInv'
<1>1. RequestRow(req)
  BY DEF GateInv, Remembers
<1>2. /\ RequestRow(req') /\ req'.stage = "refused"
      /\ req'.user = req.user /\ req'.org = req.org /\ req'.route = req.route
      /\ req'.wasIn = req.wasIn /\ req'.held = req.held
  BY <1>1 DEF Refuse, RequestRow
<1> QED BY <1>2, GuardPasses DEF Established

LEMMA AdvanceRow ==
  ASSUME GateInv, ~Ended(req), UNCHANGED <<rights, live>>, NEW stage, NEW actor,
         \/ req' = [req EXCEPT !.stage = stage, !.actor = actor]
         \/ req' = [req EXCEPT !.stage = stage] /\ actor = req.actor,
         \A q : /\ q.stage = stage /\ q.actor = actor
               /\ q.route = req.route /\ q.org = req.org /\ q.wasIn = req.wasIn /\ q.held = req.held
               => Established(q)
  PROVE  GateInv'
<1>1. RequestRow(req)
  BY DEF GateInv, Remembers
<1>2. /\ RequestRow(req') /\ req'.stage = stage /\ req'.actor = actor
      /\ req'.user = req.user /\ req'.org = req.org /\ req'.route = req.route
      /\ req'.wasIn = req.wasIn /\ req'.held = req.held
  BY <1>1 DEF RequestRow
<1> QED BY <1>2, GuardPasses

LEMMA MatchKeeps ==
  ASSUME GateInv, MatchRoute
  PROVE  GateInv'
<1>1. req.stage = "arrived" /\ ~Ended(req) /\ UNCHANGED <<rights, live>>
  BY DEF MatchRoute, Ended
<1>2. CASE Refuse("404 no route")
  BY <1>1, <1>2, RefuseKeeps
<1>3. CASE Row.scope = "public" /\ Advance("admitted")
  <2>1. Row.scope = "public" /\ RowOf(req.route) = Row
    BY <1>3 DEF Row
  <2> QED BY <1>1, <1>3, <2>1, AdvanceRow DEF Established, Advance
<1>4. CASE Advance("routed")
  BY <1>1, <1>4, AdvanceRow DEF Established, Advance
<1> QED BY <1>2, <1>3, <1>4 DEF MatchRoute

\* JwtAuthGuard finds the live session where the token says it is: the caller is there now.
LEMMA ReadSessionKeeps ==
  ASSUME GateAssumption, GateInv, ReadSession
  PROVE  GateInv'
<1>1. req.stage = "routed" /\ ~Ended(req) /\ UNCHANGED <<rights, live>>
  BY DEF ReadSession, Ended
<1>2. CASE Refuse("401 AUTH_REQUIRED")
  BY <1>1, <1>2, RefuseKeeps
<1>3. CASE req' = [req EXCEPT !.stage = "known", !.actor = Actor]
  <2>1. Actor = req.org => req.wasIn
    BY <1>1 DEF Actor, GateInv, Remembers, Reachable, RequestRow, SessionsPlaced, GateAssumption
  <2> PICK actor : actor = Actor
    OBVIOUS
  <2>2. req' = [req EXCEPT !.stage = "known", !.actor = actor]
    BY <1>3
  <2> QED BY <1>1, <2>1, <2>2, AdvanceRow DEF Established, Advance
<1> QED BY <1>2, <1>3 DEF ReadSession

LEMMA ReadMembershipKeeps ==
  ASSUME GateAssumption, GateInv, ReadMembership
  PROVE  GateInv'
<1> PICK actor : actor = IF req.actor # NoOrg /\ ~rights[req.user][req.actor].active THEN NoOrg ELSE req.actor
  OBVIOUS
<1>1. req.stage = "known" /\ ~Ended(req) /\ UNCHANGED <<rights, live>>
  BY DEF ReadMembership, Ended
<1>2. /\ req.actor = req.org => req.wasIn
      /\ actor = req.org => req.actor = req.org
  BY <1>1 DEF GateInv, Established, Remembers, RequestRow, GateAssumption
<1>3. CASE Row.scope = "session" /\ req' = [req EXCEPT !.stage = "admitted", !.actor = actor]
  <2>1. RowOf(req.route).scope = "session"
    BY <1>3 DEF Row
  <2>2. \A q : q.stage = "admitted" /\ q.route = req.route => Established(q)
    BY <2>1 DEF Established
  <2> QED BY <1>1, <1>3, <2>2, AdvanceRow
<1>4. CASE Refuse("404 RESOURCE_NOT_FOUND")
  BY <1>1, <1>4, RefuseKeeps
<1>5. CASE actor = req.org /\ req' = [req EXCEPT !.stage = "placed", !.actor = actor]
  BY <1>1, <1>2, <1>5, AdvanceRow DEF Established, Advance
<1> QED BY <1>3, <1>4, <1>5 DEF ReadMembership

LEMMA AssertKeeps ==
  ASSUME GateInv, AssertMembership \/ AssertPermission
  PROVE  GateInv'
<1>1. req.stage \in {"placed", "member"} /\ ~Ended(req) /\ UNCHANGED <<rights, live>>
  BY DEF AssertMembership, AssertPermission, Ended
<1>2. req.actor = req.org /\ req.wasIn
  BY <1>1 DEF GateInv, Established
<1>3. CASE Refuse("403 FORBIDDEN")
  BY <1>1, <1>3, RefuseKeeps
<1>4. CASE Advance("member")
  BY <1>1, <1>2, <1>4, AdvanceRow DEF Established, Advance
<1>5. CASE /\ Row.keys \cap getEffectivePermissionKeys(req.user, req.actor, rights) # {}
           /\ Advance("admitted")
  <2>1. req.held
    BY <1>1, <1>2, <1>5 DEF Row, GateInv, Remembers, Holding
  <2> QED BY <1>1, <1>2, <1>5, <2>1, AdvanceRow DEF Established, Advance
<1> QED BY <1>3, <1>4, <1>5 DEF AssertMembership, AssertPermission

LEMMA HandleKeeps ==
  ASSUME GateInv, Handle
  PROVE  GateInv'
<1>1. req.stage = "admitted" /\ ~Ended(req) /\ UNCHANGED <<rights, live>>
  BY DEF Handle, Ended
<1>2. \A code : Refuse(code) => GateInv'
  BY <1>1, RefuseKeeps
<1>3. CASE req' = [req EXCEPT !.stage = "handled"]
  <2>1. \A q : q.stage = "handled" /\ q.route = req.route /\ q.wasIn = req.wasIn /\ q.held = req.held
                => Established(q)
    BY <1>1 DEF Established, GateInv
  <2> QED BY <1>1, <1>3, <2>1, AdvanceRow
<1> QED BY <1>2, <1>3 DEF Handle

\* Administrators and the caller's other tabs: what the request sees of them is recorded,
\* and no session is left in an organization its user is suspended from.
LEMMA ChangeKeeps ==
  ASSUME GateInv, NEW R, NEW S, NEW C, Change(R, S, C), SessionsPlaced'
  PROVE  GateInv'
<1>1. req' = Seen(req, R, S) /\ rights' = R /\ live' = S
  BY DEF Change
<1>2. CASE Ended(req)
  BY <1>1, <1>2 DEF Seen, Ended, GateInv, Established
<1>3. CASE ~Ended(req)
  <2>1. Remembers(req', R, S) /\ Established(req')
    BY <1>1, <1>3, SeenRemembers DEF GateInv, Remembers
  <2>2. Remembers(req, rights, live)' /\ Established(req)'
    BY <1>1, <2>1 DEF Remembers, Established, Reachable, Holding, RequestRow,
       getEffectivePermissionKeys
  <2> QED BY <2>2 DEF GateInv
<1> QED BY <1>2, <1>3

\* One membership changes; nobody's session is in an organization from which it bars him.
LEMMA RowChanges ==
  ASSUME GateInv, NEW u \in Users, NEW o \in Orgs, NEW row \in MembershipRow,
         rights' = [rights EXCEPT ![u][o] = row], live' \in [Users -> Orgs \cup {NoOrg, "ended"}],
         \A v \in Users, p \in Orgs : live'[v] = p => live[v] = p,
         row.active \/ live'[u] # o
  PROVE  SessionsPlaced'
<1>1. /\ rights' \in [Users -> [Orgs -> MembershipRow]] /\ rights'[u][o] = row
      /\ \A v \in Users, p \in Orgs : <<v, p>> # <<u, o>> => rights'[v][p] = rights[v][p]
  BY DEF GateInv, SessionsPlaced
<1>2. \A v \in Users, p \in Orgs : live'[v] = p => rights'[v][p].active
  BY <1>1 DEF GateInv, SessionsPlaced
<1> QED BY <1>1, <1>2 DEF SessionsPlaced

LEMMA RightsChangeKeeps ==
  ASSUME GateAssumption, GateInv, NEW u \in Users,
         \/ EndSession(u)
         \/ \E o \in Orgs : \/ SuspendMember(u, o) \/ ReinstateMember(u, o) \/ SwitchOrganization(u, o)
                            \/ \E roles \in RoleSets : ReplaceRoles(u, o, roles)
  PROVE  GateInv'
<1>1. CASE EndSession(u)
  <2>1. SessionsPlaced'
    BY <1>1 DEF EndSession, Change, SessionsPlaced, GateInv, GateAssumption
  <2> QED BY <1>1, <2>1, ChangeKeeps DEF EndSession
<1>2. ASSUME NEW o \in Orgs, SuspendMember(u, o) PROVE GateInv'
  <2> DEFINE row == [rights[u][o] EXCEPT !.active = FALSE]
  <2>1. row \in MembershipRow /\ rights' = [rights EXCEPT ![u][o] = row]
    <3>1. rights' = [rights EXCEPT ![u][o].active = FALSE]
      BY <1>2 DEF SuspendMember, Change
    <3>2. rights[u][o] \in MembershipRow
      BY DEF SessionsPlaced, GateInv
    <3>3. rights' = [rights EXCEPT ![u][o] = row]
      BY <3>1, Zenon
    <3> QED BY <3>2, <3>3 DEF MembershipRow
  <2> HIDE DEF row
  <2>2. /\ live' \in [Users -> Orgs \cup {NoOrg, "ended"}] /\ live'[u] # o
        /\ \A v \in Users, p \in Orgs : live'[v] = p => live[v] = p
    BY <1>2 DEF SuspendMember, Change, SessionsPlaced, GateInv, GateAssumption
  <2>3. SessionsPlaced'
    BY <2>1, <2>2, RowChanges
  <2> QED BY <1>2, <2>3, ChangeKeeps DEF SuspendMember
<1>3. ASSUME NEW o \in Orgs, ReinstateMember(u, o) PROVE GateInv'
  <2> DEFINE row == [rights[u][o] EXCEPT !.active = TRUE]
  <2>1. row \in MembershipRow /\ row.active /\ rights' = [rights EXCEPT ![u][o] = row] /\ UNCHANGED live
    <3>1. rights' = [rights EXCEPT ![u][o].active = TRUE] /\ UNCHANGED live
      BY <1>3 DEF ReinstateMember, Change
    <3>2. rights[u][o] \in MembershipRow
      BY DEF SessionsPlaced, GateInv
    <3>3. rights' = [rights EXCEPT ![u][o] = row]
      BY <3>1, Zenon
    <3> QED BY <3>1, <3>2, <3>3 DEF MembershipRow
  <2> HIDE DEF row
  <2>3. SessionsPlaced'
    BY <2>1, RowChanges DEF GateInv, SessionsPlaced
  <2> QED BY <1>3, <2>3, ChangeKeeps DEF ReinstateMember
<1>4. ASSUME NEW o \in Orgs, SwitchOrganization(u, o) PROVE GateInv'
  <2>1. SessionsPlaced'
    BY <1>4 DEF SwitchOrganization, Change, SessionsPlaced, GateInv
  <2> QED BY <1>4, <2>1, ChangeKeeps DEF SwitchOrganization
<1>5. ASSUME NEW o \in Orgs, NEW roles \in RoleSets, ReplaceRoles(u, o, roles) PROVE GateInv'
  <2> DEFINE row == [rights[u][o] EXCEPT !.roles = roles]
  <2>1. /\ row \in MembershipRow /\ row.active = rights[u][o].active
        /\ rights' = [rights EXCEPT ![u][o] = row] /\ UNCHANGED live
    <3>1. rights' = [rights EXCEPT ![u][o].roles = roles] /\ UNCHANGED live
      BY <1>5 DEF ReplaceRoles, Change
    <3>2. rights[u][o] \in MembershipRow
      BY DEF SessionsPlaced, GateInv
    <3>3. rights' = [rights EXCEPT ![u][o] = row]
      BY <3>1, Zenon
    <3> QED BY <3>1, <3>2, <3>3 DEF MembershipRow
  <2> HIDE DEF row
  <2>3. SessionsPlaced'
    BY <2>1, RowChanges DEF GateInv, SessionsPlaced
  <2> QED BY <1>5, <2>3, ChangeKeeps DEF ReplaceRoles
<1> QED BY <1>1, <1>2, <1>3, <1>4, <1>5

LEMMA GateStep == GateAssumption /\ GateInv /\ [GateNext]_gateVars => GateInv'
<1>1. ASSUME GateInv, UNCHANGED gateVars PROVE GateInv'
  BY <1>1 DEF gateVars, GateInv, SessionsPlaced, Remembers, Reachable, Holding, RequestRow,
     Established,
              getEffectivePermissionKeys, Ended
<1> QED BY <1>1, ArriveKeeps, MatchKeeps, ReadSessionKeeps, ReadMembershipKeeps, AssertKeeps,
           HandleKeeps,
           RightsChangeKeeps DEF GateNext

\* HandledWasAllowed for any users, routes and organizations: a handler runs only
\* for a user who, since the request arrived, was in the organization and held the
\* permission its route asks for, whatever administrators changed meanwhile.
THEOREM HandledAreAllowed == GateSpec => []HandledWasAllowed
<1>1. GateInv => HandledWasAllowed
  BY DEF GateInv, Established, HandledWasAllowed, Row
<1> QED BY <1>1, GateStart, GateStep, GateAssumption, PTL DEF GateSpec

-----------------------------------------------------------------------------
(***************************************************************************)
(* The clients.                                                            *)
(*                                                                         *)
(* For any users, organizations and requests, and any custom role that may *)
(* not preview billing runs and nothing else.                              *)
(***************************************************************************)

\* The permission that isReadOnlyPermissionSet overlooks although a handler that
\* writes asks for it.
Overlooked == "finance.billing_run.preview"

\* The handlers that ask for If-Match, and those that ask for Idempotency-Key.
VersionedNames ==
  {"activateAgreement", "activateLease", "completeMoveOut", "creditNotes.post",
   "invoices.post", "invoices.void", "moveIn", "notice", "patchAgreement", "patchBed",
   "patchBuilding", "patchLease", "patchMember", "patchMoveOut", "patchOwner",
   "patchProperty", "patchResident", "patchRole", "patchSettings", "patchUnit",
   "patchWaitlist", "renew", "replacePropertyAmenities", "replaceUnitAmenities",
   "runs.approve", "runs.commit", "runs.preview", "runs.retry", "setAllocation",
   "startMoveOut", "terminate", "terminateAgreement", "transfer", "updateUnitStatus"}

KeyedNames ==
  {"activateLease", "approveDisposition", "approveRefund", "completeMoveOut",
   "createDispositions", "createIntent", "createRefund", "creditNotes.post",
   "executeDisposition", "executeRefund", "imports.commit", "invoices.post", "invoices.void",
   "moveIn", "payments.allocate", "reconciliation.complete", "reconciliation.createRun",
   "reconciliation.ingest", "recordPayment", "resolveItem", "reversePayment", "runs.commit",
   "runs.retry", "setAllocation", "terminate"}

\* A route that changes records of an organization is not for readers, and the names
\* above are those of the routes with headers.
RouteFits(r) ==
  /\ r.scope = "organization" /\ r.writes => r.keys \subseteq MUTATION_PERMISSION_PREFIXES \cup {Overlooked}
  /\ r.ifMatch => r.name \in VersionedNames
  /\ r.key => r.name \in KeyedNames

RoutesFit(R) == \A r \in R : RouteFits(r)

\* A call sends the headers its route asks for.
CallFitsRoute(c) ==
  /\ c.route \in VersionedNames => c.ifMatch
  /\ c.route \in KeyedNames => c.key

CallsFitRoutes(C) == \A c \in C : CallFitsRoute(c)

-----------------------------------------------------------------------------

\* Each controller's routes.
LEMMA TableFits == RoutesFit(Routes)
<1> USE DEF RouteFits, Route, PublicRoutes, SessionRoutes, Reads, Writes, VersionedWrites, KeyedWrites,
            VersionedKeyedWrites, MUTATION_PERMISSION_PREFIXES, Overlooked, VersionedNames, KeyedNames
<1>1. RoutesFit(RunRoutes)
  BY DEF RoutesFit, RunRoutes
<1>2. RoutesFit(CreditNoteRoutes)
  BY DEF RoutesFit, CreditNoteRoutes
<1>3. RoutesFit(DepositRoutes)
  BY DEF RoutesFit, DepositRoutes
<1>4. RoutesFit(InvoiceRoutes)
  BY DEF RoutesFit, InvoiceRoutes
<1>5. RoutesFit(LedgerRoutes)
  BY DEF RoutesFit, LedgerRoutes
<1>6. RoutesFit(MeterRoutes)
  BY DEF RoutesFit, MeterRoutes
<1>7. RoutesFit(PaymentRoutes)
  BY DEF RoutesFit, PaymentRoutes
<1>8. RoutesFit(RefundRoutes)
  BY DEF RoutesFit, RefundRoutes
<1>9. RoutesFit(WebhookRoutes)
  BY DEF RoutesFit, WebhookRoutes
<1>10. RoutesFit(ReconciliationRoutes)
  BY DEF RoutesFit, ReconciliationRoutes
<1>11. RoutesFit(PeriodRoutes)
  BY DEF RoutesFit, PeriodRoutes
<1>12. RoutesFit(PropertyRoutes)
  BY DEF RoutesFit, PropertyRoutes
<1>13. RoutesFit(UnitRoutes)
  BY DEF RoutesFit, UnitRoutes
<1>14. RoutesFit(BedRoutes)
  BY DEF RoutesFit, BedRoutes
<1>15. RoutesFit(LeaseRoutes)
  BY DEF RoutesFit, LeaseRoutes
<1>16. RoutesFit(MoveRoutes)
  BY DEF RoutesFit, MoveRoutes
<1>17. RoutesFit(EndRoutes)
  BY DEF RoutesFit, EndRoutes
<1>18. RoutesFit(OwnerRoutes)
  BY DEF RoutesFit, OwnerRoutes
<1>19. RoutesFit(AgreementRoutes)
  BY DEF RoutesFit, AgreementRoutes
<1>20. RoutesFit(ResidentRoutes)
  BY DEF RoutesFit, ResidentRoutes
<1>21. RoutesFit(WaitlistRoutes)
  BY DEF RoutesFit, WaitlistRoutes
<1>22. RoutesFit(DocumentRoutes)
  BY DEF RoutesFit, DocumentRoutes
<1>23. RoutesFit(ImportRoutes)
  BY DEF RoutesFit, ImportRoutes
<1>24. RoutesFit(MemberRoutes)
  BY DEF RoutesFit, MemberRoutes
<1>25. RoutesFit(RoleRoutes)
  BY DEF RoutesFit, RoleRoutes
<1>26. RoutesFit(AuthRoutes)
  BY DEF RoutesFit, AuthRoutes
<1>27. RoutesFit(InvitationRoutes)
  BY DEF RoutesFit, InvitationRoutes
<1>28. RoutesFit(MetaRoutes)
  BY DEF RoutesFit, MetaRoutes
<1>29. RoutesFit(HealthRoutes)
  BY DEF RoutesFit, HealthRoutes
<1>30. RoutesFit(ReadinessRoutes)
  BY DEF RoutesFit, ReadinessRoutes
<1> QED BY <1>1, <1>2, <1>3, <1>4, <1>5, <1>6, <1>7, <1>8, <1>9, <1>10, <1>11, <1>12, <1>13,
           <1>14, <1>15, <1>16, <1>17, <1>18, <1>19, <1>20, <1>21, <1>22, <1>23, <1>24, <1>25,
           <1>26, <1>27, <1>28, <1>29, <1>30 DEF Routes, RoutesFit

\* Each client's calls.
LEMMA ClientCallsFit == CallsFitRoutes(Calls)
<1> USE DEF CallFitsRoute, Call, BareCalls, VersionedCalls, KeyedCalls, VersionedKeyedCalls, VersionedNames,
            KeyedNames
<1>1. CallsFitRoutes(AdminCalls)
  BY DEF CallsFitRoutes, AdminCalls
<1>2. CallsFitRoutes(RoleCalls)
  BY DEF CallsFitRoutes, RoleCalls
<1>3. CallsFitRoutes(AuthCalls)
  BY DEF CallsFitRoutes, AuthCalls
<1>4. CallsFitRoutes(InvoiceCalls)
  BY DEF CallsFitRoutes, InvoiceCalls
<1>5. CallsFitRoutes(RunCalls)
  BY DEF CallsFitRoutes, RunCalls
<1>6. CallsFitRoutes(MeterCalls)
  BY DEF CallsFitRoutes, MeterCalls
<1>7. CallsFitRoutes(DocumentCalls)
  BY DEF CallsFitRoutes, DocumentCalls
<1>8. CallsFitRoutes(ImportCalls)
  BY DEF CallsFitRoutes, ImportCalls
<1>9. CallsFitRoutes(LeaseCalls)
  BY DEF CallsFitRoutes, LeaseCalls
<1>10. CallsFitRoutes(MoveCalls)
  BY DEF CallsFitRoutes, MoveCalls
<1>11. CallsFitRoutes(PaymentCalls)
  BY DEF CallsFitRoutes, PaymentCalls
<1>12. CallsFitRoutes(RefundCalls)
  BY DEF CallsFitRoutes, RefundCalls
<1>13. CallsFitRoutes(PropertyCalls)
  BY DEF CallsFitRoutes, PropertyCalls
<1>14. CallsFitRoutes(UnitCalls)
  BY DEF CallsFitRoutes, UnitCalls
<1>15. CallsFitRoutes(BedCalls)
  BY DEF CallsFitRoutes, BedCalls
<1>16. CallsFitRoutes(OwnerCalls)
  BY DEF CallsFitRoutes, OwnerCalls
<1>17. CallsFitRoutes(AgreementCalls)
  BY DEF CallsFitRoutes, AgreementCalls
<1>18. CallsFitRoutes(ReconciliationCalls)
  BY DEF CallsFitRoutes, ReconciliationCalls
<1>19. CallsFitRoutes(PeriodCalls)
  BY DEF CallsFitRoutes, PeriodCalls
<1>20. CallsFitRoutes(ResidentCalls)
  BY DEF CallsFitRoutes, ResidentCalls
<1>21. CallsFitRoutes(WaitlistCalls)
  BY DEF CallsFitRoutes, WaitlistCalls
<1> QED BY <1>1, <1>2, <1>3, <1>4, <1>5, <1>6, <1>7, <1>8, <1>9, <1>10, <1>11, <1>12, <1>13,
           <1>14, <1>15, <1>16, <1>17, <1>18, <1>19, <1>20, <1>21 DEF Calls, CallsFitRoutes

\* The row that RowOf finds is one of the table, or no route.
LEMMA RowFound ==
  ASSUME NEW name
  PROVE  \/ RowOf(name) \in Routes /\ RowOf(name).name = name
         \/ RowOf(name).scope = "none" /\ ~RowOf(name).ifMatch /\ ~RowOf(name).key
<1>1. CASE name \in RouteNames
  <2>1. \E r \in Routes : r.name = name
    BY <1>1 DEF RouteNames
  <2>2. (CHOOSE r \in Routes : r.name = name) \in Routes /\ (CHOOSE r \in Routes : r.name = name).name = name
    BY <2>1
  <2>3. RowOf(name) = CHOOSE r \in Routes : r.name = name
    BY <1>1 DEF RowOf, RouteOf
  <2> QED BY <2>2, <2>3
<1>2. CASE name \notin RouteNames
  BY <1>2 DEF RowOf, NoRoute, Route
<1> QED BY <1>1, <1>2

\* A permission by which the handler of a writing route runs is one that shows, unless
\* it is the one overlooked.
LEMMA HoldersWrite ==
  ASSUME NEW u, NEW o, NEW R, NEW name,
         RowOf(name).scope = "organization", RowOf(name).writes, Overlooked \notin RowOf(name).keys,
         RowOf(name).keys \cap getEffectivePermissionKeys(u, o, R) # {}
  PROVE  ~isReadOnlyPermissionSet(getEffectivePermissionKeys(u, o, R))
<1> DEFINE keys == getEffectivePermissionKeys(u, o, R)
<1>1. RowOf(name).keys \subseteq MUTATION_PERMISSION_PREFIXES \cup {Overlooked}
  BY RowFound, TableFits DEF RoutesFit, RouteFits
<1> PICK k \in RowOf(name).keys \cap keys : TRUE
  OBVIOUS
<1> QED BY <1>1 DEF isReadOnlyPermissionSet

-----------------------------------------------------------------------------
\* What is known of a request once it has arrived: whoever holds a permission of a
\* route that writes has been seen to be more than a reader or needs no more than the
\* permission overlooked, a client of the web
\* application has sent the headers the route asks for, and was not refused for one.
Noted(q) ==
  /\ q = [field \in DOMAIN q |-> q[field]]
  /\ {"stage", "user", "route", "org", "actor", "wasIn", "held", "wrote", "answer", "web", "ifMatch", "key"}
       \subseteq DOMAIN q
  /\ RowOf(q.route).scope = "organization" /\ RowOf(q.route).writes /\ q.held =>
       q.wrote \/ Overlooked \in RowOf(q.route).keys
  /\ q.web => (RowOf(q.route).ifMatch => q.ifMatch) /\ (RowOf(q.route).key => q.key)
  /\ q.stage = "refused" /\ q.web =>
       q.answer \notin {"428 PRECONDITION_REQUIRED", "400 IDEMPOTENCY_KEY_REQUIRED"}

ClientInv == req.stage # "none" => Noted(req)

LEMMA SeenNotes ==
  ASSUME NEW q, NEW R, NEW S, Noted(q), ~Ended(q)
  PROVE  Noted(Seen(q, R, S))
<1> DEFINE keys == getEffectivePermissionKeys(q.user, q.org, R)
           hold == RowOf(q.route).keys \cap keys # {}
<1> PICK in : in = (q.wasIn \/ (S[q.user] = q.org /\ R[q.user][q.org].active))
  OBVIOUS
<1> PICK held : held = (q.held \/ hold)
  OBVIOUS
<1> PICK wrote : wrote = (q.wrote \/ ~isReadOnlyPermissionSet(keys))
  OBVIOUS
<1> DEFINE s == [q EXCEPT !.wasIn = in, !.held = held, !.wrote = wrote]
<1>1. Seen(q, R, S) = s
  BY DEF Seen, Ended
<1>2. RowOf(q.route).scope = "organization" /\ RowOf(q.route).writes /\ held =>
        wrote \/ Overlooked \in RowOf(q.route).keys
  BY HoldersWrite DEF Noted
<1>3. /\ s = [field \in DOMAIN s |-> s[field]] /\ DOMAIN s = DOMAIN q
      /\ s.route = q.route /\ s.held = held /\ s.wrote = wrote /\ s.stage = q.stage
      /\ s.web = q.web /\ s.ifMatch = q.ifMatch /\ s.key = q.key /\ s.answer = q.answer
  BY DEF Noted
<1> HIDE DEF s, hold, keys
<1>4. Noted(s)
  BY <1>2, <1>3 DEF Noted
<1> QED BY <1>1, <1>4

LEMMA ArriveNotes ==
  ASSUME NEW u, NEW c \in Calls \cup OtherCalls, NEW o, NEW claim, Arrive(u, c, o, claim)
  PROVE  ClientInv'
<1> PICK web : web = (c \in Calls)
  OBVIOUS
<1> DEFINE q == [stage |-> "arrived", user |-> u, route |-> c.route, org |-> o,
                 claim |-> claim, web |-> web, ifMatch |-> c.ifMatch, key |-> c.key,
                 actor |-> NoOrg, wasIn |-> FALSE, held |-> FALSE, wrote |-> FALSE,
                 answer |-> "none"]
<1>1. req' = Seen(q, rights, live)
  BY DEF Arrive
<1>2. web => (RowOf(c.route).ifMatch => c.ifMatch) /\ (RowOf(c.route).key => c.key)
  <2> SUFFICES ASSUME web PROVE (RowOf(c.route).ifMatch => c.ifMatch) /\ (RowOf(c.route).key => c.key)
    OBVIOUS
  <2>1. CallFitsRoute(c)
    BY ClientCallsFit DEF CallsFitRoutes
  <2>2. /\ RowOf(c.route).ifMatch => c.route \in VersionedNames
        /\ RowOf(c.route).key => c.route \in KeyedNames
    BY RowFound, TableFits DEF RoutesFit, RouteFits
  <2> QED BY <2>1, <2>2 DEF CallFitsRoute
<1>3. Noted(q) /\ ~Ended(q)
  BY <1>2 DEF Noted, Ended
<1> HIDE DEF q
<1>4. Noted(req')
  BY <1>1, <1>3, SeenNotes
<1> QED BY <1>4 DEF ClientInv, Noted

\* A guard changes of a request only how far it has come and what it was answered.
LEMMA GuardNotes ==
  ASSUME ClientInv, req.stage # "none", NEW stage, NEW actor, NEW answer,
         \/ req' = [req EXCEPT !.stage = stage] /\ stage # "refused"
         \/ req' = [req EXCEPT !.stage = stage, !.actor = actor] /\ stage # "refused"
         \/ /\ req' = [req EXCEPT !.stage = stage, !.answer = answer]
            /\ req.web => answer \notin {"428 PRECONDITION_REQUIRED", "400 IDEMPOTENCY_KEY_REQUIRED"}
  PROVE  ClientInv'
<1>1. Noted(req)
  BY DEF ClientInv
<1>2. /\ req' = [field \in DOMAIN req' |-> req'[field]] /\ DOMAIN req' = DOMAIN req
      /\ req'.route = req.route /\ req'.held = req.held /\ req'.wrote = req.wrote /\ req'.stage = stage
      /\ req'.web = req.web /\ req'.ifMatch = req.ifMatch /\ req'.key = req.key
  BY <1>1 DEF Noted
<1>3. stage = "refused" /\ req.web =>
        req'.answer \notin {"428 PRECONDITION_REQUIRED", "400 IDEMPOTENCY_KEY_REQUIRED"}
  BY <1>1 DEF Noted
<1>4. Noted(req')
  BY <1>1, <1>2, <1>3 DEF Noted
<1> QED BY <1>4 DEF ClientInv, Noted

LEMMA RefuseNotes ==
  ASSUME ClientInv, req.stage # "none", NEW code, Refuse(code),
         req.web => code \notin {"428 PRECONDITION_REQUIRED", "400 IDEMPOTENCY_KEY_REQUIRED"}
  PROVE  ClientInv'
<1> PICK stage : stage = "refused"
  OBVIOUS
<1>1. req' = [req EXCEPT !.stage = stage, !.answer = code]
  BY DEF Refuse
<1> QED BY <1>1, GuardNotes

LEMMA AdvanceNotes ==
  ASSUME ClientInv, req.stage # "none", NEW stage, stage # "refused", Advance(stage)
  PROVE  ClientInv'
<1>1. req' = [req EXCEPT !.stage = stage]
  BY DEF Advance
<1> QED BY <1>1, GuardNotes

LEMMA GuardsNote ==
  ASSUME ClientInv, MatchRoute \/ ReadSession \/ ReadMembership \/ AssertMembership \/ AssertPermission
  PROVE  ClientInv'
<1>1. req.stage # "none"
  BY DEF MatchRoute, ReadSession, ReadMembership, AssertMembership, AssertPermission
<1>2. ASSUME NEW code \in {"404 no route", "401 AUTH_REQUIRED", "404 RESOURCE_NOT_FOUND", "403 FORBIDDEN"},
             Refuse(code)
      PROVE  ClientInv'
  BY <1>1, <1>2, RefuseNotes
<1>3. ASSUME NEW stage \in {"admitted", "routed", "member"}, Advance(stage)
      PROVE  ClientInv'
  BY <1>1, <1>3, AdvanceNotes
<1>4. ASSUME NEW stage \in {"known", "admitted", "placed"}, NEW actor,
             req' = [req EXCEPT !.stage = stage, !.actor = actor]
      PROVE  ClientInv'
  BY <1>1, <1>4, GuardNotes
<1>5. MatchRoute \/ AssertMembership \/ AssertPermission => ClientInv'
  BY <1>2, <1>3 DEF MatchRoute, AssertMembership, AssertPermission
<1>6. ReadSession => ClientInv'
  BY <1>2, <1>4 DEF ReadSession
<1>7. ReadMembership => ClientInv'
  BY <1>2, <1>4 DEF ReadMembership
<1> QED BY <1>5, <1>6, <1>7

\* The handler's own header checks find what the client has sent.
LEMMA HandleNotes ==
  ASSUME ClientInv, Handle
  PROVE  ClientInv'
<1>1. req.stage = "admitted" /\ Noted(req)
  BY DEF Handle, ClientInv
<1>2. CASE req' = [req EXCEPT !.stage = "handled"]
  <2>1. Advance("handled")
    BY <1>2 DEF Advance
  <2> QED BY <1>1, <2>1, AdvanceNotes
<1>3. ASSUME NEW code, Refuse(code), ~req.web
      PROVE  ClientInv'
  BY <1>1, <1>3, RefuseNotes
<1>4. req.web => (Row.ifMatch => req.ifMatch) /\ (Row.key => req.key)
  BY <1>1 DEF Noted, Row
<1> QED BY <1>2, <1>3, <1>4 DEF Handle

LEMMA ChangeNotes ==
  ASSUME ClientInv, NEW R, NEW S, NEW C, Change(R, S, C)
  PROVE  ClientInv'
<1>1. req' = Seen(req, R, S)
  BY DEF Change
<1>2. CASE Ended(req)
  BY <1>1, <1>2 DEF Seen, Ended, ClientInv, Noted
<1>3. CASE ~Ended(req)
  <2>1. Noted(req')
    BY <1>1, <1>3, SeenNotes DEF ClientInv, Ended
  <2> QED BY <2>1 DEF ClientInv, Noted
<1> QED BY <1>2, <1>3

LEMMA ClientStep == ClientInv /\ [GateNext]_gateVars => ClientInv'
<1> SUFFICES ASSUME ClientInv, [GateNext]_gateVars PROVE ClientInv'
  OBVIOUS
<1>1. CASE UNCHANGED gateVars
  BY <1>1 DEF gateVars, ClientInv, Noted
<1>2. ASSUME NEW u \in Users, NEW o \in Orgs, NEW roles \in RoleSets, ReplaceRoles(u, o, roles)
      PROVE  ClientInv'
  BY <1>2, ChangeNotes DEF ReplaceRoles
<1>3. ASSUME NEW u \in Users, NEW o \in Orgs,
             SuspendMember(u, o) \/ ReinstateMember(u, o) \/ SwitchOrganization(u, o)
      PROVE  ClientInv'
  BY <1>3, ChangeNotes DEF SuspendMember, ReinstateMember, SwitchOrganization
<1>4. ASSUME NEW u \in Users, EndSession(u) PROVE ClientInv'
  BY <1>4, ChangeNotes DEF EndSession
<1> QED BY <1>1, <1>2, <1>3, <1>4, ArriveNotes, GuardsNote, HandleNotes DEF GateNext

\* ClientsFit for any users, organizations, interleavings and custom roles: whom the
\* application calls a reader can create and preview billing runs and write nothing
\* else, and no call of it is refused for a header its client leaves out.
THEOREM ClientsServedRight == GateSpec => []ClientsFit
<1>1. GateInit => ClientInv
  BY DEF GateInit, NoRequest, ClientInv
<1>2. GateInv /\ ClientInv => ClientsFit
  BY DEF GateInv, ClientInv, Established, Noted, ClientsFit, ReadersOnlyPreview, HeadersFit, Row,
     Overlooked
<1> QED BY <1>1, <1>2, ClientStep, GateStart, GateStep, GateAssumption, PTL DEF GateSpec

-----------------------------------------------------------------------------
(***************************************************************************)
(* The tables.  What the invariants above leave open of them.              *)
(***************************************************************************)

ReplacementsFit == customKeys \subseteq {"admin"} /\ \A u \in People : member[u].replaced <= MaxReplacements[u]

LEMMA ReplacementStays ==
  ASSUME MemberInv, ReplacementsFit, NEW u, NEW r, u \in People => r.replaced <= MaxReplacements[u],
         member' = [member EXCEPT ![u] = r], UNCHANGED customKeys
  PROVE  ReplacementsFit'
BY DEF MemberInv, MembersTyped, ReplacementsFit

LEMMA ReplacementsStep ==
  ASSUME MembershipAssumption, MemberInv, ReplacementsFit, [MembershipNext]_membershipVars
  PROVE  ReplacementsFit'
<1>1. ASSUME UNCHANGED <<member, customKeys>> PROVE ReplacementsFit'
  BY <1>1 DEF ReplacementsFit
<1>2. ASSUME NEW u \in People, CreateOrganization(u) PROVE ReplacementsFit'
  <2> PICK r : r = [NoMember EXCEPT !.status = "ACTIVE", !.roles = Assigned({"OWNER"}, u, 0)]
    OBVIOUS
  <2>1. r.replaced = 0
    BY DEF NoMember
  <2>2. MaxReplacements[u] \in Nat
    BY DEF MembershipAssumption
  <2>3. r.replaced <= MaxReplacements[u]
    BY <2>1, <2>2
  <2> QED BY <1>2, <2>3, ReplacementStays DEF CreateOrganization
<1>3. ASSUME NEW u \in People, NEW keys \in SUBSET {"own", "admin"}, SetCustomRole(u, keys)
      PROVE  ReplacementsFit'
  BY <1>3 DEF SetCustomRole, ReplacementsFit
<1>4. ASSUME NEW c \in Admissions, StatusWrite(c) PROVE ReplacementsFit'
  <2> PICK d : d = admission[c]
    OBVIOUS
  <2> PICK row : row = member[d.target]
    OBVIOUS
  <2>1. d.target \in People /\ row \in MemberRow
    BY <1>4 DEF StatusWrite, MemberInv, MembersTyped, AdmissionsFit, AdmissionFits
  <2> PICK r : r = [row EXCEPT !.status = d.status]
    OBVIOUS
  <2>2. r.replaced = row.replaced
    BY <2>1 DEF MemberRow
  <2>3. r.replaced <= MaxReplacements[d.target]
    BY <2>1, <2>2 DEF ReplacementsFit
  <2>4. member' = [member EXCEPT ![d.target] = r] /\ UNCHANGED customKeys
    BY <1>4, <2>1 DEF StatusWrite, MemberInv, MembersTyped
  <2> QED BY <2>3, <2>4, ReplacementStays
<1>5. ASSUME NEW c \in Admissions, RolesEnd(c) PROVE ReplacementsFit'
  <2> PICK d : d = admission[c]
    OBVIOUS
  <2> PICK u : u = d.target
    OBVIOUS
  <2> PICK row : row = member[u]
    OBVIOUS
  <2>1. u \in People /\ row \in MemberRow /\ MaxReplacements[u] \in Nat
    BY <1>5 DEF RolesEnd, MemberInv, MembersTyped, AdmissionsFit, AdmissionFits, MembershipAssumption
  <2> PICK roles : roles = Replaced(u, d.seen, d.roles, d.by)
    OBVIOUS
  <2> PICK r : r = [row EXCEPT !.roles = roles, !.replaced = @ + 1]
    OBVIOUS
  <2>2. r.replaced = row.replaced + 1
    BY <2>1 DEF MemberRow
  <2>3. row.replaced < MaxReplacements[u] /\ member' = [member EXCEPT ![u] = r] /\ UNCHANGED customKeys
    BY <1>5, <2>1 DEF RolesEnd, MemberInv, MembersTyped
  <2>4. row.replaced \in Nat
    BY <2>1 DEF MemberRow
  <2>5. r.replaced <= MaxReplacements[u]
    BY <2>1, <2>2, <2>3, <2>4
  <2> QED BY <2>3, <2>5, ReplacementStays
<1>6. ASSUME NEW c \in Admissions, AcceptEnd(c) PROVE ReplacementsFit'
  <2> PICK d : d = admission[c]
    OBVIOUS
  <2> PICK u : u = invite[d.invite].to
    OBVIOUS
  <2> PICK row : row = member[u]
    OBVIOUS
  <2>1. u \in People => row.replaced \in Nat /\ MaxReplacements[u] \in Nat
    BY DEF MemberInv, MembersTyped, MembershipAssumption, MemberRow
  <2> PICK status : status = IF d.existing = "NONE" THEN "ACTIVE" ELSE row.status
    OBVIOUS
  <2> PICK roles : roles = Replaced(u, d.seen, invite[d.invite].roles, invite[d.invite].by)
    OBVIOUS
  <2> PICK r : r = [status |-> status, roles |-> roles, replaced |-> row.replaced + 1]
    OBVIOUS
  <2>2. member' = [member EXCEPT ![u] = r] /\ row.replaced < MaxReplacements[u] /\ UNCHANGED customKeys
    BY <1>6 DEF AcceptEnd
  <2>3. u \in People => r.replaced <= MaxReplacements[u]
    BY <2>1, <2>2
  <2> QED BY <2>2, <2>3, ReplacementStays
<1> QED BY <1>1, <1>2, <1>3, <1>4, <1>5, <1>6
        DEF MembershipNext, InviteRead, RolesRead, StatusRead, PatchRead, RevokeRead, Expire, InviteWrite,
            AcceptRead, RevokeWrite, RolesBegin, AcceptBegin, Desert, membershipVars

\* Rows fit their tables, for any number of people, invitations and calls.
THEOREM MembersFit == MembershipSpec => []MembershipTypeOK
<1>1. MembershipAssumption /\ MembershipInit => ReplacementsFit
  BY DEF MembershipAssumption, MembershipInit, ReplacementsFit, NoMember
<1>2. MembershipAssumption /\ MemberInv /\ ReplacementsFit /\ [MembershipNext]_membershipVars
        => ReplacementsFit'
  BY ReplacementsStep
<1>3. MembershipAssumption /\ MemberInv /\ ReplacementsFit => MembershipTypeOK
  BY DEF MembershipAssumption, MemberInv, MembersTyped, MemberRow, Assignment, InviteRow, ReplacementsFit,
         MembershipTypeOK
<1> QED BY <1>1, <1>2, <1>3, MembersStart, MembershipStep, MembershipAssumption, PTL DEF MembershipSpec

VersionFits == account.version \in 1..MaxTokenVersion

LEMMA VersionStep ==
  ASSUME SessionAssumption, SessionInv, VersionFits, [SessionNext]_sessionVars
  PROVE  VersionFits'
<1>1. account.version \in Nat /\ MaxTokenVersion \in Nat
  BY DEF SessionInv, Tables, SessionAssumption
<1>2. ASSUME UNCHANGED account PROVE VersionFits'
  BY <1>2 DEF VersionFits
<1>3. CASE Suspend \/ Reinstate
  BY <1>3 DEF Suspend, Reinstate, VersionFits, SessionInv, Tables
<1>4. ASSUME NEW c \in Callers, NEW kept \in SUBSET SessionIds, SignOut(c, kept) PROVE VersionFits'
  BY <1>1, <1>4 DEF SignOut, VersionFits, SessionInv, Tables
<1> QED BY <1>2, <1>3, <1>4
        DEF SessionNext, LoginChallenge, MfaRead, Login, MfaClaim, LoginRead, RefreshContext, RotateRead,
            SignOutList, RevokeSession, RevokeTokens, Tell, FamilyTokens, FamilySession, SwitchWrite,
            Breaks, RefreshRead, RotateWrite, Logout, SwitchRead, LoginWrite, sessionVars

\* Rows fit their tables, for any number of sessions, tokens and calls.
THEOREM SessionsTyped == SessionSpec => []SessionTypeOK
<1>1. SessionAssumption /\ SessionInit => VersionFits
  BY DEF SessionAssumption, SessionInit, VersionFits
<1>2. SessionAssumption /\ SessionInv /\ VersionFits /\ [SessionNext]_sessionVars => VersionFits'
  BY VersionStep
<1>3. SessionInv /\ VersionFits => SessionTypeOK
  BY DEF SessionInv, Tables, SessionRow, TokenRow, VersionFits, SessionTypeOK
<1> QED BY <1>1, <1>2, <1>3, SessionsStart, SessionStep, SessionAssumption, PTL DEF SessionSpec

ClaimsTyped == claims \in [Users -> SUBSET Orgs] /\ rightsChanges \in 0..MaxRightsChanges

LEMMA ClaimsStep ==
  ASSUME GateAssumption, ClaimsTyped, [GateNext]_gateVars
  PROVE  ClaimsTyped'
<1>1. ASSUME UNCHANGED <<claims, rightsChanges>> PROVE ClaimsTyped'
  BY <1>1 DEF ClaimsTyped
<1>2. ASSUME NEW R, NEW S, NEW C \in [Users -> SUBSET Orgs], Change(R, S, C) PROVE ClaimsTyped'
  BY <1>2 DEF Change, ClaimsTyped, GateAssumption
<1>3. ASSUME NEW u \in Users, NEW o \in Orgs, SwitchOrganization(u, o) PROVE ClaimsTyped'
  <2>1. [claims EXCEPT ![u] = @ \cup {o}] \in [Users -> SUBSET Orgs]
    BY DEF ClaimsTyped
  <2> QED BY <1>2, <1>3, <2>1 DEF SwitchOrganization
<1>4. claims \in [Users -> SUBSET Orgs]
  BY DEF ClaimsTyped
<1> QED BY <1>1, <1>2, <1>3, <1>4
        DEF GateNext, Arrive, MatchRoute, ReadSession, ReadMembership, AssertMembership, AssertPermission,
            Handle, ReplaceRoles, SuspendMember, ReinstateMember, EndSession, gateVars

\* Rights, sessions and requests fit, for any users and organizations.
THEOREM GateTyped == GateSpec => []GateTypeOK
<1>1. GateAssumption /\ GateInit => ClaimsTyped
  BY DEF GateAssumption, GateInit, ClaimsTyped
<1>2. GateAssumption /\ ClaimsTyped /\ [GateNext]_gateVars => ClaimsTyped'
  BY ClaimsStep
<1>3. GateInv /\ ClaimsTyped => GateTypeOK
  BY DEF GateInv, SessionsPlaced, MembershipRow, Established, ClaimsTyped, GateTypeOK
<1> QED BY <1>1, <1>2, <1>3, GateStart, GateStep, GateAssumption, PTL DEF GateSpec

=============================================================================
