------------------------------ MODULE MCTenancy ------------------------------
(***************************************************************************)
(* The parts of the system that keep its tenancies, in one run: leases,    *)
(* documents, inventory, memberships, sessions, lists, residents, owners   *)
(* and the gateway of requests.                                            *)
(*                                                                         *)
(* They share no table that both write, so nothing is gained by            *)
(* interleaving them: `active`, chosen at the start, names the one part    *)
(* that runs, the others rest.  The state space is the sum of theirs.      *)
(***************************************************************************)
EXTENDS LeaseLifecycle, Documents, Inventory, Memberships, Sessions, Paging, Residents, Interests,
        Gateway, TLC

CONSTANTS l1, l2, l3, U1, u1, u2, home1, staff1

VARIABLE active

partVars == <<lifeVars, documentVars, inventoryVars, membershipVars, sessionVars, pageVars,
              residentVars, interestVars, gateVars>>

Parts == {"leases", "documents", "inventory", "members", "sessions", "lists", "residents",
          "interests", "gateway"}

-----------------------------------------------------------------------------
(* Constants. *)

\* l1 may go from draft to its end, l2 be its renewal, l3 a rival of l2.
MCMaxVersion == (l1 :> 6) @@ (l2 :> 2) @@ (l3 :> 1)
MCMaxRowVersion == [x \in Places |-> IF x = U1 THEN 2 ELSE 1]
MCMaxReplacements == [u \in People |-> 1]
MCRoleLists == {{"OWNER"}, {"ADMIN"}}
MCRoleSets == {{"OWNER"}, {"AUDITOR", "CUSTOM"}}
MCHashOf == [i \in Identifiers |-> "hash"]
MCReach == [s \in Staff |-> {home1, NoHome}]
MCParties == [l \in Drafts |-> Persons]

\* Owners, with their ownerships, and agreements are not mixed: no operation on one reads
\* the other.
InterestsInScope ==
  (\A p \in Owners : owner[p] = NoOwner) \/ (\A a \in Agreements : agreement[a] = NoAgreement)

\* Requests in flight are interchangeable: all parts take them from one set.
RequestSymmetry == Permutations(Requests)

-----------------------------------------------------------------------------
Init ==
  /\ active \in Parts
  /\ LifeInit /\ InventoryInit /\ MembershipInit /\ ResidentInit /\ InterestInit
  /\ DocumentInit
  /\ active # "documents" => \A x \in DOMAIN site : site[x] = NoSite
  /\ SessionInit
  /\ active # "sessions" => ~account.mfa
  /\ GateInit
  /\ active # "gateway" => \A u \in Users, g \in Orgs : rights[u][g].roles = {"OWNER"}
  /\ PagingInit
  /\ active # "lists" =>
       listing = (CHOOSE k \in ListsWalked : TRUE) /\ \A x \in RowIds : 
           ~rows[x].there /\ rows[x].rank = 1

Next ==
  /\ UNCHANGED active
  /\ IF active = "leases" THEN LifeNext ELSE UNCHANGED lifeVars
  /\ IF active = "documents" THEN DocumentNext ELSE UNCHANGED documentVars
  /\ IF active = "inventory" THEN InventoryNext ELSE UNCHANGED inventoryVars
  /\ IF active = "members" THEN MembershipNext ELSE UNCHANGED membershipVars
  /\ IF active = "sessions" THEN SessionNext ELSE UNCHANGED sessionVars
  /\ IF active = "lists" THEN PagingNext ELSE UNCHANGED pageVars
  /\ IF active = "residents" THEN ResidentNext ELSE UNCHANGED residentVars
  /\ IF active = "interests" THEN InterestNext ELSE UNCHANGED interestVars
  /\ IF active = "gateway" THEN GateNext ELSE UNCHANGED gateVars

Spec == Init /\ [][Next]_<<active, partVars>>

-----------------------------------------------------------------------------
\* Every row of every part fits its table.
TenancyTypeOK ==
  /\ active \in Parts
  /\ LifeTypeOK /\ DocumentTypeOK /\ InventoryTypeOK /\ MembershipTypeOK /\ SessionTypeOK
  /\ PagingTypeOK /\ ResidentTypeOK /\ InterestTypeOK /\ GateTypeOK
=============================================================================
