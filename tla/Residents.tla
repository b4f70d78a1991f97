----------------------------- MODULE Residents -----------------------------
(***************************************************************************)
(* Resident profiles, the waiting list, do-not-rent flags and the gate the *)
(* flags put on the activation of a lease: ResidentService,                *)
(* WaitlistService and LeaseService.activateLease.                         *)
(*                                                                         *)
(* Every operation of the two services first reads outside a transaction   *)
(* and later writes by id; the writes are steps of their own.  A request   *)
(* is one call in flight, made by a member of staff, about a person, an    *)
(* entry or a lease.  `saw' is what the call remembers between its steps.  *)
(* Lease numbers, allocations, the deposit, the event and the idempotency  *)
(* record of an activation are modelled elsewhere.                         *)
(***************************************************************************)
EXTENDS Integers, FiniteSets

CONSTANTS
  Persons,           \* parties that may become residents
  ContactValues,    \* normalised e-mail addresses and telephone numbers
  Identifiers,      \* an identifier as typed: its type and its value
  HashOf,           \* the lookup hash, which ignores the case of the type
  Held,             \* people under legal hold
  Staff, OverrideStaff,
  Reach,            \* the homes, NoHome among them, a member of staff sees
  NoHome,           \* no preferred property
  Entries,          \* waiting-list entries
  Drafts, Parties,  \* leases, and the people on each
  Flags,            \* do-not-rent flags
  Desks             \* one call each

VARIABLES profile, entry, flag, draft, desk

residentVars == <<profile, entry, flag, draft, desk>>

Homes == UNION {Reach[s] : s \in Staff}

NoProfile == [status |-> "NONE", deleted |-> FALSE, home |-> NoHome, version |-> 0,
              contacts |-> {}, ids |-> {}]
NoEntry == [status |-> "NONE", home |-> NoHome, version |-> 0]
NoFlag == [status |-> "NONE", of |-> {}]
Vacant == [op |-> "none", at |-> "start", by |-> {}, on |-> {}, saw |-> {}]

ResidentInit ==
  /\ profile = [p \in Persons |-> NoProfile]
  /\ entry = [e \in Entries |-> NoEntry]
  /\ flag = [f \in Flags |-> NoFlag]
  /\ draft = [l \in Drafts |-> [status |-> "DRAFT", version |-> 1]]
  /\ desk = [d \in Desks |-> Vacant]

---------------------------------------------------------------------------

\* The call d enters its next step; the last step leaves nothing behind.
CallAt(d, op, at, s, x, saw) ==
  desk' = [desk EXCEPT ![d] = [op |-> op, at |-> at, by |-> {s}, on |-> {x}, saw |-> saw]]
OnStep(d, at, saw) == desk' = [desk EXCEPT ![d].at = at, ![d].saw = saw]
HangUp(d) == desk' = [desk EXCEPT ![d] = [@ EXCEPT !.at = "done", !.saw = {}]]
Doing(d, op, at, x) == desk[d].op = op /\ desk[d].at = at /\ desk[d].on = {x}
Free(d) == desk[d].op = "none"

\* The profile s may see: not archived, and at a property s has access to.
FindResident(s, p) ==
  profile[p].status # "NONE" /\ ~profile[p].deleted /\ profile[p].home \in Reach[s]

\* Residents that look like the person described.  Contacts count while their
\* party is not archived, identifiers until they are deleted, which nothing does.
Candidates(cs, is, but) ==
  {p \in Persons \ but :
     \/ ~profile[p].deleted /\ profile[p].contacts \cap cs # {}
     \/ \E i \in profile[p].ids, j \in is : HashOf[i] = HashOf[j]}

\* createResident: the duplicates are looked for before the transaction, and the
\* call goes on when there are none or the caller confirms.
CreateResident(d, s, p, home, cs, is, confirm) ==
  /\ Free(d) /\ profile[p] = NoProfile
  /\ \A c \in Desks : ~Doing(c, "create", "insert", p)
  /\ home \in Reach[s]
  /\ Candidates(cs, is, {}) = {} \/ confirm
  /\ CallAt(d, "create", "insert", s, p, <<home, cs, is>>)
  /\ UNCHANGED <<profile, entry, flag, draft>>

\* One identifier has one owner, by the unique index over the type as typed and
\* the hash: a second insert fails, confirmed or not.
InsertResident(d, p, status) ==
  /\ Doing(d, "create", "insert", p)
  /\ LET new == desk[d].saw IN
     profile' = IF \E q \in Persons : profile[q].ids \cap new[3] # {} THEN profile
                ELSE [profile EXCEPT ![p] =
                        [status |-> status, deleted |-> FALSE, home |-> new[1],
                         version |-> 1, contacts |-> new[2], ids |-> new[3]]]
  /\ HangUp(d)
  /\ UNCHANGED <<entry, flag, draft>>

\* patchResident: the version is compared with a read outside the transaction,
\* and the update names the party only.
PatchResident(d, s, p, home) ==
  /\ Free(d) /\ FindResident(s, p) /\ home \in Reach[s]
  /\ CallAt(d, "patch", "update", s, p, home)
  /\ UNCHANGED <<profile, entry, flag, draft>>

UpdateResident(d, p, status, cs) ==
  /\ Doing(d, "patch", "update", p)
  /\ profile' = [profile EXCEPT ![p] = [profile[p] EXCEPT
       !.home = desk[d].saw, !.status = status, !.contacts = cs, !.version = @ + 1]]
  /\ HangUp(d)
  /\ UNCHANGED <<entry, flag, draft>>

\* archiveResident: neither leases nor waiting-list entries of the person are looked at.
ArchiveResident(d, s, p) ==
  /\ Free(d) /\ FindResident(s, p) /\ p \notin Held
  /\ CallAt(d, "archive", "update", s, p, {})
  /\ UNCHANGED <<profile, entry, flag, draft>>

MarkArchived(d, p) ==
  /\ Doing(d, "archive", "update", p)
  /\ profile' = [profile EXCEPT ![p] = [profile[p] EXCEPT
       !.status = "ARCHIVED", !.deleted = TRUE, !.version = @ + 1]]
  /\ HangUp(d)
  /\ UNCHANGED <<entry, flag, draft>>

---------------------------------------------------------------------------

ActiveFlags(ps) == {f \in Flags : flag[f].status = "ACTIVE" /\ flag[f].of \subseteq ps}

\* Rows an open transaction has updated; another update of them waits.
LockedFlags == UNION {desk[d].saw : d \in {c \in Desks : desk[c].at = "raise"}}

Cleared(fs) == [f \in Flags |-> IF f \in fs THEN [flag[f] EXCEPT !.status = "CLEARED"]
                                ELSE flag[f]]

\* setDoNotRent and clearDoNotRent begin alike: the resident is found, ...
DoNotRent(d, op, s, p) ==
  /\ Free(d) /\ FindResident(s, p)
  /\ CallAt(d, op, "find", s, p, {})
  /\ UNCHANGED <<profile, entry, flag, draft>>

\* ... and the update of the active flags sees those committed when it starts.
SeeFlags(d, p) ==
  /\ Doing(d, "set", "find", p) \/ Doing(d, "clear", "find", p)
  /\ OnStep(d, "flags", ActiveFlags({p}))
  /\ UNCHANGED <<profile, entry, flag, draft>>

\* It waits for rows another transaction holds and skips those no longer active.
SupersedeFlags(d, p) ==
  /\ Doing(d, "set", "flags", p)
  /\ desk[d].saw \cap LockedFlags = {}
  /\ OnStep(d, "raise", desk[d].saw \cap ActiveFlags({p}))
  /\ UNCHANGED <<profile, entry, flag, draft>>

\* The new flag and the cleared ones become visible together.
RaiseFlag(d, p, f) ==
  /\ Doing(d, "set", "raise", p) /\ flag[f] = NoFlag
  /\ flag' = [Cleared(desk[d].saw) EXCEPT ![f] = [status |-> "ACTIVE", of |-> {p}]]
  /\ HangUp(d)
  /\ UNCHANGED <<profile, entry, draft>>

\* clearDoNotRent clears what its update saw; when that is nothing it answers 404.
ClearFlags(d, p) ==
  /\ Doing(d, "clear", "flags", p)
  /\ desk[d].saw \cap LockedFlags = {}
  /\ flag' = Cleared(desk[d].saw \cap ActiveFlags({p}))
  /\ HangUp(d)
  /\ UNCHANGED <<profile, entry, draft>>

---------------------------------------------------------------------------

\* createLease and its checks are Booking's; a lease here is a draft whose parties
\* were residents.  patchLease and setAllocation raise its version.
EditDraft(l) ==
  /\ draft[l].status = "DRAFT" /\ draft[l].version = 1
  /\ draft' = [draft EXCEPT ![l].version = 2]
  /\ UNCHANGED <<profile, entry, flag, desk>>

\* activateLease: an active flag stops it unless an override with a reason is asked
\* for, which takes a permission.  `saw' is the version the caller sent.
ActivateDraft(d, s, l, override) ==
  /\ Free(d) /\ draft[l].status = "DRAFT"
  /\ override => s \in OverrideStaff
  /\ ActiveFlags(Parties[l]) = {} \/ override
  /\ CallAt(d, IF override THEN "override" ELSE "activate", "screen", s, l, draft[l].version)
  /\ UNCHANGED <<profile, entry, flag, draft>>

Activating(d, at, l) == Doing(d, "activate", at, l) \/ Doing(d, "override", at, l)

\* A faulty variant of Screened: the transaction trusts the look taken before it.
ScreenedBefore(d, l) == d \in Desks /\ l \in Drafts

Screened(d, l) == ActiveFlags(Parties[l]) = {} \/ desk[d].op = "override"

\* The flags are read again in the transaction; `saw' adds those that existed.
Screen(d, l) ==
  /\ Activating(d, "screen", l)
  /\ IF Screened(d, l)
     THEN OnStep(d, "claim", <<desk[d].saw, {f \in Flags : flag[f] # NoFlag}>>)
     ELSE HangUp(d)
  /\ UNCHANGED <<profile, entry, flag, draft>>

\* The claim succeeds while the lease is a draft of the version sent.
ClaimDraft(d, l) ==
  /\ Activating(d, "claim", l)
  /\ draft' = IF draft[l] = [status |-> "DRAFT", version |-> desk[d].saw[1]]
              THEN [draft EXCEPT ![l] = [status |-> "ACTIVE", version |-> @.version + 1]]
              ELSE draft
  /\ HangUp(d)
  /\ UNCHANGED <<profile, entry, flag>>

---------------------------------------------------------------------------

\* createEntry: the person is any resident not archived, seen by the caller or not.
CreateEntry(d, s, e, p, home) ==
  /\ Free(d) /\ entry[e] = NoEntry
  /\ profile[p].status # "NONE" /\ ~profile[p].deleted
  /\ home \in Reach[s]
  /\ entry' = [entry EXCEPT ![e] = [status |-> "OPEN", home |-> home, version |-> 1]]
  /\ desk' = [desk EXCEPT ![d] = [Vacant EXCEPT !.op = "join", !.at = "done"]]
  /\ UNCHANGED <<profile, flag, draft>>

FindEntry(s, e) == entry[e].status # "NONE" /\ entry[e].home \in Reach[s]

\* patchEntry refuses a closed entry, and updates by id.
PatchEntry(d, s, e) ==
  /\ Free(d) /\ FindEntry(s, e) /\ entry[e].status \notin {"REMOVED", "CLOSED"}
  /\ CallAt(d, "patchEntry", "update", s, e, {})
  /\ UNCHANGED <<profile, entry, flag, draft>>

UpdateEntry(d, e, status) ==
  /\ Doing(d, "patchEntry", "update", e)
  /\ entry' = [entry EXCEPT ![e] = [entry[e] EXCEPT !.status = status, !.version = @ + 1]]
  /\ HangUp(d)
  /\ UNCHANGED <<profile, flag, draft>>

\* removeEntry of a removed entry only answers.
RemoveEntry(d, s, e) ==
  /\ Free(d) /\ FindEntry(s, e) /\ entry[e].status # "REMOVED"
  /\ CallAt(d, "removeEntry", "update", s, e, {})
  /\ UNCHANGED <<profile, entry, flag, draft>>

MarkRemoved(d, e) ==
  /\ Doing(d, "removeEntry", "update", e)
  /\ entry' = [entry EXCEPT ![e] = [entry[e] EXCEPT !.status = "REMOVED", !.version = @ + 1]]
  /\ HangUp(d)
  /\ UNCHANGED <<profile, flag, draft>>

---------------------------------------------------------------------------

ProfileStatuses == {"PROSPECT", "ACTIVE", "FORMER", "ARCHIVED"}
EntryStatuses == {"OPEN", "OFFERED", "CLOSED", "EXPIRED", "REMOVED"}

ProfileStep(d, p) ==
  \/ \E s \in Staff, home \in Homes, cs \in SUBSET ContactValues, is \in SUBSET Identifiers,
        confirm \in BOOLEAN : CreateResident(d, s, p, home, cs, is, confirm)
  \/ \E status \in ProfileStatuses : InsertResident(d, p, status)
  \/ \E s \in Staff, home \in Homes : PatchResident(d, s, p, home)
  \/ \E status \in ProfileStatuses, cs \in SUBSET ContactValues : UpdateResident(d, p, status, cs)
  \/ \E s \in Staff : ArchiveResident(d, s, p)
  \/ MarkArchived(d, p)

FlagStep(d, p) ==
  \/ \E s \in Staff, op \in {"set", "clear"} : DoNotRent(d, op, s, p)
  \/ SeeFlags(d, p)
  \/ SupersedeFlags(d, p)
  \/ \E f \in Flags : RaiseFlag(d, p, f)
  \/ ClearFlags(d, p)

LeaseStep(d, l) ==
  \/ EditDraft(l)
  \/ \E s \in Staff, override \in BOOLEAN : ActivateDraft(d, s, l, override)
  \/ Screen(d, l)
  \/ ClaimDraft(d, l)

EntryStep(d, e) ==
  \/ \E s \in Staff, p \in Persons, home \in Homes : CreateEntry(d, s, e, p, home)
  \/ \E s \in Staff : PatchEntry(d, s, e)
  \/ \E status \in EntryStatuses : UpdateEntry(d, e, status)
  \/ \E s \in Staff : RemoveEntry(d, s, e)
  \/ MarkRemoved(d, e)

ResidentNext ==
  \E d \in Desks :
    \/ \E p \in Persons : ProfileStep(d, p) \/ FlagStep(d, p)
    \/ \E l \in Drafts : LeaseStep(d, l)
    \/ \E e \in Entries : EntryStep(d, e)

ResidentSpec == ResidentInit /\ [][ResidentNext]_residentVars

---------------------------------------------------------------------------

\* The type invariant of the module.
ResidentTypeOK ==
  /\ \A p \in Persons : /\ profile[p].status \in ProfileStatuses \cup {"NONE"}
                       /\ profile[p].home \in Homes \cup {NoHome}
                       /\ profile[p].contacts \subseteq ContactValues
                       /\ profile[p].ids \subseteq Identifiers
  /\ \A e \in Entries : entry[e].status \in EntryStatuses \cup {"NONE"}
  /\ \A f \in Flags : flag[f].status \in {"NONE", "ACTIVE", "CLEARED"}
  /\ \A l \in Drafts : draft[l].status \in {"DRAFT", "ACTIVE"} /\ draft[l].version \in 1..3

\* A lease is activated without an override only when no person on it has a flag
\* that was already standing when the activation's own transaction looked: a flag
\* raised after the first look and before the transaction stops it.  What the
\* second read inside activateLease's transaction is for.
FlagsSeenBlock ==
  [][\A l \in Drafts, d \in Desks :
       (draft[l] # draft'[l] /\ Doing(d, "activate", "claim", l) /\ desk'[d].at = "done")
         => ActiveFlags(Parties[l]) \cap desk[d].saw[2] = {}]_residentVars
=============================================================================
