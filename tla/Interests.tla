----------------------------- MODULE Interests -----------------------------
(***************************************************************************)
(* Who owns and who manages a property, and for which days: owners,        *)
(* ownerships, management agreements and property access grants            *)
(* (PropertyOwnerService, OwnershipService, ManagementAgreementService,    *)
(* PropertyAccessGrantService and AuthorizationService's property scope).  *)
(*                                                                         *)
(* A period is the days from `from' up to but not including `to'; Forever  *)
(* stands for no end.  Every operation reads and decides first and writes  *)
(* later, by id, without a transaction around both; `visit' is the         *)
(* operation in flight and what it will write.  Overlapping says whether   *)
(* one may start while another is under way.  All ownerships are of one    *)
(* interest type: the sum of the shares is taken type by type.             *)
(***************************************************************************)
EXTENDS Integers, FiniteSets, FiniteSetsExt

CONSTANTS
  Owners, Holdings, Agreements, Grants,
  Estates,                    \* properties
  Members, OrgWide,           \* OrgWide: members with an organization-scoped role
  Shares,                     \* what an ownership may carry, in ten-thousandths of a percent
  NumDays, Visits, Overlapping

ASSUME InterestAssumption ==
  /\ NumDays \in Nat \ {0} /\ Overlapping \in BOOLEAN
  /\ IsFiniteSet(Holdings) /\ Shares \subseteq Nat

VARIABLES owner, holding, agreement, grant, today, visit

interestVars == <<owner, holding, agreement, grant, today, visit>>

Days == 1..NumDays
Forever == NumDays + 1
Ends == 2..Forever
NoShare == 0         \* an ownership without a percentage
Whole == 1000000     \* 100.0000 %
Tolerated == 1000001 \* 100.0001 %, the sum that createOwnership still lets through: its
                     \* doubles decide at this very sum, and never let a larger one pass
AllEstates == "ALL_PROPERTIES"

NoOwner == [status |-> "NONE", deleted |-> FALSE, version |-> 0]
NoHolding == [status |-> "NONE"]
NoAgreement == [status |-> "NONE", version |-> 0]
NoGrant == [for |-> "NONE"]
NoVisit == [at |-> "start", op |-> "none", id |-> <<>>, writes |-> "none"]

InterestInit ==
  /\ owner = [p \in Owners |-> NoOwner]
  /\ holding = [o \in Holdings |-> NoHolding]
  /\ agreement = [a \in Agreements |-> NoAgreement]
  /\ grant = [g \in Grants |-> NoGrant]
  /\ today = 1
  /\ visit = [v \in Visits |-> NoVisit]

Midnight ==
  /\ today < NumDays
  /\ today' = today + 1
  /\ UNCHANGED <<owner, holding, agreement, grant, visit>>

---------------------------------------------------------------------------

\* An operation that has read and decided; what it will write is kept with it.
Decide(v, op, id, writes) ==
  /\ visit[v] = NoVisit
  /\ Overlapping \/ \A u \in Visits : visit[u].at # "write"
  /\ visit' = [visit EXCEPT ![v] = [at |-> "write", op |-> op, id |-> <<id>>, writes |-> writes]]
  /\ UNCHANGED <<owner, holding, agreement, grant, today>>

WritesRow(v, op, id) ==
  /\ visit[v].at = "write" /\ visit[v].op = op /\ visit[v].id = <<id>>
  /\ visit' = [visit EXCEPT ![v] = [NoVisit EXCEPT !.at = "done"]]

Runs(row, day) == row.from <= day /\ day < row.to

\* A faulty variant of Overlaps: only interests that have begun by `from` count.
OverlapsStart(row, from, to) == row.from <= from /\ row.to > from /\ from < to

Overlaps(row, from, to) == row.from < to /\ row.to > from

\* The grants of m in force: all properties, or the ones named.
InForce(m) == {g \in Grants : grant[g] # NoGrant /\ grant[g].for = m /\ Runs(grant[g], today)}

MayUse(m, h) ==
  \/ m \in OrgWide
  \/ \E g \in InForce(m) : grant[g].estate \in {AllEstates, h}

---------------------------------------------------------------------------

CreateOwner(p) ==
  /\ owner[p] = NoOwner
  /\ owner' = [owner EXCEPT ![p] = [status |-> "ACTIVE", deleted |-> FALSE, version |-> 1]]
  /\ UNCHANGED <<holding, agreement, grant, today, visit>>

FindOwner(p) == owner[p] # NoOwner /\ ~owner[p].deleted

PatchOwner(v, p) == FindOwner(p) /\ Decide(v, "patchOwner", p, "ACTIVE")

UpdateOwner(v, p) ==
  /\ WritesRow(v, "patchOwner", p)
  /\ owner' = [owner EXCEPT ![p].status = visit[v].writes, ![p].version = @ + 1]
  /\ UNCHANGED <<holding, agreement, grant, today>>

HeldBy(p) == {o \in Holdings : holding[o].status = "ACTIVE" /\ holding[o].of = p}

\* archiveOwner: refused while an active ownership has not run out.
ArchiveOwner(v, p) ==
  /\ FindOwner(p) /\ \A o \in HeldBy(p) : holding[o].to <= today
  /\ Decide(v, "archiveOwner", p, "ARCHIVED")

MarkOwnerArchived(v, p) ==
  /\ WritesRow(v, "archiveOwner", p)
  /\ owner' = [owner EXCEPT ![p] = [status |-> "ARCHIVED", deleted |-> TRUE,
                                     version |-> @.version + 1]]
  /\ UNCHANGED <<holding, agreement, grant, today>>

---------------------------------------------------------------------------

\* The active ownerships of h that share a day with the period.
Concurrent(h, from, to) ==
  {o \in Holdings : /\ holding[o].status = "ACTIVE" /\ holding[o].estate = h
                    /\ Overlaps(holding[o], from, to)}

SharesOf(os) == MapThenSumSet(LAMBDA o : holding[o].share, os)

\* createOwnership's checks: the owner has no other interest in those days, and
\* the shares of everybody who has one leave room for this share, up to the tolerance.
Admissible(h, p, share, from, to) ==
  /\ FindOwner(p) /\ from < to
  /\ Concurrent(h, from, to) \cap HeldBy(p) = {}
  /\ share # NoShare => SharesOf(Concurrent(h, from, to)) + share <= Tolerated

CreateOwnership(v, m, h, o, p, share, from, to) ==
  /\ MayUse(m, h) /\ holding[o] = NoHolding
  /\ \A u \in Visits : visit[u].id # <<o>>
  /\ Admissible(h, p, share, from, to)
  /\ Decide(v, "own", o, [status |-> "ACTIVE", estate |-> h, of |-> p, share |-> share,
                          from |-> from, to |-> to])

InsertOwnership(v, o) ==
  /\ WritesRow(v, "own", o)
  /\ holding' = [holding EXCEPT ![o] = visit[v].writes]
  /\ UNCHANGED <<owner, agreement, grant, today>>

\* endOwnership: only an ownership without an end can be ended, on any day.
EndOwnership(v, m, o, to) ==
  /\ holding[o] # NoHolding /\ MayUse(m, holding[o].estate)
  /\ holding[o].to = Forever
  /\ Decide(v, "disown", o, to)

UpdateOwnership(v, o) ==
  /\ WritesRow(v, "disown", o)
  /\ holding' = [holding EXCEPT ![o].status = "ENDED", ![o].to = visit[v].writes]
  /\ UNCHANGED <<owner, agreement, grant, today>>

---------------------------------------------------------------------------

CreateAgreement(m, h, a, from, to) ==
  /\ MayUse(m, h) /\ agreement[a] = NoAgreement
  /\ agreement' = [agreement EXCEPT ![a] = [status |-> "DRAFT", estate |-> h, from |-> from,
                                            to |-> to, version |-> 1]]
  /\ UNCHANGED <<owner, holding, grant, today, visit>>

\* Every later operation finds the agreement, asks for access to its property and
\* compares the version with the one read: a stale caller goes no further.
FindAgreement(m, a) == agreement[a] # NoAgreement /\ MayUse(m, agreement[a].estate)

\* patchAgreement may change anything but an active agreement.
PatchAgreement(v, m, a, from, to) ==
  /\ FindAgreement(m, a) /\ agreement[a].status # "ACTIVE"
  /\ Decide(v, "patch", a, [from |-> from, to |-> to])

UpdateAgreement(v, a) ==
  /\ WritesRow(v, "patch", a)
  /\ agreement' = [agreement EXCEPT ![a].from = visit[v].writes.from,
                                    ![a].to = visit[v].writes.to, ![a].version = @ + 1]
  /\ UNCHANGED <<owner, holding, grant, today>>

\* A faulty variant of Uncovered: agreements with an end are not looked at.
UncoveredByOpenEnded(a, from) ==
  \A b \in Agreements \ {a} :
    agreement[b].status = "ACTIVE" /\ agreement[b].estate = agreement[a].estate =>
      ~(agreement[b].to = Forever /\ from < Forever)

\* No other active agreement of the property covers part of the period.
Uncovered(a, from) ==
  \A b \in Agreements \ {a} :
    agreement[b].status = "ACTIVE" /\ agreement[b].estate = agreement[a].estate =>
      ~(agreement[b].from <= agreement[a].to /\ agreement[b].to > from)

ActivateAgreement(v, m, a, from) ==
  /\ FindAgreement(m, a) /\ agreement[a].status = "DRAFT"
  /\ Uncovered(a, from)
  /\ Decide(v, "activate", a, from)

MarkActive(v, a) ==
  /\ WritesRow(v, "activate", a)
  /\ agreement' = [agreement EXCEPT ![a].status = "ACTIVE", ![a].from = visit[v].writes,
                                    ![a].version = @ + 1]
  /\ UNCHANGED <<owner, holding, grant, today>>

TerminateAgreement(v, m, a, to) ==
  /\ FindAgreement(m, a) /\ agreement[a].status # "TERMINATED"
  /\ Decide(v, "terminate", a, to)

MarkTerminated(v, a) ==
  /\ WritesRow(v, "terminate", a)
  /\ agreement' = [agreement EXCEPT ![a].status = "TERMINATED", ![a].to = visit[v].writes,
                                    ![a].version = @ + 1]
  /\ UNCHANGED <<owner, holding, grant, today>>

---------------------------------------------------------------------------

\* createGrant looks for a grant in force now, whatever days the new one is for.
CreateGrant(v, g, m, h, from, to) ==
  /\ grant[g] = NoGrant /\ \A u \in Visits : visit[u].id # <<g>>
  /\ h # AllEstates => \A f \in InForce(m) : grant[f].estate # h
  /\ Decide(v, "grant", g, [for |-> m, estate |-> h, from |-> from, to |-> to])

InsertGrant(v, g) ==
  /\ WritesRow(v, "grant", g)
  /\ grant' = [grant EXCEPT ![g] = visit[v].writes]
  /\ UNCHANGED <<owner, holding, agreement, today>>

\* endGrant: refused once the grant has run out; the end may not precede the start.
EndGrant(v, g, to) ==
  /\ grant[g] # NoGrant /\ grant[g].to > today
  /\ to >= grant[g].from
  /\ Decide(v, "endGrant", g, to)

UpdateGrant(v, g) ==
  /\ WritesRow(v, "endGrant", g)
  /\ grant' = [grant EXCEPT ![g].to = visit[v].writes]
  /\ UNCHANGED <<owner, holding, agreement, today>>

---------------------------------------------------------------------------

OwnerNext(p) ==
  \/ CreateOwner(p)
  \/ \E v \in Visits :
       \/ PatchOwner(v, p)
       \/ UpdateOwner(v, p)
       \/ ArchiveOwner(v, p)
       \/ MarkOwnerArchived(v, p)

OwnershipNext(o) ==
  \E v \in Visits :
    \/ \E m \in Members, h \in Estates, p \in Owners, share \in Shares, from \in Days, to \in Ends :
         CreateOwnership(v, m, h, o, p, share, from, to)
    \/ InsertOwnership(v, o)
    \/ \E m \in Members, to \in Ends \ {Forever} : EndOwnership(v, m, o, to)
    \/ UpdateOwnership(v, o)

AgreementNext(a) ==
  \/ \E m \in Members, h \in Estates, from \in Days, to \in Ends :
       CreateAgreement(m, h, a, from, to)
  \/ \E v \in Visits :
       \/ \E m \in Members, from \in Days, to \in Ends : PatchAgreement(v, m, a, from, to)
       \/ UpdateAgreement(v, a)
       \/ \E m \in Members, from \in Days : ActivateAgreement(v, m, a, from)
       \/ MarkActive(v, a)
       \/ \E m \in Members, to \in Days : TerminateAgreement(v, m, a, to)
       \/ MarkTerminated(v, a)

GrantNext(g) ==
  \E v \in Visits :
    \/ \E m \in Members, h \in Estates \cup {AllEstates}, from \in Days, to \in Ends :
         CreateGrant(v, g, m, h, from, to)
    \/ InsertGrant(v, g)
    \/ \E to \in Days : EndGrant(v, g, to)
    \/ UpdateGrant(v, g)

InterestNext ==
  \/ Midnight
  \/ \E p \in Owners : OwnerNext(p)
  \/ \E o \in Holdings : OwnershipNext(o)
  \/ \E a \in Agreements : AgreementNext(a)
  \/ \E g \in Grants : GrantNext(g)

InterestSpec == InterestInit /\ [][InterestNext]_interestVars

---------------------------------------------------------------------------

\* The type invariant of the module.
InterestTypeOK ==
  /\ today \in Days
  /\ \A p \in Owners : owner[p].status \in {"NONE", "ACTIVE", "ARCHIVED"}
  /\ \A o \in Holdings : holding[o] # NoHolding =>
       /\ holding[o].status \in {"ACTIVE", "ENDED"} /\ holding[o].of \in Owners
       /\ holding[o].from \in Days /\ holding[o].to \in 1..Forever
  /\ \A a \in Agreements : agreement[a].status \in {"NONE", "DRAFT", "ACTIVE", "TERMINATED"}
  /\ \A g \in Grants : grant[g] # NoGrant =>
       grant[g].for \in Members /\ grant[g].from \in Days /\ grant[g].to \in 1..Forever
  /\ \A v \in Visits : visit[v].at \in {"start", "write", "done"}

Active(o, h, d) == holding[o].status = "ACTIVE" /\ holding[o].estate = h /\ Runs(holding[o], d)

Managed(a, d) == agreement[a].status = "ACTIVE" /\ Runs(agreement[a], d)

\* What is owned of a property on a day.
Owned(h, d) == SharesOf({o \in Holdings : Active(o, h, d)})

\* docs/03-database-design.md:531: "active owner shares for a Property must not exceed
\* `100.0000` over any overlapping effective period".
SharesWithinWhole == \A h \in Estates, d \in Days : Owned(h, d) <= Whole

\* What createOwnership's sum over all interests that meet the new period does keep:
\* the shares of one day exceed the whole by no more than the tolerance of one sum,
\* which endings, archivings and further creations never add up to more.
SharesWithinTolerance == \A h \in Estates, d \in Days : Owned(h, d) <= Tolerated

\* An owner is archived only with nothing active left, a property has at most one
\* active agreement on any day, and an owner one interest: the checks of
\* archiveOwner, activateAgreement and createOwnership hold what they promise over
\* any sequence of edits, endings and days when operations do not overlap, and the
\* sum of createOwnership keeps the shares within its tolerance.
InterestsFit ==
  /\ SharesWithinTolerance
  /\ \A p \in Owners : owner[p].deleted => \A o \in HeldBy(p) : holding[o].to <= today
  /\ \A a, b \in Agreements, d \in Days :
       Managed(a, d) /\ Managed(b, d) /\ agreement[a].estate = agreement[b].estate => a = b
  /\ \A o, q \in Holdings, h \in Estates, d \in Days :
       Active(o, h, d) /\ Active(q, h, d) /\ holding[o].of = holding[q].of => o = q
=============================================================================
