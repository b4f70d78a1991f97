----------------------------- MODULE Numbering -----------------------------
(***************************************************************************)
(* The numbers of posted documents: allocateDocumentNumber and the         *)
(* counter row in tenant_settings it keeps for one kind of document        *)
(* (invoices, credit notes or receipts) of an organization.                *)
(*                                                                         *)
(* A posting runs in one transaction: it finds the newest counter row,     *)
(* locks and reads it again, or creates the first one, and stamps the      *)
(* document.  The year is that of the date the caller sends.  `given' are  *)
(* the numbers of committed documents; what a transaction writes becomes   *)
(* visible when it commits.                                                *)
(***************************************************************************)
EXTENDS Integers, FiniteSets, FiniteSetsExt

CONSTANTS Postings,   \* posting transactions
          Years,
          Counters    \* counter rows, a later one newer

\* There are finitely many postings: what was given can be counted.
ASSUME NumberAssumption == IsFiniteSet(Postings)

VARIABLES counter, numbered, posting

numberVars == <<counter, numbered, posting>>

NoCounter == [year |-> 0, seq |-> 0]
NotPosted == [at |-> "start", year |-> 0, row |-> 0, number |-> <<0, 0>>]

NumberInit ==
  /\ counter = [c \in Counters |-> NoCounter]
  /\ numbered = {}
  /\ posting = [p \in Postings |-> NotPosted]

Made == {c \in Counters : counter[c] # NoCounter}
ReservedRows == {posting[p].row : p \in {q \in Postings : posting[q].at = "first"}}

\* The transaction looks for the counter, the newest row of those committed.
FindCounter(p, year) ==
  /\ posting[p] = NotPosted
  /\ \E c \in Counters \cup {0} :
       /\ c = (IF Made = {} THEN 0 ELSE Max(Made))
       /\ posting' = [posting EXCEPT ![p] = [@ EXCEPT
            !.at = IF c = 0 THEN "create" ELSE "lock", !.year = year, !.row = c]]
  /\ UNCHANGED <<counter, numbered>>

Locked(c) == \E p \in Postings : posting[p].at = "stamp" /\ posting[p].row = c

\* A faulty variant of NextSeq: the counter runs on across years.
NextSeqAcrossYears(c, year) == IF year \in Years THEN counter[c].seq + 1 ELSE 1

NextSeq(c, year) == IF counter[c].year = year THEN counter[c].seq + 1 ELSE 1

\* SELECT ... FOR UPDATE, and the row is read again.
LockCounter(p) ==
  /\ posting[p].at = "lock" /\ ~Locked(posting[p].row)
  /\ posting' = [posting EXCEPT ![p].at = "stamp",
                 ![p].number = <<posting[p].year, NextSeq(posting[p].row, posting[p].year)>>]
  /\ UNCHANGED <<counter, numbered>>

\* No counter was found: a row of its own starts at 1.  The rows of two such
\* transactions do not collide, their unique key holds the time of creation.
CreateCounter(p, c) ==
  /\ posting[p].at = "create" /\ c \notin Made \cup ReservedRows
  /\ posting' = [posting EXCEPT ![p] = [@ EXCEPT
       !.at = "first", !.row = c, !.number = <<posting[p].year, 1>>]]
  /\ UNCHANGED <<counter, numbered>>

\* The document takes the number, unless the unique index finds it on another:
\* then nothing of the transaction remains.
Stamp(p) ==
  /\ posting[p].at \in {"stamp", "first"}
  /\ IF posting[p].number \in numbered
     THEN UNCHANGED <<counter, numbered>>
     ELSE /\ numbered' = numbered \cup {posting[p].number}
          /\ counter' = [counter EXCEPT ![posting[p].row] =
                           [year |-> posting[p].number[1], seq |-> posting[p].number[2]]]
  /\ posting' = [posting EXCEPT ![p] = [NotPosted EXCEPT !.at = "done"]]

NumberNext ==
  \E p \in Postings :
    \/ \E year \in Years : FindCounter(p, year)
    \/ LockCounter(p)
    \/ \E c \in Counters : CreateCounter(p, c)
    \/ Stamp(p)

NumberSpec == NumberInit /\ [][NumberNext]_numberVars

---------------------------------------------------------------------------

\* The type invariant of the module.
NumberTypeOK ==
  /\ counter \in [Counters -> [year : Years \cup {0}, seq : 0..Cardinality(Postings)]]
  /\ numbered \subseteq Years \X (1..Cardinality(Postings))
  /\ \A p \in Postings :
       posting[p].at \in {"start", "create", "lock", "stamp", "first", "done"}

\* The numbers of a year run from 1 without a gap, whichever postings were turned
\* away and however the years of the postings follow each other: the counter and
\* the document are written together.
NumbersWithoutGap ==
  \A y \in Years :
    LET used == {n[2] : n \in {m \in numbered : m[1] = y}} IN
    used = 1..Cardinality(used)

\* The counter never comes back to a number it has given: the next posting dated
\* in the year of a committed document finds a number that is still free.
\* ADR-0006 calls the numbers monotonic per organization; the counter keeps one
\* year only and starts again from 1 when the year sent differs from it.
NumbersNotReused ==
  \A y \in Years : Made # {} => <<y, NextSeq(Max(Made), y)>> \notin numbered
=============================================================================
