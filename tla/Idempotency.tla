----------------------------- MODULE Idempotency -----------------------------
(***************************************************************************)
(* Attempts that carry the same Idempotency-Key (IdempotencyService), each *)
(* one call of the same operation of the same organization; a client's     *)
(* retry after a lost answer is one more request.                          *)
(*                                                                         *)
(* The repository uses the key in two ways.  Refunds, dispositions,        *)
(* reversals and reconciliation reserve it first: begin(), the work and    *)
(* complete() are one transaction.  Payments, intents, invoices and leases *)
(* record it last: findExisting() before the transaction, the work, then   *)
(* resolveOrCreate().                                                      *)
(*                                                                         *)
(* Transactions run at READ COMMITTED.  Inserting the key waits for an     *)
(* open transaction that inserted or deleted it, and a unique violation    *)
(* aborts the transaction: the reads in the code's handlers of it fail.    *)
(***************************************************************************)
EXTENDS Integers, FiniteSets

CONSTANTS
  Attempts,     \* requests under one key
  Hashes,       \* what they may ask for
  Nobody,       \* no request
  ReserveFirst  \* begin/complete, or else findExisting/resolveOrCreate

ASSUME IdempotencyAssumption == Nobody \notin Attempts /\ ReserveFirst \in BOOLEAN

VARIABLES
  hash,      \* requestHash of each request
  phase,     \* where each request is
  seen,      \* whose expired row, if any, a request found and means to replace
  owner,     \* the request that wrote the committed row of the key
  keyStatus, \* its status column
  expired,   \* whether its expiresAt has passed
  holder,    \* the request whose open transaction has inserted the key
  effects,   \* requests whose work was committed since the row last expired
  answer     \* the request whose response body each caller received

keyVars == <<hash, phase, seen, owner, keyStatus, expired, holder, effects, answer>>

KeyInit ==
  /\ hash \in [Attempts -> Hashes]
  /\ phase = [r \in Attempts |-> "new"]
  /\ seen = [r \in Attempts |-> Nobody]
  /\ owner = Nobody /\ keyStatus = "COMPLETED" /\ expired = FALSE
  /\ holder = Nobody
  /\ effects = {}
  /\ answer = [r \in Attempts |-> Nobody]

GoTo(r, p) == phase' = [phase EXCEPT ![r] = p]
Reply(r, s) == answer' = [answer EXCEPT ![r] = s] /\ GoTo(r, "done")

rowVars == <<owner, keyStatus, expired>>

\* The row allows the key to be used: there is none, or it has expired.
Free == owner = Nobody \/ expired

\* A faulty variant of SameRequest: the hash is not compared.
SameRequestUnchecked(r) == ~Free

\* The row holds an equivalent request.
SameRequest(r) == ~Free /\ hash[owner] = hash[r]

\* The row holds another request, or one that is still being processed.
Refusing(r) == ~Free /\ (hash[owner] # hash[r] \/ keyStatus = "PROCESSING")

(***************************************************************************)
(* Reserve first.                                                          *)
(***************************************************************************)

\* begin() finds the response of an equivalent request.
BeginReplays(r) ==
  /\ ReserveFirst /\ phase[r] = "new"
  /\ SameRequest(r) /\ keyStatus = "COMPLETED"
  /\ Reply(r, owner)
  /\ UNCHANGED <<hash, seen, rowVars, holder, effects>>

BeginRefuses(r) ==
  /\ ReserveFirst /\ phase[r] = "new"
  /\ Refusing(r)
  /\ GoTo(r, "refused")
  /\ UNCHANGED <<hash, seen, rowVars, holder, effects, answer>>

\* begin() finds no row, or one that has expired.
BeginReserves(r) ==
  /\ ReserveFirst /\ phase[r] = "new"
  /\ Free
  /\ seen' = [seen EXCEPT ![r] = owner]
  /\ GoTo(r, "insert")
  /\ UNCHANGED <<hash, rowVars, holder, effects, answer>>

(***************************************************************************)
(* Record last.                                                            *)
(***************************************************************************)

\* findExisting() finds an equivalent request; expiry is not looked at.
SearchReplays(r) ==
  /\ ~ReserveFirst /\ phase[r] = "new"
  /\ owner # Nobody /\ hash[owner] = hash[r]
  /\ Reply(r, owner)
  /\ UNCHANGED <<hash, seen, rowVars, holder, effects>>

Search(r) ==
  /\ ~ReserveFirst /\ phase[r] = "new"
  /\ owner # Nobody => hash[owner] # hash[r]
  /\ GoTo(r, "work")
  /\ UNCHANGED <<hash, seen, rowVars, holder, effects, answer>>

\* resolveOrCreate() finds no row, or one that has expired.
Resolve(r) ==
  /\ ~ReserveFirst /\ phase[r] = "resolve"
  /\ Free
  /\ seen' = [seen EXCEPT ![r] = owner]
  /\ GoTo(r, "insert")
  /\ UNCHANGED <<hash, rowVars, holder, effects, answer>>

ResolveRefuses(r) ==
  /\ ~ReserveFirst /\ phase[r] = "resolve"
  /\ Refusing(r)
  /\ GoTo(r, "refused")
  /\ UNCHANGED <<hash, seen, rowVars, holder, effects, answer>>

\* resolveOrCreate() finds that an equivalent request was committed since
\* the search.  The transaction is committed with the work it has done; the
\* caller returns the stored body (recordManual) or its own (createIntent).
ResolveReplays(r) ==
  /\ ~ReserveFirst /\ phase[r] = "resolve"
  /\ SameRequest(r) /\ keyStatus = "COMPLETED"
  /\ effects' = effects \cup {r}
  /\ \E s \in {owner, r} : Reply(r, s)
  /\ UNCHANGED <<hash, seen, rowVars, holder>>

(***************************************************************************)
(* Both.                                                                   *)
(***************************************************************************)

\* A faulty variant of Insert: without the unique index.
InsertUnindexed(r) ==
  /\ phase[r] = "insert"
  /\ holder' = r
  /\ GoTo(r, IF ReserveFirst THEN "work" ELSE "commit")
  /\ UNCHANGED <<hash, seen, rowVars, effects, answer>>

\* The row found expired, if any, is deleted and the key inserted, once no
\* other transaction holds it.
Insert(r) ==
  /\ phase[r] = "insert"
  /\ holder = Nobody
  /\ owner = seen[r]
  /\ holder' = r
  /\ GoTo(r, IF ReserveFirst THEN "work" ELSE "commit")
  /\ UNCHANGED <<hash, seen, rowVars, effects, answer>>

\* A faulty variant of InsertFails: the loser waits until the winner's row expires.
InsertFailsLate(r) ==
  /\ phase[r] = "insert"
  /\ holder = Nobody
  /\ owner # seen[r] /\ Free
  /\ GoTo(r, "refused")
  /\ UNCHANGED <<hash, seen, rowVars, holder, effects, answer>>

\* Another transaction has committed the key: unique violation, or nothing
\* left to delete.
InsertFails(r) ==
  /\ phase[r] = "insert"
  /\ holder = Nobody
  /\ owner # seen[r]
  /\ GoTo(r, "refused")
  /\ UNCHANGED <<hash, seen, rowVars, holder, effects, answer>>

\* The operation itself, inside the transaction.
Operate(r) ==
  /\ phase[r] = "work"
  /\ GoTo(r, IF ReserveFirst THEN "commit" ELSE "resolve")
  /\ UNCHANGED <<hash, seen, rowVars, holder, effects, answer>>

\* A faulty variant of Commit: a path returns early and skips complete().
CommitUncompleted(r) ==
  /\ phase[r] = "commit"
  /\ owner' = r /\ keyStatus' = "PROCESSING" /\ expired' = FALSE
  /\ effects' = effects \cup {r}
  /\ holder' = Nobody
  /\ Reply(r, r)
  /\ UNCHANGED <<hash, seen>>

\* A faulty variant of Commit: the response of a refused operation is stored
\* as FAILED, a status that no reader of the row handles.
CommitFailed(r) ==
  /\ phase[r] = "commit"
  /\ owner' = r /\ keyStatus' \in {"COMPLETED", "FAILED"} /\ expired' = FALSE
  /\ effects' = effects \cup {r}
  /\ holder' = Nobody
  /\ Reply(r, r)
  /\ UNCHANGED <<hash, seen>>

\* The transaction commits, and the response with its body is stored.
Commit(r) ==
  /\ phase[r] = "commit"
  /\ owner' = r /\ keyStatus' = "COMPLETED" /\ expired' = FALSE
  /\ effects' = effects \cup {r}
  /\ holder' = Nobody
  /\ Reply(r, r)
  /\ UNCHANGED <<hash, seen>>

\* The operation is refused, times out, or the process dies: rollback.
Abort(r) ==
  /\ phase[r] \in {"insert", "work", "resolve", "commit"}
  /\ holder' = IF holder = r THEN Nobody ELSE holder
  /\ GoTo(r, "refused")
  /\ UNCHANGED <<hash, seen, rowVars, effects, answer>>

\* expiresAt passes.
Expire ==
  /\ owner # Nobody /\ ~expired
  /\ expired' = TRUE
  /\ effects' = {}
  /\ UNCHANGED <<hash, phase, seen, owner, keyStatus, holder, answer>>

Step(r) ==
  \/ BeginReplays(r) \/ BeginRefuses(r) \/ BeginReserves(r)
  \/ SearchReplays(r) \/ Search(r)
  \/ Resolve(r) \/ ResolveRefuses(r) \/ ResolveReplays(r)
  \/ Insert(r) \/ InsertFails(r) \/ Operate(r) \/ Commit(r)

KeyNext == Expire \/ \E r \in Attempts : Step(r) \/ Abort(r)

KeySpec == KeyInit /\ [][KeyNext]_keyVars

\* Node runs every request it has accepted.
KeyFairness == \A r \in Attempts : WF_keyVars(Step(r))

KeyFairSpec == KeySpec /\ KeyFairness

(***************************************************************************)
(* Properties.                                                             *)
(***************************************************************************)

\* Columns have their types.
KeyTypeOK ==
  /\ hash \in [Attempts -> Hashes]
  /\ phase \in [Attempts -> {"new", "insert", "work", "resolve", "commit", "done", "refused"}]
  /\ seen \in [Attempts -> Attempts \cup {Nobody}]
  /\ owner \in Attempts \cup {Nobody} /\ holder \in Attempts \cup {Nobody}
  /\ keyStatus \in {"PROCESSING", "COMPLETED"} /\ expired \in BOOLEAN
  /\ effects \subseteq Attempts
  /\ answer \in [Attempts -> Attempts \cup {Nobody}]

\* While a key lives, the requests under it take effect once
\* (docs/03-database-design.md, constraint 14).
AtMostOneEffect == \A r, s \in effects : r = s

\* begin() and complete() together implement at-most-once execution.
Promise == INSTANCE AtMostOnce
ImplementsAtMostOnce == Promise!Spec

\* No committed row says PROCESSING: it would refuse every retry until it
\* expires (finding H3 of docs/reviews/Sprint-12-Review.md).
NoStuckKey == keyStatus = "COMPLETED"

\* Whatever resolveOrCreate() lets through, effects under one key are all of
\* equivalent requests, and so are the responses replayed.
OneRequestPerKey ==
  /\ \A r, s \in effects : hash[r] = hash[s]
  /\ \A r \in Attempts : answer[r] # Nobody => hash[answer[r]] = hash[r]

\* No request waits for ever on a key another transaction holds.
RequestsEnd == \A r \in Attempts : phase[r] = "insert" ~> phase[r] \in {"done", "refused"}

=============================================================================
