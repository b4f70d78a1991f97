------------------------------- MODULE Imports -------------------------------
(***************************************************************************)
(* The import of an inventory file: dry-run, commit, and the worker that   *)
(* applies the accepted rows (apps/api/src/modules/imports and             *)
(* apps/worker/src/handlers/inventory-import.handler.ts), for one job.     *)
(*                                                                         *)
(* A dry-run reads the status, validates for a while, and then replaces    *)
(* the job's rows and sets it to QUEUED by its id.  A commit claims the    *)
(* job with an updateMany on its status and appends one event.  The worker *)
(* delivers the event at least once and possibly twice at a time (module   *)
(* Outbox); the handler runs outside any transaction, so each of its       *)
(* statements is a step and a crash leaves what was done.                  *)
(*                                                                         *)
(* A row needs a property and a unit, which are searched and then created  *)
(* under partial unique indexes; buildings and beds are handled as units   *)
(* are, names, amenities, the status history and the progress in           *)
(* counts.applied are left out.  REJECTED rows count as SKIPPED ones.      *)
(***************************************************************************)
EXTENDS Naturals, Sequences, FiniteSets

CONSTANTS
  NumRows,      \* rows of the file
  Needs(_),     \* natural keys row i needs, in the order they are upserted
  DryRuns,      \* dry-runs that may be open at once
  MaxDryRuns,   \* bound on the dry-runs
  Commits,      \* commits that may be open at once
  Workers,      \* deliveries of the event that may be open at once
  MaxImportCrashes    \* bound on crashes of a worker and on other failures

Rows == 1..NumRows
Keys == UNION {{Needs(i)[n] : n \in DOMAIN Needs(i)} : i \in Rows}

ASSUME ImportAssumption ==
  /\ NumRows \in Nat \ {0} /\ MaxImportCrashes \in Nat /\ MaxDryRuns \in Nat
  /\ \A i \in Rows : Len(Needs(i)) \in Nat \ {0} /\ DOMAIN Needs(i) = 1..Len(Needs(i))

VARIABLES
  job,        \* status, and counts: rows accepted, whether others were skipped
  row,        \* status of import_job_rows
  inventory,  \* how many active records each natural key has
  event,      \* status of the job's outbox event
  dryRun,     \* what each open dry-run has validated
  commit,     \* the next step of each open commit
  worker,     \* where each delivery is
  importCrashes,
  dryRuns,    \* number of dry-runs so far
  redone      \* history: a dry-run has replaced the rows after the commit

importVars == <<job, row, inventory, event, dryRun, commit, worker, importCrashes, dryRuns, redone>>

Final    == {"COMPLETED", "PARTIALLY_COMPLETED"}
NoDryRun == [open |-> FALSE, accepted |-> {}]
Away     == [at |-> "away", todo |-> {}, key |-> 1, cache |-> {},
             accepted |-> 0, skipped |-> FALSE, applied |-> 0]

Accepted == {i \in Rows : row[i] = "ACCEPTED"}

ImportInit ==
  /\ job = [status |-> "QUEUED", accepted |-> 0, skipped |-> FALSE]
  /\ row = [i \in Rows |-> "NONE"]
  /\ inventory = [k \in Keys |-> 0]
  /\ event = "NONE"
  /\ dryRun = [d \in DryRuns |-> NoDryRun]
  /\ commit = [c \in Commits |-> "closed"]
  /\ worker = [w \in Workers |-> Away]
  /\ importCrashes = 0 /\ dryRuns = 0
  /\ redone = FALSE

(***************************************************************************)
(* Dry-run.                                                                *)
(***************************************************************************)

\* accepted: what passes the validation and is in the scope of the user.
DryRunRead(d, accepted) ==
  /\ ~dryRun[d].open /\ dryRuns < MaxDryRuns
  /\ job.status \notin {"PROCESSING", "CANCELLED"} \cup Final
  /\ dryRun' = [dryRun EXCEPT ![d] = [open |-> TRUE, accepted |-> accepted]]
  /\ dryRuns' = dryRuns + 1
  /\ UNCHANGED <<job, row, inventory, event, commit, worker, importCrashes, redone>>

DryRunWrite(d) ==
  LET accepted == dryRun[d].accepted IN
  /\ dryRun[d].open
  /\ row' = [i \in Rows |-> IF i \in accepted THEN "ACCEPTED" ELSE "SKIPPED"]
  /\ job' = [status |-> "QUEUED", accepted |-> Cardinality(accepted), skipped |-> accepted # Rows]
  /\ redone' = (redone \/ event # "NONE")
  /\ dryRun' = [dryRun EXCEPT ![d] = NoDryRun]
  /\ UNCHANGED <<inventory, event, commit, worker, importCrashes, dryRuns>>

(***************************************************************************)
(* Commit.                                                                 *)
(***************************************************************************)

Validated == \E i \in Rows : row[i] # "NONE"

CommitRead(c) ==
  /\ commit[c] = "closed"
  /\ Validated /\ job.status \notin {"PROCESSING"} \cup Final
  /\ commit' = [commit EXCEPT ![c] = "scope"]
  /\ UNCHANGED <<job, row, inventory, event, dryRun, worker, importCrashes, dryRuns, redone>>

\* Rows of properties the user may no longer touch; the counts are read again.
ReapplyPropertyScope(c, demoted) ==
  /\ commit[c] = "scope"
  /\ demoted \subseteq Accepted
  /\ row' = [i \in Rows |-> IF i \in demoted THEN "SKIPPED" ELSE row[i]]
  /\ job' = IF demoted = {} THEN job
            ELSE [job EXCEPT
                    !.accepted = IF @ > Cardinality(demoted) THEN @ - Cardinality(demoted) ELSE 0,
                    !.skipped = TRUE]
  /\ commit' = [commit EXCEPT ![c] = "claim"]
  /\ UNCHANGED <<inventory, event, dryRun, worker, importCrashes, dryRuns, redone>>

\* The WHERE of the claim.
Claimable == job.status \in {"QUEUED", "FAILED"}

\* The unique index on outbox sequences admits one event: a second claim, of a
\* job that has failed, is rolled back.
CommitClaim(c) ==
  /\ commit[c] = "claim"
  /\ IF Claimable /\ event = "NONE"
     THEN /\ job' = [job EXCEPT !.status = "PROCESSING"]
          /\ event' = "PENDING"
     ELSE UNCHANGED <<job, event>>
  /\ commit' = [commit EXCEPT ![c] = "closed"]
  /\ UNCHANGED <<row, inventory, dryRun, worker, importCrashes, dryRuns, redone>>

(***************************************************************************)
(* processInventoryImportCommit.                                           *)
(***************************************************************************)

Moved(w, at) == worker' = [worker EXCEPT ![w].at = at]

\* A faulty variant of Handled: a job that is being processed is left alone.
HandledOnce == job.status \in {"PROCESSING"} \cup Final

\* The handler has nothing left to do.
Handled == job.status \in Final

\* The consumer dispatches the event; the handler reads the job.
Start(w) ==
  /\ event = "PENDING" /\ worker[w].at = "away"
  /\ worker' = [worker EXCEPT ![w] =
       [Away EXCEPT !.at = IF Handled THEN "publish" ELSE "mark",
                    !.accepted = job.accepted, !.skipped = job.skipped]]
  /\ UNCHANGED <<job, row, inventory, event, dryRun, commit, importCrashes, dryRuns, redone>>

\* PROCESSING is written by the id, whatever has become of the job.
MarkRunning(w) ==
  /\ worker[w].at = "mark"
  /\ job' = [job EXCEPT !.status = "PROCESSING"]
  /\ Moved(w, "rows")
  /\ UNCHANGED <<row, inventory, event, dryRun, commit, importCrashes, dryRuns, redone>>

ReadRows(w) ==
  /\ worker[w].at = "rows"
  /\ worker' = [worker EXCEPT ![w].at = "search", ![w].todo = Accepted]
  /\ UNCHANGED <<job, row, inventory, event, dryRun, commit, importCrashes, dryRuns, redone>>

\* The rows are applied in the order of their numbers.
FirstRow(rows) == CHOOSE i \in rows : \A j \in rows : i <= j

\* The key worker w has to upsert next.
KeyOf(w) == Needs(FirstRow(worker[w].todo))[worker[w].key]

\* On to the next key, or to the next row.
Advanced(w) ==
  LET r == worker[w]  last == r.key = Len(Needs(FirstRow(r.todo))) IN
  worker' = [worker EXCEPT ![w] =
    [r EXCEPT !.at = "search", !.cache = @ \cup {KeyOf(w)},
              !.key = IF last THEN 1 ELSE @ + 1,
              !.todo = IF last THEN @ \ {FirstRow(@)} ELSE @,
              !.applied = IF last THEN @ + 1 ELSE @]]

\* upsertProperty, upsertUnit: the cache, the search, and the update of what
\* was found.
Upsert(w) ==
  /\ worker[w].at = "search" /\ worker[w].todo # {}
  /\ IF KeyOf(w) \in worker[w].cache \/ inventory[KeyOf(w)] > 0
     THEN Advanced(w) ELSE Moved(w, "create")
  /\ UNCHANGED <<job, row, inventory, event, dryRun, commit, importCrashes, dryRuns, redone>>

\* A faulty variant: without the indexes of migration 20260724130000.
KeyFreeAlways(k) == inventory[k] >= 0

\* The partial unique indexes on the codes of active records.
KeyFree(k) == inventory[k] = 0

Create(w) ==
  /\ worker[w].at = "create"
  /\ KeyFree(KeyOf(w))
  /\ inventory' = [inventory EXCEPT ![KeyOf(w)] = @ + 1]
  /\ Advanced(w)
  /\ UNCHANGED <<job, row, event, dryRun, commit, importCrashes, dryRuns, redone>>

\* The catch block; the event becomes due again.
Fail(w) ==
  /\ job' = [job EXCEPT !.status = "FAILED"]
  /\ worker' = [worker EXCEPT ![w] = Away]
  /\ UNCHANGED <<row, inventory, event, dryRun, commit, dryRuns, redone>>

LoseCreate(w) ==
  /\ worker[w].at = "create" /\ ~KeyFree(KeyOf(w))
  /\ Fail(w)
  /\ UNCHANGED importCrashes

Disturb(w) ==
  /\ worker[w].at \in {"search", "create"} /\ importCrashes < MaxImportCrashes
  /\ importCrashes' = importCrashes + 1
  /\ Fail(w)

Finish(w) ==
  LET r == worker[w] IN
  /\ r.at = "search" /\ r.todo = {}
  /\ job' = [job EXCEPT !.accepted = r.accepted, !.skipped = r.skipped,
               !.status = IF r.accepted > 0 /\ r.applied = 0 THEN "FAILED"
                          ELSE IF r.skipped THEN "PARTIALLY_COMPLETED" ELSE "COMPLETED"]
  /\ Moved(w, "publish")
  /\ UNCHANGED <<row, inventory, event, dryRun, commit, importCrashes, dryRuns, redone>>

\* A faulty variant of Publish: the event is taken off only while the job is final.
PublishFinal(w) ==
  /\ worker[w].at = "publish" /\ job.status = "COMPLETED"
  /\ event' = "PUBLISHED"
  /\ worker' = [worker EXCEPT ![w] = Away]
  /\ UNCHANGED <<job, row, inventory, dryRun, commit, importCrashes, dryRuns, redone>>

\* The transaction of processEvent, only for an event that is still PENDING.
Publish(w) ==
  /\ worker[w].at = "publish"
  /\ event' = "PUBLISHED"
  /\ worker' = [worker EXCEPT ![w] = Away]
  /\ UNCHANGED <<job, row, inventory, dryRun, commit, importCrashes, dryRuns, redone>>

CrashImport(w) ==
  /\ worker[w].at # "away" /\ importCrashes < MaxImportCrashes
  /\ worker' = [worker EXCEPT ![w] = Away]
  /\ importCrashes' = importCrashes + 1
  /\ UNCHANGED <<job, row, inventory, event, dryRun, commit, dryRuns, redone>>

\* What worker w does once it has been started.
WorkOn(w) ==
  \/ MarkRunning(w) \/ ReadRows(w) \/ Upsert(w) \/ Create(w) \/ LoseCreate(w)
  \/ Finish(w) \/ Publish(w)

ImportNext ==
  \/ \E d \in DryRuns : DryRunWrite(d) \/ \E accepted \in SUBSET Rows : DryRunRead(d, accepted)
  \/ \E c \in Commits :
       \/ CommitRead(c) \/ CommitClaim(c)
       \/ \E demoted \in SUBSET Rows : ReapplyPropertyScope(c, demoted)
  \/ \E w \in Workers : Start(w) \/ WorkOn(w) \/ Disturb(w) \/ CrashImport(w)

\* The timer starts deliveries again and again, and a process that is not
\* killed goes on.
ImportFairness == \A w \in Workers : WF_importVars(Start(w)) /\ WF_importVars(WorkOn(w))

ImportSpec == ImportInit /\ [][ImportNext]_importVars /\ ImportFairness

(***************************************************************************)
(* Properties.                                                             *)
(***************************************************************************)

\* Rows fit their tables.
ImportTypeOK ==
  /\ job \in [status : {"QUEUED", "PROCESSING", "FAILED"} \cup Final, accepted : Nat,
              skipped : BOOLEAN]
  /\ row \in [Rows -> {"NONE", "ACCEPTED", "SKIPPED"}]
  /\ inventory \in [Keys -> Nat]
  /\ event \in {"NONE", "PENDING", "PUBLISHED"}
  /\ dryRun \in [DryRuns -> [open : BOOLEAN, accepted : SUBSET Rows]]
  /\ commit \in [Commits -> {"closed", "scope", "claim"}]

\* Every record of the inventory is there once, and an event is not taken off
\* the queue before every accepted row is there, although deliveries overlap,
\* fail each other at the unique indexes, crash half-way and start over.  Rows
\* that a dry-run has replaced after the commit are not covered.
PublishedIsApplied ==
  /\ \A k \in Keys : inventory[k] <= 1
  /\ event = "PUBLISHED" /\ ~redone =>
       \A i \in Accepted : \A n \in DOMAIN Needs(i) : inventory[Needs(i)[n]] = 1

\* A committed import is worked off: failures and crashes only delay it.
ImportHandled == (event = "PENDING") ~> (event = "PUBLISHED")

\* import.service.ts, commit: a claimed job blocks dry-runs: nothing takes it
\* back to QUEUED.
DryRunBlocked ==
  [][job.status \in {"PROCESSING"} \cup Final => job'.status # "QUEUED"]_importVars

=============================================================================
