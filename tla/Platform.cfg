\* The outbox, idempotency keys reserved first, imports.
SPECIFICATION PlatformSpec
CONSTANTS
  \* outbox
  Events = {e1, e2, e3}
  Aggregates = {a1, a2, a3}
  ForeignEvents = {e3}
  Pollers = {w1, w2}
  BatchSize = 2
  MaxFailures = 1
  MaxCrashes = 1
  \* idempotency keys
  Attempts = {r1, r2, r3}
  Hashes = {h1, h2}
  Nobody = Nobody
  ReserveFirst = TRUE
  \* imports
  NumRows = 2
  Needs <- MCNeeds
  DryRuns = {d1}
  MaxDryRuns = 1
  Commits = {c1}
  Workers = {w1, w2}
  MaxImportCrashes = 1
INVARIANTS
  PlatformTypeOK
  PublishedIsApplied
PROPERTIES
  ImplementsDelivery
  EventsComplete
  ImplementsAtMostOnce
  RequestsEnd
  ImportHandled
\* keys and events may be used up
CHECK_DEADLOCK FALSE
