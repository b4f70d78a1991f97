SPECIFICATION Spec
CHECK_DEADLOCK FALSE
CONSTANTS
  Events = {e1, e2}
  Aggregates = {a1}
  ForeignEvents = {}
  Pollers = {w1}
  BatchSize = 25
  MaxFailures = 0
  MaxCrashes = 0
INVARIANTS
  LegalOperationsCommit
