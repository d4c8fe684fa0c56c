\* Two histories of a pool, batches of three rows, a failure or a crash and
\* the replay an operator answers it with.
SPECIFICATION Spec
CONSTANTS
  Scenarios <- MCScenarios
  Seeded <- MCSeeded
  Discovered <- MCDiscovered
  BatchLimit = 3
  MaxFaults = 1
  MaxReplays = 1
INVARIANTS FactsKept Confluent Healed CreditedOnce
CHECK_DEADLOCK FALSE
