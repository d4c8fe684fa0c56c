\* Five transactions of a pool with two owners, one failure and one replay.
SPECIFICATION Spec
CONSTANTS
  FeeBase = 4
  PoolFee = 3
  Owners <- MCOwners
  Creator = "alice"
  Opening = 20
  Amounts <- MCAmounts
  MaxTransactions = 5
  MaxFaults = 1
  MaxReplays = 1
INVARIANTS   PrincipalAgrees
CHECK_DEADLOCK FALSE
