\* Every input of a small grid, the deployed fee of 0.3 percent.
SPECIFICATION GridSpec
CONSTANTS
  FeeBase = 1000
  PoolFee = 3
  MostReserve = 10
  MostAmount = 5
  MostSupply = 6
INVARIANTS SwapExact  DepositBack FeeFair
CHECK_DEADLOCK FALSE
