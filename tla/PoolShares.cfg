\* A meme pool bootstrapped with real native tokens.  A fee of one half makes
\* the fee share appear with small reserves.
SPECIFICATION Spec
CONSTANTS
  FeeBase = 2
  PoolFee = 1
  alice = alice
  bob = bob
  Accounts = {alice, bob}
  Creator = alice
  NativePair = TRUE
  MemeBootstrap = TRUE
  Virtual = FALSE
  Initial0 = 24
  Initial1 = 24
  Wealth = 24
  Recipients = {bob}
  Amounts = {8, 24}
  Mins = {0}
  Operations = {"AddLiquidity", "RemoveLiquidity", "Swap", "SetFeeTo", "SetFeeToSetter"}
  MaxRequests = 4
  MaxPending = 2
INVARIANTS FinalizedTogether KLastBound SharesAccounted
PROPERTY ShareValueKept
CHECK_DEADLOCK FALSE
