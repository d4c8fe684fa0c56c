\* A meme pool bootstrapped with virtual native liquidity; swaps only.
SPECIFICATION Spec
CONSTANTS
  FeeBase = 1000
  PoolFee = 3
  alice = alice
  bob = bob
  Accounts = {alice, bob}
  Creator = alice
  NativePair = TRUE
  MemeBootstrap = TRUE
  Virtual = TRUE
  Initial0 = 24
  Initial1 = 24
  Wealth = 24
  Recipients = {bob}
  Amounts = {8, 24}
  Mins = {0}
  Operations = {"Swap"}
  MaxRequests = 3
  MaxPending = 2
INVARIANT OwedWithinCustody
CHECK_DEADLOCK FALSE
