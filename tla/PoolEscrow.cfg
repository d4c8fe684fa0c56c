\* A meme pool whose first liquidity, real native tokens, races the deposits of
\* users: deposits, swaps and claims of both kinds, with bounced and failed
\* claim transfers.
SPECIFICATION Spec
CONSTANTS
  FeeBase = 1000
  PoolFee = 3
  alice = alice
  bob = bob
  Accounts = {alice, bob}
  Creator = alice
  NativePair = TRUE
  MemeBootstrap = TRUE
  Virtual = FALSE
  Initial0 = 8
  Initial1 = 8
  Wealth = 8
  Amounts = {3, 8}
  Recipients = {bob}
  Mins = {0}
  Operations = {"AddLiquidity", "Swap", "Claim"}
  MaxRequests = 3
  MaxPending = 2
INVARIANTS TypeOK LedgerBalanced ClaimingMatchesFlight
PROPERTY EscrowSpec
CHECK_DEADLOCK FALSE
