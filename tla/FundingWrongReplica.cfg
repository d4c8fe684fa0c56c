\* A meme pair; the second leg of a deposit is not covered.
SPECIFICATION Spec
CONSTANTS
  alice = alice
  bob = bob
  carol = carol
  shared = shared
  own = own
  Accounts = {alice, bob}
  Chains = {shared, own}
  ChainOf <- Homes
  NativePairs = {FALSE}
  Wealth = 1
  Amounts = {1, 2}
  Operations = {"AddLiquidity"}
  MaxRequests = 1
INVARIANT PartialFundingClaimable
CHECK_DEADLOCK FALSE
