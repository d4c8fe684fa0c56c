\* A pool of two meme tokens, whose deposits hop over three chains twice, or
\* of a meme token and the native token, under fair handling of messages.
SPECIFICATION FairSpec
CONSTANTS
  alice = alice
  bob = bob
  carol = carol
  shared = shared
  own = own
  Accounts = {alice, bob, carol}
  Chains = {shared, own}
  ChainOf <- Homes
  NativePairs = {TRUE, FALSE}
  Wealth = 2
  Amounts = {1, 2}
  Operations = {"Swap", "AddLiquidity"}
  MaxRequests = 2
INVARIANTS TypeOK OneFate TransferFunded SettlementsFunded ValueAccounted
PROPERTY EventuallyDecided
CHECK_DEADLOCK FALSE
