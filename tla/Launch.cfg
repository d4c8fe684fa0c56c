SPECIFICATION Spec
CONSTANTS
  m1 = m1
  m2 = m2
  u1 = u1
  u2 = u2
  native = native
  unset = unset
  holder = holder
  swap = swap
  Memes <- MCMemes
  Users <- MCUsers
  Native = native
  Unset = unset
  Holder = holder
  Swap = swap
  PoolChains = {1, 2, 3}
  Accounts <- MCAccounts
  Fee = 1
  OwnerGrant = 2
  Reward = 1
  Amounts = {1, 2}
  Wealth = 5
  Scenarios <- MCScenarios
INVARIANTS
  MoneyAccounted
  TokensAccounted
PROPERTIES
  CatalogSpec
  NewsArrives
  LaunchDecided
CHECK_DEADLOCK FALSE
