SPECIFICATION Spec
CONSTANTS
  Pools = {p1}
  Native = native
  Wealth = 40
  Gas = 1
  Activity = 4
  Corrections = {4}
  MaxTrade = 4
  MaxPending = 4
  MaxInventoryBias = 4
  ReversePercent = 0
  OneQuote = 2
  MinSlices = 2
  MaxSlices = 2
  MaxTrades = 2
  MaxFaults = 2
INVARIANTS NotOvertraded ClaimsCovered
PROPERTIES OutputsPaid
CHECK_DEADLOCK FALSE
