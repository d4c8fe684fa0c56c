SPECIFICATION Spec
CONSTANTS
  BucketMs = 2
  c1 = c1
  c2 = c2
  Prices <- MCPrices
  Clients = {c1, c2}
  Streams <- MCStreams
  Subscribed <- MCSubscribed
  MaxQueue = 2
  Times = {1, 3, 5}
  MaxTrades = 2
  MaxFaults = 1
INVARIANTS CandlesRight
PROPERTIES NeverBack 
CHECK_DEADLOCK FALSE
