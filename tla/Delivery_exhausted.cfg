SPECIFICATION FairSpec
CONSTANTS
  Deliveries = {d1}
  Chains = {c1, c2}
  Dispatchers = {s1}
  Recoverers = {r1}
  Answers <- MCDown
  MaxRetries = 5
  MaxFaults = 0
  MaxCount = 2
  NoOne = NoOne
PROPERTIES
  DeliveriesEnd
CHECK_DEADLOCK FALSE
