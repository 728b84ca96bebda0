SPECIFICATION FairSpec
CONSTANTS
  Deliveries = {d1}
  Chains = {c1, c2}
  Dispatchers = {s1, s2}
  Recoverers = {r1, r2}
  Answers <- MCAnswers
  MaxRetries = 1
  MaxFaults = 2
  MaxCount = 2
  NoOne = NoOne
INVARIANTS
  TypeOK
  PickedStayPending
PROPERTIES
  ImplementsPromise
  DeliveriesEnd
CHECK_DEADLOCK FALSE
