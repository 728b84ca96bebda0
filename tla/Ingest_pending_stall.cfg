SPECIFICATION FairSpec
CONSTANTS
  x = x
  y = y
  z = z
  j = j
  k = k
  Executions = {x, y, z}
  Events <- MCEvents
  Payload <- MCPayload
  Largest = 2
  Jobs = {j}
  JobOf <- MCJobOf
  ExternalId <- MCExternalId
  Requests = {r1, r2}
  Users = {}
  Batches <- MCPending
  JobsBefore <- MCJobsKnown
  MaxAttempts = 3
  NoRow = NoRow
  NoOne = NoOne
PROPERTIES
  StalledFindingClears
CHECK_DEADLOCK FALSE
