SPECIFICATION Spec
CONSTANTS
  x = x
  y = y
  z = z
  j = j
  k = k
  Executions = {x, y, z}
  Events <- MCEvents
  Payload <- MCPayload
  Largest = 2
  Jobs = {j}
  JobOf <- MCJobOf
  ExternalId <- MCExternalId
  Requests = {r1, r2}
  Users = {u1}
  Batches <- MCOverlap
  JobsBefore <- MCJobsAny
  MaxAttempts = 3
  NoRow = NoRow
  NoOne = NoOne
PROPERTIES
  CancelKeepsFinished
CHECK_DEADLOCK FALSE
