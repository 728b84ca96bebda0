SPECIFICATION Spec
CONSTANTS
  x = x
  y = y
  z = z
  j = j
  k = k
  Executions = {x, y, z}
  Events <- MCEvents
  Payload <- MCPayload
  Largest = 2
  Jobs = {j, k}
  JobOf <- MCJobOfTwo
  ExternalId <- MCExternalIdTwo
  Requests = {r1, r2}
  Users = {u1}
  Batches <- MCTwoJobs
  JobsBefore <- MCJobsMixed
  MaxAttempts = 3
  NoRow = NoRow
  NoOne = NoOne
INVARIANTS
  TypeOK
  LocksProtectReads
  AcknowledgedIsRecorded
PROPERTIES
  LateEventsKeepStatus
  ImplementsLedger
CHECK_DEADLOCK FALSE
