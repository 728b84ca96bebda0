SPECIFICATION Spec
CONSTANTS
  x = x
  y = y
  z = z
  j = j
  k = k
  Executions = {x, y, z}
  Events <- MCEvents
  Payload <- MCPayload
  Largest = 2
  Jobs = {j}
  JobOf <- MCJobOf
  ExternalId <- MCExternalId
  Requests = {r1, r2, r3}
  Users = {}
  Batches <- MCOverlap
  JobsBefore <- MCJobsAny
  MaxAttempts = 2
  NoRow = NoRow
  NoOne = NoOne
SYMMETRY Symm
INVARIANTS
  SnapshotIsLatest
  CountedExactlyOnce
  OrderedInsertsNeverDeadlock
  FewExecutionsNeverConflictOut
CHECK_DEADLOCK FALSE
