SPECIFICATION ServerSpec
CONSTANTS
  x = x
  y = y
  r1 = r1
  r2 = r2
  Incidents = {1, 2}
  Rules = {rl}
  Jobs = {j1}
  Members = {}
  Workers = {w1}
  Users = {u1}
  MaxEvents = 1
  NoIncident = NoIncident
  NoRule = NoRule
  NoRow = NoRow
  NoOne = NoOne
INVARIANTS
  NoDanglingRule
PROPERTIES
  BreachRaises
  RecoveryResolves
  RequestsAnswered
  StalledFindingClears
CHECK_DEADLOCK FALSE
