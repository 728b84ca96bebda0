SPECIFICATION Spec
CONSTANTS
  Incidents = {1, 2}
  Rules = {rl}
  Jobs = {j1}
  Members = {m}
  Workers = {w1, w2}
  Users = {}
  MaxEvents = 4
  NoIncident = NoIncident
  NoRule = NoRule
  NoOne = NoOne
SYMMETRY MCWorkers
INVARIANTS
  TypeOK
  OneActivePerScope
  TimelineReplays
PROPERTIES
  ManualResolutionStands
CHECK_DEADLOCK FALSE
