SPECIFICATION FairSpec
CONSTANTS
  Incidents = {1, 2}
  Rules = {rl}
  Jobs = {j1}
  Members = {m}
  Workers = {w1}
  Users = {u1}
  MaxEvents = 2
  NoIncident = NoIncident
  NoRule = NoRule
  NoOne = NoOne
PROPERTIES
  HealthyTelemetryResolves
CHECK_DEADLOCK FALSE
