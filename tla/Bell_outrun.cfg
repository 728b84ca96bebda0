SPECIFICATION NSpec
CONSTANTS
  Filters = {"all"}
  MaxCreated = 1
  MaxClicks = 0
  MaxElsewhere = 1
  MaxFaults = 0
INVARIANTS
  CacheSynchronised
CHECK_DEADLOCK FALSE
