SPECIFICATION BrowserSpec
CONSTANTS
  Users = {u1}
  NoUser = NoUser
  Calls = {c1, c2}
  Socks = {k1, k2}
  NoSock = NoSock
  Changes = {x1}
  MaxSessions = 2
  MaxFaults = 2
  m1 = m1
  i1 = i1
  Execs = {e1, e2}
  Runbooks = {r1}
  Steps = {s1}
  MaxActs = 2
  MaxOthers = 2
  MaxFailures = 1
  nobody = nobody
  summary = summary
INVARIANTS
  
  ConnectionConsistent
  StepsHappenOnce
PROPERTIES
  SignedInConnects
  
  
  ActiveExecutionsConverge
  SelectionSettles
CHECK_DEADLOCK FALSE
