SPECIFICATION MCSpec
CONSTANTS
  x1 = x1
  x2 = x2
  e1 = e1
  e2 = e2
  e3 = e3
  e4 = e4
  e5 = e5
  Executions = {x1, x2}
  Events = {e1, e2, e3, e4, e5}
  Payload <- MCPayload
  Largest = 3
  Target = x1
  OldRows <- MCOldRows
  NoExec = NoExec
  KnownSets <- MCKnownSets
  MaxBatch = 3
  DialogNames <- MCDialogs
  ScreenNames <- MCScreens
  Stock <- MCStock
  PageSize = 2
  ListNames <- MCLists
  r1 = r1
  r2 = r2
  ListRows = {r1, r2}
  NoRow = NoRow
  Members = {m1}
  NoOne = NoOne
  Me = m1
  Manages = TRUE
  ActionKinds = {"ack", "resolve", "reopen", "assign", "reassign"}
  PageQueries = {"incident"}
  TextFields = {summary, cause}
  Summary = summary
  Items = {}
  Figures = {"numbers"}
  Subjects = {"project", "job"}
  Batches = {{"project"}, {"project", "job"}}
  Ranges = {"1h", "24h"}
  Filters = {"unread"}
  MaxTyped = 2
  MaxSaves = 1
  MaxOpened = 2
  MaxPicks = 2
  MaxChanges = 1
  MaxActs = 2
  MaxCommits = 2
  MaxSends = 0
  MaxBatches = 2
  MaxLooks = 2
  MaxCreated = 1
  MaxClicks = 1
  MaxElsewhere = 1
  MaxOthers = 1
  MaxFaults = 1
INVARIANTS
  LoopsAreClosedForms
  TypedIsStored
  SubmissionsFit
  ShownMatchesQuery
  OutOfRangeRecovers
  RowsConverge
  DetailFollowsServer
  DraftIsKept
  FiguresConverge
  UpdatesSynchronise
CHECK_DEADLOCK FALSE
