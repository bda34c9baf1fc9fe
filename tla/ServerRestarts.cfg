SPECIFICATION Spec
CONSTANTS
  c1 = c1  i1 = i1
  MaxTime = 5
  Period = 1  RecordEvery = 2  Hour = 3  Limit = 2
  MaxTraffic = 2
  Code = {c1}  Lifetime = 2
  TaskId = {i1}  PlanningTime = 1
  MaxRequests = 2  MaxRestarts = 1
INVARIANTS TypeOK ReadsAreReal HistoryIsWhole BoundOnce
PROPERTIES TasksSettle
CHECK_DEADLOCK FALSE
