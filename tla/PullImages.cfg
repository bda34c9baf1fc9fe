SPECIFICATION CSpec
CONSTANTS
  i1 = i1  p1 = p1  p2 = p2  c1 = c1  c2 = c2  n = n
  Image = {i1}
  Pull = {p1, p2}
  MaxReports = 1
  Creator = {c1, c2}
  Template <- MCTemplate
  NoName = NoName
  SafeName = {n}
  StoragePath <- MCStoragePath
INVARIANTS TypeOK PullingMeansRunning BindsStayInside UnstartedIsReported NothingElseIsMissed LoneFailureIsListed
PROPERTIES ErrorStays PullsEnd
CHECK_DEADLOCK FALSE
