SPECIFICATION Spec
CONSTANTS
  a = a  d = d  e = e  x = x  p1 = p1  p2 = p2
  Name = {a, d, e}
  Lookalike <- MCDistinct
  Data = {x}
  Folder = Folder
  Proc = {p1, p2}
  Paths <- MCDeep
  Enabled = {"save", "mkdir", "rename", "delete", "trashDelete", "restore"}
  MaxOps = 3
  MaxFaults = 1
INVARIANTS DanglingOnlyInFlight BlobsUnshared
PROPERTIES ImplementsContract ExpiredArePurged RequestsAnswered
CHECK_DEADLOCK FALSE
