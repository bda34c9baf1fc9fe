SPECIFICATION Spec
CONSTANTS
  a = a  d = d  e = e  x = x  p1 = p1  p2 = p2
  Name = {a, d, e}
  Lookalike <- MCDistinct
  Data = {x}
  Folder = Folder
  Proc = {p1}
  Paths <- MCDeep
  Enabled = {"save", "mkdir", "rename", "delete", "trashDelete", "restore"}
  MaxOps = 4
  MaxFaults = 0
INVARIANTS TypeOK AgreeWhileClean TopRowsAreDirs
CHECK_DEADLOCK FALSE
