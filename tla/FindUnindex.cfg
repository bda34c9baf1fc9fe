SPECIFICATION Spec
CONSTANTS
  a = a  d = d  e = e  x = x  p1 = p1  p2 = p2
  Name = {a, d, e}
  Lookalike <- MCLookalike
  Data = {x}
  Folder = Folder
  Proc = {p1}
  Paths <- MCSiblings
  Enabled = {"save", "mkdir", "delete"}
  MaxOps = 3
  MaxFaults = 0
PROPERTIES UnindexesOnlySubtree
CHECK_DEADLOCK FALSE
