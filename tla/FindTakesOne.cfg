SPECIFICATION Spec
CONSTANTS
  a = a  d = d  e = e  x = x  p1 = p1  p2 = p2
  Name = {a, d, e}
  Lookalike <- MCDistinct
  Data = {x}
  Folder = Folder
  Proc = {p1}
  Paths <- MCFlat
  Enabled = {"save", "delete", "restore"}
  MaxOps = 5
  MaxFaults = 0
PROPERTIES RestoreTakesOneItem
CHECK_DEADLOCK FALSE
