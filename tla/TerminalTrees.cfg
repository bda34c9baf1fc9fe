SPECIFICATION TermSpec
CONSTANTS
  None = None
  Proc = {p1, p2}
  Session = {s1}
  MaxOps = 4
  Name <- MCName
  User <- MCUser
  Grant <- MCGrant
  Paths <- MCPaths
  Piece <- MCPiece
  Upload <- MCUpload
  Line <- MCLine
SYMMETRY Symmetry
CHECK_DEADLOCK FALSE
INVARIANTS TypeOK RowsAreListed ListedIsRestorable 
PROPERTIES WritesAreSeen AppendKeeps
