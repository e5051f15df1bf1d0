SPECIFICATION Spec
CONSTANTS
  a = a
  b = b
  as = as
  Piece <- MCPiece
  Star = Star
  Starred = {as}
  Dot = Dot
  DotDot = DotDot
  None = None
  Files <- MCFiles
  Requests <- MCRequests
  Dirs <- MCDirs
  Real <- MCReal
INVARIANTS
  GrantedExactly
  StaysInside
