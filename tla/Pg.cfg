CONSTANTS
  Connections = {k1, k2}
  Results = {r1, r2}
  Ios = {i1}
  Conns = {c1, c2}
  Rows = {x1, x2}
  Fds = {f1, f2}
  Null = Null
  Closed = Closed
  DevNull = DevNull
  Half = 128
  MaxDigits = 3
  ValueLen = 2
  Nil = Nil
  Raised = Raised
SPECIFICATION MCSpec
SYMMETRY Perms
CHECK_DEADLOCK FALSE
INVARIANTS
  TypeOK
  NothingLost
  HandlesNeverDangle
  ArgumentsArrive
  CellsAreExact
