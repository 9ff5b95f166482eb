CONSTANTS
  Databases = {d1}
  Statements = {s1}
  Conns = {c1}
  Stmts = {x1, x2}
  Null = Null
SPECIFICATION Spec
CHECK_DEADLOCK FALSE
INVARIANTS
  ClosedMeansNull
