CONSTANTS
  Databases = {d1, d2}
  Statements = {s1, s2}
  Conns = {c1, c2}
  Stmts = {x1, x2}
  Null = Null
SPECIFICATION Spec
CHECK_DEADLOCK FALSE
INVARIANTS
  TypeOK
  NothingLeaks
  DatabasesNeverDangle
  DanglingOnlyAfterFailedStep
  UndefinedOnlyWhenDangling
PROPERTIES
  ExitReclaims
