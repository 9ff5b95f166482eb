CONSTANTS
  Unset = Unset
  Pin = "3.4"
  Places <- AllPlaces
  Lines <- AllLines
  Tokens <- AllTokens
  MaxDaemons = 2
  Workers = {w1, w2}
  Typed <- Tests
  MaxEdits = 2
  NFiles = 3
  Others = {o1, o2}
  Main = Main
  Timer = Timer
  Free = Free
  Sched = Sched
SPECIFICATION Spec
CHECK_DEADLOCK FALSE
INVARIANTS
  TypeOK
  FlagsArrive
  WarmMatchesCold
  EveryFileCounted
  ChildNeverStuck
PROPERTIES
  EditIsRerun
