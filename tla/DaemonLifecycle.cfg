\* Two runs, one stop with two attempts, crashes and signals at any point.
SPECIFICATION Spec
CONSTANTS
    r1 = r1
    r2 = r2
    s1 = s1
    None = None
    Runs = {r1, r2}
    Stops = {s1}
    Tries = 2
INVARIANTS
    TypeOK
    OrphanOnlyByOverlap
    PidfileNamesOwner
    StaleSocketIsRecovered
    StopIsFinal
PROPERTIES
    RunEnds
    StopReturns
CHECK_DEADLOCK FALSE
