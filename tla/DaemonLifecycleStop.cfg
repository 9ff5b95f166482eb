\* The last resort of a stop, against a daemon that recovers the stale socket meanwhile.
SPECIFICATION Spec
CONSTANTS
    r1 = r1
    r2 = r2
    s1 = s1
    None = None
    Runs = {r1, r2}
    Stops = {s1}
    Tries = 5
PROPERTY StopRemovesOnlyStale
CHECK_DEADLOCK FALSE
