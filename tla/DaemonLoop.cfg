\* Safety of the accept loop: three clients, two process ids, RUN, STOP and a refused command.
SPECIFICATION Spec
CONSTANTS
    c1 = c1
    c2 = c2
    c3 = c3
    p1 = p1
    p2 = p2
    Nobody = Nobody
    Clients = {c1, c2, c3}
    Pids = {p1, p2}
    Ops = {"RUN", "STOP", "BAD"}
SYMMETRY Perms
INVARIANTS
    TypeOK
    TableMatchesRows
    ChildHasItsRow
    OwnStatus
    NoOrphanAfterShutdown
PROPERTIES
    KillsOnlyForCause
CHECK_DEADLOCK FALSE
