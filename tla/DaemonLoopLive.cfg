\* Liveness and refinement of the accept loop: two clients, every command.
SPECIFICATION FairSpec
CONSTANTS
    c1 = c1
    c2 = c2
    p1 = p1
    p2 = p2
    Nobody = Nobody
    Clients = {c1, c2}
    Pids = {p1, p2}
    Ops = {"RUN", "PING", "STOP", "BAD"}
PROPERTIES
    ClientDeathKillsJob
    RequestIsTakenUp
    EndedJobIsReported
    StopStops
    ImplementsService
CHECK_DEADLOCK FALSE
