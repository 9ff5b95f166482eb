\* A request refused after its first read leaves its stdio open in the daemon.
SPECIFICATION Spec
CONSTANTS
    c1 = c1
    c2 = c2
    p1 = p1
    Nobody = Nobody
    Clients = {c1, c2}
    Pids = {p1}
    Ops = {"RUN"}
INVARIANT StdioReleased
CHECK_DEADLOCK FALSE
