\* A new connection read under the revents of a removed row loses its stdio.
SPECIFICATION Spec
CONSTANTS
    c1 = c1
    c2 = c2
    p1 = p1
    Nobody = Nobody
    Clients = {c1, c2}
    Pids = {p1}
    Ops = {"RUN", "PING"}
INVARIANT StdioArrives
CHECK_DEADLOCK FALSE
