\* A gRPC client does not get the trace ID back.
SPECIFICATION Spec
CONSTANTS
    h1 = h1
    h2 = h2
    g1 = g1
    g2 = g2
    s1 = s1
    s2 = s2
    u1 = u1
    u2 = u2
    t1 = t1
    Client = Client
    None = None
    Calls = {h1, g1, g2, h2}
    Caller <- TwoRequests
    Sessions = {s1, s2}
    Owner <- Users
    Remotes = {t1}
    Headers <- SomeHeaders
INVARIANTS
    ClientGetsTraceId
\* Every call may have been made.
CHECK_DEADLOCK FALSE
