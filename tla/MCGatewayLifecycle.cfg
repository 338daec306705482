SPECIFICATION MCLifecycleSpec
CONSTANTS
    p1 = p1
    p2 = p2
    Processes = {p1, p2}
    Ports = {a, b}
    DefaultPort = a
    Requests = {r}
    ReapAfter = 1
    MaxSecond = 2
    None = None
INVARIANTS LifecycleTypeOK NatsOutlivesRequests StopCleansUp
PROPERTIES StopEnds DeadGatewayUnlisted
CHECK_DEADLOCK FALSE
