\* One event loop and one transport for two clients, two servers, two repeats.
SPECIFICATION Spec
CONSTANTS
    c1 = c1
    c2 = c2
    Clients = {c1, c2}
    Servers = {1, 2}
    Modes = {"open", "closed"}
    Due <- MCDue
    MaxSends = 2
    Repeats = 2
    Warmup = 1
    End = 3
    Horizon = 3
    MaxLag = 0
    DrainPolls = 1
    SharedTransport = TRUE
    MetricsKinds = {TRUE, FALSE}
    ScrapeMayFail = FALSE
INVARIANTS
    TypeOK
    InFlightExact
    StartsIdle
PROPERTIES
    LeastBusyServer
    LevelEnds
