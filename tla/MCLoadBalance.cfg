\* As --workers 2 runs a closed level: a transport, and so a balancer, for each client.
SPECIFICATION Spec
CONSTANTS
    c1 = c1
    c2 = c2
    Clients = {c1, c2}
    Servers = {1, 2}
    Modes = {"closed"}
    Due <- MCDue
    MaxSends = 1
    Repeats = 1
    Warmup = 1
    End = 3
    Horizon = 3
    MaxLag = 0
    DrainPolls = 1
    SharedTransport = FALSE
    MetricsKinds = {TRUE}
    ScrapeMayFail = FALSE
PROPERTIES
    LeastBusyServer
