\* The server has a metrics endpoint, and a scrape of it may fail.
SPECIFICATION Spec
CONSTANTS
    c1 = c1
    c2 = c2
    Clients = {c1, c2}
    Servers = {1, 2}
    Modes = {"closed"}
    Due <- MCDue
    MaxSends = 1
    Repeats = 2
    Warmup = 1
    End = 3
    Horizon = 3
    MaxLag = 0
    DrainPolls = 1
    SharedTransport = TRUE
    MetricsKinds = {TRUE}
    ScrapeMayFail = TRUE
INVARIANTS
    StartsIdle
