\* One speaker with three utterances in the steady state, and a client that may run late.
SPECIFICATION Spec
CONSTANTS
    c1 = c1
    c2 = c2
    Clients = {c1}
    Servers = {1}
    Modes = {"open"}
    Due <- OneSpeakerDue
    MaxSends = 3
    Repeats = 1
    Warmup = 1
    End = 4
    Horizon = 5
    MaxLag = 1
    DrainPolls = 1
    SharedTransport = TRUE
    MetricsKinds = {TRUE}
    ScrapeMayFail = FALSE
INVARIANTS
    LagCannotHide
