\* stop() once no handler runs.  No symmetry: it is not sound for liveness.
SPECIFICATION Spec
CONSTANTS
    Requests = {r1, r2, r3}
    MaxBatch = 2
    NoTranscript = NoTranscript
    Graceful = TRUE
PROPERTIES
    EveryoneSettled
    StopReturns
    ImplementsFairService
