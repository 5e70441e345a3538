\* stop() at any moment, with callers waiting or on the GPU.
SPECIFICATION SafeSpec
CONSTANTS
    Requests = {r1, r2, r3, r4}
    MaxBatch = 2
    NoTranscript = NoTranscript
    Graceful = FALSE
SYMMETRY Symmetry
INVARIANTS
    TypeOK
    OwnTranscript
    NobodyForgotten
    InOrder
    BatchBound
    OneFate
PROPERTIES
    OutcomeIsFinal
    ImplementsService
