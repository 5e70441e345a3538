\* Two merges one after the other, two evaluations and two pushes at any time.
SPECIFICATION Spec
CONSTANTS
    NoJob = NoJob
    q = q
    v = v
    narrow = narrow
    wide = wide
    Trainers = {t1}
    Mergers = {m1, m2}
    Evaluators = {e1, e2}
    Pushers = {p1, p2}
    Revisions <- MCRevisions
    Tensors = {q, v}
    Targets <- MCTargets
    Outcomes <- MCOutcomes
    Discardable = {"merged", "mergeResults", "evalResults", "pushResults"}
    MaxStops = 1
    Exclusive <- OneMergeAtATime
    Manifest <- MCManifest
    Said <- MCSaid
    BatchSize = 2
SYMMETRY Symmetry
INVARIANTS
    TypeOK
    VerdictOfWeights
    PublishedIsVerified
    OneAuthor
    SummaryIsLast
    MetricsAddUp
PROPERTY
    ImplementsRelease
