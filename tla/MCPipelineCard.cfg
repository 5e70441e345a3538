\* The working tree moves on between training, merge and push.
SPECIFICATION Spec
CONSTANTS
    NoJob = NoJob
    q = q
    v = v
    narrow = narrow
    wide = wide
    Trainers = {t1}
    Mergers = {m1}
    Evaluators = {}
    Pushers = {p1}
    Revisions <- MCRevisions
    Tensors = {q, v}
    Targets <- MCTargets
    Outcomes <- MCOutcomes
    Discardable = {"merged", "mergeResults", "evalResults", "pushResults"}
    MaxStops = 1
    Exclusive <- OneMergeAtATime
    Manifest <- MCManifest
    Said <- MCSaid
    BatchSize = 2
INVARIANTS
    CardTellsTraining
