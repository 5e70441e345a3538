SPECIFICATION Spec
CONSTANTS
    None = None
    NoValue = None
    Profiles <- MCProfiles
    Outcomes <- MCOutcomes
    StrongRtf = 1
    MaxRtf = 2
    MaxLag = 1
    MaxWerDelta = 1
INVARIANTS
    TypeOK
    MeasuredOnce
    BracketHolds
    StopsAfterFailures
    VerdictIsBracket
    StrongWithinMax
PROPERTIES
    JudgedOnce
