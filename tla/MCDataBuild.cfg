\* Three builds of any configurations, each of which may die anywhere.
SPECIFICATION Spec
CONSTANTS
    a1 = a1
    a2 = a2
    b = b
    k = k
    A = A
    B = B
    K = K
    Clips <- MCClips
    Group <- MCGroup
    Plans <- AnyPlan
    MaxBuilds = 3
INVARIANTS
    TypeOK
    NothingStranded
    BuildIsExact
    DoneHeldOut
