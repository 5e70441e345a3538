\* A build without a dev split after one with it.
SPECIFICATION Spec
CONSTANTS
    a1 = a1
    a2 = a2
    b = b
    k = k
    A = A
    B = B
    K = K
    Clips <- MCClips
    Group <- MCGroup
    Plans <- AnyPlan
    MaxBuilds = 2
INVARIANTS
    DevNotStranded
