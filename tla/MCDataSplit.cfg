\* Every order of the clips and of the speakers, for six configurations.
SPECIFICATION Spec
CONSTANTS
    v1 = v1
    v2 = v2
    v3 = v3
    v4 = v4
    vid = vid
    s1 = s1
    s2 = s2
    s3 = s3
    f1 = f1
    f2 = f2
    f3 = f3
    r1 = r1
    a1 = a1
    a2 = a2
    b1 = b1
    b2 = b2
    d1 = d1
    g1 = g1
    i1 = i1
    o1 = o1
    z1 = z1
    m1 = m1
    m2 = m2
    n1 = n1
    n2 = n2
    k1 = k1
    w1 = w1
    t1 = t1
    t2 = t2
    t3 = t3
    t4 = t4
    e1 = e1
    c1 = c1
    c2 = c2
    Clips <- MCClips
    SourceOf <- MCSourceOf
    Kind <- MCKind
    Row <- MCRow
    Stored <- MCStored
    Index <- MCIndex
    SpeakerIds <- MCSpeakerIds
    MaxShare = 50
    MinHits = 2
    Configs <- MCConfigs
    Buckets <- MCBuckets
    Whole = 2
    Share <- MCShare
    GroupShare = 1
    MinGroups = 2
    MinLength = 1
    MaxLength = 3
    MinWords = 2
INVARIANTS
    TypeOK
    HeldOutApart
    DevHonest
    NothingLeftOver
    LessThanAClipOver
    NobodyDominates
