SPECIFICATION LogSpec
CONSTANTS
    s1 = s1
    s2 = s2
    a1 = a1
    a2 = a2
    None = None
    Streams <- MCStreams
    Watched <- MCWatched
    Allocs <- MCOneAlloc
    MAX_LINES = 1
    LiveCap = 1
    ReportCap = 1
    SubCap = 1
    TailLines = 2
    MaxLines = 2
    MaxUnsent = 1
INVARIANTS
    InOrderUnlessShared
    FollowServesUnlessShared

    
CHECK_DEADLOCK FALSE
