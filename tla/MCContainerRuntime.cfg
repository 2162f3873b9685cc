SPECIFICATION RuntimeSpec
CONSTANTS
    None = None
    Bad = Bad
    Secrets <- MCSecrets
    Addresses <- MCAddresses
    ImageStore <- MCImageStore
    Allocs = {a1}
    FirstConfigs <- MCFirst
    NextConfigs <- MCRun
    MaxSubmits = 2
    MaxRuns = 2
    MaxFaults = 3
    MaxCrashes = 1
CONSTRAINT MCExplored
INVARIANTS
    RootfsIsImageUnlessLeaked
    NoInvisibleProcessUnlessUnkilled
    
PROPERTIES
    SettlesUnlessTorn
CHECK_DEADLOCK FALSE
