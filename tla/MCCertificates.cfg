CONSTANTS
    Hosts = {h1, h2}
    None = None
    Torn = Torn
    MaxOrders = 3
    MaxFaults = 1
    MaxCrashes = 1
    MaxUpdates = 2
SPECIFICATION CertSpec
CHECK_DEADLOCK FALSE
INVARIANTS
    ChallengesTracked
    DueIsListedUnlessFaulty

    
