CONSTANTS
    AllocIds = {a1, a2}
    RaftIds = {r1, r2}
    NodeIds = {n1, n2}
    r1 = r1
    r2 = r2
    n1 = n1
    n2 = n2
    Names = {web}
    Addresses = {}
    Configs = {c1}
    SecretNames = {}
    SecretValues = {}
    VolumeNames = {}
    Service = web
    Config = c1
    Replicas = 1
    Events = {"late", "fail", "exit"}
    MaxEvents = 2
    None = None
    NameOf <- MCNameOf
    Scenarios <- MCScenarios
SPECIFICATION WatchdogSpec
CONSTRAINT Undecided

    
PROPERTIES
    RecoversUnlessStale
