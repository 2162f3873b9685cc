CONSTANTS
    Start = 1
    End = 1
    AllocIds = {a1, t1}
    None = None
    Ported = {a1}
    Faults = {"pull", "run"}
    ReportCap = 1
    MaxCmds = 5
    MaxBeats = 2
    MaxRestarts = 1
    RaftIds = {r1}
    NodeIds = {n1}
    Names = {web}
    Addresses = {1}
    Configs = {}
    SecretNames = {}
    SecretValues = {}
    VolumeNames = {}
    RaftId = r1
    NodeId = n1
    Service = web
    SendFaults = TRUE
    MaxStops = 1
    Scenarios <- MCScenarios
SPECIFICATION LifecycleSpec
CHECK_DEADLOCK FALSE
PROPERTIES
    HealthyStands
    SettlesWithPorts
    
    ReportsFlow
