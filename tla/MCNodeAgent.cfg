CONSTANTS
    Start = 1
    End = 1
    AllocIds = {a1, a2}
    None = None
    Ported = {a1, a2}
    Faults = {"pull", "run", "stop", "list", "recover"}
    ReportCap = 1
    MaxCmds = 3
    MaxBeats = 1
    MaxRestarts = 1
SPECIFICATION AgentSpec
CHECK_DEADLOCK FALSE
INVARIANTS
    PoolInv
    NoPortLeak
    LiveTracked
