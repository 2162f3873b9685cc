CONSTANTS
    r1 = r1
    n1 = n1
    a1 = a1
    a2 = a2
    web = web
    api = api
    x1 = x1
    x2 = x2
    c1 = c1
    c2 = c2
    h1 = h1
    RaftIds = {r1}
    NodeIds = {n1}
    AllocIds = {a1, a2}
    Names = {web, api}
    Addresses = {x1, x2}
    Configs = {c1, c2}
    SecretNames = {}
    SecretValues = {}
    VolumeNames = {}
    None = None
    Watchers = {"dns", "proxy"}
    MaxChanges = 2
    MaxEvents = 2
    Hosts = {h1}
    RoutesOf <- MCRoutesOf
    Paths <- MCPaths
    Healthz <- MCHealthz
    Outside = outside
    Clients = {q1, q2}
    StartFsm <- MCStartFsm
    Changes <- MCChanges
SPECIFICATION EdgeSpec
CHECK_DEADLOCK FALSE
INVARIANTS
    NoLostWakeup
    ViewsMatchState
PROPERTIES
    ViewsFollow
    
