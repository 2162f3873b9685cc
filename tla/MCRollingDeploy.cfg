CONSTANTS
    AllocIds = {w0, w1, p0, p1, x1, x2, x3, x4, x5, x6, x7}
    RaftIds = {r1, r2}
    NodeIds = {n1, n2}
    Names = {web, api}
    Configs = {c1, c2, c3}
    Ops = {o1, o2}
    Kinds = {"deploy", "restart", "drain", "delete"}
    Replicas <- MCReplicas
    MaxFails = 1
    MaxDrops = 1
    First = c1
    Versions = {v1, v2, v3}
    Addresses = {addr}
    Address = addr
    SecretNames = {}
    SecretValues = {}
    VolumeNames = {vw, vp}
    None = None
    r1 = r1
    r2 = r2
    n1 = n1
    n2 = n2
    c1 = c1
    c2 = c2
    c3 = c3
    web = web
    api = api
    v1 = v1
    v2 = v2
    v3 = v3
    w0 = w0
    w1 = w1
    p0 = p0
    p1 = p1
    NameOf <- MCNameOf
    DefOf <- MCDefOf
    FixedId <- MCFixedId
    VolumeOf <- MCVolumeOf
    vw = vw
    vp = vp
    Instances = {r1, r2}
    Scenarios <- MCScenarios
SPECIFICATION DeploySpec
INVARIANTS
    NoDowntime
    UpdateConverges
    PerServiceAtomic
    
PROPERTIES
    OperationsEnd
