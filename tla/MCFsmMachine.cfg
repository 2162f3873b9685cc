CONSTANTS
    RaftIds = {r1, r2}
    NodeIds = {n1, n2}
    AllocIds = {a1}
    Names = {web}
    Addresses = {x1}
    Configs = {c1}
    SecretNames = {k1}
    SecretValues = {v1}
    VolumeNames = {d1}
    None = None
SPECIFICATION FsmSpec
SYMMETRY Symmetry
INVARIANTS
    PlacementInv
PROPERTIES
    LiveAllocStays
