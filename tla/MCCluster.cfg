SPECIFICATION ClusterSpec
CONSTANTS
    Hosts = {h1, h2, h3}
    First = h1
    None = None
    MaxJoins = 3
    MaxEvents = 2
CONSTRAINT FewAfterOverlap
SYMMETRY MCSymmetry
INVARIANTS
    MembersAgreeUnlessOverlap
    AdmittedIsReachedUnlessOverlap
    
CHECK_DEADLOCK FALSE
