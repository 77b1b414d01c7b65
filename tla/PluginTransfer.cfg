\* Two offers of two versions, all chunks of one and one chunk of the other, one
\* request of the owner, one failure or crash.
SPECIFICATION Spec
CONSTANTS
    o1 = o1
    o2 = o2
    v1 = v1
    v2 = v2
    None = None
    Offer = {o1, o2}
    Version = {v1, v2}
    VersionOf <- TwoVersions
    Chunks = 2
    Message <- OneLost
    Request = {a1}
    Trusted = {TRUE, FALSE}
    MaxFaults = 1
INVARIANTS
    TypeOK
    
    Decided

    
CHECK_DEADLOCK FALSE
