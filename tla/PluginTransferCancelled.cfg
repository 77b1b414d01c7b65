\* The same messages; nothing fails, and the owner may cancel.
SPECIFICATION Spec
CONSTANTS
    o1 = o1
    o2 = o2
    v1 = v1
    v2 = v2
    None = None
    Offer = {o1, o2}
    Version = {v1, v2}
    VersionOf <- TwoVersions
    Chunks = 2
    Message <- OneLost
    Request = {a1}
    Trusted = {TRUE, FALSE}
    MaxFaults = 0
PROPERTY NotResurrected
CHECK_DEADLOCK FALSE
