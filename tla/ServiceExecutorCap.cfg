SPECIFICATION Spec
CONSTANTS
    r1 = r1
    r2 = r2
    r3 = r3
    r4 = r4
    h1 = h1
    h2 = h2
    k1 = k1
    Free = Free
    Nobody = Nobody
    Request = {r1, r2, r3, r4}
    Hash = {h1, h2}
    Peer = {k1}
    HashOf <- PayAll
    Tip <- Tips
    PeerOf <- OnePeer
    MaxConcurrent = 1
    MaxPerPeer = 2
    MaxFaults = 1
INVARIANT CapKept
CHECK_DEADLOCK FALSE
