SPECIFICATION Spec
CONSTANTS
    k0 = k0
    k1 = k1
    k2 = k2
    k3 = k3
    NoKey = NoKey
    Keys <- MCKeys
    Initial <- MCInitial
    Callers = {c1}
    MaxPeers = 3
    LastOctet = 4
SYMMETRY NewKeys
CHECK_DEADLOCK FALSE
INVARIANTS
    TypeOK
    DistinctPeers
    PeerBound
    AckedPeerServed
    RevokedStaysOut
    LiveWithinConf
PROPERTIES
    RemoveHitsListed
    KeepsLedger
