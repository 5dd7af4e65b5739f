SPECIFICATION Spec
CONSTANTS
    t0 = t0
    t1 = t1
    t2 = t2
    t3 = t3
    Tokens <- MCTokens
    First = t0
    None = None
    Clients = {c1, c2}
    Inodes = {i1, i2, i3, i4}
INVARIANTS
    EnvFileWhole
    OwnerHoldsAccepted
    RestartKeepsToken
CHECK_DEADLOCK FALSE
