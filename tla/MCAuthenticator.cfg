SPECIFICATION AuthFairSpec
CONSTANTS
    t1 = t1
    t2 = t2
    Tokens <- MCTokens
    IPs = {ip1, ip2}
    Missing = Missing
    MaxFailures = 3
    Window = 3
INVARIANTS
    AuthTypeOK
    BruteForceBound
PROPERTIES
    LockoutExpires
