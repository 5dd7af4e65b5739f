SPECIFICATION FairSpec
CONSTANTS
    s = s
    p = p
    cxs = cxs
    cxp = cxp
    Created = {s}
    Projects = {p}
    Tmux = {cxs, cxp, p}
    Logical <- MCLogical
    NoProject = NoProject
    SockCap = 2
    Buffer = 1
INVARIANTS
    TypeOK
    ReadYourWrites
    OneEntryEach
PROPERTIES
    CutForCause
    GoneReleased
