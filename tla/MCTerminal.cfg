SPECIFICATION Spec
CONSTANTS
    InCap = 2
    OutCap = 2
    MaxMessage = 2
INVARIANT TypeOK
PROPERTIES
    CutForCause
    DeadPeerReleased
    ProgramEndCloses
CHECK_DEADLOCK FALSE
