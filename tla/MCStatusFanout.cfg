SPECIFICATION FairSpec
CONSTANTS
    Names = {n1, n2}
    Clients = {c1}
    Buffer = 2
    Wire = 1
INVARIANTS
    ShownIsSeen
PROPERTY ChangesPublished
