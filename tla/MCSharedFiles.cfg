SPECIFICATION Spec
CONSTANTS
    u1 = u1
    u2 = u2
    u3 = u3
    Uploads <- MCUploads
    Downloads = {d1}
    Deletes = {x1}
    MaxChunks = 2
    None = None
SYMMETRY AnyUpload
CHECK_DEADLOCK FALSE
INVARIANTS
    TypeOK
    QuietMeansWhole
PROPERTIES
    SoleDownloadIsWhole
    RemovalHitsOwn
