SPECIFICATION Spec
CONSTANTS
    Syncs = {s1, s2}
    Removers = {r1, r2}
    NoSync = NoSync
INVARIANTS
    TokenOnlyAfterFailure
PROPERTIES
    CleanupIsPartial
    WorkLostKnowingly
