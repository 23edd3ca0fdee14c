SPECIFICATION Spec
CONSTANTS
    r1 = r1
    r2 = r2
    w1 = w1
    w2 = w2
    t1 = t1
    Role = {r1, r2}
    Worker = {w1, w2}
    Targeted = {t1}
    VersionBound = 3
INVARIANTS
    TypeOK
    SyncInvariant
    UndisturbedSyncIsNotStale
    UncontendedSyncIsOneSnapshot
    UndisturbedSyncReconciles
PROPERTY
    ImplementsSnapshot
SYMMETRY Symmetry
