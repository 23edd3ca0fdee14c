SPECIFICATION Spec
CONSTANTS
    r1 = r1
    r2 = r2
    w1 = w1
    w2 = w2
    t1 = t1
    Role = {r1, r2}
    Worker = {w1}
    Targeted = {t1}
    VersionBound = 2
INVARIANTS
    FullSyncReconciles
