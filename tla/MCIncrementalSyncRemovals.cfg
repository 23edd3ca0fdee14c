SPECIFICATION Spec
CONSTANTS
    alice = alice
    r1 = r1
    r2 = r2
    NoName = NoName
    EarliestEvent = 1
    Lookback = 0
    User = {alice}
    Role = {r1, r2}
    VersionBound = 3
INVARIANTS
    RemovalsAreReconciled
