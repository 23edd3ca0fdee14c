SPECIFICATION Spec
CONSTANTS
    u1 = u1
    u2 = u2
    r1 = r1
    r2 = r2
    t1 = t1
    t2 = t2
    User = {u1}
    Role = {r1, r2}
    Login = {u1}
    Task = {t1, t2}
INVARIANTS
    AllAnswersHold
