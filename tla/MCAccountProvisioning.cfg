SPECIFICATION Spec
CONSTANTS
    Bob = Bob
    bob = bob
    unnamable = unnamable
    t1 = t1
    t2 = t2
    t3 = t3
    NoName = NoName
    Name = {Bob, bob, unnamable}
    Task = {t1, t2, t3}
    CleanName <- MCCleanName
    BirthBound = 2
INVARIANTS
    TypeOK
    AccountInvariant
    LinkOpensOwnAccount
    AccountsAreNotShared
    DeletedAccountsAreGone
PROPERTIES
    FederatedUsersStay
CHECK_DEADLOCK FALSE
