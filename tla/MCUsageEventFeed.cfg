SPECIFICATION Spec
CONSTANTS
    NoName = NoName
    alice = alice
    bob = bob
    main = main
    EarliestEvent = 0
    Lookback = 1
    PageSize = 2
    ClockSkew = 0
    ClockBound = 4
    Log <- MCLog
INVARIANTS
    TypeOK
    FeedInvariant
    UsageIsTheSuccessfulLogins
PROPERTIES
    ImplementsSubscription
CHECK_DEADLOCK FALSE
