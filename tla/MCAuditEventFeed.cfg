SPECIFICATION FairSpec
CONSTANTS
    NoName = NoName
    alice = alice
    access = access
    editor = editor
    r1 = r1
    r2 = r2
    EarliestEvent = 1
    Lookback = 0
    PageSize = 2
    ClockSkew = 1
    ClockBound = 2
    Log <- MCLog
    Request <- MCRequest
    RequestUser <- MCRequestUser
    RequestRoles <- MCRequestRoles
    Unresolvable = {}
INVARIANTS
    TypeOK
    NoPromptEventSkipped
    FeedInvariant
    ProcessedEventsAreComplete
PROPERTIES
    DeliveryInTimeOrder
    ImplementsSubscription
    ImplementsAtomicFeed
    EveryPromptEventDelivered
CHECK_DEADLOCK FALSE
