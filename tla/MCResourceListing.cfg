SPECIFICATION FairSpec
CONSTANTS
    app = app
    NodeCount = 3
    App = {app}
    Database = {}
    RevisionBound = 1
INVARIANTS
    TypeOK
    ReportedOnce
    LastingIsReported
    ReportedExisted
    ListingInvariant
PROPERTIES
    SyncEnds
