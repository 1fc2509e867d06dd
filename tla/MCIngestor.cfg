SPECIFICATION Spec
CONSTANTS
    Handlers = {h1, h2}
    Devices = {d1, d2}
    Timestamps = {0}
    MaxSkew = 1
    MaxTime = 2
    MaxPosts = 3
    MaxStarts = 2
SYMMETRY HandlerAndDeviceSymmetry
INVARIANTS
    TypeOK
    AcceptedAccounted
    RowCountExact
    RowsNeverAhead
    CloseAfterDrain
    RecentNewestFirst
    InsertedFound
PROPERTIES
    ImplementsStoreLedger
    StoredLastNeverGoesBack
