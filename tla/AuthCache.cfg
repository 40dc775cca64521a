SPECIFICATION DashboardSpec
CONSTANTS
    Request = {r1, r2, r3}
    Key = {k1, k2}
    Fleet = {f1, f2}
    NoFleet = NoFleet
    StaticKey = {k2}
    TTL = 2
    MaxLookup = 1
    MaxTime = 3
    MaxChanges = 1
    v1 = v1
    v2 = v2
    other = other
    Vehicle <- MCVehicle
    Member <- MCMember
    MaxMoves = 1
    MaxRepeats = 1
    MaxFailures = 1
    View <- MCView
    RawLimit <- MCRawLimit
    DefaultLimit = 2
    MaxLimit = 3
    Departure = {1, 2}
    MaxRows = 3
    MaxOperations = 2
    MaxErrors = 1
SYMMETRY Alike
INVARIANTS
    TypeOK
    ServedWasAuthorized
    DeniedHasReason
    RowsShownOnce
    SummaryCounted
CHECK_DEADLOCK FALSE
