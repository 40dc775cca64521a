SPECIFICATION ViewsFairSpec
CONSTANTS
    N = 3
    Tracked = {1, 2, 3}
    MaxFaults = 2
    MaxArrivals = 4
INVARIANTS
    ViewsTypeOK
    MissedWasPassed
    ArrivalsAnnouncedOnce
    ReachedIsCompleted
    NoPendingBeforeEta
    CompletedShowsArrival
PROPERTIES
    UpdatesUndoNothing
    EtaOfEndedTripGoes
