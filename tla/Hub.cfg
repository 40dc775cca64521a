SPECIFICATION FairSpec
CONSTANTS
    f1 = f1
    Client = {c1, c2}
    Fleet = {f1, f2}
    FleetOf <- OneFleet
    Topic = {"telemetry"}
    RegisterCap = 1
    UnregisterCap = 1
    BroadcastCap = 1
    SendCap = 1
    MaxEvents = 2
INVARIANTS
    TypeOK
    NoPanic
    GapFree
    SubscriptionsAccountedFor
PROPERTIES
    EmptySubscriptionsEnd
    ClosedClientsEnd
CHECK_DEADLOCK FALSE
