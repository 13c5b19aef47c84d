SPECIFICATION FairSpec
CONSTANTS
    P1 = P1
    P2 = P2
    P3 = P3
    Pid = {P1, P2}
    Caller = {c1, c2}
    ClockType <- AllVectors
    AllPIDs <- SpawnOrder
    Peers <- NoPeers
    InitMode <- AllCausal
    SwitchTo = {}
    Links <- OneLink
    Ticking = {}
    Faults = {"delay"}
    MaxSends = 4
    MaxTicks = 0
    ChanCap = 4
    InboundCap = 2
PROPERTIES
    EventuallyAllDelivered
CHECK_DEADLOCK FALSE
