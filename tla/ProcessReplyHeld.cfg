SPECIFICATION Spec
CONSTANTS
    P1 = P1
    P2 = P2
    P3 = P3
    Pid = {P1, P2, P3}
    Caller = {c1}
    ClockType <- AllVectors
    AllPIDs <- SpawnOrder
    Peers <- NoPeers
    InitMode <- AllCausal
    SwitchTo = {}
    Links <- Reply
    Ticking = {}
    Faults = {}
    MaxSends = 2
    MaxTicks = 0
    ChanCap = 2
    InboundCap = 2
INVARIANTS
    HeldForCause
CHECK_DEADLOCK FALSE
