SPECIFICATION Spec
CONSTANTS
    P1 = P1
    P2 = P2
    P3 = P3
    Pid = {P1, P2, P3}
    Caller = {c1, c2}
    ClockType <- AllVectors
    AllPIDs <- SpawnOrder
    Peers <- NoPeers
    InitMode <- ThirdImmediate
    SwitchTo = {"causal"}
    Links <- Fan
    Ticking = {}
    Faults = {"drop", "delay", "dup"}
    MaxSends = 3
    MaxTicks = 0
    ChanCap = 2
    InboundCap = 2
INVARIANTS
    TypeOK
    ClockIsCausalPast
    
    CausalOrder
    DeliveredAtMostOnce
    VerdictNotStale
    HeldIsBlocked
CHECK_DEADLOCK FALSE
