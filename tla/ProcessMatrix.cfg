SPECIFICATION Spec
CONSTANTS
    P1 = P1
    P2 = P2
    P3 = P3
    Pid = {P1, P2, P3}
    Caller = {c1}
    ClockType <- AllMatrix
    AllPIDs <- SpawnOrder
    Peers <- PeersOfP1
    InitMode <- AllImmediate
    SwitchTo = {}
    Links <- SelfAndBack
    Ticking = {P2}
    Faults = {"drop"}
    MaxSends = 4
    MaxTicks = 2
    ChanCap = 2
    InboundCap = 2
INVARIANTS
    MatrixKnowledgeSound
    CanGCSafeWithAllRows
CHECK_DEADLOCK FALSE
