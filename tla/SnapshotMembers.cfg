SPECIFICATION Spec
CONSTANTS
    P1 = P1
    P2 = P2
    P3 = P3
    Pid = {P1, P2, P3}
    Spawned = {P1, P2}
    MaySpawn = {P3}
    MayKill = {P2}
    Snap = {s1}
    MayInitiate = {P1, P2}
    Links <- NoLinks
    NoSnap = NoSnap
    MaxSends = 0
    ChanCap = 8
    InboundCap = 2
INVARIANTS
    CompleteIsSound
CHECK_DEADLOCK FALSE
