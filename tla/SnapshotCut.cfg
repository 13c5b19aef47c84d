SPECIFICATION Spec
CONSTANTS
    P1 = P1
    P2 = P2
    P3 = P3
    Pid = {P1, P2, P3}
    Spawned = {P1, P2, P3}
    MaySpawn = {}
    MayKill = {}
    Snap = {s1}
    MayInitiate = {P1}
    Links <- Line
    NoSnap = NoSnap
    MaxSends = 1
    ChanCap = 8
    InboundCap = 2
INVARIANTS
    TypeOK
    ParticipantCutConsistent
    RecordedIsPostCut
PROPERTIES
    ReportsAreFinal
CHECK_DEADLOCK FALSE
