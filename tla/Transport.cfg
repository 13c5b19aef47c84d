SPECIFICATION FairSpec
CONSTANTS
    P1 = P1
    P2 = P2
    Pid = {P1, P2}
    Key <- OneWay
    Caller = {c1, c2}
    Partitions <- Split
    ChanCap = 2
    MaxSends = 3
    MaxFaults = 2
INVARIANTS
    TypeOK
    FifoUnlessDisturbed
    LossAndDoublingExplained
PROPERTIES
    ImplementsNetwork
    EventuallyHanded
CHECK_DEADLOCK FALSE
