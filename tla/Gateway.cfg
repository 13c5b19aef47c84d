SPECIFICATION FairSpec
CONSTANTS
    MaxResets = 2
INVARIANTS
    TypeOK
    CurrentSimLive
    OneFanOut
    QuietIsConsistent
PROPERTIES
    ResetCompletes
    ShutdownCompletes
CHECK_DEADLOCK FALSE
