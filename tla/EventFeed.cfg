SPECIFICATION FairSpec
CONSTANTS
    Pid = {1, 2}
    Loads <- SmallLoads
    PublishBuffer = 2
    SubBuffer = 2
    historySize = 2
    WSClientSendBuffer = 1
    Null = Null
INVARIANTS
    TypeOK
    FeedOrderCausal
    BusAccountsForEvents
    FeedUnbroken
    
    
PROPERTIES
    ClientReaped
    ClientCatchesUp
CHECK_DEADLOCK FALSE
