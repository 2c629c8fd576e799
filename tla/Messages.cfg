CONSTANTS
    Mids = {m1}
    Apps = {a1}
    SendSize = 1
    RecvSize = 2
    Topics <- MCTopics
    MaxHandlers = 4
    Retry = 2
    Budget = 1
    MaxInbox = 1
    IdCapacity = 1
SPECIFICATION FairSpec
INVARIANTS
    TypeOK
    NoBlockLeaks
    NoPermitLost
    NoLostWakeup
    ClientHasSocket
    SubscribedWhileUp
    NoRepeat
PROPERTIES
    SendReturns
    QueuedGoesOut
    ReceivedIsProcessed
