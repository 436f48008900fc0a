CONSTANTS
    nMaxMessageNum = 3
    m1 = m1
    m2 = m2
    Message <- MCMessage
    NoMessage = NoMessage
    UseFlush = TRUE
    MaxThreads = 2
SPECIFICATION FairSpec
INVARIANTS TypeOK NoLostWakeup
PROPERTIES ImplementsFifo AllDelivered
