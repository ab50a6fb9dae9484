CONSTANTS
    RemoteIntent <- OneIntent
    TxCap = 3
    RxCap = 3
    Patience = 1
    CanTimeOut = TRUE
    MaxCalls = 2
    MaxUcsi = 1
    MaxNotify = 1
SPECIFICATION FairDriver
CHECK_DEADLOCK FALSE
INVARIANTS TypeOK OpenAfterAdvertised ReadyMeansPanEnabled NeverOverAcked
PROPERTIES CallReturns
