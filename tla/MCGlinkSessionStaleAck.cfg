CONSTANTS
    RemoteIntent <- OneIntent
    TxCap = 3
    RxCap = 3
    Patience = 1
    CanTimeOut = TRUE
    MaxCalls = 2
    MaxUcsi = 0
    MaxNotify = 0
SPECIFICATION Spec
CHECK_DEADLOCK FALSE
INVARIANT OpenAckIsOurs
