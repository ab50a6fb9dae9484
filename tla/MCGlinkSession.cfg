CONSTANTS
    RemoteIntent <- TwoIntents
    TxCap = 6
    RxCap = 3
    Patience = 1
    CanTimeOut = FALSE
    MaxCalls = 1
    MaxUcsi = 1
    MaxNotify = 2
SPECIFICATION FairSpec
CHECK_DEADLOCK FALSE
INVARIANTS AnswerIsOurs OpenAckIsOurs LiidConserved RiidExclusive RiidNotStranded EveryNotifyAcked
PROPERTIES SessionComesUp
