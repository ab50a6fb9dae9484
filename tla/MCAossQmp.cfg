SPECIFICATION QmpFairSpec
CONSTANTS
    Words = 2
    MaxSends = 3
    MaxOpens = 3
    CanTimeOut = TRUE
    KickMayFail = TRUE
    PromptAck = FALSE
CHECK_DEADLOCK FALSE
INVARIANTS OpenMeansLinked FailedOpenCloses TakenWhole
PROPERTIES NoLateTake CallReturns
