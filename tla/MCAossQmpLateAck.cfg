SPECIFICATION QmpSpec
CONSTANTS
    Words = 2
    MaxSends = 2
    MaxOpens = 1
    CanTimeOut = TRUE
    KickMayFail = FALSE
    PromptAck = FALSE
CHECK_DEADLOCK FALSE
INVARIANT SuccessMeansTaken
