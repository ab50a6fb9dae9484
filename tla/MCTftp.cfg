CONSTANTS
    NBlocks = 9
    LoadSizes <- MCLoadSizes
    Window = 3
    Answers <- MCAnswers
    MaxPorts = 2
    RetryCount = 1
    SaveSizes <- MCSaveSizes
    PutAnswers <- MCPutAnswers
    MaxCount = 1
    SeqSize = 8
    MaxTimeouts = 2
    MaxAge = 4
    MaxLoss = 2
    Networks <- MCNetworks
SPECIFICATION FairSpec
INVARIANTS FileIntact AckedIsStored PutIntact
PROPERTY Succeeds
CHECK_DEADLOCK FALSE
