SPECIFICATION Spec
CONSTANTS
    FifoLen = 12
    AlignTo = 2
    FullReserve = 2
    CmdReserve = 2
    MsgHdr = 2
    Message <- MCMessage
INVARIANTS
    WholeMessage
    NeverRefused
    EmptyIffEqual
    UnreadIntact
PROPERTIES
    ImplementsQueue
