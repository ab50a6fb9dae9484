CONSTANTS
    Half = {0, 1}
    None = None
    SerialMod = 3
    InOrder = FALSE
    WriteMayFail = TRUE
    ReadFaults <- AnyReadFault
    CanErase = TRUE
    BlankStart = TRUE
SPECIFICATION Spec
INVARIANTS EnvInv SavedIsStored
PROPERTIES NeverLosesLast ImplementsStore
