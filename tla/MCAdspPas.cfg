SPECIFICATION FairSpec
CONSTANTS
    Domains = 2
    MaxCalls = 3
    MaxPolls = 3
    Orders <- MCOrders
INVARIANTS ResourcesBalanced NeverLoadsOverRunning
PROPERTY BootReturns
CHECK_DEADLOCK FALSE
