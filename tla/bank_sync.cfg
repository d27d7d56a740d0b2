SPECIFICATION Spec
CONSTANTS
    None = None
    OwnName = OwnName
    Grocer = Grocer
    Cafe = Cafe
    MCSteps = 5
    Tip = 1
    Purchases <- MCPurchases
    Days <- MCDays
    Scenarios <- MCScenarios
INVARIANTS TypeOK NothingTypedIsDropped UnlinkedIsTold
PROPERTIES LockedOnce BookKept ImportsAsk
CHECK_DEADLOCK FALSE
