SPECIFICATION Spec
CONSTANTS
  a = a
  b = b
  TBA = TBA
  None = None
  Scopes <- MCScopes
  MoveLists <- MCMoveLists
  Figures = {0, 2}
  Forces = {FALSE, TRUE}
  MaxUndos = 2
INVARIANTS TypeOK AssignedIsReplay MoveAudit PairsWhole RedoReturns
PROPERTIES LockedStays
CHECK_DEADLOCK FALSE
