SPECIFICATION Spec
CONSTANTS
  a = a
  b = b
  TBA = TBA
  None = None
  Scopes <- MCScopes
  MoveLists <- MCMoveLists
  Figures = {2}
  Forces = {FALSE}
  MaxUndos = 1
PROPERTIES KeySparesSync
CHECK_DEADLOCK FALSE
