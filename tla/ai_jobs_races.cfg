CONSTANTS
  r1 = r1
  q1 = q1
  q2 = q2
  None = None
  Jobs = {r1}
  Receipts = {r1}
  Photo <- MCPhoto
  Txns = {1, 2, 3}
  BankRows = {}
  Requests = {q1, q2}
  MaxAttempts = 1
  MaxUserSteps = 5
  MaxCrashes = 1
  Windows = {"commit", "record", "stub", "sweep", "retention"}
SPECIFICATION Spec
INVARIANTS
  AttachmentHasFile
PROPERTIES
  GoneJobsMakeNothing
  
CHECK_DEADLOCK FALSE
