CONSTANTS
  r1 = r1
  d1 = d1
  q1 = q1
  None = None
  Jobs = {r1, d1}
  Receipts = {r1}
  Photo <- MCPhoto
  Txns = {1, 2, 3}
  BankRows = {1}
  Requests = {q1}
  MaxAttempts = 2
  MaxUserSteps = 3
  MaxCrashes = 1
  Windows = {}
SPECIFICATION FairSpec
INVARIANTS
  TypeOK
  FinishedHasRow
  UnplacedHasNoRow
  FinishedHasPhoto
  AttemptsBounded
  ProcessingIsHeld
  PhotoKept
  OneRowPerJob
PROPERTIES
  QueuedIsRead
CHECK_DEADLOCK FALSE
