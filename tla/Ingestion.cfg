SPECIFICATION FairSpec
CONSTANTS
  Last = 4
  Rows <- RowsWritten
  Plan <- Plans
  Verdict <- Verdicts4
  Confidence <- Confidences
  Halt = "none"
  Notice = 0
  Slots = {w1, w2}
  MaxAttempts = 2
  Faults = {"error", "offline", "cut", "copy", "timeout"}
  MaxFaults = 2
INVARIANTS
  TypeOK
  AcknowledgedIsStored
  NothingLost
  CompletionHonest
  RefusedLeavesNothing
  ContactsHaveSellers
  StrongestNameKept
  LaterBatchWins
PROPERTIES
  SpooledLands
  ImplementsPromise
CHECK_DEADLOCK FALSE
