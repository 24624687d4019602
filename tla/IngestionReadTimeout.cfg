SPECIFICATION Spec
CONSTANTS
  Last = 4
  Rows <- RowsWritten
  Plan <- Plans
  Verdict <- Verdicts4
  Confidence <- Confidences
  Halt = "none"
  Notice = 0
  Slots = {w1, w2}
  MaxAttempts = 2
  Faults = {"error", "timeout"}
  MaxFaults = 2
INVARIANTS
  NothingDropped
CHECK_DEADLOCK FALSE
