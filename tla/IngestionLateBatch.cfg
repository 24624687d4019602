SPECIFICATION FairSpec
CONSTANTS
  Last = 3
  Rows <- HaltedRows
  Plan <- HaltedPlans
  Verdict <- HaltedVerdicts
  Confidence <- HaltedConfidences
  Halt = "cooldown"
  Notice = 2
  Slots = {w1, w2}
  MaxAttempts = 2
  Faults = {"cut"}
  MaxFaults = 2
PROPERTIES
  CompletionStays
CHECK_DEADLOCK FALSE
