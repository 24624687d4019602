SPECIFICATION Spec
CONSTANTS
  Runs = {1}
  Mode <- AmazonOnly
  Workers = {w1, w2}
  Jobs = {1, 2}
  Operations = {"cancel", "decide"}
  Faults = {"error", "lost", "slow", "expiry"}
  MaxCrashes = 1
  MaxLate = 0
SYMMETRY WorkerSymmetry
INVARIANTS
  TypeOK
  TrackedJobRunning
  LaunchOnce
PROPERTIES
  SlotOnlyFromQueue
