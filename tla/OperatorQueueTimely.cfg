SPECIFICATION Spec
CONSTANTS
  Runs = {1, 2}
  Mode <- AmazonTwice
  Workers = {w1, w2}
  Jobs = {1, 2}
  Operations = {}
  Faults = {"error"}
  MaxCrashes = 0
  MaxLate = 1
SYMMETRY WorkerSymmetry
INVARIANTS
  SlotUnique
  TrackedJobOfStage
PROPERTIES
  CooldownHonoured
