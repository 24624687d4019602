SPECIFICATION Spec
CONSTANTS
  Runs = {1}
  Mode <- ResolveOnly
  Workers = {w1, w2}
  Jobs = {1, 2}
  Operations = {}
  Faults = {}
  MaxCrashes = 1
  MaxLate = 0
SYMMETRY WorkerSymmetry
INVARIANTS
  TrackedJobOfStage
