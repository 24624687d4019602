SPECIFICATION Spec
CONSTANTS
  Runs = {1, 2}
  Mode <- Sites
  Workers = {w1, w2}
  Jobs = {1, 2}
  Operations = {"cancel"}
  Faults = {}
  MaxCrashes = 0
  MaxLate = 0
SYMMETRY WorkerSymmetry
INVARIANTS
  OneLiveJob
