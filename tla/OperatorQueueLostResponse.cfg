SPECIFICATION Spec
CONSTANTS
  Runs = {1, 2}
  Mode <- Sites
  Workers = {w1}
  Jobs = {1, 2}
  Operations = {}
  Faults = {"lost"}
  MaxCrashes = 0
  MaxLate = 0
INVARIANTS
  OneLiveJob
