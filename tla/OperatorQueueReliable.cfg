SPECIFICATION Spec
CONSTANTS
  Runs = {1, 2}
  Mode <- AmazonThenSite
  Workers = {w1, w2}
  Jobs = {1, 2, 3, 4}
  Operations = {"detail"}
  Faults = {"error"}
  MaxCrashes = 0
  MaxLate = 0
SYMMETRY WorkerSymmetry
INVARIANTS
  OneLiveJob
  LiveJobHoldsUnit
PROPERTIES
  TerminalStays
  ImplementsUnit
