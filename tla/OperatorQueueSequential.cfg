SPECIFICATION FairSpec
CONSTANTS
  Runs = {1, 2}
  Mode <- ResolveTwice
  Workers = {w1}
  Jobs = {1, 2, 3}
  Operations = {"detail", "cancel", "retry"}
  Faults = {}
  MaxCrashes = 1
  MaxLate = 1
INVARIANTS
  OneLiveJob
  LiveJobHoldsUnit
PROPERTIES
  TerminalStays
  QueuedRunEnds
