SPECIFICATION Spec
CONSTANTS
  Asks = {"small", "large", "website"}
  Searches = {"bottles"}
  Search <- SearchOf
  Past <- OnePast
  Keys = {"k1", "k2"}
  MaxRuns = 2
  Requests = {"w1", "w2"}
  MaxSent = 2
  MaxFaults = 2
  Faults = {"error", "lost", "expiry", "cut"}
  Polls = {"p1", "p2"}
INVARIANTS
  TypeOK
  OneRunPerSearch
  OneRunPerKey
  AnswersAgree
  AnswerFits
  ResultsComplete
  PollsOnce
  NeverSilent
PROPERTIES
  OverStaysShown
CHECK_DEADLOCK FALSE
