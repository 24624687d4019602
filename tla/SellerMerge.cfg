SPECIFICATION Spec
CONSTANTS
  Sellers <- Sellers2
  Known = {2}
  Links <- Links2
  Table <- Tables2
  Batches = {"first", "second"}
  Seller <- SellerOf
  Brings <- Brought
  Bare <- Alone
  Likeness <- Likenesses
  Operators = {p1}
  Importers = {i1, i2}
  MaxRequests = 4
  MaxBatches = 2
  MaxFaults = 1
SYMMETRY Alternatives
INVARIANTS
  TypeOK
  MovesAudited
  RollbackRestores
  SeparateStaysSeparate
  MergeComplete
  HiddenForAReason
CHECK_DEADLOCK FALSE
