SPECIFICATION Spec
CONSTANTS
  None = None
  Nodes = {1, 2, 3, 4, 5, 6, 7, 8}
  Org = 1
  Kind <- Kinds
  Names = {1, 2, 3, 4}
  ParentAtFirst <- Parents
  NameAtFirst <- FirstNames
  PageSize = 2
  Start = 2
  MaxTroubles = 1
  MaxEvents = 3
INVARIANTS TypeOK InStep  RowsNameTheirNodesUnlessMoved OwnRequestsUnlessEscaped  
\* the user may stop
CHECK_DEADLOCK FALSE
