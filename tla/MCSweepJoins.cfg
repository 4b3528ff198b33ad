SPECIFICATION Spec
CONSTANTS
  e1 = e1
  e2 = e2
  e3 = e3
  e4 = e4
  e5 = e5
  e6 = e6
  Edge = {e1, e2, e3, e4, e5, e6}
  NoEdge = NoEdge
  PathTypes = {"Subject"}
  ClipTypes = {"Union"}
  FillRules = {"NonZero"}
  HorizontalChoice = {FALSE}
  JoinChoice = {FALSE, TRUE}
  UsingPolytree = TRUE
  MaxRecords = 3
SYMMETRY EdgeSymmetry
INVARIANTS
  OwnersAcyclic
  AelIntact
  JoinsPaired
  NeverFails
PROPERTIES
  ClosedRecordsStayClosed
CHECK_DEADLOCK FALSE
