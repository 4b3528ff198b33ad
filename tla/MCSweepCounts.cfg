SPECIFICATION Spec
CONSTANTS
  e1 = e1
  e2 = e2
  e3 = e3
  e4 = e4
  Edge = {e1, e2, e3, e4}
  NoEdge = NoEdge
  PathTypes = {"Subject", "Clip"}
  ClipTypes = {"Intersection", "Union", "Difference", "Xor"}
  FillRules = {"EvenOdd", "NonZero", "Positive", "Negative"}
  HorizontalChoice = {FALSE, TRUE}
  JoinChoice = {FALSE}
  UsingPolytree = FALSE
  MaxRecords = 2
SYMMETRY EdgeSymmetry
INVARIANTS
  WindingMatchesRegions
  HotEdgesBoundTheResult
  FrontHasResultOnRight
  RecordsCoupled
CHECK_DEADLOCK FALSE
