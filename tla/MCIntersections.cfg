SPECIFICATION Spec
CONSTANTS
  MaxEdges = 5
  MaxX = 3
  MaxPoint = 1
  Modes = {"unit_runs", "monotone_runs"}
INVARIANTS
  NodesAreTheCrossings
  NeverStranded
  EndsInOrder
PROPERTIES
  CrossingsKept
CHECK_DEADLOCK FALSE
