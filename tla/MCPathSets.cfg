SPECIFICATION Spec
CONSTANTS
  MaxPaths = 3
  MaxPoints = 4
INVARIANTS
  NothingIncompletePublished
