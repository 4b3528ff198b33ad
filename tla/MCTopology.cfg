SPECIFICATION Spec
CONSTANTS
  MaxCalls = 2
  MaxDepth = 2
  MaxPaths = 1
  Shapes <- AllShapes
  MaxRings = 2
  InputPathLimit = 2
  InputPointLimit = 5
  EnginePointLimit = 4
INVARIANTS
  WritesStayInBlock
  EngineWithinPlan
  WorkspaceIsOwn
  NoStaleRequest
PROPERTIES
  ReleaseIsDeferred
  WriterPromiseKept
CHECK_DEADLOCK FALSE
