CONSTANTS
  Branches = {"a", "b"}
  MaxEvents = 2
  QueueSize = 1
  InOrder = TRUE
SPECIFICATION Spec
INVARIANTS BranchCovered StopDrains
PROPERTY CallsReturn
