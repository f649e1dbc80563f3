CONSTANTS
  Branches = {"a", "b"}
  MaxEvents = 3
  QueueSize = 1
  InOrder = TRUE
SPECIFICATION Spec
INVARIANT FullSessionCovered
