CONSTANTS
  graph <- MCRouterAsks
  End = "__end__"
  MaxSteps = 4
  MaxConcurrency = 2
  MaxRuns = 2
  MaxCrashes = 0
  LostSaves = TRUE
  ExternalInterrupts = TRUE
  Cancellation = FALSE
  TimeTravel = FALSE
SPECIFICATION Spec
INVARIANTS Accounted NothingLost NothingRepeated BreakpointPassed
PROPERTY RunEnds
