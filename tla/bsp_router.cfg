CONSTANTS
  graph <- MCRouterPauses
  End = "__end__"
  MaxSteps = 5
  MaxConcurrency = 2
  MaxRuns = 3
  MaxCrashes = 0
  MaxLostSaves = 1
  ExternalInterrupts = TRUE
  TimeTravel = FALSE
SPECIFICATION Spec
INVARIANTS NothingLost NothingRepeated BreakpointPassed VersionGateOpen
PROPERTY RunEnds
