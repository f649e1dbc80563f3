CONSTANTS
  graph <- MCDiamond
  End = "__end__"
  MaxSteps = 6
  MaxConcurrency = 2
  MaxRuns = 2
  MaxCrashes = 0
  LostSaves = FALSE
  ExternalInterrupts = FALSE
  Cancellation = FALSE
  TimeTravel = TRUE
SPECIFICATION Spec
PROPERTY RunEnds
CHECK_DEADLOCK FALSE
