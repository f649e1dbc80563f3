CONSTANTS
  graph <- MCDiamond
  End = "__end__"
  MaxSteps = 4
  MaxConcurrency = 2
  MaxRuns = 2
  MaxCrashes = 1
  MaxLostSaves = 1
  ExternalInterrupts = FALSE
  TimeTravel = TRUE
SPECIFICATION Spec
INVARIANTS TypeOK NothingLost NothingRepeated
PROPERTY RunEnds
