CONSTANTS
  graph <- MCDiamondFanOut
  End = "__end__"
  MaxSteps = 5
  MaxConcurrency = 2
  MaxRuns = 2
  MaxCrashes = 1
  LostSaves = FALSE
  ExternalInterrupts = FALSE
  Cancellation = TRUE
  TimeTravel = FALSE
SPECIFICATION Spec
INVARIANTS ConcurrencyBounded TypeOK NoOrphans WaitHasWork SingleInFlight WaitsBehindTask NothingLost NothingRepeated
PROPERTY RunEnds
