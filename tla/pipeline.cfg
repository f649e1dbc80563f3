SPECIFICATION Spec
CONSTANTS
  Buffer = 1
  MaxAgents = 2
  MaxTools = 1
  MaxSteers = 1
  MaxFaults = 1
INVARIANTS TypeOK WokenMeansStored SessionInOrder OutputStored CompletionDelivered
PROPERTY RunEnds
