CONSTANTS
  Tasks = {"a", "c"}
  Asks <- MCAsksOne
  MaxAttempts = 2
  MaxRuns = 3
  AnswerBy = {"map"}
SPECIFICATION Spec
INVARIANTS RightAnswer Accountable
PROPERTY TaskEnds
