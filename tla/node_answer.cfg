CONSTANTS
  Tasks = {"a", "c"}
  Asks <- MCAsksOne
  MaxAttempts = 2
  MaxRuns = 3
  AnswerBy = {"resume"}
SPECIFICATION Spec
INVARIANT RightAnswer
