CONSTANTS
  Capacity = 2
  MaxBytes = 4
  MaxAttempts = 2
  Workers = 2
  ReadSizes = {1, 2}
  Kinds = {"llm", "agent"}
SPECIFICATION Spec
INVARIANT EOFComplete
