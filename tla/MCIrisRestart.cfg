SPECIFICATION Spec
CONSTANTS
  Conversations = {c1}
  MaxMessages = 4
  Capacity = 3
  MaxRestarts = 1
  MaxBatch = 2
  MaxIrisRestarts = 0
  MaxFailures = 0
INVARIANTS
  NothingSkipped
