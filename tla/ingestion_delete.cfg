\* No queue: does a deleted document stay deleted?
CONSTANTS
  Upload = {u1}
  Source = {s1}
  MaxChunks = 1
  MaxRestarts = 0
  QueueDeployed = FALSE
SPECIFICATION Spec
INVARIANTS DeletedStaysDeleted
CHECK_DEADLOCK FALSE
