SPECIFICATION FairSpec
CONSTANTS
  Tasks = {"t1", "t2"}
  Topics <- OwnTopics
  Keys = {"a", "b", "c"}
  Capacity = 2
  max_batch_size = 2
  MayFail = TRUE
  MaxVersion = 4
  MaxRestarts = 1
INVARIANTS
  StoredIsRetained
PROPERTIES
  InOrder
  BecomesDurable
CHECK_DEADLOCK FALSE
