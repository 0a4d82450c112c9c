SPECIFICATION FairSpec
CONSTANTS
  NoMsg = NoMsg
  N = 5
  Qos <- MCQos
  Denied = {3}
  Retain = {1, 4}
  Empty = {4}
  MaxPacketId = 3
  max_awaiting_rel = 2
  V5 = TRUE
  Overlap = FALSE
  MaxConnections = 2
INVARIANTS
  RoutedAsAnswered
  RetainedInOrder
PROPERTIES
  StoredIsRouted
  IncomingCompletes
CHECK_DEADLOCK FALSE
