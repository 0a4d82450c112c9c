SPECIFICATION Spec
CONSTANTS
  None = None
  Clients = {c1, c2}
  Subscribes <- MCSubscribes
  Unsubscribes <- MCUnsubscribes
  Topics <- MCTopics
  Retained <- MCRetained
  max_qos = 1
  wildcard_subscription_available = TRUE
  max_topic_levels = 2
  MaxPackets = 3
SYMMETRY MCSymmetry
INVARIANTS
  TrieAgrees
  CopiesMerge
  SessionAgrees
PROPERTIES
  AcksAreTrue
CHECK_DEADLOCK FALSE
