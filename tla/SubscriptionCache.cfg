SPECIFICATION Spec
CONSTANTS
  NoGroup = NoGroup
  NoEntry = NoEntry
  NoNode = NoNode
  Workers = {w1, w2, w3}
  Clients = {"c1", "c2"}
  Groups = {"g1"}
  Options = {"qos0"}
  Filters <- MCFilters
  Topics <- MCTopics
  Visits <- MCVisits
  TOPIC_CACHE_MAX_SIZE = 1
  USIZE = 2
  MaxGeneration = 2
SYMMETRY MCSymmetry
INVARIANTS
  CacheCoherent
  AnswerIsCurrent
  CacheBounded
CONSTRAINT MCThreads
