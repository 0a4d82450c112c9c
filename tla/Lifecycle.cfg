SPECIFICATION FairSpec
CONSTANTS
  NoConn = NoConn
  Conns = {c1, c2}
  Connects <- MCConnects
  MayBeFull = TRUE
  ChannelsMayFill = TRUE
  ConcurrentConnects = FALSE
  LateEvents = FALSE
INVARIANTS
  Registered
  WillAtMostOnce
  SessionMirrored
PROPERTIES
  TakenOverEnds
  WillGoesOut
CHECK_DEADLOCK FALSE
