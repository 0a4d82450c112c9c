SPECIFICATION Spec
CONSTANTS
  NoConn = NoConn
  Conns = {c1, c2}
  Connects <- MCConnects
  MayBeFull = FALSE
  ChannelsMayFill = FALSE
  ConcurrentConnects = FALSE
  LateEvents = TRUE
INVARIANTS
  Registered
CHECK_DEADLOCK FALSE
