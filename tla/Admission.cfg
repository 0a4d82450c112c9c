SPECIFICATION Spec
CONSTANTS
  t1 = t1
  t2 = t2
  Tasks = {t1, t2}
  TcpTasks = {t1}
  NoIp = NoIp
  Ips = {"a", "friend", "foe"}
  AllowedIps = {"friend"}
  BannedIps = {"foe"}
  max_connections_per_ip = 1
  rate_limit = 2
  rate_burst = 1
  SECOND = 3
  max_count = 2
  window_time = 2
  ban_time = 2
  cleanup_interval = 1
  MaxClock = 3
  MaxCalls = 3
CHECK_DEADLOCK FALSE
INVARIANTS
  CountIsLive
  LimitOvershoot
  RateBounded
  BannedStaysOut
  BanDeserved
