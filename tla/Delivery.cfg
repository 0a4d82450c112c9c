SPECIFICATION FairSpec
CONSTANTS
  N = 4
  RetainedMsgs = {9}
  Qos <- Qos0121
  Oversize = {4}
  Expiring = {2}
  Incoming = {2}
  MaxPacketId = 4
  max_inflight = 2
  max_pending_messages = 2
  receive_maximum = 1
  outbound_channel_capacity = 2
  WireCapacity = 1
  MaxBreaks = 1
  MaxExtras = 1
INVARIANTS
  NoQuotaLeak
  DeliveredAsAcked
PROPERTIES
  LostOnlyWithTask
  OvertakenOnlyInQueue
  InflightIsAcked
CHECK_DEADLOCK FALSE
