SPECIFICATION Spec
CONSTANTS
  Nodes = {"a", "b"}
  Clients = {"c1", "c2"}
  Home <- BothOnB
  standing <- OneEachStanding
  Filters = {"t"}
  Changing = {"c1", "c2"}
  Subscribed <- BothSubscribed
  Hears <- AHears
  Messages <- TwoMessages
  Early <- OneMessage
  Origin <- FromA
  Covers <- TopicCovers
  NoView = NoView
  NoKeys = NoKeys
  NoMsg = NoMsg
  EVENTS = 2
  COMMANDS = 1
  MaxTasks = 2
  MaxLinks = 2
  MaxOps = 1
  MaxFaults = 1
CHECK_DEADLOCK FALSE
INVARIANT
  Advertised
