SPECIFICATION FairSpec
CONSTANTS
  NoMsg = NoMsg
  Setups <- MCSetups
  Topics <- MCTopics
  Subs <- MCSubs
  Clients <- MCClients
  standing <- MCStanding
  EVENTS = 2
  COMMANDS = 2
INVARIANTS
  NoLoop
  Mapped
  ForwardedInOrder
  ReceivedIsHandedOver
PROPERTIES
  ReconnectsOrStops
CHECK_DEADLOCK FALSE
