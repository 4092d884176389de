SPECIFICATION Spec
CONSTANTS
  NPeers = 3
  MailboxLimit = 2
  RunLimit = 3
  Started = {1, 2}
  MaxBinds = 3
INVARIANTS MailKept TrafficBounded
PROPERTIES ReceiverKept
CHECK_DEADLOCK FALSE
