SPECIFICATION Spec
CONSTANTS
  Conns = {c1}
  Senders = {s1}
  None = None
  SendBuffer = 1
  InboxCap = 1
  MaxEvents = 2
CHECK_DEADLOCK FALSE
INVARIANT NeverReceivedTwice
