\* One driver that connects while a message for it is being forwarded.
SPECIFICATION Spec
CONSTANTS
  Conns = {c1}
  Peers = {p1}
  Relays = {relay1}
  None = None
  MaxConns = 1
  QueueCap = 2
  MaxEvents = 3
CHECK_DEADLOCK FALSE
INVARIANT QueuedAreDelivered
