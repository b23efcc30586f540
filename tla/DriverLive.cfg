\* The goroutines under weak fairness.
SPECIFICATION FairSpec
CONSTANTS
  Conns = {c1, c2}
  Peers = {p1}
  Relays = {relay1}
  None = None
  MaxConns = 2
  QueueCap = 1
  MaxEvents = 3
\* Every connection may have come and gone.
CHECK_DEADLOCK FALSE
PROPERTIES
  Reaped
  KeepsDirectoryLive
