\* The goroutines under weak fairness, with heartbeats and an inbox to flush.
SPECIFICATION FairSpec
CONSTANTS
  Conns = {c1, c2}
  Peers = {p1}
  Cities = {city1}
  Cells = {x1}
  Relays = {relay1}
  None = None
  Window <- OneCell
  Inputs <- LiveInputs
  MaxConns = 2
  SendBuffer = 1
  InboxCap = 1
  MaxEvents = 2
  p1 = p1
  p2 = p2
  x1 = x1
  x2 = x2
\* Every connection may have come and gone.
CHECK_DEADLOCK FALSE
PROPERTIES
  Reaped
  KeepsDirectoryLive
