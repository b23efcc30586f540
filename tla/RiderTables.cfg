\* Two connections, two rider identities, two cells: who is in which table.
SPECIFICATION Spec
CONSTANTS
  Conns = {c1, c2}
  Peers = {p1, p2}
  Cities = {city1}
  Cells = {x1, x2}
  Relays = {relay1}
  None = None
  Window <- TwoCells
  Inputs <- TableInputs
  MaxConns = 2
  SendBuffer = 1
  InboxCap = 0
  MaxEvents = 3
  p1 = p1
  p2 = p2
  x1 = x1
  x2 = x2
SYMMETRY Swap
\* Every connection may have come and gone.
CHECK_DEADLOCK FALSE
INVARIANTS
  TypeOK
  TablesMatch
  NoOrphan
  LostOnlyByHandover
  WindowComplete
PROPERTY
  KeepsDirectory
