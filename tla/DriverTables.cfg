\* Two connections and two driver identities, two forwarding goroutines.
SPECIFICATION Spec
CONSTANTS
  Conns = {c1, c2}
  Peers = {p1, p2}
  Relays = {relay1, relay2}
  None = None
  MaxConns = 2
  QueueCap = 2
  MaxEvents = 4
SYMMETRY Swap
\* Every connection may have come and gone.
CHECK_DEADLOCK FALSE
INVARIANTS
  TypeOK
  TablesMatch
  NoOrphan
  LostOnlyByHandover
  NeverTwice
PROPERTIES
  LossExplained
  KeepsDirectory
