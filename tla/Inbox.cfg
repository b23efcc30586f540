\* Two connections of one rider and two goroutines forwarding to it.
SPECIFICATION Spec
CONSTANTS
  Conns = {c1, c2}
  Senders = {s1, s2}
  None = None
  SendBuffer = 1
  InboxCap = 1
  MaxEvents = 3
SYMMETRY Swap
\* The rider's connections may all be used up.
CHECK_DEADLOCK FALSE
INVARIANTS
  TypeOK
  InboxBounded
  ExpiryArmed
PROPERTIES
  LossExplained
  CopyExplained
