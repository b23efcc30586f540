\* One session, its owner and another peer, one watcher, and two calls at a time.
SPECIFICATION Spec
CONSTANTS
  Sessions = {s1}
  Peers = {p1, p2}
  Watchers = {w1}
  Calls = {c1, c2}
  None = None
  Asked = {0, 4}
  DefaultDuration = 1
  MaxDuration = 3
  MaxSessionTTL = 6
  Second = 2
  MaxLatency = 1
  LastCreate = 1
  MaxTime = 6
SYMMETRY Swap
CHECK_DEADLOCK FALSE
INVARIANTS
  TypeOK
  NothingEndsEarly
  NothingStays
PROPERTIES
  ServedWhileApproved
  NeverMuchOlder
