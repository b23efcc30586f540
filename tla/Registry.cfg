\* Two peers whose names share a word, and two calls at a time.
SPECIFICATION Spec
CONSTANTS
  Peers = {p1, p2}
  Words = {a}
  Names = {{}, {a}}
  Locations = {l1}
  Cities = {y1}
  Tokens = {t1}
  Bodies <- SomeBodies
  Calls = {c1, c2}
  None = None
  PeerTTL = 2
  MaxCalls = 3
SYMMETRY Swap
CHECK_DEADLOCK FALSE
INVARIANTS
  TypeOK
  IndexesAgree
PROPERTIES
  OthersKept
  NothingForgotten
