\* Two senders, a message that fits and one that is too large, one loss of the connection.
SPECIFICATION Spec
CONSTANTS
  Senders = {s1, s2}
  None = None
  Big = {2}
  Window = 1
  Legacy = TRUE
  MaxStreams = 2
  MaxMessages = 2
  MaxDrops = 1
\* The messages may have been sent.
CHECK_DEADLOCK FALSE
INVARIANTS
  TypeOK
  NoStreamLeak
PROPERTIES
  LossExplained
  SendReturns
