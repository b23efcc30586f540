\* Two workers; two of one restart, changes of the network or faults, in any mixture.
SPECIFICATION Spec
CONSTANTS
  None = None
  MaxWorkers = 2
  MaxStarts = 2
  MaxEvents = 2
\* Stop may wait for ever, and everything may be over.
CHECK_DEADLOCK FALSE
INVARIANTS
  TypeOK
PROPERTIES
  Reachable
