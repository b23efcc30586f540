\* One start, one connection; nothing goes wrong.
SPECIFICATION Spec
CONSTANTS
  None = None
  MaxWorkers = 1
  MaxStarts = 1
  MaxEvents = 0
\* Stop waits for ever.
CHECK_DEADLOCK FALSE
PROPERTY StopReturns
