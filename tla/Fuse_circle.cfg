\* not one of the passing runs: it shows how the buffer list becomes a circle
SPECIFICATION Spec
CONSTANTS
  Threads = {t1, t2}
  Buffer = {b1, b2}
  NULL = NULL
  MaxCalls = 3
CHECK_DEADLOCK FALSE
INVARIANT NoCircle
