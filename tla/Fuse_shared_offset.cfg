SPECIFICATION Spec
CONSTANTS
  Threads = {t1, t2}
  Buffer = {b1, b2, b3}
  NULL = NULL
  MaxCalls = 2
CHECK_DEADLOCK FALSE
INVARIANT RootAttributes
