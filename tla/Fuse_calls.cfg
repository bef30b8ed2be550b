SPECIFICATION Spec
CONSTANTS
  Threads = {t1, t2}
  Buffer = {b1, b2}
  NULL = NULL
  MaxCalls = 3
\* the kernel may stop asking
CHECK_DEADLOCK FALSE
INVARIANTS TypeOK AloneAnswersRoot BuffersReturned
PROPERTIES StaysSettled Answered
