SPECIFICATION Spec
CONSTANTS
  Args <- Usual
  PerBlock = 2
  ListLen = 4
  Large = 30
  Wrap = 41
INVARIANT NoGap
CHECK_DEADLOCK FALSE
