SPECIFICATION Spec
CONSTANTS
  Args <- Big
  PerBlock = 2
  ListLen = 4
  Large = 30
  Wrap = 16
INVARIANT KeptAtAnySize
CHECK_DEADLOCK FALSE
