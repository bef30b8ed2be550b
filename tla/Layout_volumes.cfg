SPECIFICATION Spec
CONSTANTS
  Args <- All
  PerBlock = 2
  ListLen = 4
  Large = 30
  Wrap = 41
INVARIANTS TypeOK Kept
CHECK_DEADLOCK FALSE
