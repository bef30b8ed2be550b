SPECIFICATION Spec
CONSTANTS
  Args <- Small
  PerBlock = 2
  ListLen = 4
  Large = 30
  Wrap = 41
INVARIANT MountsWhatItMade
CHECK_DEADLOCK FALSE
