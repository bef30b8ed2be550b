SPECIFICATION Spec
CONSTANTS
  Args <- Crowded
  PerBlock = 2
  ListLen = 4
  Large = 30
  Wrap = 41
INVARIANT InVolume
CHECK_DEADLOCK FALSE
