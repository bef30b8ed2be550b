SPECIFICATION Spec
CONSTANTS
  Cap = 3
  ISize = 1
  FSize = 11
  Former <- Zeroes
INVARIANT IndexZeroIsNextFreelist
CHECK_DEADLOCK FALSE
