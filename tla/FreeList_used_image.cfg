\* Not one of the passing runs: TLC reports HandsOutNoHeldBlock violated, by
\* a request to the empty list of a volume made on an image used before.
SPECIFICATION Spec
CONSTANTS
  Cap = 3
  ISize = 1
  FSize = 11
  Former <- FullList
INVARIANT HandsOutNoHeldBlock
CHECK_DEADLOCK FALSE
