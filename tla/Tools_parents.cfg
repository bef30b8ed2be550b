SPECIFICATION Spec
CONSTANTS
  NDir = 1
  NInd = 1
  CPB = 2
  ISize = 4
  NData = 6
  IPB = 2
  Names = {"a", "b"}
  Paths <- LongPaths
  Sources <- AllSources
  Garbage = {0, 4}
  Former <- Zeroes
  MaxRuns = 3
INVARIANT PathsAreMade
CHECK_DEADLOCK FALSE
