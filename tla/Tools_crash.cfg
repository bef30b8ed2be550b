SPECIFICATION Spec
CONSTANTS
  NDir = 1
  NInd = 1
  CPB = 2
  ISize = 5
  NData = 6
  IPB = 2
  Names = {"a", "b"}
  Paths <- ShortPaths
  Sources <- AllSources
  Garbage = {0, 4}
  Former <- UsedBefore
  MaxRuns = 3
INVARIANT TypeOK
INVARIANT NoSharedBlock
INVARIANT NoHoles
INVARIANT NothingLost
INVARIANT LinkCounts
PROPERTY RefinesNamespace
\* after a run that read past the free list nothing more is modelled
CHECK_DEADLOCK FALSE
