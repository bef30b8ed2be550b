SPECIFICATION Spec
CONSTANTS
  NDir = 2
  NInd = 2
  CPB = 2
  ISize = 2
  NData = 6
  Data <- Bytes
  MaxWrites = 2
\* nothing is modelled after a call that finds no free block
CHECK_DEADLOCK FALSE
INVARIANTS TypeOK AsInLibFs
PROPERTY RefinesPlainFile
