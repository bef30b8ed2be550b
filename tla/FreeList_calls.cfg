SPECIFICATION Spec
CONSTANTS
  Cap = 3
  ISize = 1
  FSize = 11
  Former <- Images
INVARIANT TypeOK
INVARIANT NoDoubleAllocation
INVARIANT IInv
PROPERTY RefinesPool
PROPERTY OneLostPerRefill
\* nothing is modelled after a request to the empty pool
CHECK_DEADLOCK FALSE
