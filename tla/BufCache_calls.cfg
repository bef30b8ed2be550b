SPECIFICATION Spec
CONSTANTS
  Block = {b1, b2, b3}
  Addr = {a1, a2, a3}
  Content = {blank, c1}
  Blank = blank
  MaxRefs = 2
INVARIANT TypeOK
INVARIANT ListIsLive
INVARIANT Coherent
PROPERTY RefinesStore
