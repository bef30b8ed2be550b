SPECIFICATION Spec
CONSTANTS
  Inum = {1, 2, 3}
  Root = 1
  Addr = {a1, a2, a3, a4}
  NULL = NULL
  MaxEntries = 4
CHECK_DEADLOCK FALSE
INVARIANTS TypeOK NoFreedMemory Current AllSaved
