CONSTANTS
  BirthHits = 2
  MaxMisses = 1
  MaxFrames = 4
  MaxConn = 2
  MaxSwaps = 1
SPECIFICATION Spec
CHECK_DEADLOCK FALSE
INVARIANTS NoGhosts
