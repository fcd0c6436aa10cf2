SPECIFICATION Spec
CONSTANTS
  Caller = {p1, p2, p3}
  Block = {b1, b2, b3}
  Past = b1
  NoBlock = NoBlock
  Val = {0, 1}
  MAXOPBLOCKS = 1
  LOGSIZE = 3
  size = 3
  OpWrites = 1
INVARIANT LogFits
