\* create and unlink of one name in two processes.
CONSTANTS
  p1 = p1
  p2 = p2
  NoProc = NoProc
  Process = {p1, p2}
  NINODES = 4
  Name = {"cat", "x"}
  Calls = {"create", "unlink"}
  MaxCalls = 8
  Paths <- TestPaths
  OldPaths <- TestOld
SPECIFICATION Spec
INVARIANT NoLostInode
CHECK_DEADLOCK FALSE
