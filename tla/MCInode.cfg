\* Two processes make four calls between them, on the root and two more inodes.
CONSTANTS
  p1 = p1
  p2 = p2
  NoProc = NoProc
  Process = {p1, p2}
  NINODES = 3
  Name = {"a", "b"}
  Calls = {"link", "unlink", "create", "mkdir", "chdir", "O_RDWR"}
  MaxCalls = 4
  Paths <- MCPaths
  OldPaths <- MCOldPaths
SYMMETRY Symmetry
SPECIFICATION Spec
INVARIANTS
  
  CycleNeedsPut
CHECK_DEADLOCK FALSE
