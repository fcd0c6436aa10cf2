\* Calls longer than the pipe, so that they sleep in the middle of a call; two processes
\* over a full file table; two CPUs and two locks; a heap that grows three times.  The
\* programs end, and so do most parts.
SPECIFICATION PartsSpec
CONSTANTS
  Writer = {w1, w2}
  Reader = {r1}
  Byte = {0, 1}
  PIPESIZE = 2
  CtrMod = 4
  MaxN = 3
  FProcs = {1, 2}
  NFILE = 3
  NOFILE = 2
  FPipes = {1}
  FInodes = {1}
  CPUs = {1, 2}
  Locks = {1, 2}
  Callers = {1, 2}
  Calls = {1, 22}
  SYS_toggle = 22
  MaxCalls = 2
  FileSizes <- MCFileSizes
  Geometries <- MCGeometries
  BSIZE = 2
  NDIRECT = 2
  IPB = 2
  BPB = 32
  LOGSIZE = 2
  TokenLists <- MCTokenLists
  MAXARGS = 3
  HeaderSize = 2
  MinCore = 4
  HeapEnd = 11
  Requests = {1, 4, 7}
  Jobs <- MCJobs
  BUFSIZE = 4
INVARIANTS
  PipeSafe
  FilesExact
  LocksExact
  CountsExact
  
  ParserRight
  HeapSound
  GrepRight
PROPERTY
  FifoSpec
CHECK_DEADLOCK FALSE
