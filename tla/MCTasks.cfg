\* Four slots and three priorities; three processes that fill the physical pages; files
\* that reach their indirect block; pipelines of three programs.
SPECIFICATION TasksSpec
CONSTANTS
  NPROC = 4
  Priorities = {1, 2, 3}
  Slots = {1, 2, 3}
  NPAGES = 12
  PGSIZE = 2
  KERNBASE = 8
  NPTE = 2
  Growth <- MCGrowth
  Images <- MCImages
  Inodes = {1, 2}
  Files = {1, 2}
  Writers = {1, 2}
  Sizes = {1, 3, 7}
  BSIZE = 2
  NBLOCKS = 6
  NDIRECT = 1
  NINDIRECT = 3
  MAXOPBLOCKS = 6
  MaxOps = 4
  ShSlots = {1, 2, 3, 4, 5, 6}
  Commands <- MCCommands
  MaxLines = 2
  ShPipes = {1, 2}
  Names <- MCNames
  Paths <- MCPaths
  Formats <- MCFormats
  MemSize = 5
  DIRSIZ = 2
  IntBits = 6
  Bases = {10, 16}
  MPTables <- MCTables
  LowPages <- MCLowPages
  HighPages <- MCHighPages
  NCPU = 3
  NoPage = NoPage
INVARIANTS
  PicksHighest
  PagesExact
  DiskExact
  PipelineWired
  
  StacksReady
PROPERTIES
  LostInFork
  BytesSpec
  
CHECK_DEADLOCK FALSE
