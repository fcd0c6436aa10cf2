\* More blocks than buffers, so that buffers are recycled, and one may be pinned; a
\* console buffer of two characters; counters and words that wrap.
SPECIFICATION DevicesSpec
CONSTANTS
  Caller = {p1, p2}
  Block = {b1, b2, b3}
  Val = {0, 1}
  NBUF = 2
  MaxPinned = 1
  NoBlock = NoBlock
  INPUT_BUF = 2
  IndexMod = 4
  Readers = {1, 2}
  ReadSizes = {1, 3}
  COLS = 2
  ROWS = 3
  Keys <- MCKeys
  MaxHeld = 2
  MaxWire = 2
  SECS = 4
  FirstMin = 9
  MaxSeconds = 3
  WordMod = 16
  KERNBASE = 8
  MaxLag = 3
  MaxElapsed = 18
  WordValues = {0, 1, 3, 4, 5, 7, 8, 9, 12, 15}
  IntValues <- MCInts
INVARIANTS
  BuffersExact
  ConsoleSafe
  KeysExact
  TimeShown
  ArgsRight
PROPERTY
  LineSpec
CHECK_DEADLOCK FALSE
