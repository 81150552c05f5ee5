SPECIFICATION Spec
CONSTANTS
  Alphabet = {}
  MaxScan = 6
  ReadSize = 32768
  FrameLens = {126, 65536}
  ChunkLens = {32894}
  Shortfalls = {1}
  MaxBytes = 7
  MaxItems = 3
  MaxChunks = 1
INVARIANTS TypeOK NothingInserted NothingLost DownFaithful BannerFound
PROPERTIES ClientGoneEnds SSHGoneEnds
CHECK_DEADLOCK FALSE
