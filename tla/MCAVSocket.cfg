SPECIFICATION FairSpec
CONSTANTS
  MaxRetry = 2
  PicLens <- MCPicLens
  AudioLen = 1
  Chunks <- MCChunks
INVARIANTS
  PacketsWhole
  GivesUpOnDeaf
PROPERTIES
  EachPacketEnds
CHECK_DEADLOCK FALSE
