SPECIFICATION Spec
CONSTANTS
  Samples <- MCSamples
  Len2 = 4
  MaxPackets = 3
INVARIANT Packed
PROPERTIES
  Tracks
  Follows
CHECK_DEADLOCK FALSE
