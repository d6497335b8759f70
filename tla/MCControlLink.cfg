SPECIFICATION FairLinkSpec
CONSTANTS
  Opcodes <- MCOpcodes
  Streams <- MCStreams
INVARIANTS
  GenuineOnly
  BufferFits
  StartStopAlternate
  VerifiedFirst
PROPERTIES
  AllExecuted
CHECK_DEADLOCK FALSE
