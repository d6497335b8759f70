SPECIFICATION FairRecorderSpec
CONSTANT BufferNum = 3
INVARIANTS
  TypeOK
  Conservation
  Handshake
  NoLostWakeup
  StoppedIsDrained
  ExclusiveUse
  OneStaleFill
  ListsAsQueues
PROPERTIES
  StartHeeded
  ResetConfigures
  StopParks
  AudioFlows
  Recovers
