SPECIFICATION FairSpec
CONSTANTS
  FrameNum = 3
  MaxCaptured = 6
  NBuffers = 2
  Requests <- MCRequests
PROPERTIES
  ImplementsFrameQueue
  SentOrSuperseded
CHECK_DEADLOCK FALSE
