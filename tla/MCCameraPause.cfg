SPECIFICATION Spec
CONSTANTS
  FrameNum = 3
  MaxCaptured = 6
  NBuffers = 2
  Requests <- MCRequests
INVARIANT PauseFromTable
CHECK_DEADLOCK FALSE
