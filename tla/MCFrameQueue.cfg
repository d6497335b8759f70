SPECIFICATION Spec
CONSTANTS
  FrameNum = 3
  MaxCaptured = 8
INVARIANTS
  SenderSurvives
  EveryFrameOnce
PROPERTIES
  SentInOrder
  SentFresh
CHECK_DEADLOCK FALSE
