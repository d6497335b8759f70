SPECIFICATION DeviceSpec
CONSTANT Granted = {1, 2, 4}
INVARIANTS
  BuffersAccounted
PROPERTIES
  PicturesUntilStarved
CHECK_DEADLOCK FALSE
