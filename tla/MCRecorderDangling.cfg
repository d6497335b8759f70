SPECIFICATION RecorderSpec
CONSTANT BufferNum = 1
INVARIANT NoDangling
