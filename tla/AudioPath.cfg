\* Two channels, a bounded buffer, one replay that may fail and be tried again.
SPECIFICATION Spec
CONSTANTS
  None = None
  Sessions = {u1, u2}
  FrameBlocks = 2
  MaxFrames = 2
  MaxBlocks = 4
  MaxPosted = 1
  MaxSends = 1
  MaxOpenings = 2
SYMMETRY Names
INVARIANTS TypeOK BufferIsBounded StreamInOrder
PROPERTIES FramesAreKept SpeechNeverOverlaps
CHECK_DEADLOCK FALSE
