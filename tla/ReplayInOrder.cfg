SPECIFICATION Spec
CONSTANTS
  None = None
  Sessions = {u1}
  FrameBlocks = 1
  MaxFrames = 2
  MaxBlocks = 2
  MaxPosted = 1
  MaxSends = 1
  MaxOpenings = 1
INVARIANTS ReplayInOrder
CHECK_DEADLOCK FALSE
