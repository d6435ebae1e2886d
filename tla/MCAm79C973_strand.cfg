SPECIFICATION FairSpec
CONSTANTS
  Ring = 2
  MaxFrames = 2
  MaxSends = 0
  Echo = FALSE
  FrameSize = 64
  Base = 4
CHECK_DEADLOCK FALSE
PROPERTIES
  EveryFrameIsServed
