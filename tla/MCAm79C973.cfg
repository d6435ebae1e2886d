SPECIFICATION FairSpec
CONSTANTS
  Ring = 3
  MaxFrames = 3
  MaxSends = 2
  Echo = TRUE
  FrameSize = 64
  Base = 4
CHECK_DEADLOCK FALSE
INVARIANTS
  ReceiveInOrder
  SendRingHasNoGap
PROPERTIES
  EachFrameOnce
  SendsComplete
  SignalledFramesAreServed
