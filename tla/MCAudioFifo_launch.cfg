SPECIFICATION Spec
CONSTANTS
  FramePages <- MCFramePages
  FifoFrames <- MCFifoFrames
  MaxOverflows = 0
INVARIANT BuildThenLaunch
