SPECIFICATION Spec
CONSTANTS
  FramePages <- MCFramePages
  FifoFrames <- MCFifoFrames
  MaxOverflows <- MCMaxOverflows
INVARIANTS
  FullFrames
  OverflowAccounting
  CallbackHasFifo
PROPERTY NobodyWaitsForEver
