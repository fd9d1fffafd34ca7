SPECIFICATION Spec
CONSTANTS
  Narenas = 2
  DataSize <- MCDataSize
  Alignment = 2
  Handles = {h1, h2}
  None = None
  Sizes = {1, 3}
  IndexSizes = {1, 2}
  MaxRegions = 3
INVARIANT PushAligned
