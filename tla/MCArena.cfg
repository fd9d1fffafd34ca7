SPECIFICATION Spec
CONSTANTS
  Narenas = 2
  DataSize <- MCDataSize
  Alignment = 2
  Handles = {h1, h2, h3, h4}
  None = None
  Sizes = {1, 3, 6}
  IndexSizes = {2}
  MaxRegions = 3
SYMMETRY HandlesAreAlike
INVARIANTS
  Disjoint
  CountsObjects
  PushAligned
