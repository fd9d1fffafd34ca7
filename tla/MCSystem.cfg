SPECIFICATION Spec
CONSTANTS
  Units = {u1, u2}
  Files = {1, 2, 3}
  Fifos = {2, 3}
  Sizes = {1, 3}
  Chunk = 2
  MaxFile = 3
  MaxCalls = 1
  Callers = {"c1", "c2"}
  TempNames = {"n1", "n2"}
  Attempts = 3
  PathLetters = {"a", "b"}
  MaxPath = 6
  MaxNames = 6
  Initial = 2
  MaxCap = 5
  NsPerUs = 2
  NsPerMs = 5
  NsPerSec = 15
  MaxInt = 40
  MaxMs = 3
  Frequencies = {1, 4, 30}
  DaysPerYear = 3
  Years = 2
  Offsets = {0, 1, 11, 19, 24, 28, 47}
  Ids = {1, 2, 3, 4, 5}
  NameLengths <- MCNameLengths
  MaxFields = 3
  PrefixLen = 3
\* A call that returned takes no more steps, and paths and
\* declarations end at their bounds.
CHECK_DEADLOCK FALSE
INVARIANTS SuccessIsWhole CallsCleanUp PathsKeepTheirMeaning TimeIsRight
  EnumNamesComeBack
PROPERTIES CallsEnd ClockNeverGoesBack
