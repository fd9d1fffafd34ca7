SPECIFICATION Spec
CONSTANTS
  MaxInput = 3
  PipeSize = 2
  ReadSize = 1
  MaxRuns = 2
  MaxOutput = 3
  Grow = 2
  MaxLen = 2
  MaxItems = 3
  MaxText = 3
INVARIANTS StreamsArriveWhole NothingIsLeft ArgumentsAreExact
PROPERTY RunsEndCleanly
