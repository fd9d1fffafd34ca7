SPECIFICATION Spec
CONSTANTS
  RawBytes = {65, 128, 143, 144, 159, 160, 191, 193, 194, 224, 237, 240, 244, 248}
  MaxRaw = 4
  WideBytes = {0, 39, 97, 128, 159, 160, 164, 189, 191, 195, 204, 239, 240}
  MaxAny = 3
  MaxWide = 5
  Drawn = {32, 126, 160, 2047, 2048, 55296, 65533, 65536, 1114111}
  MaxRandom = 6
  CodeChars = {"a", "/", "*", "'", "BS", "LF", "#"}
  SymbolChars = {"u", "8", "e", "DQ", "+", ".", "<", "=", "%", ":"}
  LineChars = {"D", "#", "(", ")", "BS", "LF", "CR"}
  MaxCode = 5
  MaxOperators = 4
  ValueChars = {"a", "0", "_", "BS", "DQ", "LF", "CTL"}
  CallChars = {"a", "(", ")", ",", "DQ", "+", "="}
  MaxValue = 4
  Initial = 2
\* Inputs end at their bounds, and a call that returned takes no more steps.
CHECK_DEADLOCK FALSE
INVARIANTS  GeneratedCodeReadsBack
PROPERTY Utf8StaysWhole
