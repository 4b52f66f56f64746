SPECIFICATION Spec
CONSTANTS
  N = 3
  Widths = {2000, 1280, 1000, 333, 3}
  Heights = {1090, 720, 470, 1}
  Scales = {1, 2, 4}
  Rates = {500000, 2999999}
  MaxText = 3
  Chars = {"a", "b"}
  MaxLen = 5
  Tokens <- SomeTokens
  Needs = {0, 1, 16384, 16385, 32768, 32769, 100000}
CHECK_DEADLOCK FALSE
INVARIANTS
  DivisionIsFair
  ResultsAreUsable
PROPERTIES
  ReportedSizeSuffices
  LoopsEnd
