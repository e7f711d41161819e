SPECIFICATION Spec
CONSTANTS
  h1 = h1  h2 = h2  x = x
  Handles = {h1, h2}
  Char <- MCChar
  Single <- MCSingle
  Formats <- MCFormats
  Space = Space  NewLine = NewLine  Nul = Nul  Junk = Junk
  Closed = Closed  Dangling = Dangling
  BUF_SIZE = 1
  TextBound = 3
  IndentBound = 2
INVARIANTS TypeOK WellFormed
PROPERTY ImplementsText
