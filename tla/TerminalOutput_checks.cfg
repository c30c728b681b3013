SPECIFICATION Spec
CONSTANTS
  Symbols <- MCSymbols
  Frames <- MCFrames
  RawFrames <- MCRawFrames
  MaxBytes = 5
  LineLimit = 3
  HistoryLimit = 6
  TailLength = 2
  MaxChunk = 2
  None = None
INVARIANTS TypeOK RawReadsAreExact 
PROPERTIES OutputIsWhole
CHECK_DEADLOCK FALSE
