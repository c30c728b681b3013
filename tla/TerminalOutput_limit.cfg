SPECIFICATION Spec
CONSTANTS
  Symbols <- MCSymbols
  Frames <- LongFrames
  RawFrames <- LongFrames
  MaxBytes = 5
  LineLimit = 3
  HistoryLimit = 6
  TailLength = 2
  MaxChunk = 2
  None = None
INVARIANTS LimitIsReported
CHECK_DEADLOCK FALSE
