SPECIFICATION Spec
CONSTANTS
  Inputs <- ShortInputs
  Answers = {"nil", "eof", "fault"}
  MinBuf = 3
  MaxBuf = 3
  MaxEmptyReads = 2
  RewindAtNewline = FALSE
INVARIANTS
  TypeOK WindowIntact SentinelInPlace ReadHasRoom PositionIsCounted
PROPERTIES
  RefinesRuneStream
