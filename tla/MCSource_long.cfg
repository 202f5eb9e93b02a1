SPECIFICATION FairSpec
CONSTANTS
  Inputs <- LongInputs
  Answers = {"nil", "eof", "fault"}
  MinBuf = 3
  MaxBuf = 4
  MaxEmptyReads = 2
  RewindAtNewline = FALSE
INVARIANTS
  WindowIntact ReadHasRoom
PROPERTIES
  NextchReturns
