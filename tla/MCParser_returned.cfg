SPECIFICATION Spec
CONSTANTS
  Texts <- FlawedTexts
  Identifiers <- MCIdentifiers
  IntConsts <- MCIntegers
  StringConsts <- MCStrings
  Literals <- MCLiterals
  Keywords <- MCKeywords
  Reserved <- MCReserved
  Rejected <- MCRejected
  Flawed <- MCFlawed
  Routine <- FullRoutines
INVARIANTS
  ErrorIsReturned
\* Parse returns.
CHECK_DEADLOCK FALSE
