SPECIFICATION Spec
CONSTANTS
  Texts <- UnwritableTexts
  Identifiers <- MCDeparserNames
  IntConsts <- MCIntegers
  StringConsts <- MCStrings
  Literals <- MCDeparserLiterals
  Keywords <- MCDeparserKeywords
  Reserved <- MCReserved
  Rejected <- MCRejected
  Flawed <- MCFlawed
  Routine <- DefinitionRoutines
  Unquoted <- MCUnquoted
  Reprefixed <- MCReprefixed
INVARIANTS
  RoundTrips
\* Parse returns.
CHECK_DEADLOCK FALSE
