SPECIFICATION Spec
CONSTANTS
  Texts <- QueryTexts
  Identifiers <- MCIdentifiers
  IntConsts <- MCIntegers
  StringConsts <- MCStrings
  Literals <- MCLiterals
  Keywords <- MCKeywords
  Reserved <- MCReserved
  Rejected <- MCRejected
  Flawed <- MCFlawed
  Routine <- FullRoutines
INVARIANTS
  ExpressionsAreGrouped QueriesAreParsed JsonXmlIsParsed
\* Parse returns.
CHECK_DEADLOCK FALSE
