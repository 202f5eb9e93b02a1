SPECIFICATION FairSpec
CONSTANTS
  Texts <- TransformTexts
  Identifiers <- DefinitionIdentifiers
  IntConsts <- MCIntegers
  StringConsts <- MCStrings
  Literals <- MCLiterals
  Keywords <- DefinitionKeywords
  Reserved <- DefinitionReserved
  Rejected <- MCRejected
  Flawed <- MCFlawed
  Routine <- DefinitionRoutines
PROPERTIES
  ParseReturns
\* Parse returns.
CHECK_DEADLOCK FALSE
