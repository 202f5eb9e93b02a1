SPECIFICATION FairSpec
CONSTANTS
  Texts <- AllDefinitionTexts
  Identifiers <- DefinitionIdentifiers
  IntConsts <- MCIntegers
  StringConsts <- MCStrings
  Literals <- MCLiterals
  Keywords <- DefinitionKeywords
  Reserved <- DefinitionReserved
  Rejected <- MCRejected
  Flawed <- MCFlawed
  Routine <- DefinitionRoutines
INVARIANTS
  NothingIsLost FlagIsCleared DefinitionsAreParsed NothingIsCarriedOver
PROPERTIES
  ParseReturns
\* Parse returns.
CHECK_DEADLOCK FALSE
