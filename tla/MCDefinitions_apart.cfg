SPECIFICATION Spec
CONSTANTS
  Texts <- ApartTexts
  Identifiers <- DefinitionIdentifiers
  IntConsts <- MCIntegers
  StringConsts <- MCStrings
  Literals <- MCLiterals
  Keywords <- DefinitionKeywords
  Reserved <- DefinitionReserved
  Rejected <- MCRejected
  Flawed <- MCFlawed
  Routine <- DefinitionRoutines
INVARIANTS
  TreesTellApart
\* Parse returns.
CHECK_DEADLOCK FALSE
