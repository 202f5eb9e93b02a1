SPECIFICATION FairSpec
CONSTANTS
  Texts <- AllTexts
  Identifiers <- MCIdentifiers
  IntConsts <- MCIntegers
  StringConsts <- MCStrings
  Literals <- MCLiterals
  Keywords <- MCKeywords
  Reserved <- MCReserved
  Rejected <- MCRejected
  Flawed <- MCFlawed
  Routine <- FullRoutines
INVARIANTS
  TypeOK StmtsInOrder TurnsConsume ErrorsAreCounted NothingIsLost SyntaxIsParsed
PROPERTIES
  RefinesStatementList ParseReturns
\* Parse returns.
CHECK_DEADLOCK FALSE
