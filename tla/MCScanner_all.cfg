SPECIFICATION FairSpec
CONSTANTS
  Texts <- AllTexts
  Keywords <- MCKeywords
  MaxOpLen = 3
INVARIANTS
  TypeOK TokensAdvance OperatorsAreLongest NumbersAreWhole PendingIsSecondDot BadIffReported QuotedFormsDecode EscapesAreChecked DollarStringsDecode
PROPERTIES
  ReachesEOF
