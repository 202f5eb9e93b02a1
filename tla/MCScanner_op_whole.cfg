SPECIFICATION Spec
CONSTANTS
  Texts <- OperatorTexts
  Keywords <- MCKeywords
  MaxOpLen = 3
INVARIANTS
  OperatorIsWhole
