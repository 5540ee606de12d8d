CONSTANTS
  Names <- MCNames
  PackedStrings = FALSE
  CellBits = 4
  Macros <- MCMacros
  Symbols <- MCSymbols
  Resolved <- MCResolved
  Statements <- MCStatements
  Questions <- MCQuestions
  MaxLines = 4
  Given <- MCGiven
  Probes <- MCProbes
  Expressions <- MCExpressions
SPECIFICATION Spec
INVARIANTS
  TypeOK
  VisibleNames
  ConditionsTellTheTruth
  SeedsExplainFlips
CHECK_DEADLOCK FALSE
