CONSTANTS
  Names <- MCNames
  PackedStrings = FALSE
  CellBits = 4
  Macros <- MCMacros
  Symbols <- MCSymbols
  Resolved <- MCResolved
  Statements <- CycleStatements
  Questions <- MCQuestions
  MaxLines = 4
  Given <- MCGiven
  Probes <- MCProbes
  Expressions <- MCExpressions
SPECIFICATION Spec
INVARIANT
  NeverOverflows
CHECK_DEADLOCK FALSE
