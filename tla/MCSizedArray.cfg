CONSTANTS
  Names <- MCNames
  PackedStrings = FALSE
  CellBits = 4
  Macros <- MCMacros
  Symbols <- MCSymbols
  Resolved <- MCResolved
  Statements <- SizedStatements
  Questions <- MCQuestions
  MaxLines = 1
  Given <- MCGiven
  Probes <- MCProbes
  Expressions <- MCExpressions
SPECIFICATION Spec
INVARIANT
  DeclarationsAreVisible
CHECK_DEADLOCK FALSE
