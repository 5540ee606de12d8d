CONSTANTS
  Parse <- ParseTokens
  MaxParseDepth = 4
  MaxDiagnostics = 3
  MacroStyle = {"F"}
  Beginnings <- MCBeginnings
  Lines <- MCLines
  Replacements <- MCReplacements
  MaxTyped = 4
  MaxEditedLines = 3
  MaxReplaced = 1
SPECIFICATION Spec
INVARIANTS
  CleanTreesNest
  WholeTextIsCovered
  NoStaleDiagnostics
  ReparsedDeclarations
  RebasedLikeCleanParse
  RebasedIndexIsFresh
PROPERTY
  TypingKeepsItems
CHECK_DEADLOCK FALSE
