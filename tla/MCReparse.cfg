CONSTANTS
  Parse <- ParseTokens
  MaxParseDepth = 4
  MaxDiagnostics = 3
  MacroStyle = {"F"}
  Beginnings <- MCBeginnings
  Lines <- MCLines
  Replacements <- MCReplacements
  MaxTyped = 4
  MaxEditedLines = 3
  MaxReplaced = 1
SPECIFICATION Spec
INVARIANT
  ReparsedLikeCleanParse
CHECK_DEADLOCK FALSE
