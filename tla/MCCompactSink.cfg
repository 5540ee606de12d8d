SPECIFICATION Spec
CONSTANTS
  Inline = 1
  SpillSize = 2
  FirstBlock = 3
  LastBlock = 4
  MaxNodes = 2
  MaxItems = 3
  MaxLists = 1
  MaxMarks = 2
  MaxBlocks = 2
INVARIANT TreeIsForest
PROPERTY StoreSpec
