SPECIFICATION Spec
CONSTANTS
  Numbers <- NumberTexts
  IntMax = 5
  Starts <- AllStarts
  Files <- SomeFiles
  MaxChanges = 1
INVARIANTS
  BufferSuffices
  ParsedAsWritten
  ListsThreadBuffer
  PreferencesAsGiven
PROPERTY StartEnds
CHECK_DEADLOCK FALSE
