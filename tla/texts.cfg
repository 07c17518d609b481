SPECIFICATION TextsSpec
CONSTANTS
  Chars <- MCChars
  Texts <- MCTexts
  Olds <- MCOlds
  News <- MCNews
  Objects <- MCObjects
  OtherValues <- MCOtherValues
  Befores <- MCBefores
  Afters <- MCAfters
  MaxItems = 5
  MaxResults = 3
  DefaultLimit = 2
INVARIANTS EditIsExact ObjectIsFound PagesCover
CHECK_DEADLOCK FALSE
