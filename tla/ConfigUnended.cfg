SPECIFICATION FileSpec
CONSTANTS
  MaxWord = 1
  MaxTokens = 4
  MaxEscaped = 2
INVARIANTS
  AcceptedIsValid
CHECK_DEADLOCK FALSE
