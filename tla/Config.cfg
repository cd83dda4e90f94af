SPECIFICATION FileSpec
CONSTANTS
  MaxWord = 2
  MaxTokens = 7
  MaxEscaped = 1
INVARIANTS
  TypeOK
  TokenIsItem
  AcceptedAsWritten
  RejectedForCause
  NeverUndefined
  StacksAgree
  AcceptsTheGrammar
  TreeIsTheFile
PROPERTIES
  RejectsWhatIsOutOfPlace
CHECK_DEADLOCK FALSE
