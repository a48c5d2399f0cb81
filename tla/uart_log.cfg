\* Five calls, three-digit words, a FIFO of three bytes.
SPECIFICATION FairSpec
CONSTANTS
  NoWord = NoWord
  Letters <- MCLetters
  Lines <- MCLines
  Digits = 3
  Capacity = 3
INVARIANTS
  TypeOK
  NothingLost
  LoggedWordsReadBack
PROPERTIES
  LogCompletes
CHECK_DEADLOCK FALSE
