\* The log of one init on the real FIFO.
SPECIFICATION Spec
CONSTANTS
  NoWord = NoWord
  Letters <- MCLetters
  Lines <- InitLines
  Digits = 8
  Capacity = 128
INVARIANTS
  NeverWaits
CHECK_DEADLOCK FALSE
