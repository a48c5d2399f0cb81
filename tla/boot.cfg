\* Two resets, at any step, from a power-on and from IDF firmware.
SPECIFICATION Spec
CONSTANTS
  NotYet = NotYet
  MaxResets = 2
  LeftBehind <- MCLeftBehind
INVARIANTS
  TypeOK
  EveryAccessLands
  QuietBeforeTheRest
  OtherBitsPreserved
  HandedOver
  RepeatCallSame
PROPERTIES
  RepeatOnlyReasserts
