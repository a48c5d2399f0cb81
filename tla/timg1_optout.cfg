\* One hart, as at boot, is enough for the third way to disarm the timer.
SPECIFICATION Spec
CONSTANTS
  h1 = h1
  h2 = h2
  NoHart = NoHart
  Harts <- OneHart
  Timeouts <- MCTimeouts
  Deadline = 2
  MaxCount = 5
  LeftBehind <- MCLeftBehind
PROPERTIES
  NoOtherOptOut
