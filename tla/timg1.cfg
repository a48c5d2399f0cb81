\* Two harts, calls at most two ticks apart, time-outs on both sides of the
\* feed rule.
SPECIFICATION FairSpec
CONSTANTS
  h1 = h1
  h2 = h2
  NoHart = NoHart
  Harts <- MCHarts
  Timeouts <- MCTimeouts
  Deadline = 2
  MaxCount = 5
  LeftBehind <- MCLeftBehind
INVARIANTS
  TypeOK
  NoDroppedWrite
  HealthyAppIsNeverReset
  ArmedAsAsked
PROPERTIES
  ImplementsHangDetector
  HangIsCaught
