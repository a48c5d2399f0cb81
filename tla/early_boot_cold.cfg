\* The same chip; a brown-out pulses the power-on line, and every reset latches
\* a cause of its own.
SPECIFICATION Spec
CONSTANTS
  healthy = healthy
  hanging = hanging
  unguarded = unguarded
  NotRead = NotRead
  Slots <- MCSlots
  Hangs <- MCHangs
  CallsInit <- MCCallsInit
  Timeouts <- MCTimeouts
  MaxAttempts = 2
  OtherCodes <- MCOtherCodes
  MaxOther = 3
  MaxEarly = 2
  Persists = FALSE
INVARIANTS
  PowerOnMeansCold
