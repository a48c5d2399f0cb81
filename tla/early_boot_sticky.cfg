\* The same slots; a soft reset may leave the cause of the reset before it.
SPECIFICATION Spec
CONSTANTS
  healthy = healthy
  hanging = hanging
  unguarded = unguarded
  NotRead = NotRead
  Slots <- MCSlots
  Hangs <- MCHangs
  CallsInit <- MCCallsInit
  Timeouts <- MCTimeouts
  MaxAttempts = 2
  OtherCodes <- MCOtherCodes
  MaxOther = 3
  MaxEarly = 2
  Persists = TRUE
PROPERTIES
  OneAttemptPerReset
