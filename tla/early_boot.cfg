\* Three slots, two attempts each, every non-watchdog reset code.
SPECIFICATION FairSpec
CONSTANTS
  healthy = healthy
  hanging = hanging
  unguarded = unguarded
  NotRead = NotRead
  Slots <- MCSlots
  Hangs <- MCHangs
  CallsInit <- MCCallsInit
  Timeouts <- MCTimeouts
  MaxAttempts = 2
  OtherCodes <- MCOtherCodes
  MaxOther = 3
  MaxEarly = 2
  Persists = TRUE
INVARIANTS
  TypeOK
  HandoffAgrees
PROPERTIES
  HealthySlotKept
  HungSlotIsLeft
