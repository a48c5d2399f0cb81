----------------------------- MODULE ResetCause -----------------------------
(***************************************************************************)
(* The decoding of the hpcore0 reset cause (src/src/reset_cause.rs): the   *)
(* two tables, which are written separately and must agree, and the        *)
(* classifier the early-boot path decides with.  A cause is the variant of *)
(* the enum and, for Unknown, the raw value it carries.                    *)
(***************************************************************************)
EXTENDS Naturals

RawCodes == 0 .. 63      \* a six-bit field

\* The arms of from_raw but the last.
Decoded ==
  [raw \in {1, 3, 5, 7, 9, 11, 12, 13, 15, 16, 18, 19, 20, 22, 23, 24, 26} |->
     CASE raw = 1  -> "PowerOn"
       [] raw = 3  -> "DigitalSystemSoftware"
       [] raw = 5  -> "PmuHpSystemPowerDown"
       [] raw = 7  -> "HpWatchdogSystem"
       [] raw = 9  -> "LpWatchdogSystem"
       [] raw = 11 -> "HpWatchdogCore"
       [] raw = 12 -> "HpCoreSoftware"
       [] raw = 13 -> "LpWatchdogCore"
       [] raw = 15 -> "BrownOut"
       [] raw = 16 -> "LpWatchdogChip"
       [] raw = 18 -> "SuperWatchdog"
       [] raw = 19 -> "Glitch"
       [] raw = 20 -> "EfuseCrc"
       [] raw = 22 -> "UsbJtagChip"
       [] raw = 23 -> "UsbUartChip"
       [] raw = 24 -> "HpJtag"
       [] raw = 26 -> "HpCoreLockup"]

\* The arms of raw but the last.
Codes == [PowerOn |-> 1, DigitalSystemSoftware |-> 3, PmuHpSystemPowerDown |-> 5,
          HpWatchdogSystem |-> 7, LpWatchdogSystem |-> 9, HpWatchdogCore |-> 11,
          HpCoreSoftware |-> 12, LpWatchdogCore |-> 13, BrownOut |-> 15,
          LpWatchdogChip |-> 16, SuperWatchdog |-> 18, Glitch |-> 19,
          EfuseCrc |-> 20, UsbJtagChip |-> 22, UsbUartChip |-> 23,
          HpJtag |-> 24, HpCoreLockup |-> 26]

Unknown(raw) == [variant |-> "Unknown", value |-> raw]
Cause == [variant : DOMAIN Codes, value : {0}]
         \cup {Unknown(raw) : raw \in RawCodes \ DOMAIN Decoded}

\* An operator named for a slip is used nowhere: it is the next definition
\* with a plausible bug, and shows that a property would notice.
FromRawForgettingOne(raw) ==
  IF raw \in DOMAIN Decoded \ {26} THEN [variant |-> Decoded[raw], value |-> 0]
  ELSE Unknown(raw)

FromRaw(raw) ==
  IF raw \in DOMAIN Decoded THEN [variant |-> Decoded[raw], value |-> 0]
  ELSE Unknown(raw)

Raw(cause) ==
  IF cause.variant = "Unknown" THEN cause.value ELSE Codes[cause.variant]

IsWatchdogWithoutHpSystem(cause) ==
  cause.variant \in {"LpWatchdogSystem", "HpWatchdogCore", "LpWatchdogCore",
                     "LpWatchdogChip", "SuperWatchdog"}

IsWatchdog(cause) ==
  cause.variant \in {"HpWatchdogSystem", "LpWatchdogSystem", "HpWatchdogCore",
                     "LpWatchdogCore", "LpWatchdogChip", "SuperWatchdog"}
=============================================================================
