--------------------------- MODULE EarlyBootProofs ---------------------------
(***************************************************************************)
(* Proofs about ResetCause and EarlyBoot: the two tables agree on every    *)
(* six-bit code, and for any slots, any time-outs and any number of        *)
(* attempts the handoff agrees and a healthy slot is given up only for the *)
(* resets that HealthySlotKept names.                                      *)
(***************************************************************************)
EXTENDS EarlyBoot, TLAPS

\* from_raw yields a variant of the enum for every code the field can hold.
LEMMA DecodesToCause ==
  ASSUME NEW raw \in RawCodes
  PROVE  FromRaw(raw) \in Cause
<1>1. CASE raw \notin DOMAIN Decoded
  BY <1>1 DEF FromRaw, Cause
<1>2. CASE raw \in DOMAIN Decoded
  <2>1. Decoded[raw] \in DOMAIN Codes
    BY <1>2 DEF Decoded, Codes
  <2> QED BY <1>2, <2>1 DEF FromRaw, Cause
<1> QED BY <1>1, <1>2

\* "from_raw(c.raw()) must round-trip every known variant", and the unknown
\* ones: telemetry gets the code the chip latched.
THEOREM RawRoundTrip == \A raw \in RawCodes : Raw(FromRaw(raw)) = raw
<1> SUFFICES ASSUME NEW raw \in RawCodes PROVE Raw(FromRaw(raw)) = raw
  OBVIOUS
<1>1. CASE raw \notin DOMAIN Decoded
  BY <1>1 DEF FromRaw, Unknown, Raw
<1>2. CASE raw \in DOMAIN Decoded
  <2>1. Decoded[raw] # "Unknown" /\ Codes[Decoded[raw]] = raw
    BY <1>2 DEF Decoded, Codes
  <2> QED BY <1>2, <2>1 DEF FromRaw, Raw
<1> QED BY <1>1, <1>2

\* The classifier picks out six codes; none of them is a power-on, a
\* detector's, a host's or an unknown one.
THEOREM WatchdogCodes ==
  \A raw \in RawCodes : IsWatchdog(FromRaw(raw)) <=> raw \in {7, 9, 11, 13, 16, 18}
<1> SUFFICES ASSUME NEW raw \in RawCodes
             PROVE  IsWatchdog(FromRaw(raw)) <=> raw \in {7, 9, 11, 13, 16, 18}
  OBVIOUS
<1>1. CASE raw \notin DOMAIN Decoded
  BY <1>1 DEF FromRaw, Unknown, IsWatchdog, Decoded
<1>2. CASE raw \in DOMAIN Decoded
  <2>1. FromRaw(raw).variant = Decoded[raw]
    BY <1>2 DEF FromRaw
  <2>2. Decoded[raw] \in {"HpWatchdogSystem", "LpWatchdogSystem", "HpWatchdogCore",
                          "LpWatchdogCore", "LpWatchdogChip", "SuperWatchdog"}
          <=> raw \in {7, 9, 11, 13, 16, 18}
    BY <1>2 DEF Decoded
  <2> QED BY <2>1, <2>2 DEF IsWatchdog
<1> QED BY <1>1, <1>2

-----------------------------------------------------------------------------
(* The inductive invariant.                                                *)

\* The ROM's watchdogs and the detectors are a danger until init only.
NoisyFirst == noisy => stage = "init"

HungInApp == hung => slot \in Hangs /\ stage = "app"

\* A healthy application has fed TIMG1 in time.
InTime == mode = "armed" /\ ~hung => age < budget

\* Who has read the cause since the last reset holds what the latch holds.
Agreed == /\ bootCause = IF stage \in {"count", "arm", "app"} THEN FromRaw(latch) ELSE NotRead
          /\ appCause # NotRead => stage = "app" /\ appCause = FromRaw(latch)

\* A failed attempt the mini-bootloader has not counted yet.
Due == stage \in {"init", "read", "count"} /\ IsWatchdog(FromRaw(latch))

\* What the application finds in the latch has been counted.
CountedFirst == stage \in {"arm", "app"} => counted

\* Every attempt held against a healthy slot has been charged to a reset.
Blamed == slot \notin Hangs => attempts + (IF Due THEN 1 ELSE 0) <= charges

IInv == TypeOK /\ NoisyFirst /\ HungInApp /\ InTime /\ Agreed /\ CountedFirst /\ Blamed

\* The inductive invariant holds at first ...
LEMMA InitIInv == Init => IInv
<1> SUFFICES ASSUME Init PROVE IInv
  OBVIOUS
<1> USE DEF Init, Detector!Init, Detector!Idle
<1>1. TypeOK
  <2>1. latch \in RawCodes /\ attempts \in 0 .. MaxAttempts - 1
    BY AttemptAssumption DEF RawCodes
  <2>2. others \in 0 .. MaxOther /\ early \in 0 .. MaxEarly
    BY AttemptAssumption
  <2>3. mode \in {"off", "armed", "foreign"} /\ age \in Nat /\ budget \in Nat
    OBVIOUS
  <2>4. noisy \in BOOLEAN /\ hung \in BOOLEAN /\ counted \in BOOLEAN
    OBVIOUS
  <2>5. charges \in 0 .. MaxAttempts
    BY AttemptAssumption
  <2> QED BY <2>1, <2>2, <2>3, <2>4, <2>5 DEF TypeOK
<1>2. NoisyFirst /\ HungInApp /\ InTime /\ Agreed /\ CountedFirst
  BY DEF NoisyFirst, HungInApp, InTime, Agreed, CountedFirst
<1>3. Blamed
  <2>1. ~IsWatchdog(FromRaw(1))
    BY WatchdogCodes DEF RawCodes
  <2> QED BY <2>1 DEF Blamed, Due
<1> QED BY <1>1, <1>2, <1>3 DEF IInv

\* A charge stays within MaxAttempts, which is all a slot can be held to.
LEMMA Charged ==
  ASSUME charges \in 0 .. MaxAttempts, NEW held \in BOOLEAN, Charge(held)
  PROVE  /\ charges' \in 0 .. MaxAttempts
         /\ charges' >= charges
         /\ held => charges' = charges + 1 \/ charges' = MaxAttempts
<1> QED BY AttemptAssumption DEF Charge

\* A restart keeps the invariant, if a watchdog's cause in the latch is pending
\* already, or charged, or of a slot that hangs.
LEMMA RestartIInv ==
  ASSUME IInv, NEW raw \in RawCodes,
         NEW reason \in {"power_on", "hang", "rom_watchdog", "detector", "other"},
         Restart(reason), Detector!Stop("off") \/ Detector!Stop("foreign"),
         others' \in 0 .. MaxOther, early' \in 0 .. MaxEarly,
         latch' = raw, counted' \in BOOLEAN,
         charges' \in 0 .. MaxAttempts, charges' >= charges,
         IsWatchdog(FromRaw(raw)) =>
           slot \in Hangs \/ Due \/ charges' = charges + 1 \/ charges' = MaxAttempts
  PROVE  IInv'
<1> USE AttemptAssumption DEF IInv, Restart, otadata, Detector!Stop
<1>1. TypeOK'
  <2>1. noisy' \in BOOLEAN /\ hung' \in BOOLEAN
    OBVIOUS
  <2>2. mode' \in {"off", "armed", "foreign"} /\ age' \in Nat /\ budget' \in Nat
    OBVIOUS
  <2> QED BY <2>1, <2>2 DEF TypeOK
<1>2. (NoisyFirst /\ HungInApp /\ InTime /\ Agreed /\ CountedFirst)'
  BY DEF NoisyFirst, HungInApp, InTime, Agreed, CountedFirst
<1>3. Blamed'
  BY DEF TypeOK, Blamed, Due
<1> QED BY <1>1, <1>2, <1>3

\* ... and every step keeps it, one case per action.
LEMMA StepIInv == IInv /\ [Next]_vars => IInv'
<1> SUFFICES ASSUME IInv, [Next]_vars PROVE IInv'
  OBVIOUS
<1> USE DEF IInv
<1>1. CASE BootInit
  <2> USE <1>1 DEF BootInit, DisableAll, Goto, Detector!Disarm, Detector!Stop
  <2>1. TypeOK'
    BY DEF TypeOK
  <2>2. (NoisyFirst /\ HungInApp /\ InTime /\ CountedFirst)'
    BY DEF TypeOK, NoisyFirst, HungInApp, InTime, CountedFirst
  <2>3. Agreed'
    BY DEF TypeOK, Agreed
  <2>4. Blamed'
    BY DEF TypeOK, Agreed, Blamed, Due
  <2> QED BY <2>1, <2>2, <2>3, <2>4
<1>2. CASE BootRead
  <2> USE <1>2 DEF BootRead, ReadHpcore0, Goto
  <2>1. TypeOK'
    BY DecodesToCause DEF TypeOK
  <2>2. (NoisyFirst /\ HungInApp /\ InTime /\ CountedFirst)'
    BY DEF TypeOK, NoisyFirst, HungInApp, InTime, CountedFirst
  <2>3. Agreed'
    BY DEF TypeOK, Agreed
  <2>4. Blamed'
    BY DEF TypeOK, Agreed, Blamed, Due
  <2> QED BY <2>1, <2>2, <2>3, <2>4
<1>3. CASE Count
  <2> USE <1>3, AttemptAssumption, SlotAssumption DEF Count, Goto, otadata
  <2>1. TypeOK'
    BY DEF TypeOK
  <2>2. (NoisyFirst /\ HungInApp /\ InTime /\ CountedFirst)'
    BY DEF TypeOK, NoisyFirst, HungInApp, InTime, CountedFirst
  <2>3. Agreed'
    BY DEF TypeOK, Agreed
  <2>4. Blamed'
    BY DEF TypeOK, Agreed, Blamed, Due
  <2> QED BY <2>1, <2>2, <2>3, <2>4
<1>4. CASE ArmAndJump
  <2> USE <1>4 DEF ArmAndJump, Goto, Detector!Arm
  <2>1. TypeOK'
    BY TimeoutAssumption DEF TypeOK
  <2>2. (NoisyFirst /\ HungInApp /\ InTime /\ CountedFirst)'
    BY TimeoutAssumption DEF TypeOK, NoisyFirst, HungInApp, InTime, CountedFirst
  <2>3. Agreed'
    BY DEF TypeOK, Agreed
  <2>4. Blamed'
    BY DEF TypeOK, Agreed, Blamed, Due
  <2> QED BY <2>1, <2>2, <2>3, <2>4
<1>5. CASE Feed
  <2> USE <1>5 DEF Feed, App, Goto, Detector!Feed
  <2>1. TypeOK'
    BY DEF TypeOK
  <2>2. (NoisyFirst /\ HungInApp /\ InTime /\ CountedFirst)'
    BY DEF TypeOK, NoisyFirst, HungInApp, InTime, CountedFirst
  <2>3. Agreed'
    BY DEF TypeOK, Agreed
  <2>4. Blamed'
    BY DEF TypeOK, Agreed, Blamed, Due
  <2> QED BY <2>1, <2>2, <2>3, <2>4
<1>6. CASE Succeed
  <2> USE <1>6 DEF Succeed, App, Goto, Detector!Disarm, Detector!Stop
  <2>1. TypeOK'
    BY AttemptAssumption DEF TypeOK
  <2>2. (NoisyFirst /\ HungInApp /\ InTime /\ CountedFirst)'
    BY DEF TypeOK, NoisyFirst, HungInApp, InTime, CountedFirst
  <2>3. Agreed'
    BY DEF TypeOK, Agreed
  <2>4. Blamed'
    BY DEF TypeOK, Agreed, Blamed, Due
  <2> QED BY <2>1, <2>2, <2>3, <2>4
<1>7. CASE AppInit
  <2> USE <1>7 DEF AppInit, App, Goto, Detector!Disarm, Detector!Stop
  <2>1. TypeOK'
    BY DEF TypeOK
  <2>2. (NoisyFirst /\ HungInApp /\ InTime /\ CountedFirst)'
    BY DEF TypeOK, NoisyFirst, HungInApp, InTime, CountedFirst
  <2>3. Agreed'
    BY DEF TypeOK, Agreed
  <2>4. Blamed'
    BY DEF TypeOK, Agreed, Blamed, Due
  <2> QED BY <2>1, <2>2, <2>3, <2>4
<1>8. CASE AppRead
  <2> USE <1>8 DEF AppRead, ReadHpcore0, App, Goto
  <2>1. TypeOK'
    BY DecodesToCause DEF TypeOK
  <2>2. (NoisyFirst /\ HungInApp /\ InTime /\ CountedFirst)'
    BY DEF TypeOK, NoisyFirst, HungInApp, InTime, CountedFirst
  <2>3. Agreed'
    BY DEF TypeOK, Agreed
  <2>4. Blamed'
    BY DEF TypeOK, Agreed, Blamed, Due
  <2> QED BY <2>1, <2>2, <2>3, <2>4
<1>9. CASE Hang
  <2> USE <1>9 DEF Hang, App, Goto
  <2>1. TypeOK'
    BY DEF TypeOK
  <2>2. (NoisyFirst /\ HungInApp /\ InTime /\ CountedFirst)'
    BY DEF TypeOK, NoisyFirst, HungInApp, InTime, CountedFirst
  <2>3. Agreed'
    BY DEF TypeOK, Agreed
  <2>4. Blamed'
    BY DEF TypeOK, Agreed, Blamed, Due
  <2> QED BY <2>1, <2>2, <2>3, <2>4
<1>10. CASE Tick
  <2> USE <1>10 DEF Tick, Detector!Tick
  <2>1. TypeOK'
    BY DEF TypeOK
  <2>2. (NoisyFirst /\ HungInApp /\ InTime /\ CountedFirst)'
    BY DEF TypeOK, NoisyFirst, HungInApp, InTime, CountedFirst
  <2>3. Agreed'
    BY DEF TypeOK, Agreed
  <2>4. Blamed'
    BY DEF TypeOK, Agreed, Blamed, Due
  <2> QED BY <2>1, <2>2, <2>3, <2>4
<1>11. CASE Timg1Fires
  <2>1. slot \in Hangs
    BY <1>11 DEF Timg1Fires, Detector!Reset, InTime, HungInApp, TypeOK
  <2>2. /\ Restart("hang") /\ latch' = 7 /\ counted' = FALSE
        /\ Detector!Stop("off") \/ Detector!Stop("foreign")
        /\ UNCHANGED <<others, early, charges>>
    BY <1>11 DEF Timg1Fires, Reset, Detector!Reset
  <2>3. 7 \in RawCodes
    BY DEF RawCodes
  <2>4. charges' >= charges
    BY <2>2 DEF TypeOK
  <2> QED BY <2>1, <2>2, <2>3, <2>4, RestartIInv DEF TypeOK
<1>12. CASE RomWatchdogFires
  <2>1. /\ Detector!Stop("off") /\ UNCHANGED others
        /\ early < MaxEarly /\ early' = early + 1
        /\ Charge(TRUE)
    BY <1>12 DEF RomWatchdogFires, NoisyFirst, Detector!Disarm
  <2>2. PICK raw \in {7, 9, 16, 18} :
          Restart("rom_watchdog") /\ latch' = raw /\ counted' = FALSE
    BY <1>12 DEF RomWatchdogFires, Reset
  <2>3. raw \in RawCodes
    BY DEF RawCodes
  <2>4. early' \in 0 .. MaxEarly
    BY <2>1, AttemptAssumption DEF TypeOK
  <2>5. /\ charges' \in 0 .. MaxAttempts /\ charges' >= charges
        /\ charges' = charges + 1 \/ charges' = MaxAttempts
    BY <2>1, Charged DEF TypeOK
  <2> QED BY <2>1, <2>2, <2>3, <2>4, <2>5, RestartIInv DEF TypeOK
<1>13. CASE DetectorFires
  <2>1. /\ Restart("detector") /\ latch' = 1 /\ counted' = FALSE
        /\ Detector!Stop("off") /\ UNCHANGED <<early, charges>>
        /\ others' \in 0 .. MaxOther
    BY <1>13, AttemptAssumption DEF DetectorFires, Reset, Detector!Disarm, TypeOK
  <2>2. 1 \in RawCodes
    BY DEF RawCodes
  <2>3. ~IsWatchdog(FromRaw(1)) /\ charges' >= charges
    BY <2>1, <2>2, WatchdogCodes DEF TypeOK
  <2> QED BY <2>1, <2>2, <2>3, RestartIInv DEF TypeOK
<1>14. CASE OtherReset
  <2>1. PICK raw \in OtherCodes : Reset(raw, IF raw = 1 THEN "power_on" ELSE "other")
    BY <1>14 DEF OtherReset
  <2>2. raw \in RawCodes /\ ~IsWatchdog(FromRaw(raw))
    BY CodeAssumption
  <2>3. /\ Detector!Stop("off") /\ UNCHANGED <<early, charges>>
        /\ others' \in 0 .. MaxOther
    BY <1>14, AttemptAssumption DEF OtherReset, Outside, Detector!Disarm, TypeOK
  <2> DEFINE reason == IF raw = 1 THEN "power_on" ELSE "other"
  <2>4. reason \in {"power_on", "hang", "rom_watchdog", "detector", "other"}
    OBVIOUS
  <2>5. Restart(reason) /\ latch' = raw /\ counted' = FALSE
    BY <2>1 DEF Reset
  <2>6. charges' >= charges
    BY <2>3 DEF TypeOK
  <2>7. counted' \in BOOLEAN
    BY <2>5
  <2> HIDE DEF reason
  <2> QED BY <2>2, <2>3, <2>4, <2>5, <2>6, <2>7, RestartIInv DEF TypeOK
<1>15. CASE SoftReset
  <2> DEFINE stale == counted /\ IsWatchdog(FromRaw(latch))
  <2>1. /\ Restart("other") /\ UNCHANGED <<latch, counted>>
        /\ Charge(stale)
        /\ Detector!Stop("off") /\ UNCHANGED early
        /\ others' \in 0 .. MaxOther
    BY <1>15, AttemptAssumption DEF SoftReset, Outside, Detector!Disarm, TypeOK
  <2>2. stale \in BOOLEAN
    BY DEF TypeOK, IsWatchdog
  <2>3. IsWatchdog(FromRaw(latch)) => stale \/ Due
    BY DEF TypeOK, CountedFirst, Due
  <2> HIDE DEF stale
  <2>4. /\ charges' \in 0 .. MaxAttempts /\ charges' >= charges
        /\ stale => charges' = charges + 1 \/ charges' = MaxAttempts
    BY <2>1, <2>2, Charged DEF TypeOK
  <2>5. IsWatchdog(FromRaw(latch)) => Due \/ charges' = charges + 1 \/ charges' = MaxAttempts
    BY <2>3, <2>4
  <2> QED BY <2>1, <2>4, <2>5, RestartIInv DEF TypeOK
<1>16. CASE UNCHANGED vars
  BY <1>16 DEF vars, TypeOK, NoisyFirst, HungInApp, InTime, Agreed, CountedFirst, Blamed, Due
<1> QED
  BY <1>1, <1>2, <1>3, <1>4, <1>5, <1>6, <1>7, <1>8, <1>9, <1>10, <1>11, <1>12,
     <1>13, <1>14, <1>15, <1>16 DEF Next, Bootloader

\* The inductive invariant holds throughout; the theorems after it follow.
THEOREM Invariance == Spec => []IInv
<1> QED BY InitIInv, StepIInv, PTL DEF Spec

-----------------------------------------------------------------------------
(* The properties of the early_boot run, for every value of the constants. *)

\* Every decoded cause is a variant of the enum, and no slot stays selected
\* with MaxAttempts failed attempts.
THEOREM TypeCorrect == Spec => []TypeOK
<1>1. IInv => TypeOK
  BY DEF IInv
<1> QED BY <1>1, Invariance, PTL

\* Bootloader and application decode the same cause, whose raw code is the
\* one the chip latched, for every code a reset may leave.
THEOREM TheLatchIsShared == Spec => []HandoffAgrees
<1>1. IInv => HandoffAgrees
  <2> SUFFICES ASSUME IInv, appCause # NotRead
               PROVE  appCause = bootCause /\ Raw(appCause) = latch
    BY DEF HandoffAgrees
  <2>1. appCause = FromRaw(latch) /\ bootCause = FromRaw(latch)
    BY DEF IInv, Agreed
  <2>2. Raw(FromRaw(latch)) = latch
    BY RawRoundTrip DEF IInv, TypeOK
  <2> QED BY <2>1, <2>2
<1> QED BY <1>1, Invariance, PTL

\* Whatever resets hit it and whatever a soft reset leaves in the latch, a
\* healthy slot is given up only after MaxAttempts resets, since it was selected
\* or last marked good, that came from the ROM's watchdogs before init or left a
\* watchdog's cause that had been counted, for bounds on them of any size.
THEOREM HealthySlotStays == Spec => HealthySlotKept
<1>1. ASSUME IInv, [Next]_vars, slot \notin Hangs, slot' # slot
      PROVE  charges = MaxAttempts
  <2>1. Count
    BY <1>1 DEF Next, vars, Bootloader, BootInit, BootRead, ArmAndJump, Feed, Succeed,
       AppInit, AppRead, Hang, App, Tick, Timg1Fires, RomWatchdogFires, DetectorFires,
       OtherReset, SoftReset, Reset, Restart, otadata
  <2>2. IsWatchdog(bootCause) /\ ~(attempts + 1 < MaxAttempts)
    BY <1>1, <2>1 DEF Count
  <2>3. attempts + 1 <= charges
    BY <1>1, <2>1, <2>2 DEF Count, Goto, IInv, Agreed, Blamed, Due
  <2> QED BY <1>1, <2>2, <2>3, AttemptAssumption DEF IInv, TypeOK
<1>2. IInv /\ [Next]_vars => [slot \notin Hangs /\ slot' # slot => charges = MaxAttempts]_vars
  BY <1>1
<1> QED BY <1>2, Invariance, PTL DEF Spec, HealthySlotKept
=============================================================================
