------------------------------ MODULE EarlyBoot ------------------------------
(***************************************************************************)
(* The life of an OTA slot under the early watchdog: what wdt.rs promises  *)
(* above enable_timg1_reset and reset_cause.rs around read_hpcore0.  The   *)
(* mini-bootloader, another repository, calls this crate's init, decodes   *)
(* the sticky reset cause, counts a failed attempt if it was a watchdog,   *)
(* picks another slot after MaxAttempts of them, arms TIMG1 and jumps.     *)
(* The application feeds or disables TIMG1, hangs, or reads the cause      *)
(* again.  TIMG1 is the HangDetector that Timg1 implements.                *)
(*                                                                         *)
(* Time-outs are in deadlines of a healthy application, which feeds before *)
(* they expire (Timg1's feed rule).                                        *)
(***************************************************************************)
EXTENDS Naturals, ResetCause

CONSTANTS
  Slots,        \* the OTA slots
  Hangs,        \* slots whose application hangs before it calls disable_timg1
  CallsInit,    \* slots whose application may call init or init_phase2_full
  Timeouts,     \* the time-outs the mini-bootloader may arm TIMG1 with
  MaxAttempts,  \* failed attempts after which another slot is tried
  OtherCodes,   \* raw causes of the resets no watchdog and no detector makes
  MaxOther,     \* bound on the resets that hit a chip that is not stuck
  MaxEarly,     \* bound on the boots that are slower than the ROM's watchdogs
  Persists,     \* a soft reset may leave the cause of an earlier reset latched
  NotRead       \* the cause has not been read since the last reset

ASSUME SlotAssumption == Hangs \cup CallsInit \subseteq Slots
ASSUME AttemptAssumption == /\ MaxAttempts \in Nat \ {0}
                            /\ MaxOther \in Nat /\ MaxEarly \in Nat
ASSUME TimeoutAssumption == Timeouts \subseteq Nat \ {0}
ASSUME CodeAssumption ==
  OtherCodes \subseteq {raw \in RawCodes : ~IsWatchdog(FromRaw(raw))}
ASSUME PersistsAssumption == Persists \in BOOLEAN
ASSUME NotReadAssumption == NotRead \notin Cause

VARIABLES
  stage,        \* "init", "read", "count" or "arm" in the mini-bootloader; "app"
  slot,         \* the slot that otadata selects ...
  attempts,     \* ... and its boot_attempts
  latch,        \* LP_AONCLKRST_RESET_CAUSE, hpcore0's field
  bootCause,    \* what the mini-bootloader decoded since the last reset
  appCause,     \* what the application decoded since the last reset
  noisy,        \* detectors and flashboot watchdogs are as the ROM left them
  hung,         \* the application has stopped making progress
  mode, age, budget,     \* HangDetector's
  others, early,         \* resets so far that the bounds are about
  why,          \* history: what the last reset was
  counted,      \* history: the reset that set the latch has been through Count
  charges       \* history: resets a healthy slot may be blamed for, since it was
                \* selected or last marked good, up to MaxAttempts

otadata == <<slot, attempts>>
vars == <<stage, slot, attempts, latch, bootCause, appCause, noisy, hung,
          mode, age, budget, others, early, why, counted, charges>>

Detector == INSTANCE HangDetector

-----------------------------------------------------------------------------
(* The mini-bootloader.                                                    *)

Goto(from, to) == stage = from /\ stage' = to /\ UNCHANGED <<others, early, why>>

\* init ends in disable_all, which stops TIMG1 by whichever path it runs.
DisableAllButFlashboot == Goto("init", "read") /\ Detector!Disarm /\ UNCHANGED noisy
DisableAll == Goto("init", "read") /\ Detector!Disarm /\ noisy' = FALSE

BootInit == DisableAll /\ UNCHANGED <<slot, attempts, latch, bootCause, appCause, hung,
                                      counted, charges>>

\* "Does not clear the latch."
ReadHpcore0Clearing(cause) == cause = FromRaw(latch) /\ latch' = 0
ReadHpcore0(cause) == cause = FromRaw(latch) /\ UNCHANGED latch

BootRead == /\ Goto("read", "count")
            /\ ReadHpcore0(bootCause')
            /\ UNCHANGED <<slot, attempts, appCause, noisy, hung, mode, age, budget,
                           counted, charges>>

Count == /\ Goto("count", "arm")
         /\ IF ~IsWatchdog(bootCause) THEN UNCHANGED <<slot, attempts, charges>>
            ELSE IF attempts + 1 < MaxAttempts
                 THEN attempts' = attempts + 1 /\ UNCHANGED <<slot, charges>>
                 ELSE attempts' = 0 /\ slot' \in Slots \ {slot} /\ charges' = 0
         /\ counted' = TRUE
         /\ UNCHANGED <<latch, bootCause, appCause, noisy, hung, mode, age, budget>>

ArmAndJump == /\ Goto("arm", "app")
              /\ Detector!Arm
              /\ UNCHANGED <<slot, attempts, latch, bootCause, appCause, noisy, hung,
                             counted, charges>>

-----------------------------------------------------------------------------
(* The application.                                                        *)

App == Goto("app", "app") /\ ~hung /\ UNCHANGED <<bootCause, slot, counted>>

Feed == /\ App
        /\ Detector!Feed
        /\ UNCHANGED <<attempts, latch, appCause, noisy, hung, charges>>

\* mark_boot_succeeded and disable_timg1; a slot in Hangs does not get there.
Succeed == /\ App /\ slot \notin Hangs
           /\ attempts' = 0 /\ charges' = 0
           /\ Detector!Disarm
           /\ UNCHANGED <<latch, appCause, noisy, hung>>

AppInit == /\ App /\ slot \in CallsInit
           /\ Detector!Disarm
           /\ noisy' = FALSE
           /\ UNCHANGED <<attempts, latch, appCause, hung, charges>>

AppRead == /\ App
           /\ ReadHpcore0(appCause')
           /\ UNCHANGED <<attempts, noisy, hung, mode, age, budget, charges>>

Hang == /\ App /\ slot \in Hangs
        /\ hung' = TRUE
        /\ UNCHANGED <<attempts, latch, appCause, noisy, mode, age, budget, charges>>

-----------------------------------------------------------------------------
(* The chip.                                                               *)

\* A healthy application feeds before the time-out is over.
Tick == /\ Detector!Tick
        /\ ~hung => age + 1 < budget
        /\ UNCHANGED <<stage, slot, attempts, latch, bootCause, appCause, noisy,
                       hung, others, early, why, counted, charges>>

Restart(reason) == /\ why' = reason
                   /\ stage' = "init"
                   /\ bootCause' = NotRead /\ appCause' = NotRead
                   /\ noisy' = TRUE
                   /\ hung' = FALSE
                   /\ UNCHANGED otadata

Reset(raw, reason) == Restart(reason) /\ latch' = raw /\ counted' = FALSE

Charge(held) ==
  charges' = IF held /\ charges < MaxAttempts THEN charges + 1 ELSE charges

\* TIMG1 latches HpWatchdogSystem.
Timg1Fires == /\ mode = "armed"
              /\ Detector!Reset
              /\ Reset(7, "hang")
              /\ UNCHANGED <<others, early, charges>>

\* LP_WDT, SuperWDT or TIMG0 as the ROM armed them for a flash boot: about a
\* second after the reset, which a boot rarely needs to get past init.
RomWatchdogFires ==
  /\ noisy
  /\ IF stage = "init" THEN early < MaxEarly /\ early' = early + 1 ELSE UNCHANGED early
  /\ \E raw \in {7, 9, 16, 18} : Reset(raw, "rom_watchdog")
  /\ Charge(stage = "init")
  /\ Detector!Disarm
  /\ UNCHANGED others

\* "BOD-driven resets pulse the same chip-reset line as a real power-on".
DetectorFires == /\ noisy /\ others < MaxOther
                 /\ others' = others + 1
                 /\ Reset(1, "detector")
                 /\ Detector!Disarm
                 /\ UNCHANGED <<early, charges>>

\* From outside: at any time, and always on a chip that is stuck.
Outside == /\ \/ others < MaxOther /\ others' = others + 1
              \/ hung /\ mode # "armed" /\ UNCHANGED others
           /\ Detector!Disarm
           /\ UNCHANGED early

\* Power, software, JTAG, USB, with a cause of its own.
OtherReset == /\ Outside
              /\ \E raw \in OtherCodes : Reset(raw, IF raw = 1 THEN "power_on" ELSE "other")
              /\ UNCHANGED charges

\* "The value persists across soft resets": no code here writes the _CLR bit,
\* so a software reset finds, and may leave, the cause of the reset before it.
SoftReset == /\ Persists /\ Outside
             /\ Restart("other")
             /\ Charge(counted /\ IsWatchdog(FromRaw(latch)))
             /\ UNCHANGED <<latch, counted>>

Init == /\ stage = "init"
        /\ slot \in Slots /\ attempts = 0
        /\ latch = 1 /\ why = "power_on"
        /\ bootCause = NotRead /\ appCause = NotRead
        /\ noisy = TRUE /\ hung = FALSE
        /\ Detector!Init
        /\ others = 0 /\ early = 0 /\ charges = 0 /\ counted = FALSE

Bootloader == BootInit \/ BootRead \/ Count \/ ArmAndJump

Next == \/ Bootloader
        \/ Feed \/ Succeed \/ AppInit \/ AppRead \/ Hang
        \/ Tick \/ Timg1Fires \/ RomWatchdogFires \/ DetectorFires \/ OtherReset
        \/ SoftReset

Spec == Init /\ [][Next]_vars

\* The hart runs the mini-bootloader, a slot in Hangs comes to hang, TIMG1's
\* clock ticks and an expired TIMG1 fires.
FairSpec == Spec /\ WF_vars(Bootloader) /\ WF_vars(Hang)
                 /\ WF_vars(Tick) /\ WF_vars(Timg1Fires)

-----------------------------------------------------------------------------
(* Properties.                                                             *)

\* Every code the latch may hold decodes to a variant of the enum, Unknown
\* carries none of the codes that have a name of their own, and a slot never
\* has MaxAttempts failed attempts.
TypeOK == /\ stage \in {"init", "read", "count", "arm", "app"}
          /\ slot \in Slots
          /\ attempts \in 0 .. MaxAttempts - 1
          /\ latch \in RawCodes
          /\ bootCause \in Cause \cup {NotRead}
          /\ appCause \in Cause \cup {NotRead}
          /\ noisy \in BOOLEAN /\ hung \in BOOLEAN
          /\ mode \in {"off", "armed", "foreign"}
          /\ age \in Nat /\ budget \in Nat
          /\ others \in 0 .. MaxOther /\ early \in 0 .. MaxEarly
          /\ why \in {"power_on", "hang", "rom_watchdog", "detector", "other"}
          /\ charges \in 0 .. MaxAttempts /\ counted \in BOOLEAN

\* "leaving the cause readable through the bootloader-to-app handoff lets the
\* app double-check and refine telemetry": both decode the same cause, and
\* raw() gives the code the chip latched, whatever it is.
HandoffAgrees == appCause # NotRead => appCause = bootCause /\ Raw(appCause) = latch

\* What a healthy slot may be given up for: MaxAttempts resets, since it was
\* selected or last marked good, that were watchdogs of the ROM before init or
\* soft resets that left in the latch a watchdog's cause already counted.
\* Power cycles, brown-outs, host resets, soft resets that latch their own
\* cause and codes nobody knows do not count, nor does what was counted before
\* the slot was marked good; and neither TIMG1 nor a watchdog the ROM left
\* armed resets it once init has run.
HealthySlotKept ==
  [][slot \notin Hangs /\ slot' # slot => charges = MaxAttempts]_vars

\* is_watchdog picks "the watchdog-induced resets - useful for the early-boot
\* fail-fast path that decides whether to bump the otadata attempt counter":
\* no reset is held against a slot twice.
OneAttemptPerReset == [][stage = "count" /\ otadata' # otadata => ~counted]_vars

\* "the existing boot_attempts counter takes over to pick a different OTA
\* slot after enough failed tries": a slot that hangs is left, if its
\* application leaves the watchdog alone.
HungSlotIsLeft == \A s \in Hangs \ CallsInit : slot = s ~> slot # s

\* "Power-on reset. Most reliable signal that the chip just came up from
\* cold" (Cause::PowerOn).
PowerOnMeansCold == bootCause = FromRaw(1) => why = "power_on"
=============================================================================
