------------------------------- MODULE Timg1 -------------------------------
(***************************************************************************)
(* The TIMG1 main watchdog as the early hang detector (src/src/wdt.rs):    *)
(* enable_timg1_reset, feed_timg1, disable_timg1 and the TIMG1 part of     *)
(* disable_all, one action per register access, interleaved with the       *)
(* timer, which counts and fires on its own.                               *)
(*                                                                         *)
(* Any hart may call.  The harts take turns through the critical section   *)
(* that the comment in feed_timg1 asks a multi-hart application for; with  *)
(* one hart it constrains nothing.  The application may hang at any point, *)
(* also in the middle of a call; while it is healthy it starts a call at   *)
(* most Deadline ticks after the last one started.                         *)
(***************************************************************************)
EXTENDS Integers

CONSTANTS
  Harts,        \* the harts whose code calls the watchdog functions
  NoHart,       \* nobody is in the critical section
  Timeouts,     \* the values of timeout_ms the callers use
  Deadline,     \* ticks within which a healthy application calls again
  MaxCount,     \* bound on the counter and on stage-0 hold values (a u32)
  LeftBehind    \* what the ROM or earlier firmware may leave in the timer

Registers == [unlocked : BOOLEAN, wdt_en : BOOLEAN, flashboot : BOOLEAN,
              xtal : BOOLEAN, stages : {"reset_sys", "off", "inherited"},
              prescale : {"40000", "inherited"},
              hold : 0 .. MaxCount, count : 0 .. MaxCount]

ASSUME TimingAssumption ==
  /\ MaxCount \in Nat
  /\ Deadline \in Nat
  /\ Timeouts \subseteq 0 .. MaxCount
ASSUME HartAssumption == NoHart \notin Harts
ASSUME LeftBehindAssumption == LeftBehind # {} /\ LeftBehind \subseteq Registers

VARIABLES
  t1,           \* the timer's registers and its counter
  pc,           \* pc[h]: the register access hart h performs next
  holder,       \* the hart inside the critical section
  timeout_ms,   \* the argument of the latest enable_timg1_reset
  hung,         \* the application has stopped making progress
  mine,         \* history: enable_timg1_reset set wdt_en, nothing undid it
  sinceCall     \* ticks of the armed timer since a call last started, or
                \* since the timer was armed if that is later

vars == <<t1, pc, holder, timeout_ms, hung, mine, sinceCall>>

Labels == {"idle", "relock",
           "enable_unlock", "configure", "set_prescale", "set_hold",
           "reset_count", "start",
           "feed_unlock", "feed", "disable_unlock", "disable",
           "disable_all_unlock", "disable_all"}

-----------------------------------------------------------------------------
(* The timer's hardware.                                                   *)

Running == t1.wdt_en \/ t1.flashboot
Armed == Running /\ mine

\* Counting in milliseconds towards the stage-0 reset this crate configures.
Exact == /\ t1.wdt_en /\ ~t1.flashboot /\ t1.stages = "reset_sys"
         /\ t1.xtal /\ t1.prescale = "40000"
Expired == Exact /\ t1.count >= t1.hold

\* A timer somebody else configured fires when its own settings say so.
MayFire == Running /\ (Exact => Expired) /\ t1.stages # "off"

\* With WPROTECT not holding the key, a write is silently dropped.
Write(registers) == t1' = IF t1.unlocked THEN registers ELSE t1

-----------------------------------------------------------------------------
(* The functions of wdt.rs, one register access per action.                *)

Goto(h, from, to) == /\ ~hung
                     /\ pc[h] = from
                     /\ pc' = [pc EXCEPT ![h] = to]

\* The operators whose names end in a slip (...Unserialised, ...Forgotten)
\* are used nowhere: each is the definition after it with a plausible bug,
\* and shows that a property would notice.
BeginUnserialised(h, first) == /\ Goto(h, "idle", first)
                               /\ holder' = h
                               /\ sinceCall' = 0
                               /\ UNCHANGED <<t1, hung, mine>>

Begin(h, first) == /\ Goto(h, "idle", first)
                   /\ holder = NoHart
                   /\ holder' = h
                   /\ sinceCall' = 0
                   /\ UNCHANGED <<t1, hung, mine>>

EnableTimg1ResetInMicros(h, t) == Begin(h, "enable_unlock") /\ timeout_ms' = 1000 * t
EnableTimg1Reset(h, t) == Begin(h, "enable_unlock") /\ timeout_ms' = t
FeedTimg1(h) == Begin(h, "feed_unlock") /\ UNCHANGED timeout_ms
DisableTimg1(h) == Begin(h, "disable_unlock") /\ UNCHANGED timeout_ms
DisableAll(h) == Begin(h, "disable_all_unlock") /\ UNCHANGED timeout_ms

UnlockForForgotten(h, from, to) ==
  Goto(h, from, to) /\ UNCHANGED <<t1, holder, timeout_ms, hung, mine, sinceCall>>

\* wdtwprotect = WDT_KEY opens each of the four functions.
UnlockFor(h, from, to) == /\ Goto(h, from, to)
                          /\ t1' = [t1 EXCEPT !.unlocked = TRUE]
                          /\ UNCHANGED <<holder, timeout_ms, hung, mine, sinceCall>>

Unlock(h) == \/ UnlockFor(h, "enable_unlock", "configure")
             \/ UnlockFor(h, "feed_unlock", "feed")
             \/ UnlockFor(h, "disable_unlock", "disable")
             \/ UnlockFor(h, "disable_all_unlock", "disable_all")

ConfigureWhileRunning(h) ==
  /\ Goto(h, "configure", "set_prescale")
  /\ Write([t1 EXCEPT !.flashboot = FALSE, !.xtal = TRUE, !.stages = "reset_sys"])
  /\ UNCHANGED <<holder, timeout_ms, hung, mine, sinceCall>>

ConfigureWithoutAction(h) ==
  /\ Goto(h, "configure", "set_prescale")
  /\ Write([t1 EXCEPT !.wdt_en = FALSE, !.flashboot = FALSE,
                      !.xtal = TRUE, !.stages = "off"])
  /\ mine' = (mine /\ ~t1.unlocked)
  /\ UNCHANGED <<holder, timeout_ms, hung, sinceCall>>

Configure(h) == /\ Goto(h, "configure", "set_prescale")
                /\ Write([t1 EXCEPT !.wdt_en = FALSE, !.flashboot = FALSE,
                                    !.xtal = TRUE, !.stages = "reset_sys"])
                /\ mine' = (mine /\ ~t1.unlocked)
                /\ UNCHANGED <<holder, timeout_ms, hung, sinceCall>>

SetPrescale(h) == /\ Goto(h, "set_prescale", "set_hold")
                  /\ Write([t1 EXCEPT !.prescale = "40000"])
                  /\ UNCHANGED <<holder, timeout_ms, hung, mine, sinceCall>>

SetHold(h) == /\ Goto(h, "set_hold", "reset_count")
              /\ Write([t1 EXCEPT !.hold = timeout_ms])
              /\ UNCHANGED <<holder, timeout_ms, hung, mine, sinceCall>>

ResetCountForgotten(h) ==
  Goto(h, "reset_count", "start") /\ UNCHANGED <<t1, holder, timeout_ms, hung, mine, sinceCall>>

ResetCount(h) == /\ Goto(h, "reset_count", "start")
                 /\ Write([t1 EXCEPT !.count = 0])
                 /\ UNCHANGED <<holder, timeout_ms, hung, mine, sinceCall>>

Start(h) == /\ Goto(h, "start", "relock")
            /\ Write([t1 EXCEPT !.wdt_en = TRUE])
            /\ mine' = (mine \/ t1.unlocked)
            /\ sinceCall' = 0
            /\ UNCHANGED <<holder, timeout_ms, hung>>

Feed(h) == /\ Goto(h, "feed", "relock")
           /\ Write([t1 EXCEPT !.count = 0])
           /\ UNCHANGED <<holder, timeout_ms, hung, mine, sinceCall>>

DisableFrom(h, from) == /\ Goto(h, from, "relock")
                        /\ Write([t1 EXCEPT !.wdt_en = FALSE, !.flashboot = FALSE])
                        /\ mine' = (mine /\ ~t1.unlocked)
                        /\ UNCHANGED <<holder, timeout_ms, hung, sinceCall>>

Disable(h) == DisableFrom(h, "disable") \/ DisableFrom(h, "disable_all")

Relock(h) == /\ Goto(h, "relock", "idle")
             /\ t1' = [t1 EXCEPT !.unlocked = FALSE]
             /\ holder' = NoHart
             /\ UNCHANGED <<timeout_ms, hung, mine, sinceCall>>

-----------------------------------------------------------------------------
(* The environment: a hang, the clock, the reset.                          *)

Hang == /\ ~hung
        /\ hung' = TRUE
        /\ UNCHANGED <<t1, pc, holder, timeout_ms, mine, sinceCall>>

\* A healthy application is on time; the counter moves one per tick only
\* when this crate set its clock, and by any amount otherwise.
Tick == /\ ~Expired
        /\ Armed /\ ~hung => sinceCall < Deadline
        /\ IF ~Running THEN UNCHANGED t1
           ELSE \E c \in IF Exact THEN {t1.count + 1} ELSE 0 .. MaxCount :
                  t1' = [t1 EXCEPT !.count = c]
        /\ sinceCall' = IF Armed /\ ~hung THEN sinceCall + 1 ELSE sinceCall
        /\ UNCHANGED <<pc, holder, timeout_ms, hung, mine>>

\* The reset takes all harts back through the ROM.
Fire == /\ MayFire
        /\ t1' \in LeftBehind
        /\ pc' = [h \in Harts |-> "idle"]
        /\ holder' = NoHart
        /\ hung' = FALSE
        /\ mine' = FALSE
        /\ sinceCall' = 0
        /\ UNCHANGED timeout_ms

Init == /\ t1 \in LeftBehind
        /\ pc = [h \in Harts |-> "idle"]
        /\ holder = NoHart
        /\ timeout_ms \in Timeouts
        /\ hung = FALSE
        /\ mine = FALSE
        /\ sinceCall = 0

Call(h) == \/ \E t \in Timeouts : EnableTimg1Reset(h, t)
           \/ FeedTimg1(h)
           \/ DisableTimg1(h)
           \/ DisableAll(h)

Access(h) == \/ Unlock(h) \/ Configure(h) \/ SetPrescale(h) \/ SetHold(h)
             \/ ResetCount(h) \/ Start(h) \/ Feed(h) \/ Disable(h) \/ Relock(h)

Next == \/ \E h \in Harts : Call(h) \/ Access(h)
        \/ Hang \/ Tick \/ Fire

Spec == Init /\ [][Next]_vars

\* Time passes and an expired timer fires: both are clocked hardware.  The
\* application owes no progress, since it may hang.
FairSpec == Spec /\ WF_vars(Tick) /\ WF_vars(Fire)

-----------------------------------------------------------------------------
(* Properties.                                                             *)

\* The registers, the harts' positions and the time since a call stay in
\* their ranges: a time-out is one a caller asked for, and the count never
\* passes what the timer can hold.
TypeOK == /\ t1 \in Registers
          /\ pc \in [Harts -> Labels]
          /\ holder \in Harts \cup {NoHart}
          /\ timeout_ms \in Timeouts
          /\ hung \in BOOLEAN
          /\ mine \in BOOLEAN
          /\ sinceCall \in 0 .. Deadline

\* No hart ever writes a protected register after another hart has locked
\* it again: every write of the unlock-write-relock sequences takes effect.
NoDroppedWrite ==
  \A h \in Harts : pc[h] \notin {"idle", "enable_unlock", "feed_unlock",
                                 "disable_unlock", "disable_all_unlock"}
                   => t1.unlocked

\* "Call this strictly more often than timeout_ms / 2 to keep the device
\* alive" (feed_timg1): an application that does, however its calls are
\* preempted between two register accesses, is never reset.  It cannot keep
\* the rule with a time-out of zero or of a few ticks.
HealthyAppIsNeverReset == Armed /\ Expired /\ 2 * Deadline < t1.hold => hung

\* From the moment the detector is armed until a new enable_timg1_reset
\* begins, the deadline in force is the one the caller asked for: never an
\* older, smaller wdtconfig2.
ArmedAsAsked ==
  Armed /\ (\A h \in Harts : pc[h] \notin {"enable_unlock", "configure"})
    => Exact /\ t1.hold = timeout_ms

\* "If the app hangs without feeding for timeout_ms, stage 0 fires": the
\* reset comes, and it ends the hang.
HangIsCaught == (hung /\ Armed) ~> ~hung

\* "There is no opt-out apart from those two paths" (enable_timg1_reset):
\* an armed detector stays armed until disable_timg1, a new
\* enable_timg1_reset or a reset.
NoOtherOptOut ==
  [][Armed /\ ~Armed' => Fire \/ \E h \in Harts : pc[h] \in {"disable", "configure"}]_vars

\* The abstract state: who owns the running timer, its count, its hold value.
Detector == INSTANCE HangDetector
  WITH mode <- IF ~Running THEN "off" ELSE IF mine THEN "armed" ELSE "foreign",
       age <- IF Armed THEN t1.count ELSE 0,
       budget <- IF Armed THEN t1.hold ELSE 0

\* The registers implement the promise of HangDetector: the reset comes
\* exactly at the deadline, counted from the feed that took effect last.
ImplementsHangDetector == Detector!Spec
=============================================================================
