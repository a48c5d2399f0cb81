---------------------------- MODULE HangDetector ----------------------------
(***************************************************************************)
(* What the early watchdog promises its user (src/src/wdt.rs, the comment  *)
(* above enable_timg1_reset): once armed with a time-out, it resets the    *)
(* chip exactly when that many ticks pass without a feed, never before     *)
(* and never after, whatever the timer was doing when it was armed.        *)
(* Timg1 is the register-level program that is shown to implement it.      *)
(***************************************************************************)
EXTENDS Naturals

CONSTANT Timeouts      \* the time-outs a caller may ask for, in ticks

VARIABLES
  mode,                \* "off", "armed" by this crate, or "foreign": left
                       \* running by the ROM or by earlier firmware
  age,                 \* ticks since the armed detector was last fed
  budget               \* the time-out it was armed with

avars == <<mode, age, budget>>

Idle(m) == mode = m /\ age = 0 /\ budget = 0

Init == Idle("off") \/ Idle("foreign")

Arm == /\ mode = "off"
       /\ mode' = "armed"
       /\ age' = 0
       /\ budget' \in Timeouts

Feed == /\ mode = "armed"
        /\ age' = 0
        /\ UNCHANGED <<mode, budget>>

Stop(m) == mode' = m /\ age' = 0 /\ budget' = 0

Disarm == Stop("off")

Tick == /\ mode = "armed"
        /\ age < budget
        /\ age' = age + 1
        /\ UNCHANGED <<mode, budget>>

\* An armed detector resets the chip at its deadline only. What the timer
\* does after the reset is again somebody else's configuration.
Reset == /\ mode # "off"
         /\ mode = "armed" => age = budget
         /\ Stop("off") \/ Stop("foreign")

Next == Arm \/ Feed \/ Disarm \/ Tick \/ Reset

Spec == Init /\ [][Next]_avars
=============================================================================
