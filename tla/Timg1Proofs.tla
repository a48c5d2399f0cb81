---------------------------- MODULE Timg1Proofs ----------------------------
(***************************************************************************)
(* Proofs about Timg1 for any number of harts, any time-outs, deadline and *)
(* left-behind timer state: the invariants the timg1 run checks on a small *)
(* instance, and that the registers implement HangDetector.                *)
(***************************************************************************)
EXTENDS Timg1, TLAPS

\* The critical section: a hart that is inside a function holds it.
Mutex == \A h \in Harts : pc[h] # "idle" => holder = h

\* What enable_timg1_reset has achieved when it reaches each of its labels.
Staged ==
  \A h \in Harts :
    /\ pc[h] \in {"set_prescale", "set_hold", "reset_count", "start"}
         => /\ ~t1.wdt_en /\ ~t1.flashboot /\ ~mine
            /\ t1.xtal /\ t1.stages = "reset_sys"
    /\ pc[h] \in {"set_hold", "reset_count", "start"} => t1.prescale = "40000"
    /\ pc[h] \in {"reset_count", "start"} => t1.hold = timeout_ms
    /\ pc[h] = "start" => t1.count = 0

\* A detector this crate armed counts towards one of the callers' time-outs.
Counting == mine => Exact /\ t1.hold \in Timeouts /\ t1.count <= t1.hold

\* A call that has started but not yet reached the counter.
BeforeWrite == {"enable_unlock", "configure", "feed_unlock", "feed",
                "disable_unlock", "disable", "disable_all_unlock", "disable_all"}
Pending == \E h \in Harts : pc[h] \in BeforeWrite

\* The counter lags the application's calls by one deadline at most: that is
\* why the feed rule says timeout_ms / 2.
CountBound ==
  mine /\ ~hung => t1.count <= sinceCall + (IF Pending THEN Deadline ELSE 0)

Asked ==
  mine /\ (\A h \in Harts : pc[h] \notin {"enable_unlock", "configure"})
    => t1.hold = timeout_ms

IInv == TypeOK /\ Mutex /\ NoDroppedWrite /\ Staged /\ Counting /\ CountBound /\ Asked

-----------------------------------------------------------------------------
\* The inductive invariant holds at first ...
LEMMA InitIInv == Init => IInv
<1> SUFFICES ASSUME Init PROVE IInv
  OBVIOUS
<1> USE TimingAssumption, LeftBehindAssumption DEF Init
<1>1. TypeOK
  <2>1. t1 \in Registers /\ sinceCall \in 0 .. Deadline
    OBVIOUS
  <2>2. pc \in [Harts -> Labels]
    BY DEF Labels
  <2> QED BY <2>1, <2>2 DEF TypeOK
<1>2. Mutex /\ NoDroppedWrite /\ Staged
  BY DEF Mutex, NoDroppedWrite, Staged
<1>3. Counting /\ CountBound /\ Asked
  BY DEF Counting, CountBound, Asked
<1> QED BY <1>1, <1>2, <1>3 DEF IInv

\* A call begins: nobody was in the critical section, so no call was pending
\* and the counter was within one deadline.
LEMMA BeginIInv ==
  ASSUME IInv, NEW h \in Harts, Call(h)
  PROVE  IInv'
<1> USE TimingAssumption, HartAssumption DEF IInv, Call, EnableTimg1Reset,
        FeedTimg1, DisableTimg1, DisableAll, Begin, Goto
<1>1. TypeOK'
  BY DEF TypeOK, Labels
<1>2. /\ \A g \in Harts : pc[g] = "idle"
      /\ ~Pending
  BY DEF TypeOK, Mutex, Pending, BeforeWrite
<1>3. (Mutex /\ NoDroppedWrite /\ Staged)'
  BY <1>2 DEF TypeOK, Labels, Mutex, NoDroppedWrite, Staged
<1>4. (Counting /\ Asked)'
  BY <1>2 DEF TypeOK, Labels, Counting, Asked, Exact
<1>5. CountBound'
  <2>1. Pending'
    BY DEF TypeOK, Labels, Pending, BeforeWrite
  <2>2. mine /\ ~hung => t1.count <= Deadline
    BY <1>2 DEF TypeOK, Registers, CountBound
  <2>3. /\ UNCHANGED <<t1, hung, mine>>
        /\ sinceCall' = 0
    OBVIOUS
  <2> QED BY <2>1, <2>2, <2>3 DEF TypeOK, Registers, CountBound
<1> QED BY <1>1, <1>3, <1>4, <1>5

\* ... and every step keeps it, one case per action.
LEMMA StepIInv == IInv /\ [Next]_vars => IInv'
<1> SUFFICES ASSUME IInv, [Next]_vars PROVE IInv'
  OBVIOUS
<1> USE TimingAssumption, HartAssumption DEF IInv
<1>1. ASSUME NEW h \in Harts, Call(h) PROVE IInv'
  BY <1>1, BeginIInv
<1>2. ASSUME NEW h \in Harts, Unlock(h) PROVE IInv'
  <2> USE <1>2 DEF Unlock, UnlockFor, Goto
  <2>1. TypeOK'
    BY DEF TypeOK, Labels, Registers, NoDroppedWrite
  <2>2. (Mutex /\ NoDroppedWrite)'
    BY DEF TypeOK, Labels, Registers, Mutex, NoDroppedWrite
  <2>3. Staged'
    BY DEF TypeOK, Labels, Registers, Mutex, NoDroppedWrite, Staged
  <2>4. (Counting /\ Asked)'
    BY DEF TypeOK, Labels, Registers, Mutex, NoDroppedWrite, Staged, Counting, Asked, Exact
  <2>5. CountBound'
    BY DEF TypeOK, Labels, Registers, Mutex, NoDroppedWrite, Staged, Counting, Exact,
           CountBound, Pending, BeforeWrite
  <2> QED BY <2>1, <2>2, <2>3, <2>4, <2>5
<1>3. ASSUME NEW h \in Harts, Configure(h) PROVE IInv'
  <2> USE <1>3 DEF Configure, Write, Goto
  <2>1. TypeOK'
    BY DEF TypeOK, Labels, Registers, NoDroppedWrite
  <2>2. (Mutex /\ NoDroppedWrite)'
    BY DEF TypeOK, Labels, Registers, Mutex, NoDroppedWrite
  <2>3. Staged'
    BY DEF TypeOK, Labels, Registers, Mutex, NoDroppedWrite, Staged
  <2>4. (Counting /\ Asked)'
    BY DEF TypeOK, Labels, Registers, Mutex, NoDroppedWrite, Staged, Counting, Asked, Exact
  <2>5. CountBound'
    BY DEF TypeOK, Labels, Registers, Mutex, NoDroppedWrite, Staged, Counting, Exact,
           CountBound, Pending, BeforeWrite
  <2> QED BY <2>1, <2>2, <2>3, <2>4, <2>5
<1>4. ASSUME NEW h \in Harts, SetPrescale(h) PROVE IInv'
  <2> USE <1>4 DEF SetPrescale, Write, Goto
  <2>1. TypeOK'
    BY DEF TypeOK, Labels, Registers, NoDroppedWrite
  <2>2. (Mutex /\ NoDroppedWrite)'
    BY DEF TypeOK, Labels, Registers, Mutex, NoDroppedWrite
  <2>3. Staged'
    BY DEF TypeOK, Labels, Registers, Mutex, NoDroppedWrite, Staged
  <2>4. (Counting /\ Asked)'
    BY DEF TypeOK, Labels, Registers, Mutex, NoDroppedWrite, Staged, Counting, Asked, Exact
  <2>5. CountBound'
    BY DEF TypeOK, Labels, Registers, Mutex, NoDroppedWrite, Staged, Counting, Exact,
           CountBound, Pending, BeforeWrite
  <2> QED BY <2>1, <2>2, <2>3, <2>4, <2>5
<1>5. ASSUME NEW h \in Harts, SetHold(h) PROVE IInv'
  <2> USE <1>5 DEF SetHold, Write, Goto
  <2>1. TypeOK'
    BY DEF TypeOK, Labels, Registers, NoDroppedWrite
  <2>2. (Mutex /\ NoDroppedWrite)'
    BY DEF TypeOK, Labels, Registers, Mutex, NoDroppedWrite
  <2>3. Staged'
    BY DEF TypeOK, Labels, Registers, Mutex, NoDroppedWrite, Staged
  <2>4. (Counting /\ Asked)'
    BY DEF TypeOK, Labels, Registers, Mutex, NoDroppedWrite, Staged, Counting, Asked, Exact
  <2>5. CountBound'
    BY DEF TypeOK, Labels, Registers, Mutex, NoDroppedWrite, Staged, Counting, Exact,
           CountBound, Pending, BeforeWrite
  <2> QED BY <2>1, <2>2, <2>3, <2>4, <2>5
<1>6. ASSUME NEW h \in Harts, ResetCount(h) PROVE IInv'
  <2> USE <1>6 DEF ResetCount, Write, Goto
  <2>1. TypeOK'
    BY DEF TypeOK, Labels, Registers, NoDroppedWrite
  <2>2. (Mutex /\ NoDroppedWrite)'
    BY DEF TypeOK, Labels, Registers, Mutex, NoDroppedWrite
  <2>3. Staged'
    BY DEF TypeOK, Labels, Registers, Mutex, NoDroppedWrite, Staged
  <2>4. (Counting /\ Asked)'
    BY DEF TypeOK, Labels, Registers, Mutex, NoDroppedWrite, Staged, Counting, Asked, Exact
  <2>5. CountBound'
    BY DEF TypeOK, Labels, Registers, Mutex, NoDroppedWrite, Staged, Counting, Exact,
           CountBound, Pending, BeforeWrite
  <2> QED BY <2>1, <2>2, <2>3, <2>4, <2>5
<1>7. ASSUME NEW h \in Harts, Start(h) PROVE IInv'
  <2> USE <1>7 DEF Start, Write, Goto
  <2>1. TypeOK'
    <3>1. mine' = TRUE
      BY DEF NoDroppedWrite
    <3>2. t1' \in Registers /\ pc' \in [Harts -> Labels]
      BY DEF TypeOK, Labels, Registers
    <3> QED BY <3>1, <3>2 DEF TypeOK
  <2>2. (Mutex /\ NoDroppedWrite)'
    BY DEF TypeOK, Labels, Registers, Mutex, NoDroppedWrite
  <2>3. Staged'
    BY DEF TypeOK, Labels, Registers, Mutex, NoDroppedWrite, Staged
  <2>4. (Counting /\ Asked)'
    BY DEF TypeOK, Labels, Registers, Mutex, NoDroppedWrite, Staged, Counting, Asked, Exact
  <2>5. CountBound'
    BY DEF TypeOK, Labels, Registers, Mutex, NoDroppedWrite, Staged, Counting, Exact,
           CountBound, Pending, BeforeWrite
  <2> QED BY <2>1, <2>2, <2>3, <2>4, <2>5
<1>8. ASSUME NEW h \in Harts, Feed(h) PROVE IInv'
  <2> USE <1>8 DEF Feed, Write, Goto
  <2>1. TypeOK'
    BY DEF TypeOK, Labels, Registers, NoDroppedWrite
  <2>2. (Mutex /\ NoDroppedWrite)'
    BY DEF TypeOK, Labels, Registers, Mutex, NoDroppedWrite
  <2>3. Staged'
    BY DEF TypeOK, Labels, Registers, Mutex, NoDroppedWrite, Staged
  <2>4. (Counting /\ Asked)'
    BY DEF TypeOK, Labels, Registers, Mutex, NoDroppedWrite, Staged, Counting, Asked, Exact
  <2>5. CountBound'
    BY DEF TypeOK, Labels, Registers, Mutex, NoDroppedWrite, Staged, Counting, Exact,
           CountBound, Pending, BeforeWrite
  <2> QED BY <2>1, <2>2, <2>3, <2>4, <2>5
<1>9. ASSUME NEW h \in Harts, Disable(h) PROVE IInv'
  <2> USE <1>9 DEF Disable, DisableFrom, Write, Goto
  <2>1. TypeOK'
    BY DEF TypeOK, Labels, Registers, NoDroppedWrite
  <2>2. (Mutex /\ NoDroppedWrite)'
    BY DEF TypeOK, Labels, Registers, Mutex, NoDroppedWrite
  <2>3. Staged'
    BY DEF TypeOK, Labels, Registers, Mutex, NoDroppedWrite, Staged
  <2>4. (Counting /\ Asked)'
    BY DEF TypeOK, Labels, Registers, Mutex, NoDroppedWrite, Staged, Counting, Asked, Exact
  <2>5. CountBound'
    BY DEF TypeOK, Labels, Registers, Mutex, NoDroppedWrite, Staged, Counting, Exact,
           CountBound, Pending, BeforeWrite
  <2> QED BY <2>1, <2>2, <2>3, <2>4, <2>5
<1>10. ASSUME NEW h \in Harts, Relock(h) PROVE IInv'
  <2> USE <1>10 DEF Relock, Goto
  <2>1. TypeOK'
    BY DEF TypeOK, Labels, Registers, NoDroppedWrite
  <2>2. (Mutex /\ NoDroppedWrite)'
    BY DEF TypeOK, Labels, Registers, Mutex, NoDroppedWrite
  <2>3. Staged'
    BY DEF TypeOK, Labels, Registers, Mutex, NoDroppedWrite, Staged
  <2>4. (Counting /\ Asked)'
    BY DEF TypeOK, Labels, Registers, Mutex, NoDroppedWrite, Staged, Counting, Asked, Exact
  <2>5. CountBound'
    BY DEF TypeOK, Labels, Registers, Mutex, NoDroppedWrite, Staged, Counting, Exact,
           CountBound, Pending, BeforeWrite
  <2> QED BY <2>1, <2>2, <2>3, <2>4, <2>5
<1>11. CASE Hang
  <2> USE <1>11 DEF Hang
  <2>1. TypeOK'
    BY DEF TypeOK
  <2>2. (Mutex /\ NoDroppedWrite)'
    BY DEF TypeOK, Labels, Registers, Mutex, NoDroppedWrite
  <2>3. Staged'
    BY DEF TypeOK, Labels, Registers, Mutex, NoDroppedWrite, Staged
  <2>4. (Counting /\ Asked)'
    BY DEF TypeOK, Labels, Registers, Mutex, NoDroppedWrite, Staged, Counting, Asked, Exact
  <2>5. CountBound'
    BY DEF TypeOK, Labels, Registers, Mutex, NoDroppedWrite, Staged, Counting, Exact,
           CountBound, Pending, BeforeWrite
  <2> QED BY <2>1, <2>2, <2>3, <2>4, <2>5
<1>12. CASE Tick
  <2> USE <1>12 DEF Tick, Armed, Running, Expired
  <2>1. TypeOK'
    BY DEF TypeOK, Registers, Counting, Exact
  <2>2. (Mutex /\ NoDroppedWrite)'
    BY DEF TypeOK, Labels, Registers, Mutex, NoDroppedWrite
  <2>3. Staged'
    BY DEF TypeOK, Labels, Registers, Mutex, NoDroppedWrite, Staged
  <2>4. (Counting /\ Asked)'
    BY DEF TypeOK, Labels, Registers, Mutex, NoDroppedWrite, Staged, Counting, Asked, Exact
  <2>5. CountBound'
    BY DEF TypeOK, Labels, Registers, Mutex, NoDroppedWrite, Staged, Counting, Exact,
           CountBound, Pending, BeforeWrite
  <2> QED BY <2>1, <2>2, <2>3, <2>4, <2>5
<1>13. CASE Fire
  <2> USE <1>13 DEF Fire
  <2>1. TypeOK'
    <3>1. t1' \in Registers /\ sinceCall' \in 0 .. Deadline
      BY LeftBehindAssumption
    <3>2. pc' \in [Harts -> Labels]
      BY DEF Labels
    <3> QED BY <3>1, <3>2 DEF TypeOK
  <2>2. (Mutex /\ NoDroppedWrite)'
    BY DEF TypeOK, Labels, Registers, Mutex, NoDroppedWrite
  <2>3. Staged'
    BY DEF TypeOK, Labels, Registers, Mutex, NoDroppedWrite, Staged
  <2>4. (Counting /\ Asked)'
    BY DEF TypeOK, Labels, Registers, Mutex, NoDroppedWrite, Staged, Counting, Asked, Exact
  <2>5. CountBound'
    BY DEF TypeOK, Labels, Registers, Mutex, NoDroppedWrite, Staged, Counting, Exact,
           CountBound, Pending, BeforeWrite
  <2> QED BY <2>1, <2>2, <2>3, <2>4, <2>5
<1>14. CASE UNCHANGED vars
  BY <1>14 DEF vars, TypeOK, Mutex, NoDroppedWrite, Staged, Counting, Exact,
              CountBound, Pending, Asked
<1> QED
  BY <1>1, <1>2, <1>3, <1>4, <1>5, <1>6, <1>7, <1>8, <1>9, <1>10, <1>11, <1>12, <1>13, <1>14 DEF Next, Access

\* The inductive invariant holds throughout; the theorems after it follow.
THEOREM Invariance == Spec => []IInv
<1> QED BY InitIInv, StepIInv, PTL DEF Spec

-----------------------------------------------------------------------------
(* The invariants of the timg1 run, for every value of the constants.      *)

\* Type correctness of the register-level program and of the timer.
THEOREM TypeCorrect == Spec => []TypeOK
<1>1. IInv => TypeOK
  BY DEF IInv
<1> QED BY <1>1, Invariance, PTL

\* With the calls serialised as feed_timg1 asks, no write of any of the four
\* functions is silently dropped, however many harts take part.
THEOREM WritesTakeEffect == Spec => []NoDroppedWrite
<1>1. IInv => NoDroppedWrite
  BY DEF IInv
<1> QED BY <1>1, Invariance, PTL

\* The feed rule is enough: calls at most Deadline apart, with 2 * Deadline
\* below the time-out in force, keep the device alive.
THEOREM FeedRuleSuffices == Spec => []HealthyAppIsNeverReset
<1>1. ASSUME IInv, Armed, Expired, 2 * Deadline < t1.hold, ~hung PROVE FALSE
  <2>1. t1.hold \in Timeouts /\ t1.hold <= t1.count
    BY <1>1 DEF IInv, TypeOK, Registers, Armed, Counting, Expired
  <2>2. t1.count <= sinceCall + Deadline
    BY <1>1, TimingAssumption DEF IInv, TypeOK, Registers, Armed, CountBound
  <2>3. t1.count <= 2 * Deadline
    BY <1>1, <2>2, TimingAssumption DEF IInv, TypeOK, Registers
  <2> QED
    BY <1>1, <2>1, <2>3, TimingAssumption DEF IInv, TypeOK, Registers
<1>2. IInv => HealthyAppIsNeverReset
  BY <1>1 DEF HealthyAppIsNeverReset
<1> QED BY <1>2, Invariance, PTL

\* Once armed, the time-out in force is the caller's, whatever an earlier
\* configuration left in the timer.
THEOREM DeadlineIsTheCallers == Spec => []ArmedAsAsked
<1>1. IInv => ArmedAsAsked
  BY DEF IInv, Counting, Asked, ArmedAsAsked, Armed
<1> QED BY <1>1, Invariance, PTL

-----------------------------------------------------------------------------
(* Refinement of HangDetector.                                             *)

\* At first nothing this crate armed is running.
LEMMA InitRefines == Init => Detector!Init
<1> QED BY DEF Init, Detector!Init, Detector!Idle, Armed, Running

\* Every step of the program is a step of the abstract detector or leaves
\* it alone; while enable_timg1_reset configures the timer it is off, and
\* its accesses are invisible to the detector.
LEMMA StepRefines == IInv /\ [Next]_vars => [Detector!Next]_(Detector!avars)
<1> SUFFICES ASSUME IInv, [Next]_vars PROVE [Detector!Next]_(Detector!avars)
  OBVIOUS
<1> USE DEF IInv, TypeOK, Armed, Running
<1>1. ASSUME NEW h \in Harts, Call(h) PROVE UNCHANGED Detector!avars
  BY <1>1 DEF Call, EnableTimg1Reset, FeedTimg1, DisableTimg1, DisableAll, Begin, Detector!avars
<1>2. ASSUME NEW h \in Harts, Unlock(h) \/ Relock(h) PROVE UNCHANGED Detector!avars
  BY <1>2 DEF Unlock, UnlockFor, Relock, Registers, Detector!avars
<1>3. ASSUME NEW h \in Harts, Configure(h) \/ Disable(h)
      PROVE  Detector!Disarm
  <2>1. t1.unlocked
    BY <1>3 DEF NoDroppedWrite, Configure, Disable, DisableFrom, Goto
  <2> QED BY <1>3, <2>1 DEF Configure, Disable, DisableFrom, Write, Registers,
                            Detector!Disarm, Detector!Stop
<1>4. ASSUME NEW h \in Harts, SetPrescale(h) \/ SetHold(h) \/ ResetCount(h)
      PROVE  UNCHANGED Detector!avars
  <2>1. ~t1.wdt_en /\ ~t1.flashboot /\ ~mine
    BY <1>4 DEF Staged, SetPrescale, SetHold, ResetCount, Goto
  <2> QED BY <1>4, <2>1 DEF SetPrescale, SetHold, ResetCount, Write, Registers, Detector!avars
<1>5. ASSUME NEW h \in Harts, Start(h) PROVE Detector!Arm
  <2>1. /\ ~t1.wdt_en /\ ~t1.flashboot /\ t1.unlocked
        /\ t1.hold = timeout_ms /\ t1.count = 0
    BY <1>5 DEF Staged, NoDroppedWrite, Start, Goto
  <2> QED BY <1>5, <2>1 DEF Start, Write, Registers, Detector!Arm
<1>6. ASSUME NEW h \in Harts, Feed(h) PROVE [Detector!Feed]_(Detector!avars)
  <2>1. t1' = [t1 EXCEPT !.count = 0] /\ mine' = mine
    BY <1>6 DEF NoDroppedWrite, Feed, Goto, Write
  <2> QED BY <2>1 DEF Registers, Detector!Feed, Detector!avars
<1>7. CASE Hang
  BY <1>7 DEF Hang, Detector!avars
<1>8. ASSUME Tick PROVE [Detector!Tick]_(Detector!avars)
  <2>1. CASE mine /\ Running
    BY <1>8, <2>1 DEF Tick, Expired, Exact, Counting, Registers, Detector!Tick, Detector!avars
  <2>2. CASE ~(mine /\ Running)
    BY <1>8, <2>2 DEF Tick, Registers, Detector!avars
  <2> QED BY <2>1, <2>2
<1>9. ASSUME Fire PROVE Detector!Reset
  <2>1. mine => t1.count = t1.hold
    BY <1>9, TimingAssumption DEF Fire, MayFire, Expired, Counting, Registers
  <2> QED BY <1>9, <2>1 DEF Fire, MayFire, Detector!Reset, Detector!Stop
<1>10. CASE UNCHANGED vars
  BY <1>10 DEF vars, Detector!avars
<1> QED
  BY <1>1, <1>2, <1>3, <1>4, <1>5, <1>6, <1>7, <1>8, <1>9, <1>10
  DEF Next, Access, Detector!Next

\* The register-level watchdog keeps the promise of HangDetector: a reset at
\* the deadline of the feed that took effect last, never before.
THEOREM Refinement == Spec => ImplementsHangDetector
<1> QED BY InitRefines, StepRefines, Invariance, PTL
        DEF Spec, ImplementsHangDetector, Detector!Spec
=============================================================================
