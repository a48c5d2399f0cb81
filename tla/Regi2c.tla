------------------------------- MODULE Regi2c -------------------------------
(***************************************************************************)
(* The analog control bus (src/src/regi2c.rs) and its user bringup_400     *)
(* (src/src/mpll.rs), transaction by transaction: the hart waits for the   *)
(* engine to be idle, writes a command, waits again and takes the data,    *)
(* while the engine runs the command against whatever block CONF2 routes   *)
(* it to.  The two diagnostics of regi2c.rs may be called once the MPLL is *)
(* up, and the hart may be reset at any step; the bus, the analog bytes    *)
(* and the calibration keep their state over a warm reset.                 *)
(*                                                                         *)
(* A byte is the set of its bits that are 1.                               *)
(*                                                                         *)
(* The operators named for a slip (EnableBusUnclocked, ...) are used       *)
(* nowhere: each is the definition after it with a plausible bug, and      *)
(* shows that a property would notice.                                     *)
(***************************************************************************)
EXTENDS Naturals, Sequences

CONSTANTS
  InitialBytes,   \* bytes the analog registers may hold at first
  MaxSpins,       \* the 1_000_000 polls of the calibration wait
  MaxResets       \* bound on warm resets

ASSUME BoundsAssumption ==
  /\ MaxSpins \in Nat
  /\ MaxResets \in Nat
  /\ InitialBytes \subseteq SUBSET (0 .. 7)

Blocks == {"bias", "mspi"}

\* I2C_MPLL_IR_CAL_RSTB_ADDR, I2C_MPLL_DIV_REG_ADDR, I2C_MPLL_DHREF_ADDR;
\* DREG_1P1 is in byte 0 of the bias block, DREG_1P1_PVT in byte 1.
Targets == {<<"bias", 0>>, <<"bias", 1>>, <<"mspi", 1>>, <<"mspi", 2>>, <<"mspi", 3>>}
Rstb == <<"mspi", 1>>
Div == <<"mspi", 2>>
Div400 == {0, 3, 4, 7}          \* (19 << 3) | 1
RstbBit == 5

\* Power, clocks and resets outside the bus, each one bit somewhere.
Facts == {"mspi_phy_xpd", "xpd_perif_i2c", "perif_i2c_rstb", "mpll_500m_en",
          "root_sel_0", "lp_i2cmst", "sel_160m", "conf1_other"}

-----------------------------------------------------------------------------
(* The program: what each function does, in order.                         *)

Op(do, block, addr, clear, set) ==
  [do |-> do, block |-> block, addr |-> addr, clear |-> clear, set |-> set]

Soc(clear, set) == Op("soc", "bias", 0, clear, set)
SelectBlock(block) == Op("select_block", block, 0, {}, {})
ReadByte(block, addr) == Op("read", block, addr, {}, {})
WriteByte(block, addr, clear, set) == Op("write", block, addr, clear, set)
Calibration(what) == Op(what, "mspi", 0, {}, {})

SetField(block, addr, msb, lsb, data) ==
  << ReadByte(block, addr), WriteByte(block, addr, lsb .. msb, data) >>

EnableBusUnclocked == << Soc({}, {"sel_160m"}), Soc({"conf1_other"}, {}) >>

EnableBus == << Soc({}, {"lp_i2cmst"}), Soc({}, {"sel_160m"}), Soc({"conf1_other"}, {}) >>

\* 10 is {1, 3}, at lsb 4 and at lsb 0.
SetBias == << SelectBlock("bias") >> \o SetField("bias", 0, 7, 4, {5, 7})
           \o SetField("bias", 1, 3, 0, {1, 3}) \o << SelectBlock("mspi") >>

Configure ==
  << ReadByte("mspi", 3), WriteByte("mspi", 3, {}, {4, 5}),
     ReadByte("mspi", 1), WriteByte("mspi", 1, {RstbBit}, {}),
     WriteByte("mspi", 1, {}, {RstbBit}),
     WriteByte("mspi", 2, 0 .. 7, Div400) >>

Bringup400LatchFirst ==
  << Soc({}, {"mspi_phy_xpd", "xpd_perif_i2c"}), Soc({}, {"mpll_500m_en", "root_sel_0"}) >>
  \o EnableBus \o SetBias
  \o << Calibration("calibration_start"), Calibration("calibration_wait"),
        Calibration("calibration_stop") >> \o Configure

Bringup400StartLate ==
  << Soc({}, {"mspi_phy_xpd", "xpd_perif_i2c"}), Soc({}, {"mpll_500m_en", "root_sel_0"}) >>
  \o EnableBus \o SetBias \o Configure
  \o << Calibration("calibration_start"), Calibration("calibration_wait"),
        Calibration("calibration_stop") >>

Bringup400 ==
  << Soc({}, {"mspi_phy_xpd", "xpd_perif_i2c"}), Soc({}, {"mpll_500m_en", "root_sel_0"}) >>
  \o EnableBus \o SetBias
  \o << Calibration("calibration_start") >> \o Configure
  \o << Calibration("calibration_wait"), Calibration("calibration_stop") >>

ReadMpllDiv == << SelectBlock("mspi"), ReadByte("mspi", 2) >>
ReadBiasDreg1p1LeavesBias == << SelectBlock("bias"), ReadByte("bias", 0) >>
ReadBiasDreg1p1 == << SelectBlock("bias"), ReadByte("bias", 0), SelectBlock("mspi") >>

Program(f) == CASE f = "bringup_400"        -> Bringup400
                [] f = "read_mpll_div"      -> ReadMpllDiv
                [] f = "read_bias_dreg_1p1" -> ReadBiasDreg1p1
                [] f = "none"               -> << >>

-----------------------------------------------------------------------------
VARIABLES
  running,   \* the function that runs, or "none"
  pc,        \* its next operation
  issued,    \* its command is written, the answer not yet taken
  cur,       \* the byte last read, in a register of the hart
  spins,     \* polls of the calibration wait so far
  soc,       \* the facts that hold
  conf2,     \* ANA_CONF2: the blocks the bus is routed to
  busy,      \* the BUSY bit of I2C0_CTRL
  data,      \* the DATA field of I2C0_CTRL
  command,   \* the command the engine runs or ran last
  dev,       \* the bytes behind the bus
  calStop, calEnd,   \* mspi_cal_stop, mspi_cal_end
  pulsed,    \* history: RSTB has been low since the calibration was started
  up,        \* bringup_400 has returned since the last reset
  resets

hart == <<running, pc, issued, cur, spins, up, resets>>
engine == <<busy, data, command>>
calibration == <<calStop, calEnd, pulsed>>
vars == <<hart, soc, conf2, engine, dev, calibration>>

Doing(op) == running # "none" /\ pc <= Len(Program(running)) /\ Program(running)[pc].do = op
Current == Program(running)[pc]
Advance == pc' = pc + 1 /\ UNCHANGED <<running, up, resets>>

\* A diagnostic is for a bus that bringup_400 has set up.  The restart of a
\* hart takes milliseconds, a transaction microseconds: no call finds the
\* command of an interrupted one still running.
Call(f) == /\ running = "none"
           /\ ~busy
           /\ f # "bringup_400" => up
           /\ running' = f
           /\ pc' = 1
           /\ spins' = 0
           /\ issued' = FALSE
           /\ UNCHANGED <<cur, up, resets, soc, conf2, engine, dev, calibration>>

Return == /\ running # "none"
          /\ pc > Len(Program(running))
          /\ up' = (up \/ running = "bringup_400")
          /\ running' = "none"
          /\ UNCHANGED <<pc, issued, cur, spins, resets, soc, conf2, engine, dev, calibration>>

SetSoc == /\ Doing("soc")
          /\ soc' = (soc \ Current.clear) \cup Current.set
          /\ Advance
          /\ UNCHANGED <<issued, cur, spins, conf2, engine, dev, calibration>>

Select == /\ Doing("select_block")
          /\ conf2' = {Current.block}
          /\ Advance
          /\ UNCHANGED <<issued, cur, spins, soc, engine, dev, calibration>>

WaitIdle == ~busy

Transaction == Doing("read") \/ Doing("write")

\* wait_idle, then the command with its data.
Issue == /\ Transaction /\ ~issued
         /\ WaitIdle
         /\ issued' = TRUE
         /\ busy' = TRUE
         /\ command' = [write |-> Doing("write"), target |-> <<Current.block, Current.addr>>,
                        byte |-> (cur \ Current.clear) \cup Current.set]
         /\ UNCHANGED <<running, pc, cur, spins, up, resets, soc, conf2, data, dev, calibration>>

\* wait_idle again, then the byte a read was for.
FinishAtOnce == /\ Transaction /\ issued
                /\ cur' = IF Doing("read") THEN data ELSE cur
                /\ issued' = FALSE
                /\ Advance
                /\ UNCHANGED <<spins, soc, conf2, engine, dev, calibration>>

Finish == WaitIdle /\ FinishAtOnce

CalibrationStart == /\ Doing("calibration_start")
                    /\ calStop' = FALSE
                    /\ calEnd' \in {calEnd, FALSE}
                    /\ pulsed' = FALSE
                    /\ Advance
                    /\ UNCHANGED <<issued, cur, spins, soc, conf2, engine, dev>>

CalibrationPollForever ==
  /\ Doing("calibration_wait")
  /\ IF calEnd THEN Advance ELSE UNCHANGED <<running, pc, up, resets>>
  /\ UNCHANGED <<issued, cur, spins, soc, conf2, engine, dev, calibration>>

CalibrationPollLate ==
  /\ Doing("calibration_wait")
  /\ IF calEnd THEN spins' = spins ELSE spins' = spins + 1
  /\ IF calEnd \/ spins > MaxSpins THEN Advance
     ELSE UNCHANGED <<running, pc, up, resets>>
  /\ UNCHANGED <<issued, cur, soc, conf2, engine, dev, calibration>>

\* One poll: done, out of patience, or another spin.
CalibrationPoll == /\ Doing("calibration_wait")
                   /\ IF calEnd THEN spins' = spins ELSE spins' = spins + 1
                   /\ IF calEnd \/ spins' > MaxSpins THEN Advance
                      ELSE UNCHANGED <<running, pc, up, resets>>
                   /\ UNCHANGED <<issued, cur, soc, conf2, engine, dev, calibration>>

CalibrationStop == /\ Doing("calibration_stop")
                   /\ calStop' = TRUE
                   /\ Advance
                   /\ UNCHANGED <<issued, cur, spins, soc, conf2, engine, dev, calEnd, pulsed>>

-----------------------------------------------------------------------------
(* The hardware.                                                           *)

\* Without power or clock the handshake completes and nothing else happens.
Reaches == /\ {"xpd_perif_i2c", "lp_i2cmst", "sel_160m"} \subseteq soc
           /\ conf2 = {command.target[1]}

EngineCompletes ==
  /\ busy
  /\ busy' = FALSE
  /\ IF Reaches
     THEN IF command.write
          THEN dev' = [dev EXCEPT ![command.target] = command.byte] /\ UNCHANGED data
          ELSE data' = dev[command.target] /\ UNCHANGED dev
     ELSE data' \in {{}, 0 .. 7} /\ UNCHANGED dev
  /\ pulsed' = (pulsed \/ RstbBit \notin dev'[Rstb])
  /\ UNCHANGED <<hart, soc, conf2, command, calStop, calEnd>>

CalibrationEnds == /\ ~calStop /\ ~calEnd
                   /\ calEnd' = TRUE
                   /\ UNCHANGED <<hart, soc, conf2, engine, dev, calStop, pulsed>>

WarmReset == /\ resets < MaxResets
             /\ resets' = resets + 1
             /\ running' = "none"
             /\ up' = FALSE
             /\ UNCHANGED <<pc, issued, cur, spins, soc, conf2, engine, dev, calibration>>

Init == /\ running = "none" /\ pc = 1 /\ issued = FALSE /\ cur = {} /\ spins = 0
        /\ soc \in SUBSET Facts
        /\ conf2 \in {{}, {"mspi"}, Blocks}
        /\ busy = FALSE /\ data = {}
        /\ command = [write |-> FALSE, target |-> Div, byte |-> {}]
        /\ \E b \in InitialBytes : dev = [t \in Targets |-> b]
        /\ calStop \in BOOLEAN /\ calEnd \in BOOLEAN
        /\ pulsed = FALSE
        /\ up = FALSE
        /\ resets = 0

HartStep == \/ Return \/ SetSoc \/ Select \/ Issue \/ Finish
            \/ CalibrationStart \/ CalibrationPoll \/ CalibrationStop

Next == \/ \E f \in {"bringup_400", "read_mpll_div", "read_bias_dreg_1p1"} : Call(f)
        \/ HartStep \/ EngineCompletes \/ CalibrationEnds \/ WarmReset

Spec == Init /\ [][Next]_vars

\* The hart executes and the engine completes what it accepted.  That a
\* calibration ever ends is not assumed.
FairSpec == Spec /\ WF_vars(HartStep) /\ WF_vars(EngineCompletes)

-----------------------------------------------------------------------------
(* Properties.                                                             *)

\* The poll count, the program counter, the bytes and the routing stay in
\* their ranges: the wait for the calibration ends at its bound.
TypeOK == /\ running \in {"none", "bringup_400", "read_mpll_div", "read_bias_dreg_1p1"}
          /\ pc \in 1 .. Len(Bringup400) + 1
          /\ issued \in BOOLEAN /\ busy \in BOOLEAN /\ up \in BOOLEAN
          /\ cur \in SUBSET (0 .. 7) /\ data \in SUBSET (0 .. 7)
          /\ spins \in 0 .. MaxSpins + 1
          /\ soc \subseteq Facts
          /\ conf2 \in SUBSET Blocks
          /\ command \in [write : BOOLEAN, target : Targets, byte : SUBSET (0 .. 7)]
          /\ dev \in [Targets -> SUBSET (0 .. 7)]
          /\ calStop \in BOOLEAN /\ calEnd \in BOOLEAN /\ pulsed \in BOOLEAN
          /\ resets \in 0 .. MaxResets

\* A command in flight always has power, clock and the route to the block it
\* names: no read returns noise and no write is lost.
CommandsReach == busy => Reaches

\* Every call leaves the bus routed to the MSPI block, which the unqualified
\* read_byte and write_byte of regi2c.rs take for granted.
RoutedToMspi == up /\ running = "none" => conf2 = {"mspi"}

\* When the calibration is latched, the divider for 400 MHz is in force and
\* the calibration logic is out of reset.
LatchedAtTarget == [][~calStop /\ calStop' => dev[Div] = Div400 /\ RstbBit \in dev[Rstb]]_vars

\* The calibration logic is put in reset and released while the calibration
\* runs: RSTB never changes while it is stopped, and no calibration is
\* stopped that has not seen RSTB low since its own start.
RstbPulsedWhileStarted ==
  [][/\ (RstbBit \in dev[Rstb]) # (RstbBit \in dev'[Rstb]) => ~calStop
     /\ ~calStop /\ calStop' => pulsed]_vars

\* The writes of bringup_400, by their positions.  A write is done when the
\* engine has run it, which for one cut off by a warm reset is after the reset.
IsWrite(op) == op.do = "write"
FieldWrites == [n \in {m \in 1 .. Len(Bringup400) : IsWrite(Bringup400[m])} |-> Bringup400[n]]

Bus == INSTANCE AnalogBus
  WITH Writes <- FieldWrites,
       done <- {n \in DOMAIN FieldWrites : n < pc \/ (n = pc /\ issued /\ ~busy)}

\* The transactions implement single-step field writes on the analog bytes,
\* in order, and on the value each byte has at that moment.
ImplementsAnalogBus == Bus!Spec

\* bringup_400 returns, or the hart is reset, even if mspi_cal_end never
\* comes: "continue anyway".
BringupEnds == (running # "none") ~> (running = "none")

\* "PERIF_I2C_RSTB (bit 26) is release reset - set it once before the first
\* REGI2C transaction" (bringup_400, step 1).
EngineOutOfReset == busy => "perif_i2c_rstb" \in soc
=============================================================================
