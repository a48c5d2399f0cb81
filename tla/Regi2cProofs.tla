---------------------------- MODULE Regi2cProofs ----------------------------
(***************************************************************************)
(* Proofs about Regi2c: for every set of initial bytes, every bound on the *)
(* polls of the calibration wait and any number of warm resets, commands   *)
(* reach the block they name, the bus is left routed to the MSPI block,    *)
(* and the calibration is reset while it runs and latched at its target.   *)
(***************************************************************************)
EXTENDS Regi2c, TLAPS

Diagnostics == {"read_mpll_div", "read_bias_dreg_1p1"}
BusFacts == {"xpd_perif_i2c", "lp_i2cmst", "sel_160m"}
Byte == 0 .. 7

-----------------------------------------------------------------------------
(* What the program does at each of its positions.                         *)

\* The operations of bringup_400, one by one.
LEMMA Bringup400Ops ==
  /\ Len(Bringup400) = 20
  /\ Bringup400[1] = Soc({}, {"mspi_phy_xpd", "xpd_perif_i2c"})
  /\ Bringup400[2] = Soc({}, {"mpll_500m_en", "root_sel_0"})
  /\ Bringup400[3] = Soc({}, {"lp_i2cmst"})
  /\ Bringup400[4] = Soc({}, {"sel_160m"})
  /\ Bringup400[5] = Soc({"conf1_other"}, {})
  /\ Bringup400[6] = SelectBlock("bias")
  /\ Bringup400[7] = ReadByte("bias", 0)
  /\ Bringup400[8] = WriteByte("bias", 0, 4 .. 7, {5, 7})
  /\ Bringup400[9] = ReadByte("bias", 1)
  /\ Bringup400[10] = WriteByte("bias", 1, 0 .. 3, {1, 3})
  /\ Bringup400[11] = SelectBlock("mspi")
  /\ Bringup400[12] = Calibration("calibration_start")
  /\ Bringup400[13] = ReadByte("mspi", 3)
  /\ Bringup400[14] = WriteByte("mspi", 3, {}, {4, 5})
  /\ Bringup400[15] = ReadByte("mspi", 1)
  /\ Bringup400[16] = WriteByte("mspi", 1, {RstbBit}, {})
  /\ Bringup400[17] = WriteByte("mspi", 1, {}, {RstbBit})
  /\ Bringup400[18] = WriteByte("mspi", 2, Byte, Div400)
  /\ Bringup400[19] = Calibration("calibration_wait")
  /\ Bringup400[20] = Calibration("calibration_stop")
BY DEF Bringup400, EnableBus, SetBias, SetField, Configure, Byte

\* The operations of the two diagnostics.
LEMMA DiagnosticOps ==
  /\ Len(ReadMpllDiv) = 2
  /\ ReadMpllDiv[1] = SelectBlock("mspi") /\ ReadMpllDiv[2] = ReadByte("mspi", 2)
  /\ Len(ReadBiasDreg1p1) = 3
  /\ ReadBiasDreg1p1[1] = SelectBlock("bias") /\ ReadBiasDreg1p1[2] = ReadByte("bias", 0)
  /\ ReadBiasDreg1p1[3] = SelectBlock("mspi")
BY DEF ReadMpllDiv, ReadBiasDreg1p1

\* The lengths of the three functions.
LEMMA Lengths == /\ Len(Program("bringup_400")) = 20
                 /\ Len(Program("read_mpll_div")) = 2
                 /\ Len(Program("read_bias_dreg_1p1")) = 3
BY Bringup400Ops, DiagnosticOps DEF Program

Running == running \in {"bringup_400"} \cup Diagnostics
InProgram == /\ running = "bringup_400" => pc \in 1 .. 21
             /\ running = "read_mpll_div" => pc \in 1 .. 3
             /\ running = "read_bias_dreg_1p1" => pc \in 1 .. 4
At(n) == running = "bringup_400" /\ pc = n

\* The positions of the transactions, by the block they are for.
ForBias == \/ running = "bringup_400" /\ pc \in 7 .. 10
           \/ running = "read_bias_dreg_1p1" /\ pc = 2
ForMspi == \/ running = "bringup_400" /\ pc \in 13 .. 18
           \/ running = "read_mpll_div" /\ pc = 2

Target == <<Current.block, Current.addr>>

\* A function that has nothing left to do is past its last operation.
LEMMA PastEnd ==
  ASSUME Running, InProgram, pc > Len(Program(running))
  PROVE  \/ running = "bringup_400" /\ pc = 21
         \/ running = "read_mpll_div" /\ pc = 3
         \/ running = "read_bias_dreg_1p1" /\ pc = 4
<1> DEFINE n == Len(Program(running))
<1>n. pc > n  OBVIOUS
<1> HIDE DEF n
<1>1. CASE running = "bringup_400"
  <2>1. n = 20  BY <1>1, Lengths DEF n
  <2> QED BY <1>1, <1>n, <2>1 DEF InProgram
<1>2. CASE running = "read_mpll_div"
  <2>1. n = 2  BY <1>2, Lengths DEF n
  <2> QED BY <1>2, <1>n, <2>1 DEF InProgram
<1>3. CASE running = "read_bias_dreg_1p1"
  <2>1. n = 3  BY <1>3, Lengths DEF n
  <2> QED BY <1>3, <1>n, <2>1 DEF InProgram
<1> QED BY <1>1, <1>2, <1>3 DEF Running, Diagnostics

\* Where each kind of operation stands, and what it carries.
LEMMA Positions ==
  ASSUME Running, InProgram
  PROVE  /\ Doing("soc") =>
              /\ running = "bringup_400" /\ pc \in 1 .. 5
              /\ Current.set \subseteq Facts /\ Current.clear \cap BusFacts = {}
              /\ pc = 1 => "xpd_perif_i2c" \in Current.set
              /\ pc = 3 => "lp_i2cmst" \in Current.set
              /\ pc = 4 => "sel_160m" \in Current.set
         /\ Doing("select_block") =>
              \/ At(6) /\ Current.block = "bias"
              \/ At(11) /\ Current.block = "mspi"
              \/ running = "read_mpll_div" /\ pc = 1 /\ Current.block = "mspi"
              \/ running = "read_bias_dreg_1p1" /\ pc = 1 /\ Current.block = "bias"
              \/ running = "read_bias_dreg_1p1" /\ pc = 3 /\ Current.block = "mspi"
         /\ Transaction =>
              /\ Target \in Targets
              /\ Current.clear \subseteq Byte /\ Current.set \subseteq Byte
              /\ (ForBias /\ Current.block = "bias") \/ (ForMspi /\ Current.block = "mspi")
         /\ Doing("write") /\ Target = Rstb => At(16) \/ At(17)
         /\ At(16) => Doing("write") /\ Target = Rstb /\ Current.clear = {RstbBit}
                      /\ Current.set = {}
         /\ At(17) => Doing("write") /\ Target = Rstb /\ RstbBit \in Current.set
         /\ At(18) => Doing("write") /\ Target = Div /\ Current.clear = Byte
                      /\ Current.set = Div400
         /\ Doing("calibration_start") => At(12)
         /\ Doing("calibration_wait") => At(19)
         /\ Doing("calibration_stop") => At(20)
<1> USE DEF Doing, Transaction, Current, At, ForBias, ForMspi, Target, Soc,
            SelectBlock, ReadByte, WriteByte, Calibration, Op, Byte
<1>1. CASE running = "bringup_400"
  <2>1. Program(running) = Bringup400
    BY <1>1 DEF Program
  <2>2. pc \in 1 .. 21
    BY <1>1 DEF InProgram
  <2>3. CASE pc \in 1 .. 5
    <3>1. CASE pc = 1
      BY <1>1, <2>1, <3>1, Bringup400Ops DEF Facts, BusFacts
    <3>2. CASE pc = 2
      BY <1>1, <2>1, <3>2, Bringup400Ops DEF Facts, BusFacts
    <3>3. CASE pc = 3
      BY <1>1, <2>1, <3>3, Bringup400Ops DEF Facts, BusFacts
    <3>4. CASE pc = 4
      BY <1>1, <2>1, <3>4, Bringup400Ops DEF Facts, BusFacts
    <3>5. CASE pc = 5
      BY <1>1, <2>1, <3>5, Bringup400Ops DEF Facts, BusFacts
    <3> QED BY <2>3, <3>1, <3>2, <3>3, <3>4, <3>5
  <2>4. CASE pc \in 6 .. 7
    <3>1. CASE pc = 6
      BY <1>1, <2>1, <3>1, Bringup400Ops
    <3>2. CASE pc = 7
      BY <1>1, <2>1, <3>2, Bringup400Ops DEF Targets, Rstb
    <3> QED BY <2>4, <3>1, <3>2
  <2>5. CASE pc = 8
    BY <1>1, <2>1, <2>5, Bringup400Ops DEF Targets, Rstb
  <2>6. CASE pc = 9
    BY <1>1, <2>1, <2>6, Bringup400Ops DEF Targets, Rstb
  <2>7. CASE pc = 10
    BY <1>1, <2>1, <2>7, Bringup400Ops DEF Targets, Rstb
  <2>8. CASE pc \in 11 .. 12
    BY <1>1, <2>1, <2>8, Bringup400Ops
  <2>9. CASE pc = 13
    BY <1>1, <2>1, <2>9, Bringup400Ops DEF Targets, Rstb
  <2>10. CASE pc = 14
    BY <1>1, <2>1, <2>10, Bringup400Ops DEF Targets, Rstb
  <2>11. CASE pc = 15
    BY <1>1, <2>1, <2>11, Bringup400Ops DEF Targets, Rstb
  <2>12. CASE pc = 16
    BY <1>1, <2>1, <2>12, Bringup400Ops DEF Targets, Rstb, RstbBit
  <2>13. CASE pc = 17
    BY <1>1, <2>1, <2>13, Bringup400Ops DEF Targets, Rstb, RstbBit
  <2>14. CASE pc = 18
    BY <1>1, <2>1, <2>14, Bringup400Ops DEF Targets, Rstb, Div, Div400
  <2>15. CASE pc \in 19 .. 21
    <3>1. CASE pc = 19
      BY <1>1, <2>1, <3>1, Bringup400Ops
    <3>2. CASE pc = 20
      BY <1>1, <2>1, <3>2, Bringup400Ops
    <3>3. CASE pc = 21
      <4>1. \A op : ~Doing(op)
        <5> DEFINE n == Len(Program(running))
        <5>1. n = 20
          BY <2>1, Bringup400Ops
        <5>2. \A op : Doing(op) => pc <= n
          OBVIOUS
        <5> HIDE DEF n, Doing
        <5> QED BY <3>3, <5>1, <5>2
      <4> HIDE DEF Doing
      <4> QED BY <3>3, <4>1
    <3> QED BY <2>15, <3>1, <3>2, <3>3
  <2> QED BY <2>2, <2>3, <2>4, <2>5, <2>6, <2>7, <2>8, <2>9, <2>10, <2>11, <2>12, <2>13,
             <2>14, <2>15
<1>2. CASE running = "read_mpll_div"
  <2>1. Program(running) = ReadMpllDiv
    BY <1>2 DEF Program
  <2>2. pc \in 1 .. 3
    BY <1>2 DEF InProgram
  <2> QED BY <1>2, <2>1, <2>2, DiagnosticOps DEF Targets, Rstb
<1>3. CASE running = "read_bias_dreg_1p1"
  <2>1. Program(running) = ReadBiasDreg1p1
    BY <1>3 DEF Program
  <2>2. pc \in 1 .. 4
    BY <1>3 DEF InProgram
  <2> QED BY <1>3, <2>1, <2>2, DiagnosticOps DEF Targets, Rstb
<1> QED BY <1>1, <1>2, <1>3 DEF Running, Diagnostics

-----------------------------------------------------------------------------
(* The inductive invariant.                                                *)

\* The type invariant, with the length of the program in figures.
Others == /\ running \in {"none"} \cup {"bringup_400"} \cup Diagnostics
          /\ issued \in BOOLEAN /\ busy \in BOOLEAN /\ up \in BOOLEAN
          /\ cur \in SUBSET Byte /\ data \in SUBSET Byte
          /\ soc \subseteq Facts
          /\ conf2 \in SUBSET Blocks
          /\ command \in [write : BOOLEAN, target : Targets, byte : SUBSET Byte]
          /\ dev \in [Targets -> SUBSET Byte]
          /\ calStop \in BOOLEAN /\ calEnd \in BOOLEAN /\ pulsed \in BOOLEAN
Counts == /\ pc \in 1 .. 21
          /\ spins \in 0 .. MaxSpins + 1
          /\ resets \in 0 .. MaxResets

OneCommand == running # "none" /\ issued => ForBias \/ ForMspi
InFlight == running # "none" /\ busy => issued

\* The commands that matter later carry what bringup_400 means them to.
Carried ==
  /\ At(16) /\ busy => command.write /\ command.target = Rstb /\ RstbBit \notin command.byte
  /\ At(17) /\ busy => command.write /\ command.target = Rstb /\ RstbBit \in command.byte
  /\ At(18) /\ busy => command.write /\ command.target = Div /\ command.byte = Div400

Powered ==
  /\ running = "bringup_400" =>
       /\ pc > 1 => "xpd_perif_i2c" \in soc
       /\ pc > 3 => "lp_i2cmst" \in soc
       /\ pc > 4 => "sel_160m" \in soc
  /\ up \/ running \in Diagnostics => BusFacts \subseteq soc

Routed ==
  /\ running = "bringup_400" => /\ pc \in 7 .. 11 => conf2 = {"bias"}
                                /\ pc > 11 => conf2 = {"mspi"}
  /\ running = "read_mpll_div" /\ pc > 1 => conf2 = {"mspi"}
  /\ running = "read_bias_dreg_1p1" => /\ pc \in 2 .. 3 => conf2 = {"bias"}
                                       /\ pc > 3 => conf2 = {"mspi"}

Patience == running = "bringup_400" /\ pc <= 19 => spins <= MaxSpins

Calibrating ==
  /\ running = "bringup_400" /\ pc \in 13 .. 20 => ~calStop
  /\ busy /\ command.write /\ command.target = Rstb => ~calStop

Latched ==
  running = "bringup_400" =>
    /\ pc > 16 \/ (pc = 16 /\ issued /\ ~busy) => pulsed
    /\ pc > 17 \/ (pc = 17 /\ issued /\ ~busy) => RstbBit \in dev[Rstb]
    /\ pc > 18 \/ (pc = 18 /\ issued /\ ~busy) => dev[Div] = Div400

IInv == /\ Others /\ Counts /\ InProgram /\ OneCommand /\ InFlight /\ Carried
        /\ Powered /\ Routed /\ CommandsReach /\ RoutedToMspi
        /\ Patience /\ Calibrating /\ Latched

\* It is the type invariant.
LEMMA TypedIsTypeOK == Others /\ Counts => TypeOK
<1> DEFINE n == Len(Bringup400)
<1>1. n = 20
  BY Bringup400Ops
<1>2. Others /\ Counts /\ pc \in 1 .. n + 1 => TypeOK
  BY DEF TypeOK, Others, Counts, Diagnostics, Byte
<1> HIDE DEF n
<1> QED BY <1>1, <1>2 DEF Counts

-----------------------------------------------------------------------------
(* The initial states, and the steps.                                      *)

\* The bounds, without the bytes.
LEMMA Bounds == MaxSpins \in Nat /\ MaxResets \in Nat
BY BoundsAssumption

\* The invariant holds initially.
LEMMA InitIInv == Init => IInv
<1> SUFFICES ASSUME Init PROVE IInv  OBVIOUS
<1>1. dev \in [Targets -> SUBSET Byte]
  BY BoundsAssumption DEF Init, Byte
<1>2. command \in [write : BOOLEAN, target : Targets, byte : SUBSET Byte]
  BY DEF Init, Targets, Div
<1>3. Others
  BY <1>1, <1>2 DEF Init, Others, Blocks, Diagnostics
<1>4. Counts
  BY Bounds DEF Init, Counts
<1> QED BY <1>3, <1>4
        DEF Init, IInv, InProgram, OneCommand, InFlight, Carried, At, Powered, Routed,
            CommandsReach, RoutedToMspi, Patience, Calibrating, Latched, Diagnostics

\* A call starts at position 1, on an idle engine.
LEMMA CallIInv == ASSUME IInv, NEW f \in {"bringup_400"} \cup Diagnostics, Call(f) PROVE IInv'
<1> USE DEF IInv, Call, hart, engine, calibration
<1>1. Others'
  BY DEF Others
<1>2. (/\ InProgram /\ OneCommand /\ InFlight /\ Carried
      /\ Powered /\ Routed /\ CommandsReach /\ RoutedToMspi /\ Calibrating /\ Latched)'
  BY DEF InProgram, OneCommand, InFlight, Carried, Powered, Diagnostics, Routed,
         CommandsReach, RoutedToMspi, Calibrating, Latched
<1>3. (Counts /\ Patience)'
  BY Bounds DEF Counts, Patience
<1> QED BY <1>1, <1>2, <1>3

\* A function that returns has routed the bus to the MSPI block.
LEMMA ReturnIInv == ASSUME IInv, Return PROVE IInv'
<1> USE DEF IInv, Return, hart, engine, calibration
<1>1. \/ running = "bringup_400" /\ pc = 21
      \/ running = "read_mpll_div" /\ pc = 3
      \/ running = "read_bias_dreg_1p1" /\ pc = 4
  BY PastEnd DEF Others, Running
<1>2. (/\ Others /\ Counts /\ InProgram /\ OneCommand /\ InFlight /\ Carried
      /\ Routed /\ CommandsReach /\ Patience /\ Calibrating /\ Latched)'
  BY DEF Others, Counts, InProgram, OneCommand, InFlight, Carried, At, Routed, CommandsReach,
         Reaches, Patience, Calibrating, Latched
<1>3. (Powered /\ RoutedToMspi)'
  BY <1>1 DEF Powered, Diagnostics, BusFacts, RoutedToMspi, Routed
<1> QED BY <1>2, <1>3

\* A reset leaves an idle hart; what it cut off stays powered and routed.
LEMMA WarmResetIInv == ASSUME IInv, WarmReset PROVE IInv'
<1> USE DEF IInv, WarmReset, hart, engine, calibration
<1>1. (/\ Others /\ InProgram /\ OneCommand /\ InFlight /\ Carried /\ Powered
      /\ Routed /\ CommandsReach /\ RoutedToMspi /\ Patience /\ Calibrating /\ Latched)'
  BY DEF Others, InProgram, OneCommand, InFlight, Carried, At, Powered, Diagnostics, Routed,
         CommandsReach, Reaches, RoutedToMspi, Patience, Calibrating, Latched
<1>2. Counts'
  BY Bounds DEF Counts
<1> QED BY <1>1, <1>2

\* The calibration's end concerns only the poll for it.
LEMMA CalibrationEndsIInv == ASSUME IInv, CalibrationEnds PROVE IInv'
<1> USE DEF IInv, CalibrationEnds, hart, engine, calibration
<1>1. (/\ Others /\ Counts /\ InProgram /\ OneCommand /\ InFlight /\ Carried /\ Powered
      /\ Routed /\ CommandsReach /\ RoutedToMspi /\ Patience /\ Calibrating /\ Latched)'
  BY DEF Others, Counts, InProgram, OneCommand, ForBias, ForMspi, InFlight, Carried, At,
         Powered, Routed, CommandsReach, Reaches, RoutedToMspi, Patience, Calibrating, Latched
<1> QED BY <1>1

\* Power and clocks are switched before the first command, none off.
LEMMA SetSocIInv == ASSUME IInv, SetSoc PROVE IInv'
<1> USE DEF IInv, SetSoc, Advance, hart, engine, calibration
<1>1. Running
  BY DEF Doing, Transaction, Others, Running
<1>2. /\ running = "bringup_400" /\ pc \in 1 .. 5
      /\ Current.set \subseteq Facts /\ Current.clear \cap BusFacts = {}
      /\ pc = 1 => "xpd_perif_i2c" \in Current.set
      /\ pc = 3 => "lp_i2cmst" \in Current.set
      /\ pc = 4 => "sel_160m" \in Current.set
  BY <1>1, Positions
<1>3. ~issued /\ ~busy
  BY <1>1, <1>2 DEF Others, OneCommand, ForBias, ForMspi, InFlight, Running, Diagnostics
<1>4. (InFlight /\ RoutedToMspi)'
  BY DEF InFlight, RoutedToMspi
<1>5. (/\ Others /\ Counts /\ InProgram /\ Powered
      /\ Routed /\ Patience /\ Calibrating /\ Latched)'
  BY <1>2 DEF Others, Counts, InProgram, Powered, BusFacts, Routed, Patience, Calibrating,
         Latched
<1>6. (OneCommand /\ Carried /\ CommandsReach)'
  BY <1>3 DEF OneCommand, Carried, CommandsReach
<1> QED BY <1>4, <1>5, <1>6

\* The route is changed between commands only.
LEMMA SelectIInv == ASSUME IInv, Select PROVE IInv'
<1> USE DEF IInv, Select, Advance, hart, engine, calibration
<1>1. Running
  BY DEF Doing, Transaction, Others, Running
<1>2. \/ running = "bringup_400" /\ pc = 6 /\ Current.block = "bias"
      \/ running = "bringup_400" /\ pc = 11 /\ Current.block = "mspi"
      \/ running = "read_mpll_div" /\ pc = 1 /\ Current.block = "mspi"
      \/ running = "read_bias_dreg_1p1" /\ pc = 1 /\ Current.block = "bias"
      \/ running = "read_bias_dreg_1p1" /\ pc = 3 /\ Current.block = "mspi"
  BY <1>1, Positions DEF At
<1>3. ~issued /\ ~busy
  BY <1>1, <1>2 DEF Others, OneCommand, ForBias, ForMspi, InFlight, Running, Diagnostics
<1>4. InFlight'
  BY DEF InFlight
<1>5. (/\ Others /\ Counts /\ InProgram /\ Powered /\ Routed
      /\ RoutedToMspi /\ Patience /\ Calibrating /\ Latched)'
  BY <1>2 DEF Others, Blocks, Counts, InProgram, Powered, Routed, RoutedToMspi, Patience,
         Calibrating, Latched
<1>6. (OneCommand /\ Carried /\ CommandsReach)'
  BY <1>3 DEF OneCommand, Carried, CommandsReach
<1> QED BY <1>4, <1>5, <1>6

\* A command is written for the block the bus is routed to, with its power on.
LEMMA IssueIInv == ASSUME IInv, Issue PROVE IInv'
<1> USE DEF IInv, Issue, WaitIdle, hart, engine, calibration
<1>1. Running
  BY DEF Doing, Transaction, Others, Running
<1>2. /\ <<Current.block, Current.addr>> \in Targets
      /\ Current.clear \subseteq Byte /\ Current.set \subseteq Byte
      /\ (ForBias /\ Current.block = "bias") \/ (ForMspi /\ Current.block = "mspi")
  BY <1>1, Positions DEF Target
<1>3. /\ running # "none" /\ ~busy
      /\ Doing("write") /\ <<Current.block, Current.addr>> = Rstb
           => running = "bringup_400" /\ pc \in 16 .. 17
  BY <1>1, Positions DEF Target, At, Running, Diagnostics
<1>4. Doing("write") \in BOOLEAN
  BY DEF Doing
<1>5. /\ At(16) => /\ Doing("write") /\ <<Current.block, Current.addr>> = Rstb
                   /\ RstbBit \notin (cur \ Current.clear) \cup Current.set
      /\ At(17) => /\ Doing("write") /\ <<Current.block, Current.addr>> = Rstb
                   /\ RstbBit \in Current.set
      /\ At(18) => /\ Doing("write") /\ <<Current.block, Current.addr>> = Div
                   /\ (cur \ Current.clear) \cup Current.set = Div400
  <2>1. cur \subseteq Byte
    BY DEF Others
  <2> QED BY <1>1, <2>1, Positions DEF Target
<1>6. BusFacts \subseteq soc /\ conf2 = {Current.block}
  BY <1>1, <1>2 DEF ForBias, ForMspi, Powered, Routed, BusFacts, Diagnostics
<1>7. (/\ Counts /\ InProgram /\ InFlight /\ Powered
      /\ Routed /\ RoutedToMspi /\ Patience /\ Latched)'
  BY DEF Counts, InProgram, InFlight, Powered, Routed, RoutedToMspi, Patience, Latched
<1>8. OneCommand'
  BY <1>2 DEF OneCommand, ForBias, ForMspi
<1>9. Others'
  BY <1>2, <1>4 DEF Others
<1>10. Calibrating'
  BY <1>3 DEF Calibrating
<1>11. Carried'
  BY <1>5 DEF Carried, At
<1>12. CommandsReach'
  BY <1>6 DEF CommandsReach, Reaches, BusFacts
<1> QED BY <1>7, <1>8, <1>9, <1>10, <1>11, <1>12

\* The answer is taken when the engine is done; the hart moves on.
LEMMA FinishIInv == ASSUME IInv, Finish PROVE IInv'
<1> USE DEF IInv, Finish, FinishAtOnce, WaitIdle, Advance, hart, engine, calibration
<1>1. Running
  BY DEF Doing, Transaction, Others, Running
<1>2. ForBias \/ ForMspi
  BY <1>1, Positions
<1>3. (Others /\ OneCommand /\ InFlight /\ Carried /\ CommandsReach /\ RoutedToMspi)'
  BY DEF Others, OneCommand, InFlight, Carried, CommandsReach, RoutedToMspi
<1>4. (Counts /\ InProgram /\ Powered /\ Routed /\ Patience /\ Calibrating /\ Latched)'
  BY <1>2 DEF Counts, ForBias, ForMspi, InProgram, Powered, Routed, Patience, Calibrating,
         Latched
<1> QED BY <1>3, <1>4

\* The calibration is started between the routing and the configuration.
LEMMA CalibrationStartIInv == ASSUME IInv, CalibrationStart PROVE IInv'
<1> USE DEF IInv, CalibrationStart, Advance, hart, engine, calibration
<1>1. Running
  BY DEF Doing, Transaction, Others, Running
<1>2. running = "bringup_400" /\ pc = 12
  BY <1>1, Positions DEF At
<1>3. ~issued /\ ~busy
  BY <1>1, <1>2 DEF Others, OneCommand, ForBias, ForMspi, InFlight, Running, Diagnostics
<1>4. (Others /\ InFlight /\ CommandsReach /\ RoutedToMspi /\ Calibrating)'
  BY DEF Others, InFlight, CommandsReach, Reaches, RoutedToMspi, Calibrating
<1>5. (Counts /\ InProgram /\ Powered /\ Routed /\ Patience /\ Latched)'
  BY <1>2 DEF Counts, InProgram, Powered, Routed, Patience, Latched
<1>6. (OneCommand /\ Carried)'
  BY <1>3 DEF OneCommand, Carried
<1> QED BY <1>4, <1>5, <1>6

\* The calibration is latched after the last command has completed.
LEMMA CalibrationStopIInv == ASSUME IInv, CalibrationStop PROVE IInv'
<1> USE DEF IInv, CalibrationStop, Advance, hart, engine, calibration
<1>1. Running
  BY DEF Doing, Transaction, Others, Running
<1>2. running = "bringup_400" /\ pc = 20
  BY <1>1, Positions DEF At
<1>3. ~issued /\ ~busy
  BY <1>1, <1>2 DEF Others, OneCommand, ForBias, ForMspi, InFlight, Running, Diagnostics
<1>4. (Others /\ InFlight /\ CommandsReach /\ RoutedToMspi)'
  BY DEF Others, InFlight, CommandsReach, Reaches, RoutedToMspi
<1>5. (Counts /\ InProgram /\ Powered /\ Routed /\ Patience /\ Latched)'
  BY <1>2 DEF Counts, InProgram, Powered, Routed, Patience, Latched
<1>6. Calibrating'
  BY <1>2, <1>3 DEF Calibrating
<1>7. (OneCommand /\ Carried)'
  BY <1>3 DEF OneCommand, Carried
<1> QED BY <1>4, <1>5, <1>6, <1>7

\* The poll gives up after MaxSpins spins and goes on.
LEMMA CalibrationPollIInv == ASSUME IInv, CalibrationPoll PROVE IInv'
<1> USE DEF IInv, CalibrationPoll, Advance, hart, engine, calibration
<1>1. Running
  BY DEF Doing, Transaction, Others, Running
<1>2. running = "bringup_400" /\ pc = 19
  BY <1>1, Positions DEF At
<1>3. ~issued /\ ~busy
  BY <1>1, <1>2 DEF Others, OneCommand, ForBias, ForMspi, InFlight, Running, Diagnostics
<1>4. (Others /\ InFlight /\ CommandsReach /\ RoutedToMspi)'
  BY DEF Others, InFlight, CommandsReach, Reaches, RoutedToMspi
<1>5. (InProgram /\ Powered /\ Routed /\ Calibrating /\ Latched)'
  BY <1>2 DEF InProgram, Powered, Routed, Calibrating, Latched
<1>6. (Counts /\ Patience)'
  BY <1>2, Bounds DEF Counts, Patience
<1>7. (OneCommand /\ Carried)'
  BY <1>3 DEF OneCommand, Carried
<1> QED BY <1>4, <1>5, <1>6, <1>7

\* The engine runs the command it was given on the block it names.
LEMMA EngineCompletesIInv == ASSUME IInv, EngineCompletes PROVE IInv'
<1> USE DEF IInv, EngineCompletes, hart, engine, calibration
<1>1. /\ Reaches
      /\ dev' = IF command.write THEN [dev EXCEPT ![command.target] = command.byte] ELSE dev
      /\ data' = IF command.write THEN data ELSE dev[command.target]
  BY DEF CommandsReach
<1>2. \/ running # "bringup_400" \/ pc < 16
      \/ pc = 16 /\ pulsed'
      \/ pc = 17 /\ RstbBit \in dev'[Rstb]
      \/ pc = 18 /\ dev'[Rstb] = dev[Rstb] /\ dev'[Div] = Div400
  <2>1. Rstb \in Targets /\ Div \in Targets /\ Rstb # Div
    BY DEF Rstb, Div, Targets
  <2>2. dev \in [Targets -> SUBSET Byte]
    BY DEF Others
  <2>3. running = "bringup_400" => pc \in 1 .. 18
    BY DEF Others, Counts, InFlight, OneCommand, ForBias, ForMspi
  <2>4. ASSUME At(16) PROVE pulsed'
    <3>1. dev'[Rstb] = command.byte /\ RstbBit \notin command.byte
      BY <1>1, <2>1, <2>2, <2>4 DEF Carried
    <3> QED BY <3>1
  <2>5. ASSUME At(17) PROVE RstbBit \in dev'[Rstb]
    BY <1>1, <2>1, <2>2, <2>5 DEF Carried
  <2>6. ASSUME At(18) PROVE dev'[Rstb] = dev[Rstb] /\ dev'[Div] = Div400
    BY <1>1, <2>1, <2>2, <2>6 DEF Carried
  <2> QED BY <2>3, <2>4, <2>5, <2>6 DEF At
<1>3. (/\ Counts /\ InProgram /\ OneCommand /\ InFlight /\ Carried /\ Powered
      /\ Routed /\ CommandsReach /\ RoutedToMspi /\ Patience /\ Calibrating)'
  BY DEF Counts, InProgram, OneCommand, ForBias, ForMspi, InFlight, Carried, Powered, Routed,
         CommandsReach, RoutedToMspi, Patience, Calibrating
<1>4. Others'
  BY <1>1 DEF Others
<1>5. pulsed => pulsed'
  OBVIOUS
<1>6. UNCHANGED <<running, pc, issued>>
  OBVIOUS
<1>7. Latched'
  <2> SUFFICES ASSUME running = "bringup_400" PROVE Latched'
    BY <1>6 DEF Latched
  <2>1. CASE pc < 16
    BY <1>6, <2>1 DEF Latched, Counts
  <2>2. CASE pc = 16
    BY <1>2, <1>6, <2>2 DEF Latched
  <2>3. CASE pc = 17
    BY <1>2, <1>5, <1>6, <2>3 DEF Latched
  <2>4. CASE pc = 18
    BY <1>2, <1>5, <1>6, <2>4 DEF Latched
  <2>5. pc < 16 \/ pc \in 16 .. 18
    BY <1>2 DEF Counts
  <2> QED BY <2>1, <2>2, <2>3, <2>4, <2>5
<1> QED BY <1>3, <1>4, <1>7

-----------------------------------------------------------------------------
(* The theorems.                                                           *)

\* Every step of the hart, the bus and the calibration keeps the invariant.
LEMMA StepIInv == IInv /\ [Next]_vars => IInv'
<1> SUFFICES ASSUME IInv, [Next]_vars PROVE IInv'  OBVIOUS
<1>1. ASSUME NEW f \in {"bringup_400", "read_mpll_div", "read_bias_dreg_1p1"}, Call(f) PROVE IInv'
  BY <1>1, CallIInv DEF Diagnostics
<1>2. CASE Return             BY <1>2, ReturnIInv
<1>3. CASE SetSoc             BY <1>3, SetSocIInv
<1>4. CASE Select             BY <1>4, SelectIInv
<1>5. CASE Issue              BY <1>5, IssueIInv
<1>6. CASE Finish             BY <1>6, FinishIInv
<1>7. CASE CalibrationStart   BY <1>7, CalibrationStartIInv
<1>8. CASE CalibrationPoll    BY <1>8, CalibrationPollIInv
<1>9. CASE CalibrationStop    BY <1>9, CalibrationStopIInv
<1>10. CASE EngineCompletes   BY <1>10, EngineCompletesIInv
<1>11. CASE CalibrationEnds   BY <1>11, CalibrationEndsIInv
<1>12. CASE WarmReset         BY <1>12, WarmResetIInv
<1>13. CASE UNCHANGED vars
  BY <1>13 DEF IInv, vars, hart, engine, calibration, Others, Counts, InProgram, OneCommand,
               ForBias, ForMspi, InFlight, Carried, At, Powered, Routed, CommandsReach, Reaches,
               RoutedToMspi, Patience, Calibrating, Latched
<1> QED BY <1>1, <1>2, <1>3, <1>4, <1>5, <1>6, <1>7, <1>8, <1>9, <1>10, <1>11, <1>12, <1>13
        DEF Next, HartStep

\* The invariant holds throughout.
LEMMA Invariance == Spec => []IInv
<1>1. Init => IInv
  BY InitIInv
<1>2. IInv /\ [Next]_vars => IInv'
  BY StepIInv
<1> QED BY <1>1, <1>2, PTL DEF Spec

\* The variables keep their types; in particular the wait for the calibration
\* (calibration_wait's spin limit) stops at its bound, whatever it is.
THEOREM TypeCorrect == Spec => []TypeOK
<1>1. IInv => TypeOK
  BY TypedIsTypeOK DEF IInv
<1> QED BY <1>1, Invariance, PTL

\* No command of regi2c.rs meets a block that is unpowered, unclocked or not
\* routed, from any state an earlier boot left, over any number of resets.
THEOREM CommandsAlwaysReach == Spec => []CommandsReach
<1>1. IInv => CommandsReach
  BY DEF IInv
<1> QED BY <1>1, Invariance, PTL

\* Between calls the bus is routed to the MSPI block (select_block's callers
\* restore the route), as the helpers without a block parameter assume.
THEOREM AlwaysRoutedBack == Spec => []RoutedToMspi
<1>1. IInv => RoutedToMspi
  BY DEF IInv
<1> QED BY <1>1, Invariance, PTL

\* The calibration is latched at the end of bringup_400 alone.
LEMMA LatchingPosition ==
  ASSUME IInv, [Next]_vars, ~calStop, calStop' PROVE At(20)
<1>1. CalibrationStop
  BY DEF Next, HartStep, Call, Return, SetSoc, Select, Issue, Finish, FinishAtOnce,
         CalibrationStart, CalibrationPoll, EngineCompletes, CalibrationEnds, WarmReset,
         vars, calibration
<1>2. Running
  BY <1>1 DEF CalibrationStop, Doing, IInv, Others, Running
<1> QED BY <1>1, <1>2, Positions DEF CalibrationStop, IInv

\* bringup_400 latches the calibration only with the 400 MHz divider in force
\* and the calibration logic out of reset, whether the wait ended in time or not.
THEOREM LatchIsAtTarget == Spec => LatchedAtTarget
<1>1. IInv /\ [Next]_vars => (~calStop /\ calStop' => dev[Div] = Div400 /\ RstbBit \in dev[Rstb])
  BY LatchingPosition DEF IInv, Latched, At
<1> QED BY <1>1, Invariance, PTL DEF Spec, LatchedAtTarget

\* The reset of the calibration logic (RSTB low and high again in bringup_400)
\* takes effect while the calibration runs, never before it or after, and none
\* is latched that has not been reset since it was started.
THEOREM ResetPulseWhileStarted == Spec => RstbPulsedWhileStarted
<1>0. IInv /\ [Next]_vars => (~calStop /\ calStop' => pulsed)
  BY LatchingPosition DEF IInv, Latched, At
<1>1. IInv /\ [Next]_vars => ((RstbBit \in dev[Rstb]) # (RstbBit \in dev'[Rstb]) => ~calStop)
  <2> SUFFICES ASSUME IInv, [Next]_vars, dev'[Rstb] # dev[Rstb]
               PROVE  ~calStop
    OBVIOUS
  <2>1. EngineCompletes /\ command.write /\ command.target = Rstb
    <3>1. EngineCompletes
      BY DEF Next, HartStep, Call, Return, SetSoc, Select, Issue, Finish, FinishAtOnce,
             CalibrationStart, CalibrationPoll, CalibrationStop, CalibrationEnds, WarmReset, vars
    <3>2. Rstb \in Targets /\ dev \in [Targets -> SUBSET Byte]
      BY DEF IInv, Others, Rstb, Targets
    <3> QED BY <3>1, <3>2 DEF EngineCompletes
  <2> QED BY <2>1 DEF IInv, Calibrating, EngineCompletes
<1> QED BY <1>0, <1>1, Invariance, PTL DEF Spec, RstbPulsedWhileStarted

-----------------------------------------------------------------------------
(* The transactions implement single-step field writes.                    *)

\* Where bringup_400 writes, and the reads whose byte a write starts from.
WritePositions == {8, 10, 14, 16, 17, 18}
ReadPositions == {7, 9, 13, 15}
TargetAt(n) == <<Bringup400[n].block, Bringup400[n].addr>>
Updated(byte, n) == (byte \ Bringup400[n].clear) \cup Bringup400[n].set

\* The reads and writes stand at these positions.
LEMMA BringupReadsAndWrites ==
  /\ \A n \in 1 .. 20 : /\ Bringup400[n].do = "write" <=> n \in WritePositions
                        /\ Bringup400[n].do = "read" <=> n \in ReadPositions
  /\ \A n \in ReadPositions : /\ Bringup400[n].block = Bringup400[n + 1].block
                              /\ Bringup400[n].addr = Bringup400[n + 1].addr
<1> USE DEF WritePositions, ReadPositions, Soc, SelectBlock, ReadByte, WriteByte,
            Calibration, Op
<1>1. ASSUME NEW n \in 1 .. 20
      PROVE  /\ Bringup400[n].do = "write" <=> n \in WritePositions
             /\ Bringup400[n].do = "read" <=> n \in ReadPositions
  <2>1. CASE n \in 1 .. 6
    BY <2>1, Bringup400Ops
  <2>2. CASE n \in 7 .. 10
    BY <2>2, Bringup400Ops
  <2>3. CASE n \in 11 .. 15
    BY <2>3, Bringup400Ops
  <2>4. CASE n \in 16 .. 20
    BY <2>4, Bringup400Ops
  <2> QED BY <2>1, <2>2, <2>3, <2>4
<1>2. ASSUME NEW n \in ReadPositions
      PROVE  /\ Bringup400[n].block = Bringup400[n + 1].block
             /\ Bringup400[n].addr = Bringup400[n + 1].addr
  BY Bringup400Ops
<1> QED BY <1>1, <1>2

\* The writes of the abstract list are these.
LEMMA WritesOfBringup == DOMAIN FieldWrites = WritePositions
<1> DEFINE n == Len(Bringup400)
<1>1. n = 20
  BY Bringup400Ops
<1>2. DOMAIN FieldWrites = {m \in 1 .. n : IsWrite(Bringup400[m])}
  BY DEF FieldWrites
<1> HIDE DEF n
<1> QED BY <1>1, <1>2, BringupReadsAndWrites DEF WritePositions, IsWrite

\* A command on the bus is the write of its position, on the byte as it is.
Underway ==
  busy => /\ issued
          /\ command.write <=> pc \in WritePositions
          /\ command.write => /\ command.target = TargetAt(pc)
                              /\ command.byte = Updated(dev[TargetAt(pc)], pc)

\* A byte read for a write is still the byte of the register when it is used.
Fresh ==
  running = "bringup_400" =>
    /\ pc \in ReadPositions /\ busy => command.target = TargetAt(pc + 1)
    /\ pc \in ReadPositions /\ issued /\ ~busy => data = dev[TargetAt(pc + 1)]
    /\ pc \in {8, 10, 14, 16} /\ ~issued => cur = dev[TargetAt(pc)]
    /\ pc = 16 /\ busy => command.byte = cur \ {RstbBit}
    /\ pc = 16 /\ issued /\ ~busy => dev[Rstb] = cur \ {RstbBit}
    /\ pc = 17 /\ ~issued => dev[Rstb] = cur \ {RstbBit}

\* The read or write at a position, and the byte it is for.
LEMMA TransactionAt ==
  ASSUME Running, InProgram, Transaction
  PROVE  /\ Doing("write") <=> pc \in WritePositions
         /\ \/ running = "bringup_400" /\ pc \in ReadPositions \cup WritePositions
            \/ running \in Diagnostics /\ pc = 2
         /\ Doing("read") => ~Doing("write")
         /\ running = "bringup_400" /\ pc \in WritePositions =>
              Current = Bringup400[pc] /\ Target = TargetAt(pc)
         /\ running = "bringup_400" /\ pc \in ReadPositions => Target = TargetAt(pc + 1)
<1> USE DEF Doing, Transaction, Current, Target
<1>1. CASE running = "bringup_400"
  <2>1. Program(running) = Bringup400
    BY <1>1 DEF Program
  <2>2. pc \in 1 .. 20
    <3> DEFINE n == Len(Bringup400)
    <3>1. n = 20
      BY Bringup400Ops
    <3>2. pc \in 1 .. 21 /\ pc <= n
      BY <1>1, <2>1 DEF InProgram
    <3> HIDE DEF n
    <3> QED BY <3>1, <3>2
  <2>3. /\ Bringup400[pc].do = "write" <=> pc \in WritePositions
        /\ Bringup400[pc].do = "read" <=> pc \in ReadPositions
    BY <2>2, BringupReadsAndWrites
  <2>4. ~(pc \in WritePositions /\ pc \in ReadPositions)
    BY <2>2 DEF WritePositions, ReadPositions
  <2>5. Doing("write") => pc \in WritePositions
    BY <2>1, <2>3
  <2>6. pc \in WritePositions => Doing("write")
    BY <2>1, <2>3, <2>4
  <2>7. Target = TargetAt(pc) /\ Current = Bringup400[pc]
    BY <2>1 DEF TargetAt
  <2>8. pc \in ReadPositions => TargetAt(pc + 1) = TargetAt(pc)
    BY BringupReadsAndWrites DEF TargetAt
  <2>9. pc \in ReadPositions \cup WritePositions
    BY <2>1, <2>3
  <2>10. Doing("read") => ~Doing("write")
    BY <2>1
  <2> HIDE DEF Doing, Transaction, Current, Target
  <2> QED BY <1>1, <2>5, <2>6, <2>7, <2>8, <2>9, <2>10
<1>2. CASE running = "read_mpll_div"
  <2>1. Program(running) = ReadMpllDiv
    BY <1>2 DEF Program
  <2>2. pc \in 1 .. 3
    BY <1>2 DEF InProgram
  <2> QED BY <1>2, <2>1, <2>2, DiagnosticOps
          DEF Diagnostics, WritePositions, SelectBlock, ReadByte, Op
<1>3. CASE running = "read_bias_dreg_1p1"
  <2>1. Program(running) = ReadBiasDreg1p1
    BY <1>3 DEF Program
  <2>2. pc \in 1 .. 4
    BY <1>3 DEF InProgram
  <2> QED BY <1>3, <2>1, <2>2, DiagnosticOps
          DEF Diagnostics, WritePositions, SelectBlock, ReadByte, Op
<1> QED BY <1>1, <1>2, <1>3 DEF Running, Diagnostics

\* What the writes are for, and which bits they own.
LEMMA WrittenFields ==
  /\ \A n \in WritePositions : TargetAt(n) \in Targets
  /\ TargetAt(16) = Rstb /\ TargetAt(17) = Rstb /\ TargetAt(18) = Div
  /\ \A b \in SUBSET Byte : /\ Updated(b, 16) = b \ {RstbBit}
                            /\ Updated(b, 17) = b \cup {RstbBit}
                            /\ Updated(b, 18) = Div400
<1> USE DEF TargetAt, WriteByte, Op
<1>1. /\ TargetAt(8) = <<"bias", 0>> /\ TargetAt(10) = <<"bias", 1>> /\ TargetAt(14) = <<"mspi", 3>>
      /\ TargetAt(16) = <<"mspi", 1>> /\ TargetAt(17) = <<"mspi", 1>> /\ TargetAt(18) = <<"mspi", 2>>
  BY Bringup400Ops
<1>2. /\ Bringup400[16].clear = {RstbBit} /\ Bringup400[16].set = {}
      /\ Bringup400[17].clear = {} /\ Bringup400[17].set = {RstbBit}
      /\ Bringup400[18].clear = Byte /\ Bringup400[18].set = Div400
  BY Bringup400Ops
<1> QED BY <1>1, <1>2 DEF WritePositions, Targets, Rstb, Div, Updated

\* A command is written with the byte the register has at that moment.
LEMMA IssueUnderway == ASSUME IInv, Underway, Fresh, Issue PROVE Underway'
<1> USE DEF Issue, WaitIdle, hart, engine, calibration
<1>1. Running /\ InProgram
  BY DEF Doing, Transaction, IInv, Others, Running
<1>2. issued' /\ (command'.write <=> pc' \in WritePositions)
  BY <1>1, TransactionAt
<1>3. ASSUME command'.write
      PROVE  /\ command'.target = TargetAt(pc)
             /\ command'.byte = Updated(dev[TargetAt(pc)], pc)
  <2>1. running = "bringup_400" /\ pc \in WritePositions
    BY <1>1, <1>2, <1>3, TransactionAt DEF WritePositions
  <2>2. command'.target = TargetAt(pc) /\ command'.byte = Updated(cur, pc)
    BY <1>1, <2>1, TransactionAt DEF Target, Updated
  <2>3. cur \in SUBSET Byte /\ dev[TargetAt(pc)] \in SUBSET Byte
    BY <2>1, WrittenFields DEF IInv, Others
  <2>4. CASE pc \in {8, 10, 14, 16}
    BY <2>1, <2>2, <2>4 DEF Fresh
  <2>5. CASE pc = 17
    <3>1. dev[TargetAt(17)] = cur \ {RstbBit}
      BY <2>1, <2>5, WrittenFields DEF Fresh
    <3> QED BY <2>2, <2>3, <2>5, <3>1, WrittenFields
  <2>6. CASE pc = 18
    BY <2>2, <2>3, <2>6, WrittenFields
  <2> QED BY <2>1, <2>4, <2>5, <2>6 DEF WritePositions
<1> QED BY <1>2, <1>3 DEF Underway

\* A command is written for the byte a later write is for.
LEMMA IssueFresh == ASSUME IInv, Fresh, Issue PROVE Fresh'
<1> USE DEF Issue, WaitIdle, hart, engine, calibration
<1>1. Running /\ InProgram
  BY DEF Doing, Transaction, IInv, Others, Running
<1>2. ASSUME running = "bringup_400", pc \in ReadPositions
      PROVE  command'.target = TargetAt(pc + 1)
  BY <1>1, <1>2, TransactionAt DEF Target
<1>3. ASSUME running = "bringup_400", pc = 16
      PROVE  command'.byte = cur \ {RstbBit}
  <2>1. command'.byte = Updated(cur, 16) /\ cur \in SUBSET Byte
    BY <1>1, <1>3, TransactionAt DEF Updated, WritePositions, IInv, Others
  <2> QED BY <2>1, WrittenFields
<1> QED BY <1>2, <1>3 DEF Fresh

\* The engine writes the byte, or fetches the one that is asked for.
LEMMA EngineCompletesFresh ==
  ASSUME IInv, Underway, Fresh, EngineCompletes PROVE Underway' /\ Fresh'
<1> USE DEF EngineCompletes, hart, engine, calibration
<1>1. Reaches /\ dev \in [Targets -> SUBSET Byte] /\ command.target \in Targets
  BY DEF IInv, CommandsReach, Others
<1>2. ASSUME running = "bringup_400", pc \in ReadPositions
      PROVE  data' = dev'[TargetAt(pc + 1)]
  BY <1>1, <1>2 DEF Fresh, Underway, ReadPositions, WritePositions
<1>3. ASSUME running = "bringup_400", pc = 16
      PROVE  dev'[Rstb] = cur \ {RstbBit}
  BY <1>1, <1>3, WrittenFields DEF Fresh, Underway, WritePositions
<1>4. issued
  BY DEF Underway
<1> QED BY <1>2, <1>3, <1>4 DEF Fresh, Underway, ReadPositions

\* The hart takes the byte, which nobody writes before it does.
LEMMA FinishFresh == ASSUME IInv, Underway, Fresh, Finish PROVE Underway' /\ Fresh'
<1> USE DEF Finish, FinishAtOnce, WaitIdle, Advance, hart, engine, calibration
<1>1. Running /\ InProgram /\ pc \in 1 .. 21
  BY DEF Doing, Transaction, IInv, Others, Running, Counts
<1>2. ~issued' /\ ~busy' /\ running' = running /\ pc' = pc + 1 /\ dev' = dev
  OBVIOUS
<1>3. ASSUME running = "bringup_400", pc + 1 \in {8, 10, 14, 16}
      PROVE  cur' = dev[TargetAt(pc + 1)]
  <2>1. pc \in ReadPositions /\ ~(pc \in WritePositions)
    BY <1>1, <1>3 DEF ReadPositions, WritePositions
  <2>2. Doing("read")
    BY <1>1, <2>1, TransactionAt DEF Transaction
  <2> QED BY <1>3, <2>1, <2>2 DEF Fresh
<1>4. ASSUME running = "bringup_400", pc + 1 = 17
      PROVE  dev[Rstb] = cur' \ {RstbBit}
  <2>1. pc = 16 /\ ~Doing("read")
    BY <1>1, <1>4, TransactionAt DEF WritePositions
  <2> QED BY <1>4, <2>1 DEF Fresh
<1>5. Underway'
  BY <1>2 DEF Underway
<1> QED BY <1>2, <1>3, <1>4, <1>5 DEF Fresh

\* The other steps of the hart leave no command and read no byte.
LEMMA OthersFresh ==
  ASSUME IInv, Underway, Fresh,
         \/ \E f \in {"bringup_400", "read_mpll_div", "read_bias_dreg_1p1"} : Call(f)
         \/ Return \/ SetSoc \/ Select \/ CalibrationStart \/ CalibrationPoll \/ CalibrationStop
         \/ CalibrationEnds \/ WarmReset \/ UNCHANGED vars
  PROVE  Underway' /\ Fresh'
<1> USE DEF vars, hart, engine, calibration
<1>1. ASSUME NEW f \in {"bringup_400", "read_mpll_div", "read_bias_dreg_1p1"}, Call(f)
      PROVE  Underway' /\ Fresh'
  BY <1>1 DEF Call, Underway, Fresh, ReadPositions
<1>2. CASE Return \/ CalibrationEnds \/ WarmReset \/ UNCHANGED vars
  BY <1>2 DEF Return, CalibrationEnds, WarmReset, Underway, Fresh
<1>3. CASE SetSoc \/ Select \/ CalibrationStart \/ CalibrationPoll \/ CalibrationStop
  <2>1. Running /\ InProgram
    BY <1>3 DEF SetSoc, Select, CalibrationStart, CalibrationPoll, CalibrationStop, Doing,
                IInv, Others, Running
  <2>2. /\ running = "bringup_400" =>
             pc \in 1 .. 5 \/ pc = 6 \/ pc = 11 \/ pc = 12 \/ pc = 19 \/ pc = 20
        /\ running \in Diagnostics => pc # 2
    <3>1. \/ Doing("soc") \/ Doing("select_block") \/ Doing("calibration_start")
          \/ Doing("calibration_wait") \/ Doing("calibration_stop")
      BY <1>3 DEF SetSoc, Select, CalibrationStart, CalibrationPoll, CalibrationStop
    <3> QED BY <2>1, <3>1, Positions DEF At, Diagnostics
  <2>3. ~issued /\ ~busy
    BY <2>1, <2>2 DEF IInv, OneCommand, InFlight, ForBias, ForMspi, Running, Diagnostics
  <2>4. /\ running' = running /\ issued' = issued /\ busy' = busy
        /\ pc' = pc + 1 \/ (pc' = pc /\ running = "bringup_400" /\ pc \in 19 .. 20)
    <3>1. CASE SetSoc \/ Select \/ CalibrationStart \/ CalibrationStop
      BY <3>1 DEF SetSoc, Select, CalibrationStart, CalibrationStop, Advance
    <3>2. CASE CalibrationPoll
      <4>1. At(19)
        BY <2>1, <3>2, Positions DEF CalibrationPoll
      <4> QED BY <3>2, <4>1 DEF CalibrationPoll, Advance, At
    <3> QED BY <1>3, <3>1, <3>2
  <2>5. Underway'
    BY <2>3, <2>4 DEF Underway
  <2>6. running = "bringup_400" => pc' \notin {8, 10, 14, 16, 17}
    BY <2>2, <2>4
  <2> QED BY <2>3, <2>4, <2>5, <2>6 DEF Fresh
<1> QED BY <1>1, <1>2, <1>3

\* Both parts hold throughout, with the invariant above.
LEMMA FreshInvariance == Spec => [](IInv /\ Underway /\ Fresh)
<1>1. Init => Underway /\ Fresh
  BY DEF Init, Underway, Fresh
<1>2. IInv /\ Underway /\ Fresh /\ [Next]_vars => Underway' /\ Fresh'
  <2> SUFFICES ASSUME IInv, Underway, Fresh, [Next]_vars PROVE Underway' /\ Fresh'
    OBVIOUS
  <2>1. CASE Issue
    BY <2>1, IssueUnderway, IssueFresh
  <2>2. CASE EngineCompletes
    BY <2>2, EngineCompletesFresh
  <2>3. CASE Finish
    BY <2>3, FinishFresh
  <2> QED BY <2>1, <2>2, <2>3, OthersFresh DEF Next, HartStep
<1> QED BY <1>1, <1>2, StepIInv, InitIInv, PTL DEF Spec

Done == {n \in WritePositions : n < pc \/ (n = pc /\ issued /\ ~busy)}

\* The end of a write on the bus is the write of the abstract list.
LEMMA EngineImplementsWrite ==
  ASSUME IInv, Underway, EngineCompletes, command.write, NEW n \in WritePositions, n = pc
  PROVE  Bus!WriteField(n)
<1> USE DEF EngineCompletes, hart, engine, calibration
<1>1. /\ pc \in WritePositions /\ issued /\ command.target = TargetAt(pc)
      /\ command.byte = Updated(dev[TargetAt(pc)], pc)
  BY DEF Underway
<1>2. dev' = [dev EXCEPT ![TargetAt(pc)] = Updated(@, pc)]
  BY <1>1 DEF IInv, CommandsReach, Others
<1>3. FieldWrites[pc] = Bringup400[pc]
  BY <1>1, WritesOfBringup DEF FieldWrites
<1>4. pc \notin Done /\ Done' = Done \cup {pc}
  BY <1>1 DEF Done, WritePositions
<1>5. \A m \in WritePositions : m < pc => m \in Done
  BY DEF Done
<1> QED BY <1>2, <1>3, <1>4, <1>5, WritesOfBringup DEF Bus!WriteField, Done, TargetAt, Updated

\* No other step of the program counter passes a write.
LEMMA OthersImplementNothing ==
  ASSUME IInv, Underway, [Next]_vars, ~(EngineCompletes /\ command.write)
  PROVE  dev' = dev /\ (Done' = Done \/ Done' = {})
<1> USE DEF vars, hart, engine, calibration
<1>1. dev' = dev
  BY DEF Next, HartStep, Call, Return, SetSoc, Select, Issue, Finish, FinishAtOnce,
         CalibrationStart, CalibrationPoll, CalibrationStop, EngineCompletes,
         CalibrationEnds, WarmReset
<1>2. pc \in 1 .. 21 /\ issued \in BOOLEAN /\ busy \in BOOLEAN
  BY DEF IInv, Others, Counts
<1>3. ASSUME NEW f \in {"bringup_400", "read_mpll_div", "read_bias_dreg_1p1"}, Call(f)
      PROVE  Done' = {}
  BY <1>3 DEF Call, Done, WritePositions
<1>4. CASE Return \/ CalibrationEnds \/ WarmReset \/ UNCHANGED vars
  BY <1>4 DEF Return, CalibrationEnds, WarmReset, Done
<1>5. CASE Issue
  BY <1>2, <1>5 DEF Issue, Done
<1>6. CASE EngineCompletes
  BY <1>2, <1>6 DEF EngineCompletes, Underway, Done
<1>7. CASE Finish
  BY <1>2, <1>7 DEF Finish, FinishAtOnce, WaitIdle, Advance, Done, WritePositions
<1>8. CASE SetSoc \/ Select \/ CalibrationStart \/ CalibrationPoll \/ CalibrationStop
  <2>1. Running /\ InProgram
    BY <1>8 DEF SetSoc, Select, CalibrationStart, CalibrationPoll, CalibrationStop, Doing,
                IInv, Others, Running
  <2>2. \/ Doing("soc") \/ Doing("select_block") \/ Doing("calibration_start")
        \/ Doing("calibration_wait") \/ Doing("calibration_stop")
    BY <1>8 DEF SetSoc, Select, CalibrationStart, CalibrationPoll, CalibrationStop
  <2>3. pc \in 1 .. 6 \/ pc = 11 \/ pc = 12 \/ pc = 19 \/ pc = 20
    BY <2>1, <2>2, Positions DEF At
  <2>4. issued' = issued /\ busy' = busy /\ (pc' = pc \/ pc' = pc + 1)
    BY <1>8 DEF SetSoc, Select, CalibrationStart, CalibrationPoll, CalibrationStop, Advance
  <2>5. pc \notin WritePositions /\ ~issued
    BY <2>1, <2>2, <2>3, Positions
       DEF WritePositions, At, IInv, OneCommand, ForBias, ForMspi, Running, Diagnostics
  <2>6. \A n \in WritePositions : n < pc + 1 <=> n < pc
    BY <1>2, <2>5 DEF WritePositions
  <2> QED BY <1>1, <2>4, <2>5, <2>6 DEF Done
<1> QED BY <1>1, <1>3, <1>4, <1>5, <1>6, <1>7, <1>8 DEF Next, HartStep

\* The transactions of regi2c.rs implement the field writes Boot takes for
\* single accesses: in the order of bringup_400, each once a run, each on the
\* value its byte has at that moment, whatever was found on the bus.
THEOREM TransactionsAreFieldWrites == Spec => ImplementsAnalogBus
<1>1. Init => Bus!Init
  <2> SUFFICES ASSUME Init PROVE Bus!Init
    OBVIOUS
  <2>1. dev \in [Targets -> SUBSET (0 .. 7)]
    BY InitIInv DEF IInv, Others, Byte
  <2>2. Done = {}
    BY DEF Init, Done, WritePositions
  <2> QED BY <2>1, <2>2, WritesOfBringup DEF Bus!Init, Done
<1>2. IInv /\ Underway /\ Fresh /\ [Next]_vars => [Bus!Next]_(Bus!avars)
  <2> SUFFICES ASSUME IInv, Underway, [Next]_vars PROVE [Bus!Next]_(Bus!avars)
    OBVIOUS
  <2>1. CASE EngineCompletes /\ command.write
    <3>1. PICK n \in WritePositions : n = pc
      BY <2>1 DEF Underway, EngineCompletes
    <3>2. EngineCompletes /\ command.write
      BY <2>1
    <3>3. Bus!WriteField(n)
      BY <3>1, <3>2, EngineImplementsWrite
    <3>4. Bus!Next
      BY <3>3, WritesOfBringup DEF Bus!Next
    <3> QED BY <3>4
  <2>2. CASE ~(EngineCompletes /\ command.write)
    <3>1. dev' = dev /\ (Done' = Done \/ Done' = {})
      BY <2>2, OthersImplementNothing
    <3> QED BY <3>1, WritesOfBringup DEF Bus!Next, Bus!Restart, Bus!avars, Done
  <2> QED BY <2>1, <2>2
<1> QED BY <1>1, <1>2, FreshInvariance, PTL DEF Spec, ImplementsAnalogBus, Bus!Spec
=============================================================================
