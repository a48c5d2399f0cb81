------------------------- MODULE BootOutcomeProofs -------------------------
(***************************************************************************)
(* Proofs about Boot, continued from BootProofs: for every set of register *)
(* files found and any number of resets, every access of the bring-up      *)
(* reaches its target, init_phase2_full leaves the chip as it promises,    *)
(* and a repeat call moves nothing but scratch state.                      *)
(***************************************************************************)
EXTENDS BootProofs

Full == InitPhase2FullProgram
PmuTable == HpActive \o HpSleep \o LpSleep \o PorDefaults \o ExtLdo
PinTable == PsramPins \o Dqs

-----------------------------------------------------------------------------
(* The program, access by access.                                          *)

\* Two sequences joined, with their lengths in figures.
LEMMA Joined ==
  ASSUME NEW S, NEW p \in Seq(S), NEW t \in Seq(S), NEW n, NEW m, NEW k,
         Len(p) = n, Len(t) = m, k = n + m
  PROVE  /\ p \o t \in Seq(S) /\ Len(p \o t) = k
         /\ \A i \in 1 .. n : (p \o t)[i] = p[i]
         /\ \A i \in n + 1 .. k : (p \o t)[i] = t[i - n]
<1>1. /\ p \o t \in Seq(S) /\ Len(p \o t) = n + m
      /\ \A i \in 1 .. n + m : (p \o t)[i] = IF i <= n THEN p[i] ELSE t[i - n]
  BY ConcatProperties
<1>2. n \in Nat /\ m \in Nat
  BY LenProperties
<1>3. \A i \in 1 .. n : i \in 1 .. n + m /\ i <= n
  BY <1>2
<1>4. \A i \in n + 1 .. n + m : i \in 1 .. n + m /\ ~(i <= n)
  BY <1>2
<1> QED BY <1>1, <1>3, <1>4

\* A loop over a table that consists of two.
LEMMA EachOfBoth ==
  ASSUME NEW S, NEW s \in Seq(S), NEW t \in Seq(S), NEW v
  PROVE  EachWrite(s \o t, v) = EachWrite(s, v) \o EachWrite(t, v)
<1> DEFINE W == {Write(r, v) : r \in S}
<1>1. /\ s \o t \in Seq(S) /\ Len(s \o t) = Len(s) + Len(t)
      /\ \A i \in 1 .. Len(s) + Len(t) :
           (s \o t)[i] = IF i <= Len(s) THEN s[i] ELSE t[i - Len(s)]
  BY ConcatProperties
<1>2. \A u \in Seq(S) :
        /\ EachWrite(u, v) \in Seq(W) /\ Len(EachWrite(u, v)) = Len(u)
        /\ \A i \in 1 .. Len(u) : EachWrite(u, v)[i] = Write(u[i], v)
  BY DEF EachWrite
<1>4. Len(s) \in Nat /\ Len(t) \in Nat
  BY LenProperties
<1> HIDE DEF W
<1>5. \A i \in 1 .. Len(s) + Len(t) : ~(i <= Len(s)) => i - Len(s) \in 1 .. Len(t)
  BY <1>4
<1>6. \A i \in 1 .. Len(s) + Len(t) : i <= Len(s) => i \in 1 .. Len(s)
  BY <1>4
<1>7. EachWrite(s \o t, v) = EachWrite(s, v) \o EachWrite(t, v)
  <2> DEFINE a == EachWrite(s, v)
             b == EachWrite(t, v)
             ab == EachWrite(s \o t, v)
  <2>1. /\ a \o b \in Seq(W) /\ Len(a \o b) = Len(s) + Len(t)
        /\ \A i \in 1 .. Len(s) + Len(t) :
             (a \o b)[i] = IF i <= Len(s) THEN a[i] ELSE b[i - Len(s)]
    <3>1. a \in Seq(W) /\ b \in Seq(W) /\ Len(a) = Len(s) /\ Len(b) = Len(t)
      BY <1>2
    <3> HIDE DEF a, b
    <3>2. /\ a \o b \in Seq(W) /\ Len(a \o b) = Len(a) + Len(b)
          /\ \A i \in 1 .. Len(a) + Len(b) :
               (a \o b)[i] = IF i <= Len(a) THEN a[i] ELSE b[i - Len(a)]
      BY ONLY <3>1, ConcatProperties
    <3> QED BY <3>1, <3>2, Zenon
  <2>2. /\ ab \in Seq(W) /\ Len(ab) = Len(s) + Len(t)
        /\ \A i \in 1 .. Len(s) + Len(t) : ab[i] = Write((s \o t)[i], v)
    BY <1>1, <1>2
  <2>3. \A i \in 1 .. Len(s) + Len(t) : ab[i] = (a \o b)[i]
    <3> TAKE i \in 1 .. Len(s) + Len(t)
    <3> HIDE DEF a, b, ab
    <3>1. CASE i <= Len(s)
      BY <1>1, <1>2, <1>6, <2>1, <2>2, <3>1 DEF a
    <3>2. CASE ~(i <= Len(s))
      BY <1>1, <1>2, <1>5, <2>1, <2>2, <3>2 DEF b
    <3> QED BY <3>1, <3>2
  <2> HIDE DEF a, b, ab
  <2>4. ab = a \o b
    BY <2>1, <2>2, <2>3, SeqEqual
  <2> QED BY <2>4 DEF a, b, ab
<1> QED BY <1>7

\* pmu.rs: every template once in the table, each written with its value.
LEMMA PmuAccesses ==
  /\ Len(PmuInitActiveState) = 42
  /\ Range(PmuTable) = PmuTemplates /\ DOMAIN PmuTable = 1 .. 42
  /\ \A k \in 1 .. 42 : PmuTable[k] \in PmuTemplates
                        /\ PmuInitActiveState[k] = Write(PmuTable[k], {"idf"})
<1> DEFINE v == {"idf"}
<1>1. /\ HpActive \in Seq(PmuTemplates) /\ HpSleep \in Seq(PmuTemplates)
      /\ LpSleep \in Seq(PmuTemplates) /\ PorDefaults \in Seq(PmuTemplates)
      /\ ExtLdo \in Seq(PmuTemplates)
  BY DEF PmuTemplates, Range, HpActive, HpSleep, LpSleep, PorDefaults, ExtLdo
<1>2. /\ Len(HpActive) = 6 /\ Len(HpSleep) = 12 /\ Len(LpSleep) = 2
      /\ Len(PorDefaults) = 10 /\ Len(ExtLdo) = 12
  BY DEF HpActive, HpSleep, LpSleep, PorDefaults, ExtLdo
<1> DEFINE t2 == HpActive \o HpSleep
           t3 == t2 \o LpSleep
           t4 == t3 \o PorDefaults
<1> HIDE DEF t2, t3, t4, v
<1> DEFINE l1 == 6  l2 == 12  l3 == 2  l4 == 10  e2 == 18  e3 == 20  e4 == 30  e5 == 42
<1>3. e2 = l1 + l2 /\ e3 = e2 + l3 /\ e4 = e3 + l4 /\ e5 = e4 + l2
  OBVIOUS
<1>4. /\ Len(HpActive) = l1 /\ Len(HpSleep) = l2 /\ Len(LpSleep) = l3
      /\ Len(PorDefaults) = l4 /\ Len(ExtLdo) = l2
  BY <1>2
<1> HIDE DEF l1, l2, l3, l4, e2, e3, e4, e5
<1>5. t2 \in Seq(PmuTemplates) /\ Len(t2) = e2
  BY ONLY <1>1, <1>3, <1>4, Joined DEF t2
<1>6. t3 \in Seq(PmuTemplates) /\ Len(t3) = e3
  BY ONLY <1>1, <1>3, <1>4, <1>5, Joined DEF t3
<1>b. t4 \in Seq(PmuTemplates) /\ Len(t4) = e4
  BY ONLY <1>1, <1>3, <1>4, <1>6, Joined DEF t4
<1>c. PmuTable = t4 \o ExtLdo
  BY DEF PmuTable, t2, t3, t4
<1>7. PmuTable \in Seq(PmuTemplates) /\ Len(PmuTable) = e5
  BY ONLY <1>1, <1>3, <1>4, <1>b, <1>c, Joined
<1>8. EachWrite(PmuTable, v) = PmuInitActiveState
  <2>a. \A s, t \in Seq(PmuTemplates) :
          EachWrite(s \o t, v) = EachWrite(s, v) \o EachWrite(t, v)
    BY EachOfBoth
  <2>1. EachWrite(t2, v) = EachWrite(HpActive, v) \o EachWrite(HpSleep, v)
    BY ONLY <1>1, <2>a DEF t2
  <2>2. EachWrite(t3, v) = EachWrite(t2, v) \o EachWrite(LpSleep, v)
    BY ONLY <1>1, <1>5, <2>a DEF t3
  <2>3. EachWrite(t4, v) = EachWrite(t3, v) \o EachWrite(PorDefaults, v)
    BY ONLY <1>1, <1>6, <2>a DEF t4
  <2>4. EachWrite(PmuTable, v) = EachWrite(t4, v) \o EachWrite(ExtLdo, v)
    BY ONLY <1>1, <1>b, <1>c, <2>a
  <2> QED BY <2>1, <2>2, <2>3, <2>4 DEF PmuInitActiveState, v
<1>9. /\ DOMAIN PmuTable = 1 .. e5 /\ \A k \in 1 .. e5 : PmuTable[k] \in PmuTemplates
      /\ Len(EachWrite(PmuTable, v)) = e5
      /\ \A k \in 1 .. e5 : EachWrite(PmuTable, v)[k] = Write(PmuTable[k], v)
  BY ONLY <1>7 DEF EachWrite
<1>10. /\ DOMAIN PmuTable = 1 .. 42 /\ \A k \in 1 .. 42 : PmuTable[k] \in PmuTemplates
       /\ Len(EachWrite(PmuTable, v)) = 42
       /\ \A k \in 1 .. 42 : EachWrite(PmuTable, v)[k] = Write(PmuTable[k], v)
  BY <1>9 DEF e5
<1>12. Range(PmuTable) = PmuTemplates
  BY DEF PmuTemplates, PmuTable
<1> QED BY <1>8, <1>10, <1>12 DEF v

\* mpll.rs and regi2c.rs
LEMMA MpllAccesses ==
  /\ Len(MpllBringup400) = 15
  /\ MpllBringup400[1] = Modify("pmu_rf_pwc", {}, {"mspi_phy_xpd", "xpd_perif_i2c"})
  /\ MpllBringup400[2] = Modify("hp_clk_ctrl", {}, {"mpll_500m_en", "root_sel_0"})
  /\ MpllBringup400[3] = Modify("lpperi_clk_en", {}, {"lp_i2cmst"})
  /\ MpllBringup400[4] = Modify("i2c_clk160m", {}, {"sel_160m"})
  /\ MpllBringup400[5] = Write("i2c_conf1", {})
  /\ MpllBringup400[6] = Write("i2c_conf2", {"bias"})
  /\ MpllBringup400[7] = Modify("bias_dreg_1p1", {"dreg_other"}, {"dreg_10"})
  /\ MpllBringup400[8] = Modify("bias_dreg_1p1_pvt", {"dreg_other"}, {"dreg_10"})
  /\ MpllBringup400[9] = Write("i2c_conf2", {"mspi"})
  /\ MpllBringup400[10] = Modify("ana_pll_ctrl0", {"mspi_cal_stop"}, {})
  /\ MpllBringup400[11] = Modify("mpll_dhref", {}, {"dhref_3"})
  /\ MpllBringup400[12] = Modify("mpll_ir_cal_rstb", {"rstb"}, {})
  /\ MpllBringup400[13] = Modify("mpll_ir_cal_rstb", {}, {"rstb"})
  /\ MpllBringup400[14] = Write("mpll_div", {"400MHz"})
  /\ MpllBringup400[15] = Modify("ana_pll_ctrl0", {}, {"mspi_cal_stop"})
BY DEF MpllBringup400, EnableBus, SelectBlock, SetBiasFields, Calibrate

\* clkrst.rs
LEMMA ClockAccesses ==
  /\ Len(InitHpClocks) = 8 /\ DOMAIN Clocks = 1 .. 8 /\ Clocks[7] = "ana_pll_ctrl0"
  /\ \A k \in 1 .. 8 : Clocks[k] \in Range(Clocks)
                       /\ InitHpClocks[k] = Modify(Clocks[k], {}, {"idf"})
<1>1. DOMAIN Clocks = 1 .. 8 /\ Clocks[7] = "ana_pll_ctrl0"
  BY DEF Clocks
<1>2. Clocks \in Seq(Range(Clocks)) /\ Len(Clocks) = 8
  BY DEF Clocks, Range
<1>3. /\ Len(InitHpClocks) = 8
      /\ \A k \in 1 .. 8 : InitHpClocks[k] = Modify(Clocks[k], {}, {"idf"})
  BY <1>1, <1>2 DEF InitHpClocks, EachModify
<1>4. \A k \in 1 .. 8 : Clocks[k] \in Range(Clocks)
  BY <1>1 DEF Range
<1> QED BY <1>1, <1>3, <1>4, Zenon

\* pin_mux.rs
LEMMA PinAccesses ==
  /\ Len(PinDrvSet({"drv_1"})) = 20 /\ Len(EnableDqs(TRUE)) = 2
  /\ DOMAIN PsramPins = 1 .. 18 /\ DOMAIN Dqs = 1 .. 2
  /\ \A k \in 1 .. 18 : PsramPins[k] \in Range(PsramPins)
       /\ PinDrvSet({"drv_1"})[k] = Modify(PsramPins[k], {"drv_0", "drv_1"}, {"drv_1"})
  /\ \A k \in 1 .. 2 : Dqs[k] \in Range(Dqs)
       /\ PinDrvSet({"drv_1"})[18 + k] = Modify(Dqs[k], {"drv_0", "drv_1"}, {"drv_1"})
       /\ EnableDqs(TRUE)[k] = Modify(Dqs[k], {"xpd"}, {"xpd"})
<1> DEFINE m1 == 18  m2 == 2  m3 == 20
           W(r) == Modify(r, {"drv_0", "drv_1"}, {"drv_1"})
           S == {W(r) : r \in Range(PsramPins) \cup Range(Dqs)}
           a == EachModify(PsramPins, {"drv_0", "drv_1"}, {"drv_1"})
           b == EachModify(Dqs, {"drv_0", "drv_1"}, {"drv_1"})
           d == EachModify(Dqs, {"xpd"}, {"xpd"})
<1>1. /\ DOMAIN PsramPins = 1 .. m1 /\ DOMAIN Dqs = 1 .. m2
      /\ Len(PsramPins) = m1 /\ Len(Dqs) = m2 /\ m3 = m1 + m2
  BY DEF PsramPins, Dqs
<1>2. PsramPins \in Seq(Range(PsramPins)) /\ Dqs \in Seq(Range(Dqs))
  BY DEF PsramPins, Dqs, Range
<1>3. a \in Seq(S) /\ b \in Seq(S)
  <2>1. \A r \in Range(PsramPins) \cup Range(Dqs) : Modify(r, {"drv_0", "drv_1"}, {"drv_1"}) \in S
    OBVIOUS
  <2> HIDE DEF S
  <2> QED BY <1>2, <2>1, EachIsSeq
<1> HIDE DEF m1, m2, m3, S
<1>4. /\ Len(a) = m1
      /\ \A k \in 1 .. m1 : a[k] = Modify(PsramPins[k], {"drv_0", "drv_1"}, {"drv_1"})
  BY ONLY <1>1, <1>2, LenProperties DEF EachModify
<1>5. /\ Len(b) = m2 /\ Len(d) = m2
      /\ \A k \in 1 .. m2 : /\ b[k] = Modify(Dqs[k], {"drv_0", "drv_1"}, {"drv_1"})
                            /\ d[k] = Modify(Dqs[k], {"xpd"}, {"xpd"})
  BY ONLY <1>1, <1>2, LenProperties DEF EachModify
<1>6. PinDrvSet({"drv_1"}) = a \o b /\ EnableDqs(TRUE) = d
  BY DEF PinDrvSet, EnableDqs
<1> HIDE DEF a, b, d
<1>7. /\ Len(a \o b) = m3
      /\ \A i \in 1 .. m1 : (a \o b)[i] = a[i]
      /\ \A i \in m1 + 1 .. m3 : (a \o b)[i] = b[i - m1]
  BY ONLY <1>1, <1>3, <1>4, <1>5, Joined
<1>8. /\ Len(PinDrvSet({"drv_1"})) = m3 /\ Len(EnableDqs(TRUE)) = m2
      /\ DOMAIN PsramPins = 1 .. m1 /\ DOMAIN Dqs = 1 .. m2
  BY <1>1, <1>5, <1>6, <1>7, Zenon
<1>9. \A k \in 1 .. m1 : PinDrvSet({"drv_1"})[k] = Modify(PsramPins[k], {"drv_0", "drv_1"}, {"drv_1"})
  BY <1>4, <1>6, <1>7, Zenon
<1>10. \A k \in 1 .. 2 :
         /\ PinDrvSet({"drv_1"})[18 + k] = Modify(Dqs[k], {"drv_0", "drv_1"}, {"drv_1"})
         /\ EnableDqs(TRUE)[k] = Modify(Dqs[k], {"xpd"}, {"xpd"})
  <2> TAKE k \in 1 .. 2
  <2>1. k \in 1 .. m2 /\ m1 + k \in m1 + 1 .. m3 /\ (m1 + k) - m1 = k /\ 18 + k = m1 + k
    BY DEF m1, m2, m3
  <2>2. (a \o b)[m1 + k] = b[(m1 + k) - m1]
    BY <1>7, <2>1, Zenon
  <2> QED BY <1>5, <1>6, <2>1, <2>2, Zenon
<1>11. /\ \A k \in 1 .. m1 : PsramPins[k] \in Range(PsramPins)
       /\ \A k \in 1 .. m2 : Dqs[k] \in Range(Dqs)
  BY <1>1 DEF Range
<1> QED BY ONLY <1>8, <1>9, <1>10, <1>11 DEF m1, m2, m3

\* flash.rs, cache.rs and mmu.rs
LEMMA FlashAccesses ==
  /\ Len(SetSpllClockRev1plus) = 2 /\ Len(InitL2CacheMode) = 2 /\ Len(CacheHalInit) = 1
  /\ Len(MmuHalInit) = 2 /\ Len(BootloaderInitSpiFlash) = 6
  /\ SetSpllClockRev1plus[1] =
       Modify("peri_clk_ctrl00", {"src_sel_1"}, {"flash_pll_clk_en", "src_sel_0"})
  /\ SetSpllClockRev1plus[2] =
       Modify("peri_clk_ctrl00", {"div_other"}, {"flash_core_clk_en", "div_6"})
  /\ InitL2CacheMode[1] = Write("l2_mode", {"set"})
  /\ InitL2CacheMode[2] = Write("l2_lines", {})
  /\ CacheHalInit[1] = EnableL2Cache
  /\ MmuHalInit[1] = Write("flash_mmu", {})
  /\ MmuHalInit[2] = Write("psram_mmu", {})
  /\ BootloaderInitSpiFlash[1] = Write("mspi", {"attached"})
  /\ BootloaderInitSpiFlash[2] = Modify("spi0_user", {}, {"cs_hold", "cs_setup"})
  /\ BootloaderInitSpiFlash[3] = Modify("spi0_ctrl2", {"cs_hold_time", "cs_setup_time"}, {})
  /\ BootloaderInitSpiFlash[4] = Write("flash_power", {})
  /\ BootloaderInitSpiFlash[5] = Unlock
  /\ BootloaderInitSpiFlash[6] = Modify("flash_status", {"wel"}, {})
BY DEF SetSpllClockRev1plus, InitL2CacheMode, CacheHalInit, MmuHalInit,
       BootloaderInitSpiFlash, FlashCsTimingConfig

\* Where each function of the crate stands in init_phase2_full and in init.
LEMMA Layout ==
  /\ Full \in Seq(Careful) /\ Len(Full) = 116
  /\ \A i \in 1 .. 16 : Full[i] = Prelude[i]
  /\ \A i \in 17 .. 58 : Full[i] = PmuInitActiveState[i - 16]
  /\ \A i \in 59 .. 73 : Full[i] = MpllBringup400[i - 58]
  /\ \A i \in 74 .. 81 : Full[i] = InitHpClocks[i - 73]
  /\ \A i \in 82 .. 101 : Full[i] = PinDrvSet({"drv_1"})[i - 81]
  /\ \A i \in 102 .. 103 : Full[i] = EnableDqs(TRUE)[i - 101]
  /\ \A i \in 104 .. 105 : Full[i] = SetSpllClockRev1plus[i - 103]
  /\ \A i \in 106 .. 107 : Full[i] = InitL2CacheMode[i - 105]
  /\ \A i \in 108 .. 108 : Full[i] = CacheHalInit[i - 107]
  /\ \A i \in 109 .. 110 : Full[i] = MmuHalInit[i - 108]
  /\ \A i \in 111 .. 116 : Full[i] = BootloaderInitSpiFlash[i - 110]
  /\ InitProgram \in Seq(Careful) /\ Len(InitProgram) = 18
  /\ \A i \in 1 .. 16 : InitProgram[i] = Prelude[i]
  /\ \A i \in 17 .. 18 : InitProgram[i] = InitL2CacheMode[i - 16]
<1> DEFINE drv == PinDrvSet({"drv_1"})  dqs == EnableDqs(TRUE)
           p1 == Prelude \o PmuInitActiveState
           p2 == p1 \o MpllBringup400
           p3 == p2 \o InitHpClocks
           p4 == p3 \o drv
           p5 == p4 \o dqs
           p6 == p5 \o SetSpllClockRev1plus
           p7 == p6 \o InitL2CacheMode
           p8 == p7 \o CacheHalInit
           p9 == p8 \o MmuHalInit
           p10 == p9 \o BootloaderInitSpiFlash
           n0 == 16  n1 == 58  n2 == 73  n3 == 81  n4 == 101
           n5 == 103  n6 == 105  n7 == 107  n8 == 108  n9 == 110  n10 == 116
           m1 == 42  m2 == 15  m3 == 8  m4 == 20  m5 == 2  m6 == 2  m7 == 2  m8 == 1  m9 == 2  m10 == 6
<1>1. InitProgram = Prelude \o InitL2CacheMode /\ Full = p10
  BY DEF InitProgram, InitPhase2FullProgram, Prelude, Full
<1>2. /\ n1 = n0 + m1
      /\ n2 = n1 + m2
      /\ n3 = n2 + m3
      /\ n4 = n3 + m4
      /\ n5 = n4 + m5
      /\ n6 = n5 + m6
      /\ n7 = n6 + m7
      /\ n8 = n7 + m8
      /\ n9 = n8 + m9
      /\ n10 = n9 + m10
  OBVIOUS
<1>3. Seq(Quiet) \subseteq Seq(Careful)
  BY DEF Quiet
<1>4. Prelude \in Seq(Careful) /\ Len(Prelude) = n0
  BY PreludeBegins, PreludeAccesses DEF Begins
<1>5. PmuInitActiveState \in Seq(Careful) /\ Len(PmuInitActiveState) = m1
  BY <1>3, PmuQuiet, PmuAccesses
<1>6. MpllBringup400 \in Seq(Careful) /\ Len(MpllBringup400) = m2
  BY <1>3, MpllQuiet, MpllAccesses
<1>7. InitHpClocks \in Seq(Careful) /\ Len(InitHpClocks) = m3
  BY <1>3, ClocksQuiet, ClockAccesses
<1>8. drv \in Seq(Careful) /\ Len(drv) = m4
  BY <1>3, PinsQuiet, PinAccesses
<1>9. dqs \in Seq(Careful) /\ Len(dqs) = m5
  BY <1>3, PinsQuiet, PinAccesses
<1>10. SetSpllClockRev1plus \in Seq(Careful) /\ Len(SetSpllClockRev1plus) = m6
  BY <1>3, FlashQuiet, FlashAccesses
<1>11. InitL2CacheMode \in Seq(Careful) /\ Len(InitL2CacheMode) = m7
  BY <1>3, FlashQuiet, FlashAccesses
<1>12. CacheHalInit \in Seq(Careful) /\ Len(CacheHalInit) = m8
  BY <1>3, FlashQuiet, FlashAccesses
<1>13. MmuHalInit \in Seq(Careful) /\ Len(MmuHalInit) = m9
  BY <1>3, FlashQuiet, FlashAccesses
<1>14. BootloaderInitSpiFlash \in Seq(Careful) /\ Len(BootloaderInitSpiFlash) = m10
  BY <1>3, FlashQuiet, FlashAccesses
<1> HIDE DEF n0, n1, n2, n3, n4, n5, n6, n7, n8, n9, n10,
            m1, m2, m3, m4, m5, m6, m7, m8, m9, m10, p1, p2, p3, p4, p5, p6, p7, p8, p9, p10, drv, dqs
<1>15. /\ InitProgram \in Seq(Careful) /\ Len(InitProgram) = n0 + m7
       /\ \A i \in 1 .. n0 : InitProgram[i] = Prelude[i]
       /\ \A i \in n0 + 1 .. n0 + m7 : InitProgram[i] = InitL2CacheMode[i - n0]
  BY ONLY <1>1, <1>4, <1>11, Joined
<1>16. /\ p1 \in Seq(Careful) /\ Len(p1) = n1
       /\ \A i \in 1 .. n0 : p1[i] = Prelude[i]
       /\ \A i \in n0 + 1 .. n1 : p1[i] = PmuInitActiveState[i - n0]
  <2>1. n1 = n0 + m1
    BY ONLY <1>2
  <2> QED BY ONLY <2>1, <1>4, <1>5, Joined DEF p1
<1>17. /\ p2 \in Seq(Careful) /\ Len(p2) = n2
       /\ \A i \in 1 .. n1 : p2[i] = p1[i]
       /\ \A i \in n1 + 1 .. n2 : p2[i] = MpllBringup400[i - n1]
  <2>1. n2 = n1 + m2
    BY ONLY <1>2
  <2> QED BY ONLY <2>1, <1>16, <1>6, Joined DEF p2
<1>18. /\ p3 \in Seq(Careful) /\ Len(p3) = n3
       /\ \A i \in 1 .. n2 : p3[i] = p2[i]
       /\ \A i \in n2 + 1 .. n3 : p3[i] = InitHpClocks[i - n2]
  <2>1. n3 = n2 + m3
    BY ONLY <1>2
  <2> QED BY ONLY <2>1, <1>17, <1>7, Joined DEF p3
<1>19. /\ p4 \in Seq(Careful) /\ Len(p4) = n4
       /\ \A i \in 1 .. n3 : p4[i] = p3[i]
       /\ \A i \in n3 + 1 .. n4 : p4[i] = drv[i - n3]
  <2>1. n4 = n3 + m4
    BY ONLY <1>2
  <2> QED BY ONLY <2>1, <1>18, <1>8, Joined DEF p4
<1>20. /\ p5 \in Seq(Careful) /\ Len(p5) = n5
       /\ \A i \in 1 .. n4 : p5[i] = p4[i]
       /\ \A i \in n4 + 1 .. n5 : p5[i] = dqs[i - n4]
  <2>1. n5 = n4 + m5
    BY ONLY <1>2
  <2> QED BY ONLY <2>1, <1>19, <1>9, Joined DEF p5
<1>21. /\ p6 \in Seq(Careful) /\ Len(p6) = n6
       /\ \A i \in 1 .. n5 : p6[i] = p5[i]
       /\ \A i \in n5 + 1 .. n6 : p6[i] = SetSpllClockRev1plus[i - n5]
  <2>1. n6 = n5 + m6
    BY ONLY <1>2
  <2> QED BY ONLY <2>1, <1>20, <1>10, Joined DEF p6
<1>22. /\ p7 \in Seq(Careful) /\ Len(p7) = n7
       /\ \A i \in 1 .. n6 : p7[i] = p6[i]
       /\ \A i \in n6 + 1 .. n7 : p7[i] = InitL2CacheMode[i - n6]
  <2>1. n7 = n6 + m7
    BY ONLY <1>2
  <2> QED BY ONLY <2>1, <1>21, <1>11, Joined DEF p7
<1>23. /\ p8 \in Seq(Careful) /\ Len(p8) = n8
       /\ \A i \in 1 .. n7 : p8[i] = p7[i]
       /\ \A i \in n7 + 1 .. n8 : p8[i] = CacheHalInit[i - n7]
  <2>1. n8 = n7 + m8
    BY ONLY <1>2
  <2> QED BY ONLY <2>1, <1>22, <1>12, Joined DEF p8
<1>24. /\ p9 \in Seq(Careful) /\ Len(p9) = n9
       /\ \A i \in 1 .. n8 : p9[i] = p8[i]
       /\ \A i \in n8 + 1 .. n9 : p9[i] = MmuHalInit[i - n8]
  <2>1. n9 = n8 + m9
    BY ONLY <1>2
  <2> QED BY ONLY <2>1, <1>23, <1>13, Joined DEF p9
<1>25. /\ p10 \in Seq(Careful) /\ Len(p10) = n10
       /\ \A i \in 1 .. n9 : p10[i] = p9[i]
       /\ \A i \in n9 + 1 .. n10 : p10[i] = BootloaderInitSpiFlash[i - n9]
  <2>1. n10 = n9 + m10
    BY ONLY <1>2
  <2> QED BY ONLY <2>1, <1>24, <1>14, Joined DEF p10
<1>26. /\ \A i \in 1 .. n0 : p1[i] = Prelude[i]
       /\ \A i \in 1 .. n1 : p2[i] = p1[i]
       /\ \A i \in 1 .. n2 : p3[i] = p2[i]
       /\ \A i \in 1 .. n3 : p4[i] = p3[i]
       /\ \A i \in 1 .. n4 : p5[i] = p4[i]
       /\ \A i \in 1 .. n5 : p6[i] = p5[i]
       /\ \A i \in 1 .. n6 : p7[i] = p6[i]
       /\ \A i \in 1 .. n7 : p8[i] = p7[i]
       /\ \A i \in 1 .. n8 : p9[i] = p8[i]
       /\ \A i \in 1 .. n9 : p10[i] = p9[i]
       /\ Full = p10
  BY ONLY <1>1, <1>16, <1>17, <1>18, <1>19, <1>20, <1>21, <1>22, <1>23, <1>24, <1>25
<1>27. \A i \in 1 .. 16 : Full[i] = Prelude[i]
  BY ONLY <1>26 DEF n0, n1, n2, n3, n4, n5, n6, n7, n8, n9, n10
<1>28. \A i \in 17 .. 58 : Full[i] = PmuInitActiveState[i - 16]
  <2>1. \A i \in n0 + 1 .. n1 : p1[i] = PmuInitActiveState[i - n0]
    BY ONLY <1>16
  <2>2. \A i \in 17 .. 58 : Full[i] = p1[i]
    BY ONLY <1>26 DEF n1, n2, n3, n4, n5, n6, n7, n8, n9, n10
  <2> QED BY ONLY <2>1, <2>2 DEF n0, n1
<1>29. \A i \in 59 .. 73 : Full[i] = MpllBringup400[i - 58]
  <2>1. \A i \in n1 + 1 .. n2 : p2[i] = MpllBringup400[i - n1]
    BY ONLY <1>17
  <2>2. \A i \in 59 .. 73 : Full[i] = p2[i]
    BY ONLY <1>26 DEF n2, n3, n4, n5, n6, n7, n8, n9, n10
  <2> QED BY ONLY <2>1, <2>2 DEF n1, n2
<1>30. \A i \in 74 .. 81 : Full[i] = InitHpClocks[i - 73]
  <2>1. \A i \in n2 + 1 .. n3 : p3[i] = InitHpClocks[i - n2]
    BY ONLY <1>18
  <2>2. \A i \in 74 .. 81 : Full[i] = p3[i]
    BY ONLY <1>26 DEF n3, n4, n5, n6, n7, n8, n9, n10
  <2> QED BY ONLY <2>1, <2>2 DEF n2, n3
<1>31. \A i \in 82 .. 101 : Full[i] = drv[i - 81]
  <2>1. \A i \in n3 + 1 .. n4 : p4[i] = drv[i - n3]
    BY ONLY <1>19
  <2>2. \A i \in 82 .. 101 : Full[i] = p4[i]
    BY ONLY <1>26 DEF n4, n5, n6, n7, n8, n9, n10
  <2> QED BY ONLY <2>1, <2>2 DEF n3, n4
<1>32. \A i \in 102 .. 103 : Full[i] = dqs[i - 101]
  <2>1. \A i \in n4 + 1 .. n5 : p5[i] = dqs[i - n4]
    BY ONLY <1>20
  <2>2. \A i \in 102 .. 103 : Full[i] = p5[i]
    BY ONLY <1>26 DEF n5, n6, n7, n8, n9, n10
  <2> QED BY ONLY <2>1, <2>2 DEF n4, n5
<1>33. \A i \in 104 .. 105 : Full[i] = SetSpllClockRev1plus[i - 103]
  <2>1. \A i \in n5 + 1 .. n6 : p6[i] = SetSpllClockRev1plus[i - n5]
    BY ONLY <1>21
  <2>2. \A i \in 104 .. 105 : Full[i] = p6[i]
    BY ONLY <1>26 DEF n6, n7, n8, n9, n10
  <2> QED BY ONLY <2>1, <2>2 DEF n5, n6
<1>34. \A i \in 106 .. 107 : Full[i] = InitL2CacheMode[i - 105]
  <2>1. \A i \in n6 + 1 .. n7 : p7[i] = InitL2CacheMode[i - n6]
    BY ONLY <1>22
  <2>2. \A i \in 106 .. 107 : Full[i] = p7[i]
    BY ONLY <1>26 DEF n7, n8, n9, n10
  <2> QED BY ONLY <2>1, <2>2 DEF n6, n7
<1>35. \A i \in 108 .. 108 : Full[i] = CacheHalInit[i - 107]
  <2>1. \A i \in n7 + 1 .. n8 : p8[i] = CacheHalInit[i - n7]
    BY ONLY <1>23
  <2>2. \A i \in 108 .. 108 : Full[i] = p8[i]
    BY ONLY <1>26 DEF n8, n9, n10
  <2> QED BY ONLY <2>1, <2>2 DEF n7, n8
<1>36. \A i \in 109 .. 110 : Full[i] = MmuHalInit[i - 108]
  <2>1. \A i \in n8 + 1 .. n9 : p9[i] = MmuHalInit[i - n8]
    BY ONLY <1>24
  <2>2. \A i \in 109 .. 110 : Full[i] = p9[i]
    BY ONLY <1>26 DEF n9, n10
  <2> QED BY ONLY <2>1, <2>2 DEF n8, n9
<1>37. \A i \in 111 .. 116 : Full[i] = BootloaderInitSpiFlash[i - 110]
  <2>1. \A i \in n9 + 1 .. n10 : p10[i] = BootloaderInitSpiFlash[i - n9]
    BY ONLY <1>25
  <2>2. \A i \in 111 .. 116 : Full[i] = p10[i]
    BY ONLY <1>26 DEF n10
  <2> QED BY ONLY <2>1, <2>2 DEF n9, n10
<1>38. /\ InitProgram \in Seq(Careful) /\ Len(InitProgram) = 18
  <2>1. n0 + m7 = 18
    BY ONLY TRUE DEF n0, m7
  <2>2. InitProgram \in Seq(Careful) /\ Len(InitProgram) = n0 + m7
    BY ONLY <1>15
  <2> QED BY <2>1, <2>2, Zenon
<1>39. /\ \A i \in 1 .. 16 : InitProgram[i] = Prelude[i]
       /\ \A i \in 17 .. 18 : InitProgram[i] = InitL2CacheMode[i - 16]
  <2>1. /\ \A i \in 1 .. n0 : InitProgram[i] = Prelude[i]
        /\ \A i \in n0 + 1 .. n0 + m7 : InitProgram[i] = InitL2CacheMode[i - n0]
    BY ONLY <1>15
  <2> QED BY ONLY <2>1 DEF n0, m7
<1>40. Full \in Seq(Careful) /\ Len(Full) = 116
  <2>1. Full \in Seq(Careful) /\ Len(Full) = n10
    BY <1>1, <1>25, Zenon
  <2> QED BY <2>1 DEF n10
<1> QED BY <1>27, <1>28, <1>29, <1>30, <1>31, <1>32, <1>33, <1>34, <1>35, <1>36, <1>37, <1>38,
           <1>39, <1>40, Zenon DEF drv, dqs

\* The registers outside the tables, access by access.
LEMMA Singles ==
  /\ Full[1] = Modify("bod_mode0_cntl", {"reset_ena"}, {})
  /\ Full[2] = Modify("bod_mode1_cntl", {"reset_ena"}, {})
  /\ Full[3] = Modify("ck_glitch_cntl", {"reset_ena"}, {})
  /\ Full[4] = Modify("pg_glitch_cntl", {"reset_ena"}, {})
  /\ Full[5] = Write("lp_wprotect", {"key"})
  /\ Full[6] = Modify("lp_config0", {"wdt_en", "flashboot_mod_en"}, {})
  /\ Full[7] = Write("lp_wprotect", {})
  /\ Full[8] = Write("swd_wprotect", {"key"})
  /\ Full[9] = Modify("swd_config", {}, {"swd_auto_feed_en"})
  /\ Full[10] = Write("swd_wprotect", {})
  /\ Full[11] = Write("timg0_wprotect", {"key"})
  /\ Full[12] = Modify("timg0_config0", {"wdt_en", "flashboot_mod_en"}, {})
  /\ Full[13] = Write("timg0_wprotect", {})
  /\ Full[14] = Write("timg1_wprotect", {"key"})
  /\ Full[15] = Modify("timg1_config0", {"wdt_en", "flashboot_mod_en"}, {})
  /\ Full[16] = Write("timg1_wprotect", {})
  /\ Full[59] = Modify("pmu_rf_pwc", {}, {"mspi_phy_xpd", "xpd_perif_i2c"})
  /\ Full[60] = Modify("hp_clk_ctrl", {}, {"mpll_500m_en", "root_sel_0"})
  /\ Full[61] = Modify("lpperi_clk_en", {}, {"lp_i2cmst"})
  /\ Full[62] = Modify("i2c_clk160m", {}, {"sel_160m"})
  /\ Full[63] = Write("i2c_conf1", {})
  /\ Full[64] = Write("i2c_conf2", {"bias"})
  /\ Full[65] = Modify("bias_dreg_1p1", {"dreg_other"}, {"dreg_10"})
  /\ Full[66] = Modify("bias_dreg_1p1_pvt", {"dreg_other"}, {"dreg_10"})
  /\ Full[67] = Write("i2c_conf2", {"mspi"})
  /\ Full[68] = Modify("ana_pll_ctrl0", {"mspi_cal_stop"}, {})
  /\ Full[69] = Modify("mpll_dhref", {}, {"dhref_3"})
  /\ Full[70] = Modify("mpll_ir_cal_rstb", {"rstb"}, {})
  /\ Full[71] = Modify("mpll_ir_cal_rstb", {}, {"rstb"})
  /\ Full[72] = Write("mpll_div", {"400MHz"})
  /\ Full[73] = Modify("ana_pll_ctrl0", {}, {"mspi_cal_stop"})
  /\ Full[104] = Modify("peri_clk_ctrl00", {"src_sel_1"}, {"flash_pll_clk_en", "src_sel_0"})
  /\ Full[105] = Modify("peri_clk_ctrl00", {"div_other"}, {"flash_core_clk_en", "div_6"})
  /\ Full[106] = Write("l2_mode", {"set"})
  /\ Full[107] = Write("l2_lines", {})
  /\ Full[108] = EnableL2Cache
  /\ Full[109] = Write("flash_mmu", {})
  /\ Full[110] = Write("psram_mmu", {})
  /\ Full[111] = Write("mspi", {"attached"})
  /\ Full[112] = Modify("spi0_user", {}, {"cs_hold", "cs_setup"})
  /\ Full[113] = Modify("spi0_ctrl2", {"cs_hold_time", "cs_setup_time"}, {})
  /\ Full[114] = Write("flash_power", {})
  /\ Full[115] = Unlock
  /\ Full[116] = Modify("flash_status", {"wel"}, {})
<1>1. \A i \in 1 .. 16 : Full[i] = Prelude[i]
  BY Layout, Zenon
<1>2. \A k \in 1 .. 15 : Full[58 + k] = MpllBringup400[k]
  <2> TAKE k \in 1 .. 15
  <2>1. 58 + k \in 59 .. 73 /\ (58 + k) - 58 = k
    OBVIOUS
  <2>2. \A i \in 59 .. 73 : Full[i] = MpllBringup400[i - 58]
    BY Layout, Zenon
  <2> QED BY ONLY <2>1, <2>2
<1>3. /\ Full[104] = SetSpllClockRev1plus[1] /\ Full[105] = SetSpllClockRev1plus[2]
      /\ Full[106] = InitL2CacheMode[1] /\ Full[107] = InitL2CacheMode[2]
      /\ Full[108] = CacheHalInit[1]
      /\ Full[109] = MmuHalInit[1] /\ Full[110] = MmuHalInit[2]
  <2>1. \A i \in 104 .. 105 : Full[i] = SetSpllClockRev1plus[i - 103]
    BY Layout, Zenon
  <2>2. \A i \in 106 .. 107 : Full[i] = InitL2CacheMode[i - 105]
    BY Layout, Zenon
  <2>3. \A i \in 108 .. 108 : Full[i] = CacheHalInit[i - 107]
    BY Layout, Zenon
  <2>4. \A i \in 109 .. 110 : Full[i] = MmuHalInit[i - 108]
    BY Layout, Zenon
  <2> QED BY ONLY <2>1, <2>2, <2>3, <2>4
<1>4. \A k \in 1 .. 6 : Full[110 + k] = BootloaderInitSpiFlash[k]
  <2> TAKE k \in 1 .. 6
  <2>1. 110 + k \in 111 .. 116 /\ (110 + k) - 110 = k
    OBVIOUS
  <2>2. \A i \in 111 .. 116 : Full[i] = BootloaderInitSpiFlash[i - 110]
    BY Layout, Zenon
  <2> QED BY ONLY <2>1, <2>2
<1>5. /\ Full[1] = Prelude[1] /\ Full[2] = Prelude[2] /\ Full[3] = Prelude[3]
      /\ Full[4] = Prelude[4] /\ Full[5] = Prelude[5] /\ Full[6] = Prelude[6]
      /\ Full[7] = Prelude[7] /\ Full[8] = Prelude[8] /\ Full[9] = Prelude[9]
      /\ Full[10] = Prelude[10] /\ Full[11] = Prelude[11] /\ Full[12] = Prelude[12]
      /\ Full[13] = Prelude[13] /\ Full[14] = Prelude[14] /\ Full[15] = Prelude[15]
      /\ Full[16] = Prelude[16]
  BY ONLY <1>1
<1>6. /\ Full[59] = MpllBringup400[1] /\ Full[60] = MpllBringup400[2]
      /\ Full[61] = MpllBringup400[3] /\ Full[62] = MpllBringup400[4]
      /\ Full[63] = MpllBringup400[5] /\ Full[64] = MpllBringup400[6]
      /\ Full[65] = MpllBringup400[7] /\ Full[66] = MpllBringup400[8]
      /\ Full[67] = MpllBringup400[9] /\ Full[68] = MpllBringup400[10]
      /\ Full[69] = MpllBringup400[11] /\ Full[70] = MpllBringup400[12]
      /\ Full[71] = MpllBringup400[13] /\ Full[72] = MpllBringup400[14]
      /\ Full[73] = MpllBringup400[15]
  BY ONLY <1>2
<1>7. /\ Full[111] = BootloaderInitSpiFlash[1] /\ Full[112] = BootloaderInitSpiFlash[2]
      /\ Full[113] = BootloaderInitSpiFlash[3] /\ Full[114] = BootloaderInitSpiFlash[4]
      /\ Full[115] = BootloaderInitSpiFlash[5] /\ Full[116] = BootloaderInitSpiFlash[6]
  BY ONLY <1>4
<1>8. /\ Full[1] = Modify("bod_mode0_cntl", {"reset_ena"}, {})
      /\ Full[2] = Modify("bod_mode1_cntl", {"reset_ena"}, {})
      /\ Full[3] = Modify("ck_glitch_cntl", {"reset_ena"}, {})
      /\ Full[4] = Modify("pg_glitch_cntl", {"reset_ena"}, {})
      /\ Full[5] = Write("lp_wprotect", {"key"})
      /\ Full[6] = Modify("lp_config0", {"wdt_en", "flashboot_mod_en"}, {})
      /\ Full[7] = Write("lp_wprotect", {})
      /\ Full[8] = Write("swd_wprotect", {"key"})
      /\ Full[9] = Modify("swd_config", {}, {"swd_auto_feed_en"})
      /\ Full[10] = Write("swd_wprotect", {})
      /\ Full[11] = Write("timg0_wprotect", {"key"})
      /\ Full[12] = Modify("timg0_config0", {"wdt_en", "flashboot_mod_en"}, {})
      /\ Full[13] = Write("timg0_wprotect", {})
      /\ Full[14] = Write("timg1_wprotect", {"key"})
      /\ Full[15] = Modify("timg1_config0", {"wdt_en", "flashboot_mod_en"}, {})
      /\ Full[16] = Write("timg1_wprotect", {})
  BY ONLY <1>5, PreludeAccesses
<1> QED BY ONLY <1>3, <1>6, <1>7, <1>8, MpllAccesses, FlashAccesses

\* The registers in tables.
LEMMA Tables ==
  /\ \A i \in 17 .. 58 : PmuTable[i - 16] \in PmuTemplates
                         /\ Full[i] = Write(PmuTable[i - 16], {"idf"})
  /\ \A i \in 74 .. 81 : Clocks[i - 73] \in Range(Clocks)
                         /\ Full[i] = Modify(Clocks[i - 73], {}, {"idf"})
  /\ \A i \in 82 .. 99 : PsramPins[i - 81] \in Range(PsramPins)
       /\ Full[i] = Modify(PsramPins[i - 81], {"drv_0", "drv_1"}, {"drv_1"})
  /\ \A i \in 100 .. 101 : Dqs[i - 99] \in Range(Dqs)
       /\ Full[i] = Modify(Dqs[i - 99], {"drv_0", "drv_1"}, {"drv_1"})
  /\ \A i \in 102 .. 103 : Dqs[i - 101] \in Range(Dqs)
       /\ Full[i] = Modify(Dqs[i - 101], {"xpd"}, {"xpd"})
<1>1. ASSUME NEW i \in 17 .. 58
      PROVE  PmuTable[i - 16] \in PmuTemplates /\ Full[i] = Write(PmuTable[i - 16], {"idf"})
  <2>1. i - 16 \in 1 .. 42
    OBVIOUS
  <2>2. Full[i] = PmuInitActiveState[i - 16]
    BY Layout, Zenon
  <2>3. \A k \in 1 .. 42 : PmuTable[k] \in PmuTemplates
                          /\ PmuInitActiveState[k] = Write(PmuTable[k], {"idf"})
    BY PmuAccesses, Zenon
  <2> QED BY ONLY <2>1, <2>2, <2>3, Zenon
<1>2. ASSUME NEW i \in 74 .. 81
      PROVE  Clocks[i - 73] \in Range(Clocks) /\ Full[i] = Modify(Clocks[i - 73], {}, {"idf"})
  <2>1. i - 73 \in 1 .. 8
    OBVIOUS
  <2>2. Full[i] = InitHpClocks[i - 73]
    BY Layout, Zenon
  <2>3. \A k \in 1 .. 8 : /\ Clocks[k] \in Range(Clocks)
                         /\ InitHpClocks[k] = Modify(Clocks[k], {}, {"idf"})
    BY ClockAccesses, Zenon
  <2> QED BY ONLY <2>1, <2>2, <2>3, Zenon
<1>3. ASSUME NEW i \in 82 .. 99
      PROVE  /\ PsramPins[i - 81] \in Range(PsramPins)
             /\ Full[i] = Modify(PsramPins[i - 81], {"drv_0", "drv_1"}, {"drv_1"})
  <2>1. i - 81 \in 1 .. 18 /\ i \in 82 .. 101
    OBVIOUS
  <2>2. Full[i] = PinDrvSet({"drv_1"})[i - 81]
    BY <2>1, Layout, Zenon
  <2> QED BY <2>1, <2>2, PinAccesses, Zenon
<1>4. ASSUME NEW i \in 100 .. 101
      PROVE  /\ Dqs[i - 99] \in Range(Dqs)
             /\ Full[i] = Modify(Dqs[i - 99], {"drv_0", "drv_1"}, {"drv_1"})
  <2>1. i - 99 \in 1 .. 2 /\ i \in 82 .. 101 /\ i - 81 = 18 + (i - 99)
    OBVIOUS
  <2>2. Full[i] = PinDrvSet({"drv_1"})[i - 81]
    BY <2>1, Layout, Zenon
  <2> QED BY <2>1, <2>2, PinAccesses, Zenon
<1>5. ASSUME NEW i \in 102 .. 103
      PROVE  Dqs[i - 101] \in Range(Dqs) /\ Full[i] = Modify(Dqs[i - 101], {"xpd"}, {"xpd"})
  <2>1. i - 101 \in 1 .. 2
    OBVIOUS
  <2>2. Full[i] = EnableDqs(TRUE)[i - 101]
    BY Layout, Zenon
  <2> QED BY <2>1, <2>2, PinAccesses, Zenon
<1> QED BY <1>1, <1>2, <1>3, <1>4, <1>5, Zenon

\* init is the beginning of init_phase2_full with the two L2 accesses.
LEMMA InitAccesses ==
  /\ Len(InitProgram) = 18
  /\ \A i \in 1 .. 16 : InitProgram[i] = Full[i]
  /\ InitProgram[17] = Full[106] /\ InitProgram[18] = Full[107]
<1>1. Len(InitProgram) = 18 /\ \A i \in 1 .. 16 : InitProgram[i] = Full[i]
  BY Layout, Zenon
<1>2. InitProgram[17] = InitL2CacheMode[1] /\ InitProgram[18] = InitL2CacheMode[2]
  <2>1. \A i \in 17 .. 18 : InitProgram[i] = InitL2CacheMode[i - 16]
    BY Layout, Zenon
  <2> QED BY ONLY <2>1
<1>3. InitL2CacheMode[1] = Full[106] /\ InitL2CacheMode[2] = Full[107]
  BY Singles, FlashAccesses, Zenon
<1> QED BY <1>1, <1>2, <1>3, Zenon

-----------------------------------------------------------------------------
(* What an access asserts, and which accesses stand.                       *)

\* The bits an access turns on and off; the ROM's enable turns on its bit.
Sets(a) == IF a.what = "Cache_Enable_L2_Cache" THEN {"enabled"} ELSE a.set
Clears(a) == a.clear \ Sets(a)

\* The effect of a is in the register file f; b takes it back.
InPlace(a, f) == Sets(a) \subseteq f[a.reg] /\ Clears(a) \cap f[a.reg] = {}
Undoes(b, a) == /\ b.reg = a.reg
                /\ \/ b.what = "esp_rom_spiflash_unlock"
                   \/ Sets(a) \cap Clears(b) # {}
                   \/ Clears(a) \cap Sets(b) # {}

\* Outside the Transient positions (keys put in, the bus routed to the bias block,
\* the calibration started and its logic reset, the ROM's unlock) the bring-up
\* turns the fields in On only on and those in Off only off.
Transient == {5, 8, 11, 14, 64, 68, 70, 115}
On == {"swd_auto_feed_en", "idf", "mspi_phy_xpd", "xpd_perif_i2c", "mpll_500m_en", "root_sel_0",
       "lp_i2cmst", "sel_160m", "mspi", "dreg_10", "dhref_3", "rstb", "400MHz", "mspi_cal_stop",
       "drv_1", "xpd", "flash_pll_clk_en", "src_sel_0", "flash_core_clk_en", "div_6", "set",
       "enabled", "cs_hold", "cs_setup", "attached"}
Off == {"reset_ena", "wdt_en", "flashboot_mod_en", "key", "other", "bias", "dreg_other", "drv_0",
        "src_sel_1", "div_other", "valid", "mapped", "cs_hold_time", "cs_setup_time",
        "deep_power_down", "wel"}
Asserting(a) == /\ a.what # "esp_rom_spiflash_unlock"
                /\ Sets(a) \subseteq On /\ Clears(a) \subseteq Off

\* The accesses nothing behind them takes back.
Lasting(i) == /\ i \in 1 .. 116 /\ i \notin Transient
              /\ \A j \in Transient : j > i => Full[j].reg # Full[i].reg

LEMMA OnOrOff == On \cap Off = {}
BY DEF On, Off

\* What the two shapes of an access turn on and off.
LEMMA Shape ==
  ASSUME NEW r, NEW clear, NEW set
  PROVE  /\ Modify(r, clear, set).reg = r /\ Modify(r, clear, set).what = "access"
         /\ Sets(Modify(r, clear, set)) = set /\ Clears(Modify(r, clear, set)) = clear \ set
         /\ Write(r, set).reg = r /\ Write(r, set).what = "access"
         /\ Sets(Write(r, set)) = set /\ Clears(Write(r, set)) = Bits[r] \ set
<1>1. /\ Modify(r, clear, set).reg = r /\ Modify(r, clear, set).what = "access"
      /\ Modify(r, clear, set).set = set /\ Modify(r, clear, set).clear = clear
  BY DEF Modify
<1>2. /\ Write(r, set).reg = r /\ Write(r, set).what = "access"
      /\ Write(r, set).set = set /\ Write(r, set).clear = Bits[r]
  BY DEF Write, Modify
<1>3. "access" # "Cache_Enable_L2_Cache"
  OBVIOUS
<1> QED BY <1>1, <1>2, <1>3 DEF Sets, Clears

LEMMA RomShape ==
  /\ EnableL2Cache.reg = "l2_cache" /\ EnableL2Cache.what = "Cache_Enable_L2_Cache"
  /\ Sets(EnableL2Cache) = {"enabled"} /\ Clears(EnableL2Cache) = {}
  /\ Unlock.reg = "flash_status" /\ Unlock.what = "esp_rom_spiflash_unlock"
  /\ Sets(Unlock) = {} /\ Clears(Unlock) = {}
BY DEF EnableL2Cache, Unlock, Modify, Sets, Clears

LEMMA ModifyAsserts ==
  ASSUME NEW r, NEW clear, NEW set, set \subseteq On, clear \ set \subseteq Off
  PROVE  Asserting(Modify(r, clear, set))
BY Shape DEF Asserting

LEMMA WriteAsserts ==
  ASSUME NEW r, NEW set, set \subseteq On, Bits[r] \ set \subseteq Off
  PROVE  Asserting(Write(r, set))
<1>1. /\ Write(r, set).what = "access"
      /\ Sets(Write(r, set)) = set /\ Clears(Write(r, set)) = Bits[r] \ set
  BY Shape, Zenon
<1> QED BY <1>1 DEF Asserting

\* The registers of the accesses outside the tables; only two of them are ROM calls.
LEMMA Names ==
  /\ Full[1].reg = "bod_mode0_cntl" /\ Full[2].reg = "bod_mode1_cntl"
  /\ Full[3].reg = "ck_glitch_cntl" /\ Full[4].reg = "pg_glitch_cntl"
  /\ Full[5].reg = "lp_wprotect" /\ Full[6].reg = "lp_config0"
  /\ Full[7].reg = "lp_wprotect" /\ Full[8].reg = "swd_wprotect"
  /\ Full[9].reg = "swd_config" /\ Full[10].reg = "swd_wprotect"
  /\ Full[11].reg = "timg0_wprotect" /\ Full[12].reg = "timg0_config0"
  /\ Full[13].reg = "timg0_wprotect" /\ Full[14].reg = "timg1_wprotect"
  /\ Full[15].reg = "timg1_config0" /\ Full[16].reg = "timg1_wprotect"
  /\ Full[59].reg = "pmu_rf_pwc" /\ Full[60].reg = "hp_clk_ctrl"
  /\ Full[61].reg = "lpperi_clk_en" /\ Full[62].reg = "i2c_clk160m"
  /\ Full[63].reg = "i2c_conf1" /\ Full[64].reg = "i2c_conf2"
  /\ Full[65].reg = "bias_dreg_1p1" /\ Full[66].reg = "bias_dreg_1p1_pvt"
  /\ Full[67].reg = "i2c_conf2" /\ Full[68].reg = "ana_pll_ctrl0"
  /\ Full[69].reg = "mpll_dhref" /\ Full[70].reg = "mpll_ir_cal_rstb"
  /\ Full[71].reg = "mpll_ir_cal_rstb" /\ Full[72].reg = "mpll_div"
  /\ Full[73].reg = "ana_pll_ctrl0" /\ Full[104].reg = "peri_clk_ctrl00"
  /\ Full[105].reg = "peri_clk_ctrl00" /\ Full[106].reg = "l2_mode"
  /\ Full[107].reg = "l2_lines" /\ Full[108].reg = "l2_cache"
  /\ Full[109].reg = "flash_mmu" /\ Full[110].reg = "psram_mmu"
  /\ Full[111].reg = "mspi" /\ Full[112].reg = "spi0_user"
  /\ Full[113].reg = "spi0_ctrl2" /\ Full[114].reg = "flash_power"
  /\ Full[115].reg = "flash_status" /\ Full[116].reg = "flash_status"
  /\ \A i \in 1 .. 116 : i # 108 /\ i # 115 => Full[i].what = "access"
  /\ Full[108] = EnableL2Cache /\ Full[115] = Unlock
<1>1. \A r, clear, set : /\ Modify(r, clear, set).reg = r /\ Modify(r, clear, set).what = "access"
                        /\ Write(r, set).reg = r /\ Write(r, set).what = "access"
  BY Shape
<1>2. /\ Full[1].reg = "bod_mode0_cntl" /\ Full[1].what = "access"
      /\ Full[2].reg = "bod_mode1_cntl" /\ Full[2].what = "access"
      /\ Full[3].reg = "ck_glitch_cntl" /\ Full[3].what = "access"
      /\ Full[4].reg = "pg_glitch_cntl" /\ Full[4].what = "access"
      /\ Full[5].reg = "lp_wprotect" /\ Full[5].what = "access"
      /\ Full[6].reg = "lp_config0" /\ Full[6].what = "access"
      /\ Full[7].reg = "lp_wprotect" /\ Full[7].what = "access"
      /\ Full[8].reg = "swd_wprotect" /\ Full[8].what = "access"
  BY <1>1, Singles, RomShape
<1>3. /\ Full[9].reg = "swd_config" /\ Full[9].what = "access"
      /\ Full[10].reg = "swd_wprotect" /\ Full[10].what = "access"
      /\ Full[11].reg = "timg0_wprotect" /\ Full[11].what = "access"
      /\ Full[12].reg = "timg0_config0" /\ Full[12].what = "access"
      /\ Full[13].reg = "timg0_wprotect" /\ Full[13].what = "access"
      /\ Full[14].reg = "timg1_wprotect" /\ Full[14].what = "access"
      /\ Full[15].reg = "timg1_config0" /\ Full[15].what = "access"
      /\ Full[16].reg = "timg1_wprotect" /\ Full[16].what = "access"
  BY <1>1, Singles, RomShape
<1>4. /\ Full[59].reg = "pmu_rf_pwc" /\ Full[59].what = "access"
      /\ Full[60].reg = "hp_clk_ctrl" /\ Full[60].what = "access"
      /\ Full[61].reg = "lpperi_clk_en" /\ Full[61].what = "access"
      /\ Full[62].reg = "i2c_clk160m" /\ Full[62].what = "access"
      /\ Full[63].reg = "i2c_conf1" /\ Full[63].what = "access"
      /\ Full[64].reg = "i2c_conf2" /\ Full[64].what = "access"
      /\ Full[65].reg = "bias_dreg_1p1" /\ Full[65].what = "access"
      /\ Full[66].reg = "bias_dreg_1p1_pvt" /\ Full[66].what = "access"
  BY <1>1, Singles, RomShape
<1>5. /\ Full[67].reg = "i2c_conf2" /\ Full[67].what = "access"
      /\ Full[68].reg = "ana_pll_ctrl0" /\ Full[68].what = "access"
      /\ Full[69].reg = "mpll_dhref" /\ Full[69].what = "access"
      /\ Full[70].reg = "mpll_ir_cal_rstb" /\ Full[70].what = "access"
      /\ Full[71].reg = "mpll_ir_cal_rstb" /\ Full[71].what = "access"
      /\ Full[72].reg = "mpll_div" /\ Full[72].what = "access"
      /\ Full[73].reg = "ana_pll_ctrl0" /\ Full[73].what = "access"
  BY <1>1, Singles, RomShape
<1>6. /\ Full[104].reg = "peri_clk_ctrl00" /\ Full[104].what = "access"
      /\ Full[105].reg = "peri_clk_ctrl00" /\ Full[105].what = "access"
      /\ Full[106].reg = "l2_mode" /\ Full[106].what = "access"
      /\ Full[107].reg = "l2_lines" /\ Full[107].what = "access"
      /\ Full[108].reg = "l2_cache"
      /\ Full[109].reg = "flash_mmu" /\ Full[109].what = "access"
      /\ Full[110].reg = "psram_mmu" /\ Full[110].what = "access"
  BY <1>1, Singles, RomShape
<1>7. /\ Full[111].reg = "mspi" /\ Full[111].what = "access"
      /\ Full[112].reg = "spi0_user" /\ Full[112].what = "access"
      /\ Full[113].reg = "spi0_ctrl2" /\ Full[113].what = "access"
      /\ Full[114].reg = "flash_power" /\ Full[114].what = "access"
      /\ Full[115].reg = "flash_status"
      /\ Full[116].reg = "flash_status" /\ Full[116].what = "access"
  BY <1>1, Singles, RomShape
<1> DEFINE Plain(i) == Full[i].what = "access"
<1>8. \A i \in 17 .. 58 : Plain(i)
  BY <1>1, Tables
<1>9. \A i \in 74 .. 81 : Plain(i)
  BY <1>1, Tables
<1>10. \A i \in 82 .. 99 : Plain(i)
  BY <1>1, Tables
<1>11. \A i \in 100 .. 101 : Plain(i)
  BY <1>1, Tables
<1>12. \A i \in 102 .. 103 : Plain(i)
  BY <1>1, Tables
<1>13. /\ Plain(1) /\ Plain(2) /\ Plain(3) /\ Plain(4) /\ Plain(5) /\ Plain(6)
      /\ Plain(7) /\ Plain(8) /\ Plain(9) /\ Plain(10) /\ Plain(11) /\ Plain(12)
      /\ Plain(13) /\ Plain(14) /\ Plain(15) /\ Plain(16) /\ Plain(59) /\ Plain(60)
      /\ Plain(61) /\ Plain(62) /\ Plain(63) /\ Plain(64) /\ Plain(65) /\ Plain(66)
      /\ Plain(67) /\ Plain(68) /\ Plain(69) /\ Plain(70) /\ Plain(71) /\ Plain(72)
      /\ Plain(73) /\ Plain(104) /\ Plain(105) /\ Plain(106) /\ Plain(107) /\ Plain(109)
      /\ Plain(110) /\ Plain(111) /\ Plain(112) /\ Plain(113) /\ Plain(114) /\ Plain(116)
  BY ONLY <1>2, <1>3, <1>4, <1>5, <1>6, <1>7
<1> HIDE DEF Plain
<1>14. \A i \in 1 .. 116 : i # 108 /\ i # 115 => Plain(i)
  BY ONLY <1>8, <1>9, <1>10, <1>11, <1>12, <1>13
<1>15. Full[108] = EnableL2Cache /\ Full[115] = Unlock
  BY Singles
<1> USE DEF Plain
<1> QED BY ONLY <1>2, <1>3, <1>4, <1>5, <1>6, <1>7, <1>14, <1>15

\* Outside Transient, every access asserts.
LEMMA Asserts == \A i \in 1 .. 116 : i \notin Transient => Asserting(Full[i])
<1> DEFINE Fine(set, rest) == set \subseteq On /\ rest \subseteq Off
<1>1. /\ Asserting(Full[1]) /\ Asserting(Full[2]) /\ Asserting(Full[3]) /\ Asserting(Full[4])
      /\ Asserting(Full[6]) /\ Asserting(Full[9]) /\ Asserting(Full[12]) /\ Asserting(Full[15])
  <2>1. /\ Fine({"swd_auto_feed_en"}, {} \ {"swd_auto_feed_en"})
        /\ Fine({}, {"reset_ena"} \ {})
        /\ Fine({}, {"wdt_en", "flashboot_mod_en"} \ {})
    BY DEF On, Off
  <2> QED BY <2>1, Singles, ModifyAsserts
<1>2. /\ Asserting(Full[59]) /\ Asserting(Full[60]) /\ Asserting(Full[61]) /\ Asserting(Full[62])
      /\ Asserting(Full[65]) /\ Asserting(Full[66]) /\ Asserting(Full[69]) /\ Asserting(Full[71])
  <2>1. /\ Fine({"dhref_3"}, {} \ {"dhref_3"})
        /\ Fine({"dreg_10"}, {"dreg_other"} \ {"dreg_10"})
        /\ Fine({"lp_i2cmst"}, {} \ {"lp_i2cmst"})
        /\ Fine({"mpll_500m_en", "root_sel_0"}, {} \ {"mpll_500m_en", "root_sel_0"})
        /\ Fine({"mspi_phy_xpd", "xpd_perif_i2c"}, {} \ {"mspi_phy_xpd", "xpd_perif_i2c"})
        /\ Fine({"rstb"}, {} \ {"rstb"})
        /\ Fine({"sel_160m"}, {} \ {"sel_160m"})
    BY DEF On, Off
  <2> QED BY <2>1, Singles, ModifyAsserts
<1>3. /\ Asserting(Full[73]) /\ Asserting(Full[104]) /\ Asserting(Full[105]) /\ Asserting(Full[112])
      /\ Asserting(Full[113]) /\ Asserting(Full[116])
  <2>1. /\ Fine({"cs_hold", "cs_setup"}, {} \ {"cs_hold", "cs_setup"})
        /\ Fine({"flash_core_clk_en", "div_6"}, {"div_other"} \ {"flash_core_clk_en", "div_6"})
        /\ Fine({"flash_pll_clk_en", "src_sel_0"}, {"src_sel_1"} \ {"flash_pll_clk_en", "src_sel_0"})
        /\ Fine({"mspi_cal_stop"}, {} \ {"mspi_cal_stop"})
        /\ Fine({}, {"cs_hold_time", "cs_setup_time"} \ {})
        /\ Fine({}, {"wel"} \ {})
    BY DEF On, Off
  <2> QED BY <2>1, Singles, ModifyAsserts
<1>4. /\ Asserting(Full[7]) /\ Asserting(Full[10]) /\ Asserting(Full[13]) /\ Asserting(Full[16])
      /\ Asserting(Full[63]) /\ Asserting(Full[67]) /\ Asserting(Full[72])
  <2>1. /\ Fine({}, Bits["lp_wprotect"] \ {})
        /\ Fine({}, Bits["swd_wprotect"] \ {})
        /\ Fine({}, Bits["timg0_wprotect"] \ {})
        /\ Fine({}, Bits["timg1_wprotect"] \ {})
        /\ Fine({}, Bits["i2c_conf1"] \ {})
        /\ Fine({"mspi"}, Bits["i2c_conf2"] \ {"mspi"})
        /\ Fine({"400MHz"}, Bits["mpll_div"] \ {"400MHz"})
    BY WatchdogBits, MpllBits, RestBits DEF On, Off, Wprotects, Mmus
  <2> QED BY <2>1, Singles, WriteAsserts
<1>5. /\ Asserting(Full[106]) /\ Asserting(Full[107]) /\ Asserting(Full[109]) /\ Asserting(Full[110])
      /\ Asserting(Full[111]) /\ Asserting(Full[114])
  <2>1. /\ Fine({"set"}, Bits["l2_mode"] \ {"set"})
        /\ Fine({}, Bits["l2_lines"] \ {})
        /\ Fine({}, Bits["flash_mmu"] \ {})
        /\ Fine({}, Bits["psram_mmu"] \ {})
        /\ Fine({"attached"}, Bits["mspi"] \ {"attached"})
        /\ Fine({}, Bits["flash_power"] \ {})
    BY WatchdogBits, MpllBits, RestBits DEF On, Off, Wprotects, Mmus
  <2> QED BY <2>1, Singles, WriteAsserts
<1>6. Asserting(Full[108])
  BY Singles, RomShape DEF Asserting, On
<1>7. \A i \in 17 .. 58 : Asserting(Full[i])
  <2> TAKE i \in 17 .. 58
  <2>1. PmuTable[i - 16] \in PmuTemplates /\ Full[i] = Write(PmuTable[i - 16], {"idf"})
    BY Tables
  <2>2. Bits[PmuTable[i - 16]] = {"idf", "other"}
    BY <2>1, MpllBits, Zenon
  <2>3. {"idf"} \subseteq On /\ {"idf", "other"} \ {"idf"} \subseteq Off
    BY DEF On, Off
  <2> QED BY <2>1, <2>2, <2>3, WriteAsserts, Zenon
<1>8. \A i \in 74 .. 81 : Asserting(Full[i])
  <2>1. {"idf"} \subseteq On /\ {} \ {"idf"} \subseteq Off
    BY DEF On, Off
  <2> QED BY <2>1, Tables, ModifyAsserts
<1>9. {"drv_1"} \subseteq On /\ {"drv_0", "drv_1"} \ {"drv_1"} \subseteq Off
  BY DEF On, Off
<1>10. \A i \in 82 .. 99 : Asserting(Full[i])
  BY <1>9, Tables, ModifyAsserts
<1>11. \A i \in 100 .. 101 : Asserting(Full[i])
  BY <1>9, Tables, ModifyAsserts
<1>12. \A i \in 102 .. 103 : Asserting(Full[i])
  <2>1. {"xpd"} \subseteq On /\ {"xpd"} \ {"xpd"} \subseteq Off
    BY DEF On, Off
  <2> QED BY <2>1, Tables, ModifyAsserts
<1> QED BY ONLY <1>1, <1>2, <1>3, <1>4, <1>5, <1>6,
                <1>7, <1>8, <1>10, <1>11, <1>12 DEF Transient

\* Two accesses that both assert do not take each other back.
LEMMA LastingStands ==
  ASSUME NEW i, Lasting(i), NEW j \in i + 1 .. 116
  PROVE  ~Undoes(Full[j], Full[i])
<1>1. i \in 1 .. 116 /\ i \notin Transient /\ j \in 1 .. 116 /\ j > i
  BY DEF Lasting
<1>2. CASE j \in Transient
  BY <1>1, <1>2 DEF Lasting, Undoes
<1>3. CASE j \notin Transient
  <2>1. Asserting(Full[i]) /\ Asserting(Full[j])
    BY <1>1, <1>3, Asserts
  <2> QED BY <2>1, OnOrOff DEF Asserting, Undoes
<1> QED BY <1>2, <1>3

\* What lasts: all that is no scratch state, and the last access to each scratch
\* register the caller does not share with the ROM.
LEMMA LastingAre ==
  /\ \A i \in 1 .. 116 : Full[i].reg \notin Scratch => Lasting(i)
  /\ Lasting(7) /\ Lasting(10) /\ Lasting(13) /\ Lasting(15) /\ Lasting(16) /\ Lasting(67)
  /\ Lasting(71) /\ Lasting(73) /\ Lasting(80) /\ Lasting(107) /\ Lasting(109) /\ Lasting(110)
  /\ Lasting(116)
<1>1. /\ Full[5].reg = "lp_wprotect" /\ Full[8].reg = "swd_wprotect"
      /\ Full[11].reg = "timg0_wprotect" /\ Full[14].reg = "timg1_wprotect"
      /\ Full[64].reg = "i2c_conf2" /\ Full[68].reg = "ana_pll_ctrl0"
      /\ Full[70].reg = "mpll_ir_cal_rstb" /\ Full[115].reg = "flash_status"
  BY Names
<1>2. \A j \in Transient : Full[j].reg \in Scratch
  BY <1>1 DEF Transient, Scratch, Wprotects
<1>3. \A i \in 1 .. 116 : Full[i].reg \notin Scratch => Lasting(i)
  BY <1>2 DEF Lasting
<1>4. Full[80].reg = "ana_pll_ctrl0"
  <2>1. 80 \in 74 .. 81 /\ 80 - 73 = 7
    OBVIOUS
  <2>2. Full[80] = Modify(Clocks[80 - 73], {}, {"idf"})
    BY <2>1, Tables
  <2>3. Clocks[80 - 73] = "ana_pll_ctrl0"
    BY <2>1, ClockAccesses
  <2> QED BY <2>2, <2>3, Shape
<1>5. /\ Full[7].reg = "lp_wprotect"
      /\ Full[10].reg = "swd_wprotect"
      /\ Full[13].reg = "timg0_wprotect"
      /\ Full[15].reg = "timg1_config0"
      /\ Full[16].reg = "timg1_wprotect"
      /\ Full[67].reg = "i2c_conf2"
      /\ Full[71].reg = "mpll_ir_cal_rstb"
      /\ Full[73].reg = "ana_pll_ctrl0"
      /\ Full[107].reg = "l2_lines"
      /\ Full[109].reg = "flash_mmu"
      /\ Full[110].reg = "psram_mmu"
      /\ Full[116].reg = "flash_status"
  BY Names
<1>6. /\ Lasting(7) /\ Lasting(10) /\ Lasting(13) /\ Lasting(15) /\ Lasting(16) /\ Lasting(67)
      /\ Lasting(71) /\ Lasting(73) /\ Lasting(107) /\ Lasting(109) /\ Lasting(110) /\ Lasting(116)
      /\ Lasting(80)
  BY <1>1, <1>4, <1>5 DEF Lasting, Transient
<1> QED BY <1>3, <1>6

\* The registers an access needs something for, and where the program has them.
Guarded == Watchdogs \cup {"swd_config"} \cup Bias \cup Mpll
           \cup {"l2_lines", "l2_cache", "flash_power", "flash_status"}

LEMMA GuardedAre ==
  \A i \in 1 .. 116 :
    Full[i].reg \in Guarded =>
      i \in {6, 9, 12, 15, 65, 66, 69, 70, 71, 72, 107, 108, 114, 115, 116}
<1> DEFINE Free(i) == Full[i].reg \notin Guarded
<1>1. \A r \in PmuTemplates \cup Range(Clocks) \cup Range(PsramPins) \cup Range(Dqs) :
        r \notin Guarded
  BY DEF PmuTemplates, Range, HpActive, HpSleep, LpSleep, PorDefaults, ExtLdo, Clocks, PsramPins,
         Dqs, Guarded, Watchdogs, Bias, Mpll
<1> HIDE DEF Free
<1>0. \A r, value : Write(r, value).reg = r
  BY Shape
<1>2. \A i \in 17 .. 58 : Free(i)
  <2> TAKE i \in 17 .. 58
  <2>1. PmuTable[i - 16] \in PmuTemplates /\ Full[i] = Write(PmuTable[i - 16], {"idf"})
    BY Tables
  <2>2. Full[i].reg = PmuTable[i - 16]
    BY <1>0, <2>1, Zenon
  <2>3. Full[i].reg \in PmuTemplates
    BY ONLY <2>1, <2>2, Zenon
  <2> QED BY ONLY <1>1, <2>3, Zenon DEF Free
<1>3. \A i \in 74 .. 81 : Free(i)
  BY ONLY <1>1, Tables, Shape DEF Free
<1>4. \A i \in 82 .. 99 : Free(i)
  BY ONLY <1>1, Tables, Shape DEF Free
<1>5. \A i \in 100 .. 101 : Free(i)
  BY ONLY <1>1, Tables, Shape DEF Free
<1>6. \A i \in 102 .. 103 : Free(i)
  BY ONLY <1>1, Tables, Shape DEF Free
<1>7. /\ Free(1) /\ Free(2) /\ Free(3) /\ Free(4) /\ Free(5) /\ Free(7) /\ Free(8) /\ Free(10)
      /\ Free(11) /\ Free(13) /\ Free(14) /\ Free(16) /\ Free(59) /\ Free(60) /\ Free(61) /\ Free(62)
      /\ Free(63) /\ Free(64) /\ Free(67) /\ Free(68) /\ Free(73) /\ Free(104) /\ Free(105) /\ Free(106)
      /\ Free(109) /\ Free(110) /\ Free(111) /\ Free(112) /\ Free(113)
  BY Names DEF Free, Guarded, Watchdogs, Bias, Mpll
<1>8. \A i \in 1 .. 116 :
        i \notin {6, 9, 12, 15, 65, 66, 69, 70, 71, 72, 107, 108, 114, 115, 116} => Free(i)
  BY <1>2, <1>3, <1>4, <1>5, <1>6, <1>7
<1> QED BY ONLY <1>8 DEF Free

-----------------------------------------------------------------------------
(* The invariant.                                                          *)

\* What the accesses done so far asserted, as far as none of them took it back.
InForce ==
  Running =>
    \A i \in 1 .. pc - 1 :
      (\A j \in i + 1 .. pc - 1 : ~Undoes(Program(entry)[j], Program(entry)[i]))
        => InPlace(Program(entry)[i], reg)

\* A register file as init_phase2_full leaves it ...
Left(f) == /\ f \in Files
           /\ \A i : Lasting(i) => InPlace(Full[i], f)
           /\ \A r \in Registers \ Whole : "other" \in f[r] <=> r \in inherited

\* ... and all that may have moved since.
Settled == settled # NotYet => /\ Left(settled)
                               /\ \A r \in Registers \ Scratch : reg[r] = settled[r]

OutcomeInv == IInv /\ InForce /\ Settled

-----------------------------------------------------------------------------
(* Lemmas about a step.                                                    *)

\* Where the program is, by the entry point that runs.
LEMMA WhereItIs ==
  ASSUME Place, Running
  PROVE  \/ /\ entry = "init_phase2_full" /\ Program(entry) = Full
            /\ pc \in 1 .. 117 /\ (AtReturn <=> pc = 117)
         \/ /\ entry = "init" /\ Program(entry) = InitProgram
            /\ pc \in 1 .. 19 /\ (AtReturn <=> pc = 19)
<1>1. CASE entry = "init_phase2_full"
  <2>1. Program(entry) = Full
    BY <1>1 DEF Program, Full
  <2>2. Len(Program(entry)) = 116
    BY <2>1, Layout, Zenon
  <2>3. pc \in 1 .. 116 + 1 /\ (AtReturn <=> pc > 116)
    BY <2>2 DEF Place, AtReturn
  <2> QED BY ONLY <1>1, <2>1, <2>3
<1>2. CASE entry = "init"
  <2>1. Program(entry) = InitProgram
    BY <1>2 DEF Program
  <2>2. Len(Program(entry)) = 18
    BY <2>1, InitAccesses, Zenon
  <2>3. pc \in 1 .. 18 + 1 /\ (AtReturn <=> pc > 18)
    BY <2>2 DEF Place, AtReturn
  <2> QED BY ONLY <1>2, <2>1, <2>3
<1> QED BY <1>1, <1>2 DEF Place, Running

\* Every access of a run is one of init_phase2_full's.
LEMMA InFull ==
  ASSUME Place, Running, NEW i \in 1 .. pc, i = pc => ~AtReturn
  PROVE  /\ \E k \in 1 .. 116 : Program(entry)[i] = Full[k]
         /\ Program(entry)[i].reg \in Registers
<1>1. \E k \in 1 .. 116 : Program(entry)[i] = Full[k]
  <2>1. CASE entry = "init_phase2_full"
    <3>1. Program(entry) = Full /\ pc \in 1 .. 117 /\ (AtReturn <=> pc = 117)
      BY <2>1, WhereItIs
    <3> QED BY ONLY <3>1, i \in 1 .. pc, i = pc => ~AtReturn
  <2>2. CASE entry = "init"
    <3>1. Program(entry) = InitProgram /\ pc \in 1 .. 19 /\ (AtReturn <=> pc = 19)
      BY <2>2, WhereItIs
    <3>2. i \in 1 .. 16 \/ i = 17 \/ i = 18
      BY ONLY <3>1, i \in 1 .. pc, i = pc => ~AtReturn
    <3>3. /\ \A k \in 1 .. 16 : InitProgram[k] = Full[k]
          /\ InitProgram[17] = Full[106] /\ InitProgram[18] = Full[107]
      BY InitAccesses, Zenon
    <3>4. 106 \in 1 .. 116 /\ 107 \in 1 .. 116 /\ \A k \in 1 .. 16 : k \in 1 .. 116
      OBVIOUS
    <3> QED BY ONLY <3>1, <3>2, <3>3, <3>4
  <2> QED BY <2>1, <2>2 DEF Place, Running
<1>2. \A k \in 1 .. 116 : Full[k] \in Careful
  <2>1. Full \in Seq(Careful) /\ Len(Full) = 116
    BY Layout, Zenon
  <2>2. \A k \in 1 .. Len(Full) : Full[k] \in Careful
    BY <2>1, ElementOfSeq, Zenon
  <2> QED BY <2>1, <2>2, Zenon
<1> QED BY <1>1, <1>2 DEF Careful

\* What an access that lands, or a ROM call, does to the register file.
Effect(b, f, g) ==
  /\ \A s \in Registers \ {b.reg} : g[s] = f[s]
  /\ b.what # "esp_rom_spiflash_unlock" => g[b.reg] = (f[b.reg] \ Clears(b)) \cup Sets(b)

\* It leaves in place what it does not undo.
LEMMA Kept ==
  ASSUME NEW a, NEW b, NEW f, NEW g, a.reg \in Registers, InPlace(a, f), ~Undoes(b, a),
         Effect(b, f, g)
  PROVE  InPlace(a, g)
<1>1. CASE a.reg # b.reg
  BY <1>1 DEF Effect, InPlace
<1>2. CASE a.reg = b.reg
  BY <1>2 DEF Effect, InPlace, Undoes
<1> QED BY <1>1, <1>2

\* In a register written as a whole the value is what is in place.
LEMMA WholeInPlace ==
  ASSUME NEW f \in Files, NEW r \in Registers, NEW v, InPlace(Write(r, v), f), v \subseteq Bits[r]
  PROVE  f[r] = v
<1>1. f[r] \subseteq Bits[r]
  BY DEF Files
<1>2. /\ Write(r, v).reg = r /\ Sets(Write(r, v)) = v /\ Clears(Write(r, v)) = Bits[r] \ v
  BY Shape
<1>3. v \subseteq f[r] /\ (Bits[r] \ v) \cap f[r] = {}
  BY <1>2 DEF InPlace
<1> QED BY <1>1, <1>3

LEMMA WrittenInPlace ==
  ASSUME NEW f, NEW r, NEW v, InPlace(Write(r, v), f)
  PROVE  v \subseteq f[r]
<1>1. Write(r, v).reg = r /\ Sets(Write(r, v)) = v
  BY Shape
<1> QED BY <1>1 DEF InPlace

LEMMA FieldInPlace ==
  ASSUME NEW f, NEW r, NEW clear, NEW set, InPlace(Modify(r, clear, set), f)
  PROVE  set \subseteq f[r] /\ (clear \ set) \cap f[r] = {}
<1>1. /\ Modify(r, clear, set).reg = r /\ Sets(Modify(r, clear, set)) = set
      /\ Clears(Modify(r, clear, set)) = clear \ set
  BY Shape
<1> QED BY <1>1 DEF InPlace

\* What lasts is in force once it is done.
LEMMA Standing ==
  ASSUME Place, InForce, Running, entry = "init_phase2_full", NEW i, Lasting(i), i < pc
  PROVE  InPlace(Full[i], reg)
<1>1. Program(entry) = Full /\ pc \in 1 .. 117
  BY WhereItIs
<1>2. i \in 1 .. 116
  BY DEF Lasting
<1>3. i \in 1 .. pc - 1 /\ \A j \in i + 1 .. pc - 1 : j \in i + 1 .. 116
  BY ONLY <1>1, <1>2, i < pc
<1>4. \A j \in i + 1 .. pc - 1 : ~Undoes(Full[j], Full[i])
  BY <1>3, LastingStands
<1> QED BY <1>1, <1>3, <1>4 DEF InForce

-----------------------------------------------------------------------------
(* Every access lands.                                                     *)

\* Behind the bus bring-up the bus is up.
LEMMA BusComesUp ==
  ASSUME Place, InForce, Running, entry = "init_phase2_full", pc > 63
  PROVE  BusUp
<1>1. /\ Full[59].reg \notin Scratch /\ Full[61].reg \notin Scratch
      /\ Full[62].reg \notin Scratch /\ Full[63].reg \notin Scratch
  BY Names DEF Scratch, Wprotects, AppRegisters, Mmus
<1>2. pc \in 1 .. 117
  BY WhereItIs
<1>3. Lasting(59) /\ Lasting(61) /\ Lasting(62) /\ Lasting(63)
  BY <1>1, LastingAre
<1>4. 59 < pc /\ 61 < pc /\ 62 < pc /\ 63 < pc
  BY <1>2
<1>5. InPlace(Full[59], reg) /\ InPlace(Full[61], reg) /\ InPlace(Full[62], reg)
      /\ InPlace(Full[63], reg)
  BY <1>3, <1>4, Standing
<1>6. /\ InPlace(Modify("pmu_rf_pwc", {}, {"mspi_phy_xpd", "xpd_perif_i2c"}), reg)
      /\ InPlace(Modify("lpperi_clk_en", {}, {"lp_i2cmst"}), reg)
      /\ InPlace(Modify("i2c_clk160m", {}, {"sel_160m"}), reg)
      /\ InPlace(Write("i2c_conf1", {}), reg)
  BY <1>5, Singles
<1>7. /\ "xpd_perif_i2c" \in reg["pmu_rf_pwc"] /\ "lp_i2cmst" \in reg["lpperi_clk_en"]
      /\ "sel_160m" \in reg["i2c_clk160m"]
  BY <1>6, FieldInPlace
<1>8. reg["i2c_conf1"] = {}
  <2>1. "i2c_conf1" \in Registers /\ {} \subseteq Bits["i2c_conf1"] /\ reg \in Files
    BY MpllBits DEF Place
  <2> QED BY <1>6, <2>1, WholeInPlace
<1> QED BY <1>7, <1>8 DEF BusUp

\* The accesses that need something are done where it is there.
LEMMA LandsWhereNeeded ==
  ASSUME Place, InForce, Silenced, Running, entry = "init_phase2_full", ~AtReturn
  PROVE  Open(Full[pc].reg)
<1>1. pc \in 1 .. 116
  BY WhereItIs
<1>2. reg \in Files
  BY DEF Place
<1>3. CASE Full[pc].reg \notin Guarded
  BY <1>3 DEF Open, Guarded
<1>4. CASE pc \in {6, 9, 12, 15}
  <2>1. /\ Full[6].reg = "lp_config0" /\ Full[9].reg = "swd_config"
        /\ Full[12].reg = "timg0_config0" /\ Full[15].reg = "timg1_config0"
    BY Names
  <2> QED BY <1>4, <2>1, Reaches DEF Silenced
<1>5. CASE pc \in {65, 66}
  <2>1. BusUp
    BY <1>5, BusComesUp
  <2>2. InPlace(Full[64], reg)
    <3>1. Program(entry) = Full
      BY WhereItIs
    <3>2. ~Undoes(Full[65], Full[64])
      BY Names DEF Undoes
    <3>3. 64 \in 1 .. pc - 1 /\ \A j \in 65 .. pc - 1 : j = 65
      BY <1>5
    <3>4. 64 + 1 = 65
      OBVIOUS
    <3> QED BY <3>1, <3>2, <3>3, <3>4 DEF InForce
  <2>3. reg["i2c_conf2"] = {"bias"}
    <3>1. InPlace(Write("i2c_conf2", {"bias"}), reg)
      BY <2>2, Singles
    <3>2. "i2c_conf2" \in Registers /\ {"bias"} \subseteq Bits["i2c_conf2"]
      BY MpllBits
    <3> QED BY <1>2, <3>1, <3>2, WholeInPlace
  <2>4. Full[pc].reg \in Bias
    BY <1>5, Names DEF Bias
  <2> QED BY <2>1, <2>3, <2>4 DEF Open, Bias, Watchdogs, Mpll
<1>6. CASE pc \in {69, 70, 71, 72}
  <2>1. BusUp
    BY <1>6, BusComesUp
  <2>2. InPlace(Full[67], reg)
    BY <1>6, LastingAre, Standing
  <2>3. reg["i2c_conf2"] = {"mspi"}
    <3>1. InPlace(Write("i2c_conf2", {"mspi"}), reg)
      BY <2>2, Singles
    <3>2. "i2c_conf2" \in Registers /\ {"mspi"} \subseteq Bits["i2c_conf2"]
      BY MpllBits
    <3> QED BY <1>2, <3>1, <3>2, WholeInPlace
  <2>4. Full[pc].reg \in Mpll
    BY <1>6, Names DEF Mpll
  <2> QED BY <2>1, <2>3, <2>4 DEF Open, Bias, Watchdogs, Mpll
<1>7. CASE pc \in {107, 108}
  <2>1. Lasting(106)
    <3>1. Full[106].reg \notin Scratch
      BY Names DEF Scratch, Wprotects, AppRegisters, Mmus
    <3> QED BY <3>1, LastingAre
  <2>2. InPlace(Full[106], reg)
    BY <1>7, <2>1, Standing
  <2>3. "set" \in reg["l2_mode"]
    <3>1. InPlace(Write("l2_mode", {"set"}), reg)
      BY <2>2, Singles
    <3> QED BY <3>1, WrittenInPlace
  <2>4. Full[pc].reg \in {"l2_lines", "l2_cache"}
    BY <1>7, Names
  <2> QED BY <2>3, <2>4 DEF Open, Bias, Watchdogs, Mpll
<1>8. CASE pc \in {114, 115, 116}
  <2>1. Lasting(111) /\ Lasting(114)
    <3>1. Full[111].reg \notin Scratch /\ Full[114].reg \notin Scratch
      BY Names DEF Scratch, Wprotects, AppRegisters, Mmus
    <3> QED BY <3>1, LastingAre
  <2>2. "attached" \in reg["mspi"]
    <3>1. InPlace(Full[111], reg)
      BY <1>8, <2>1, Standing
    <3>2. InPlace(Write("mspi", {"attached"}), reg)
      BY <3>1, Singles
    <3> QED BY <3>2, WrittenInPlace
  <2>3. pc > 114 => reg["flash_power"] = {}
    <3> SUFFICES ASSUME pc > 114 PROVE reg["flash_power"] = {}
      OBVIOUS
    <3>1. InPlace(Full[114], reg)
      BY <2>1, Standing
    <3>2. InPlace(Write("flash_power", {}), reg)
      BY <3>1, Singles
    <3>3. "flash_power" \in Registers /\ {} \subseteq Bits["flash_power"]
      BY RestBits
    <3> QED BY <1>2, <3>2, <3>3, WholeInPlace
  <2>4. /\ pc = 114 => Full[pc].reg = "flash_power"
        /\ pc > 114 => Full[pc].reg = "flash_status"
    BY <1>8, Names
  <2>5. pc = 114 \/ pc > 114
    BY <1>8
  <2> QED BY <2>2, <2>3, <2>4, <2>5 DEF Open, Bias, Watchdogs, Mpll
<1>9. Full[pc].reg \in Guarded =>
        pc \in {6, 9, 12, 15, 65, 66, 69, 70, 71, 72, 107, 108, 114, 115, 116}
  BY <1>1, GuardedAre
<1> QED BY <1>3, <1>4, <1>5, <1>6, <1>7, <1>8, <1>9

\* Whichever entry point runs, its next access lands.
LEMMA Lands ==
  ASSUME Place, InForce, Silenced, Running, ~AtReturn
  PROVE  Open(Access.reg)
<1>1. CASE entry = "init_phase2_full"
  <2>1. Access = Full[pc]
    BY <1>1, WhereItIs DEF Access
  <2> QED BY <1>1, <2>1, LandsWhereNeeded
<1>2. CASE entry = "init"
  <2>1. Program(entry) = InitProgram /\ pc \in 1 .. 18
    BY <1>2, WhereItIs
  <2>2. Access = InitProgram[pc]
    BY <2>1 DEF Access
  <2>3. CASE pc \in {6, 9, 12, 15}
    <3>1. /\ Full[6].reg = "lp_config0" /\ Full[9].reg = "swd_config"
          /\ Full[12].reg = "timg0_config0" /\ Full[15].reg = "timg1_config0"
      BY Names
    <3>2. Access = Full[pc]
      BY <2>2, <2>3, InitAccesses
    <3> QED BY <2>3, <3>1, <3>2, Reaches DEF Silenced
  <2>4. CASE pc = 18
    <3>1. InPlace(InitProgram[17], reg)
      <4>1. 17 \in 1 .. pc - 1 /\ \A j \in 17 + 1 .. pc - 1 : FALSE
        BY <2>4
      <4> QED BY <2>1, <4>1 DEF InForce
    <3>2. "set" \in reg["l2_mode"]
      <4>1. InPlace(Write("l2_mode", {"set"}), reg)
        BY <3>1, InitAccesses, Singles
      <4> QED BY <4>1, WrittenInPlace
    <3>3. Access.reg = "l2_lines"
      BY <2>2, <2>4, InitAccesses, Names
    <3> QED BY <3>2, <3>3 DEF Open, Bias, Watchdogs, Mpll
  <2>5. CASE pc \notin {6, 9, 12, 15, 18}
    <3>1. Access.reg \notin Guarded
      <4>1. CASE pc = 17
        <5>1. Access = Full[106] /\ 106 \in 1 .. 116
          BY <2>2, <4>1, InitAccesses
        <5> QED BY <5>1, GuardedAre
      <4>2. CASE pc # 17
        <5>1. pc \in 1 .. 16 /\ pc \in 1 .. 116
          BY ONLY <2>1, <2>5, <4>2
        <5>2. Access = Full[pc]
          BY <2>2, <5>1, InitAccesses
        <5>3. pc \notin {6, 9, 12, 15, 65, 66, 69, 70, 71, 72, 107, 108, 114, 115, 116}
          BY ONLY <2>5, <5>1
        <5> QED BY <5>1, <5>2, <5>3, GuardedAre
      <4> QED BY <4>1, <4>2
    <3> QED BY <3>1 DEF Open, Guarded
  <2> QED BY <2>3, <2>4, <2>5
<1> QED BY <1>1, <1>2 DEF Place, Running

-----------------------------------------------------------------------------
(* The steps.                                                              *)

\* A step of the program keeps in force what it does not undo.
LEMMA KeepsInForce ==
  ASSUME Place, InForce, Running, ~AtReturn, entry' = entry, pc' = pc + 1,
         Effect(Access, reg, reg'), InPlace(Access, reg')
  PROVE  InForce'
<1> DEFINE P == Program(entry)
<1>1. Running' /\ Program(entry)' = P
  BY DEF Running
<1>2. pc \in Nat \ {0}
  BY WhereItIs
<1> SUFFICES ASSUME NEW i \in 1 .. pc, \A j \in i + 1 .. pc : ~Undoes(P[j], P[i])
             PROVE  InPlace(P[i], reg')
  <2>1. pc' - 1 = pc
    BY <1>2
  <2> HIDE DEF P
  <2>2. \A i \in 1 .. pc' - 1 :
          (\A j \in i + 1 .. pc' - 1 : ~Undoes(P[j], P[i])) => InPlace(P[i], reg')
    BY <2>1
  <2> QED BY <1>1, <2>2 DEF InForce
<1>3. CASE i = pc
  BY <1>3 DEF Access
<1>4. CASE i # pc
  <2>1. i \in 1 .. pc - 1 /\ pc \in i + 1 .. pc /\ \A j \in i + 1 .. pc - 1 : j \in i + 1 .. pc
    BY ONLY <1>2, <1>4, i \in 1 .. pc
  <2>2. InPlace(P[i], reg)
    BY <2>1 DEF InForce
  <2>3. P[i].reg \in Registers
    BY <1>4, InFull
  <2>4. ~Undoes(Access, P[i])
    BY <2>1 DEF Access
  <2> HIDE DEF P
  <2> QED BY <2>2, <2>3, <2>4, Kept
<1> QED BY <1>3, <1>4

\* The three steps of a program, by their effect.
ProgramStep == AccessRegister \/ EnableCache \/ UnlockFlash

LEMMA StepEffect ==
  ASSUME IInv, InForce, ProgramStep
  PROVE  /\ Running /\ ~AtReturn /\ entry' = entry /\ pc' = pc + 1
         /\ resets' = resets /\ inherited' = inherited /\ settled' = settled
         /\ Effect(Access, reg, reg') /\ InPlace(Access, reg')
<1>1. /\ Running /\ ~AtReturn /\ entry' = entry /\ pc' = pc + 1
      /\ resets' = resets /\ inherited' = inherited /\ settled' = settled
  BY DEF ProgramStep, AccessRegister, EnableCache, UnlockFlash, Performs, Advance
<1>2. /\ Place /\ Silenced /\ reg \in Files
      /\ Access.reg \in Registers /\ Open(Access.reg)
  <2>1. Place /\ Silenced /\ reg \in Files
    BY DEF IInv, Place
  <2>2. Access.reg \in Registers
    BY <1>1, <2>1, AccessShape DEF Careful
  <2> QED BY <1>1, <2>1, <2>2, Lands
<1>3. DOMAIN reg = Registers
  BY <1>2 DEF Files
<1>4. \E k \in 1 .. 116 : Access = Full[k]
  <2>1. pc \in 1 .. pc
    BY <1>1, <1>2, AccessShape
  <2> QED BY <1>1, <1>2, <2>1, InFull DEF Access
<1>5. Access.what = "access" \/ Access = EnableL2Cache \/ Access = Unlock
  <2>1. PICK k \in 1 .. 116 : Access = Full[k]
    BY <1>4
  <2>2. \A i \in 1 .. 116 : i # 108 /\ i # 115 => Full[i].what = "access"
    BY Names
  <2>3. Full[108] = EnableL2Cache /\ Full[115] = Unlock
    BY Names
  <2> QED BY ONLY <2>1, <2>2, <2>3
<1>6. CASE AccessRegister
  <2>1. Access.what = "access"
    BY <1>6 DEF AccessRegister, Performs
  <2>2. reg' = [reg EXCEPT ![Access.reg] = (reg[Access.reg] \ Access.clear) \cup Access.set]
    BY <1>2, <1>6 DEF AccessRegister, Apply
  <2>3. Sets(Access) = Access.set /\ Clears(Access) = Access.clear \ Access.set
    BY <2>1 DEF Sets, Clears
  <2>4. /\ \A s \in Registers \ {Access.reg} : reg'[s] = reg[s]
        /\ reg'[Access.reg] = (reg[Access.reg] \ Access.clear) \cup Access.set
    BY <1>2, <1>3, <2>2
  <2> QED BY <1>1, <2>3, <2>4 DEF Effect, InPlace
<1>7. CASE EnableCache
  <2>1. Access.what = "Cache_Enable_L2_Cache"
    BY <1>7 DEF EnableCache, Performs
  <2>2. Access = EnableL2Cache
    BY <1>5, <2>1, RomShape
  <2>3. reg' = [reg EXCEPT !["l2_cache"] =
                  {"enabled"} \cup (IF "autoload" \in reg["l2_cache"] THEN {"autoload"} ELSE {})]
    BY <1>7 DEF EnableCache
  <2>4. Access.reg = "l2_cache" /\ Sets(Access) = {"enabled"} /\ Clears(Access) = {}
    BY <2>2, RomShape
  <2>5. reg["l2_cache"] \subseteq {"enabled", "autoload"} /\ "l2_cache" \in Registers
    BY <1>2, RestBits DEF Files
  <2>6. /\ \A s \in Registers \ {"l2_cache"} : reg'[s] = reg[s]
        /\ reg'["l2_cache"] =
             {"enabled"} \cup (IF "autoload" \in reg["l2_cache"] THEN {"autoload"} ELSE {})
    BY <1>3, <2>3, <2>5
  <2>7. reg'["l2_cache"] = (reg["l2_cache"] \ {}) \cup {"enabled"}
    BY <2>5, <2>6
  <2> QED BY <1>1, <2>4, <2>6, <2>7 DEF Effect, InPlace
<1>8. CASE UnlockFlash
  <2>1. Access.what = "esp_rom_spiflash_unlock"
    BY <1>8 DEF UnlockFlash, Performs
  <2>2. Access = Unlock
    BY <1>5, <2>1, RomShape
  <2>3. /\ Access.reg = "flash_status" /\ Sets(Access) = {} /\ Clears(Access) = {}
    BY <2>2, RomShape
  <2>4. PICK v : reg' = [reg EXCEPT !["flash_status"] = v]
    BY <1>8 DEF UnlockFlash
  <2>5. \A s \in Registers \ {"flash_status"} : reg'[s] = reg[s]
    BY <1>3, <2>4
  <2> QED BY <1>1, <2>1, <2>3, <2>5 DEF Effect, InPlace
<1> QED BY <1>6, <1>7, <1>8 DEF ProgramStep

\* The value of a register that is not scratch is what the access to it asserts.
LEMMA NothingToMove ==
  ASSUME Place, Running, ~AtReturn, Left(settled), Effect(Access, reg, reg'),
         NEW r \in Registers \ Scratch, reg[r] = settled[r]
  PROVE  reg'[r] = reg[r]
<1>1. CASE r # Access.reg
  BY <1>1 DEF Effect
<1>2. CASE r = Access.reg
  <2>1. PICK k \in 1 .. 116 : Access = Full[k]
    <3>1. pc \in 1 .. pc
      BY WhereItIs
    <3> QED BY <3>1, InFull DEF Access
  <2>2. Lasting(k)
    BY <1>2, <2>1, LastingAre
  <2>3. InPlace(Access, settled)
    BY <2>1, <2>2 DEF Left
  <2>4. Access.what # "esp_rom_spiflash_unlock"
    BY <2>1, <2>2, Asserts DEF Lasting, Asserting
  <2>5. reg'[r] = (reg[r] \ Clears(Access)) \cup Sets(Access)
    BY <1>2, <2>4 DEF Effect
  <2>6. Sets(Access) \subseteq reg[r] /\ Clears(Access) \cap reg[r] = {}
    BY <1>2, <2>3 DEF InPlace
  <2> QED BY <2>5, <2>6
<1> QED BY <1>1, <1>2

\* Once settled, a step short of a reset moves scratch state only.
LEMMA OnlyReasserts ==
  ASSUME OutcomeInv, [Next]_vars, settled # NotYet, resets' = resets
  PROVE  \A r \in Registers \ Scratch : reg'[r] = reg[r]
<1>1. /\ IInv /\ InForce /\ Place /\ reg \in Files
      /\ Left(settled) /\ \A r \in Registers \ Scratch : reg[r] = settled[r]
  BY DEF OutcomeInv, IInv, Place, Settled
<1>2. CASE ProgramStep
  <2>1. Running /\ ~AtReturn /\ Effect(Access, reg, reg')
    BY <1>1, <1>2, StepEffect
  <2> QED BY <1>1, <2>1, NothingToMove
<1>3. CASE Application
  <2>1. PICK q \in AppRegisters :
          reg' = [reg EXCEPT ![q] = @ \cup (Bits[q] \cap {"mapped", "valid", "wdt_en"})]
    BY <1>3 DEF Application
  <2>2. q \in Scratch /\ DOMAIN reg = Registers
    BY <1>1 DEF Scratch, Files
  <2> QED BY <2>1, <2>2
<1>4. ~Reset
  <2>1. resets \in Nat
    BY <1>1 DEF IInv, Counts
  <2>2. ~(resets' = resets + 1)
    BY <2>1
  <2> QED BY <2>2 DEF Reset
<1>5. CASE UNCHANGED vars \/ Return \/ \E e \in {"init", "init_phase2_full"} : Call(e)
  <2>1. reg' = reg
    BY <1>5 DEF vars, Return, Call
  <2> QED BY <2>1
<1> QED BY <1>2, <1>3, <1>4, <1>5 DEF Next, ProgramStep, SelfReset, HostReset

\* At its return init_phase2_full leaves the register file so.
LEMMA LeftAtReturn ==
  ASSUME IInv, InForce, AtReturn, entry = "init_phase2_full"
  PROVE  Left(reg)
<1>1. Place /\ Running /\ reg \in Files
  BY DEF IInv, Place, AtReturn
<1>2. pc = 117
  BY <1>1, WhereItIs
<1>3. ASSUME NEW i, Lasting(i) PROVE InPlace(Full[i], reg)
  <2>1. i < pc
    BY <1>2, <1>3 DEF Lasting
  <2> QED BY <1>1, <1>3, <2>1, Standing
<1>4. \A r \in Registers \ Whole : "other" \in reg[r] <=> r \in inherited
  BY DEF IInv, OtherBitsPreserved, Whole
<1> QED BY <1>1, <1>3, <1>4 DEF Left

\* What is left depends on the register file and on what was inherited only.
LEMMA LeftStays ==
  ASSUME NEW f, Left(f), inherited' = inherited, settled' = f
  PROVE  Left(settled)'
BY DEF Left, Lasting, InPlace, Sets, Clears, Full

LEMMA InForceStep == OutcomeInv /\ [Next]_vars => InForce'
<1> SUFFICES ASSUME OutcomeInv, [Next]_vars PROVE InForce'
  OBVIOUS
<1>1. IInv /\ InForce /\ Place
  BY DEF OutcomeInv, IInv
<1>2. CASE ProgramStep
  <2>1. /\ Running /\ ~AtReturn /\ entry' = entry /\ pc' = pc + 1
        /\ Effect(Access, reg, reg') /\ InPlace(Access, reg')
    BY <1>1, <1>2, StepEffect
  <2> QED BY <1>1, <2>1, KeepsInForce
<1>3. CASE \E e \in {"init", "init_phase2_full"} : Call(e)
  <2>1. pc' = 1
    BY <1>3 DEF Call
  <2> QED BY <2>1 DEF InForce
<1>4. CASE Return \/ Reset
  <2>1. entry' = "none"
    BY <1>4 DEF Return, Reset
  <2> QED BY <2>1 DEF InForce, Running
<1>5. CASE Application
  <2>1. entry' = entry /\ ~Running
    BY <1>5 DEF Application
  <2> QED BY <2>1 DEF InForce, Running
<1>6. CASE UNCHANGED vars
  <2>1. reg' = reg /\ entry' = entry /\ pc' = pc
    BY <1>6 DEF vars
  <2> QED BY <1>1, <2>1 DEF InForce, Running
<1> QED BY <1>2, <1>3, <1>4, <1>5, <1>6 DEF Next, ProgramStep, SelfReset, HostReset

LEMMA SettledStep == OutcomeInv /\ [Next]_vars => Settled'
<1> SUFFICES ASSUME OutcomeInv, [Next]_vars, settled' # NotYet
             PROVE  /\ Left(settled)'
                    /\ \A r \in Registers \ Scratch : reg'[r] = settled'[r]
  BY DEF Settled
<1>1. IInv /\ InForce /\ Settled
  BY DEF OutcomeInv
<1>2. CASE Return /\ entry = "init_phase2_full"
  <2>1. settled' = reg /\ reg' = reg /\ inherited' = inherited /\ AtReturn
    BY <1>2 DEF Return
  <2>2. Left(reg)
    BY <1>1, <1>2, <2>1, LeftAtReturn
  <2> QED BY <2>1, <2>2, LeftStays
<1>3. CASE ~(Return /\ entry = "init_phase2_full")
  <2>1. ~Reset
    BY DEF Reset
  <2>2. settled' = settled /\ inherited' = inherited /\ resets' = resets
    <3>1. CASE ProgramStep
      BY <1>1, <3>1, StepEffect
    <3>2. CASE ~ProgramStep
      BY <1>3, <2>1, <3>2 DEF Next, ProgramStep, SelfReset, HostReset, Call, Return, Application,
         vars
    <3> QED BY <3>1, <3>2
  <2>3. Left(settled) /\ \A r \in Registers \ Scratch : reg[r] = settled[r]
    BY <1>1, <2>2 DEF Settled
  <2>4. \A r \in Registers \ Scratch : reg'[r] = reg[r]
    BY <2>2, OnlyReasserts
  <2>5. Left(settled)'
    BY <2>2, <2>3, LeftStays
  <2> QED BY <2>2, <2>3, <2>4, <2>5
<1> QED BY <1>2, <1>3

LEMMA OutcomeInvariance == Spec => []OutcomeInv
<1>1. Init => InForce /\ Settled
  BY DEF Init, InForce, Running, Settled
<1>2. IInv /\ IInv' /\ InForce /\ Settled /\ [Next]_vars => InForce' /\ Settled'
  BY InForceStep, SettledStep DEF OutcomeInv
<1>3. IInv /\ InForce /\ Settled => OutcomeInv
  BY DEF OutcomeInv
<1> QED BY <1>1, <1>2, <1>3, Invariance, PTL DEF Spec

-----------------------------------------------------------------------------
(* What init_phase2_full leaves, register by register.                     *)

LEMMA LastToo ==
  /\ Lasting(59) /\ Lasting(60) /\ Lasting(61) /\ Lasting(62) /\ Lasting(63) /\ Lasting(65)
  /\ Lasting(66) /\ Lasting(69) /\ Lasting(72) /\ Lasting(104) /\ Lasting(105) /\ Lasting(106)
  /\ Lasting(108) /\ Lasting(111) /\ Lasting(112) /\ Lasting(113) /\ Lasting(114)
<1>1. /\ Full[59].reg \notin Scratch
      /\ Full[60].reg \notin Scratch
      /\ Full[61].reg \notin Scratch
      /\ Full[62].reg \notin Scratch
      /\ Full[63].reg \notin Scratch
      /\ Full[65].reg \notin Scratch
      /\ Full[66].reg \notin Scratch
      /\ Full[69].reg \notin Scratch
      /\ Full[72].reg \notin Scratch
      /\ Full[104].reg \notin Scratch
      /\ Full[105].reg \notin Scratch
      /\ Full[106].reg \notin Scratch
      /\ Full[108].reg \notin Scratch
      /\ Full[111].reg \notin Scratch
      /\ Full[112].reg \notin Scratch
      /\ Full[113].reg \notin Scratch
      /\ Full[114].reg \notin Scratch
  BY Names DEF Scratch, Wprotects, AppRegisters, Mmus
<1> QED BY <1>1, LastingAre

\* Every template of pmu.rs is in the table.
LEMMA LeftTemplates ==
  ASSUME NEW f, Left(f)
  PROVE  \A r \in PmuTemplates : f[r] = {"idf"}
<1> SUFFICES ASSUME NEW r \in PmuTemplates PROVE f[r] = {"idf"}
  OBVIOUS
<1>1. PICK k \in 1 .. 42 : PmuTable[k] = r
  <2>1. Range(PmuTable) = PmuTemplates /\ DOMAIN PmuTable = 1 .. 42
    BY PmuAccesses, Zenon
  <2> QED BY ONLY <2>1, r \in PmuTemplates DEF Range
<1>2. k + 16 \in 17 .. 58 /\ (k + 16) - 16 = k /\ k + 16 \in 1 .. 116
  OBVIOUS
<1>3. Full[k + 16] = Write(r, {"idf"})
  <2>1. \A i \in 17 .. 58 : Full[i] = Write(PmuTable[i - 16], {"idf"})
    BY Tables
  <2> QED BY ONLY <1>1, <1>2, <2>1
<1>4. Lasting(k + 16)
  <2>1. r \notin Scratch
    BY DEF Scratch, Wprotects, AppRegisters, Mmus, PmuTemplates, Range, HpActive, HpSleep, LpSleep,
       PorDefaults, ExtLdo
  <2>2. Full[k + 16].reg = r
    <3>1. Write(r, {"idf"}).reg = r
      BY Shape
    <3> QED BY <1>3, <3>1, Zenon
  <2> QED BY <1>2, <2>1, <2>2, LastingAre
<1>5. InPlace(Write(r, {"idf"}), f) /\ f \in Files
  BY <1>3, <1>4 DEF Left
<1>6. r \in Registers /\ {"idf"} \subseteq Bits[r]
  BY MpllBits
<1> QED BY <1>5, <1>6, WholeInPlace

\* The rest of what is written as a whole.
LEMMA LeftWhole ==
  ASSUME NEW f, Left(f)
  PROVE  /\ \A r \in Wprotects \cup Mmus \cup {"l2_lines", "i2c_conf1", "flash_power"} : f[r] = {}
         /\ f["i2c_conf2"] = {"mspi"} /\ f["mpll_div"] = {"400MHz"}
         /\ f["l2_mode"] = {"set"} /\ f["mspi"] = {"attached"}
<1>1. f \in Files
  BY DEF Left
<1>2. /\ InPlace(Write("lp_wprotect", {}), f)
      /\ InPlace(Write("swd_wprotect", {}), f)
      /\ InPlace(Write("timg0_wprotect", {}), f)
      /\ InPlace(Write("timg1_wprotect", {}), f)
      /\ InPlace(Write("flash_mmu", {}), f)
      /\ InPlace(Write("psram_mmu", {}), f)
      /\ InPlace(Write("l2_lines", {}), f)
      /\ InPlace(Write("i2c_conf1", {}), f)
      /\ InPlace(Write("flash_power", {}), f)
      /\ InPlace(Write("i2c_conf2", {"mspi"}), f)
      /\ InPlace(Write("mpll_div", {"400MHz"}), f)
      /\ InPlace(Write("l2_mode", {"set"}), f)
      /\ InPlace(Write("mspi", {"attached"}), f)
  <2>1. /\ InPlace(Full[7], f) /\ InPlace(Full[10], f) /\ InPlace(Full[13], f) /\ InPlace(Full[16], f)
        /\ InPlace(Full[109], f) /\ InPlace(Full[110], f) /\ InPlace(Full[107], f) /\ InPlace(Full[63], f)
        /\ InPlace(Full[114], f) /\ InPlace(Full[67], f) /\ InPlace(Full[72], f) /\ InPlace(Full[106], f)
        /\ InPlace(Full[111], f)
    BY LastToo, LastingAre DEF Left
  <2> QED BY <2>1, Singles
<1>3. /\ "lp_wprotect" \in Registers /\ {} \subseteq Bits["lp_wprotect"]
      /\ "swd_wprotect" \in Registers /\ {} \subseteq Bits["swd_wprotect"]
      /\ "timg0_wprotect" \in Registers /\ {} \subseteq Bits["timg0_wprotect"]
      /\ "timg1_wprotect" \in Registers /\ {} \subseteq Bits["timg1_wprotect"]
      /\ "flash_mmu" \in Registers /\ {} \subseteq Bits["flash_mmu"]
      /\ "psram_mmu" \in Registers /\ {} \subseteq Bits["psram_mmu"]
      /\ "l2_lines" \in Registers /\ {} \subseteq Bits["l2_lines"]
      /\ "i2c_conf1" \in Registers /\ {} \subseteq Bits["i2c_conf1"]
      /\ "flash_power" \in Registers /\ {} \subseteq Bits["flash_power"]
      /\ "i2c_conf2" \in Registers /\ {"mspi"} \subseteq Bits["i2c_conf2"]
      /\ "mpll_div" \in Registers /\ {"400MHz"} \subseteq Bits["mpll_div"]
      /\ "l2_mode" \in Registers /\ {"set"} \subseteq Bits["l2_mode"]
      /\ "mspi" \in Registers /\ {"attached"} \subseteq Bits["mspi"]
  BY WatchdogBits, MpllBits, RestBits DEF Wprotects, Mmus
<1>4. /\ f["lp_wprotect"] = {} /\ f["swd_wprotect"] = {} /\ f["timg0_wprotect"] = {}
      /\ f["timg1_wprotect"] = {} /\ f["flash_mmu"] = {} /\ f["psram_mmu"] = {}
      /\ f["l2_lines"] = {} /\ f["i2c_conf1"] = {} /\ f["flash_power"] = {}
      /\ f["i2c_conf2"] = {"mspi"} /\ f["mpll_div"] = {"400MHz"} /\ f["l2_mode"] = {"set"}
      /\ f["mspi"] = {"attached"}
  BY <1>1, <1>2, <1>3, WholeInPlace
<1> QED BY <1>4 DEF Wprotects, Mmus

\* The fields that are set or cleared.
LEMMA LeftFields ==
  ASSUME NEW f, Left(f)
  PROVE  /\ {"mspi_phy_xpd", "xpd_perif_i2c"} \subseteq f["pmu_rf_pwc"]
         /\ {"mpll_500m_en", "root_sel_0"} \subseteq f["hp_clk_ctrl"]
         /\ \A r \in Bias : f[r] \ {"other"} = {"dreg_10"}
         /\ "dhref_3" \in f["mpll_dhref"] /\ "rstb" \in f["mpll_ir_cal_rstb"]
         /\ "mspi_cal_stop" \in f["ana_pll_ctrl0"]
         /\ f["peri_clk_ctrl00"] \ {"other"} =
              {"flash_pll_clk_en", "src_sel_0", "flash_core_clk_en", "div_6"}
         /\ "enabled" \in f["l2_cache"]
         /\ {"cs_hold", "cs_setup"} \subseteq f["spi0_user"]
         /\ f["spi0_ctrl2"] \cap {"cs_hold_time", "cs_setup_time"} = {}
         /\ f["timg1_config0"] \cap {"wdt_en", "flashboot_mod_en"} = {}
         /\ "wel" \notin f["flash_status"]
<1>1. f \in Files
  BY DEF Left
<1>2. /\ InPlace(Full[15], f) /\ InPlace(Full[59], f) /\ InPlace(Full[60], f) /\ InPlace(Full[65], f)
      /\ InPlace(Full[66], f)
      /\ InPlace(Full[69], f) /\ InPlace(Full[71], f) /\ InPlace(Full[73], f) /\ InPlace(Full[104], f)
      /\ InPlace(Full[105], f)
      /\ InPlace(Full[112], f) /\ InPlace(Full[113], f) /\ InPlace(Full[116], f) /\ InPlace(Full[108], f)
  BY LastToo, LastingAre DEF Left
<1>3. /\ InPlace(Modify("timg1_config0", {"wdt_en", "flashboot_mod_en"}, {}), f)
      /\ InPlace(Modify("pmu_rf_pwc", {}, {"mspi_phy_xpd", "xpd_perif_i2c"}), f)
      /\ InPlace(Modify("hp_clk_ctrl", {}, {"mpll_500m_en", "root_sel_0"}), f)
      /\ InPlace(Modify("bias_dreg_1p1", {"dreg_other"}, {"dreg_10"}), f)
      /\ InPlace(Modify("bias_dreg_1p1_pvt", {"dreg_other"}, {"dreg_10"}), f)
      /\ InPlace(Modify("mpll_dhref", {}, {"dhref_3"}), f)
      /\ InPlace(Modify("mpll_ir_cal_rstb", {}, {"rstb"}), f)
      /\ InPlace(Modify("ana_pll_ctrl0", {}, {"mspi_cal_stop"}), f)
      /\ InPlace(Modify("peri_clk_ctrl00", {"src_sel_1"}, {"flash_pll_clk_en", "src_sel_0"}), f)
      /\ InPlace(Modify("peri_clk_ctrl00", {"div_other"}, {"flash_core_clk_en", "div_6"}), f)
      /\ InPlace(Modify("spi0_user", {}, {"cs_hold", "cs_setup"}), f)
      /\ InPlace(Modify("spi0_ctrl2", {"cs_hold_time", "cs_setup_time"}, {}), f)
      /\ InPlace(Modify("flash_status", {"wel"}, {}), f)
      /\ InPlace(EnableL2Cache, f)
  BY <1>2, Singles
<1>4. /\ /\ {} \subseteq f["timg1_config0"]
         /\ ({"wdt_en", "flashboot_mod_en"} \ {}) \cap f["timg1_config0"] = {}
      /\ /\ {"mspi_phy_xpd", "xpd_perif_i2c"} \subseteq f["pmu_rf_pwc"]
         /\ ({} \ {"mspi_phy_xpd", "xpd_perif_i2c"}) \cap f["pmu_rf_pwc"] = {}
      /\ /\ {"mpll_500m_en", "root_sel_0"} \subseteq f["hp_clk_ctrl"]
         /\ ({} \ {"mpll_500m_en", "root_sel_0"}) \cap f["hp_clk_ctrl"] = {}
      /\ /\ {"dreg_10"} \subseteq f["bias_dreg_1p1"]
         /\ ({"dreg_other"} \ {"dreg_10"}) \cap f["bias_dreg_1p1"] = {}
      /\ /\ {"dreg_10"} \subseteq f["bias_dreg_1p1_pvt"]
         /\ ({"dreg_other"} \ {"dreg_10"}) \cap f["bias_dreg_1p1_pvt"] = {}
      /\ /\ {"dhref_3"} \subseteq f["mpll_dhref"]
         /\ ({} \ {"dhref_3"}) \cap f["mpll_dhref"] = {}
      /\ /\ {"rstb"} \subseteq f["mpll_ir_cal_rstb"]
         /\ ({} \ {"rstb"}) \cap f["mpll_ir_cal_rstb"] = {}
      /\ /\ {"mspi_cal_stop"} \subseteq f["ana_pll_ctrl0"]
         /\ ({} \ {"mspi_cal_stop"}) \cap f["ana_pll_ctrl0"] = {}
      /\ /\ {"flash_pll_clk_en", "src_sel_0"} \subseteq f["peri_clk_ctrl00"]
         /\ ({"src_sel_1"} \ {"flash_pll_clk_en", "src_sel_0"}) \cap f["peri_clk_ctrl00"] = {}
      /\ /\ {"flash_core_clk_en", "div_6"} \subseteq f["peri_clk_ctrl00"]
         /\ ({"div_other"} \ {"flash_core_clk_en", "div_6"}) \cap f["peri_clk_ctrl00"] = {}
      /\ /\ {"cs_hold", "cs_setup"} \subseteq f["spi0_user"]
         /\ ({} \ {"cs_hold", "cs_setup"}) \cap f["spi0_user"] = {}
      /\ /\ {} \subseteq f["spi0_ctrl2"]
         /\ ({"cs_hold_time", "cs_setup_time"} \ {}) \cap f["spi0_ctrl2"] = {}
      /\ /\ {} \subseteq f["flash_status"]
         /\ ({"wel"} \ {}) \cap f["flash_status"] = {}
  BY <1>3, FieldInPlace
<1>5. "enabled" \in f["l2_cache"]
  BY <1>3, RomShape DEF InPlace
<1>6. \A r \in Bias : f[r] \ {"other"} = {"dreg_10"}
  <2>1. \A r \in Bias : f[r] \subseteq {"dreg_10", "dreg_other", "other"}
    BY <1>1, MpllBits DEF Files
  <2>2. \A r \in Bias : "dreg_10" \in f[r] /\ "dreg_other" \notin f[r]
    BY <1>4 DEF Bias
  <2> QED BY <2>1, <2>2
<1>7. f["peri_clk_ctrl00"] \ {"other"} =
        {"flash_pll_clk_en", "src_sel_0", "flash_core_clk_en", "div_6"}
  <2>1. f["peri_clk_ctrl00"] \subseteq {"flash_pll_clk_en", "src_sel_0", "src_sel_1",
                                        "flash_core_clk_en", "div_6", "div_other", "other"}
    BY <1>1, RestBits DEF Files
  <2>2. /\ "src_sel_1" \notin f["peri_clk_ctrl00"] /\ "div_other" \notin f["peri_clk_ctrl00"]
        /\ {"flash_pll_clk_en", "src_sel_0", "flash_core_clk_en", "div_6"}
             \subseteq f["peri_clk_ctrl00"]
    BY <1>4
  <2> QED BY <2>1, <2>2
<1> QED BY <1>4, <1>5, <1>6, <1>7

\* The clock tree and the pins.
LEMMA LeftTables ==
  ASSUME NEW f, Left(f)
  PROVE  /\ \A k \in DOMAIN Clocks : "idf" \in f[Clocks[k]]
         /\ \A k \in DOMAIN PsramPins : f[PsramPins[k]] \ {"other"} = {"drv_1"}
         /\ \A k \in DOMAIN Dqs : f[Dqs[k]] \ {"other"} = {"drv_1", "xpd"}
<1>1. f \in Files
  BY DEF Left
<1>2. /\ DOMAIN Clocks = 1 .. 8 /\ Clocks[7] = "ana_pll_ctrl0"
      /\ DOMAIN PsramPins = 1 .. 18 /\ DOMAIN Dqs = 1 .. 2
  BY ClockAccesses, PinAccesses, Zenon
<1>3. \A r \in (Range(Clocks) \ {"ana_pll_ctrl0"}) \cup Range(PsramPins) \cup Range(Dqs) :
        r \notin Scratch
  BY DEF Range, Clocks, PsramPins, Dqs, Scratch, Wprotects, AppRegisters, Mmus
<1>4. ASSUME NEW k \in 1 .. 8 PROVE "idf" \in f[Clocks[k]]
  <2>1. k + 73 \in 74 .. 81 /\ (k + 73) - 73 = k /\ k + 73 \in 1 .. 116
    OBVIOUS
  <2>2. Clocks[k] \in Range(Clocks) /\ Full[k + 73] = Modify(Clocks[k], {}, {"idf"})
    <3>1. \A i \in 74 .. 81 : Clocks[i - 73] \in Range(Clocks)
                              /\ Full[i] = Modify(Clocks[i - 73], {}, {"idf"})
      BY Tables
    <3> QED BY ONLY <2>1, <3>1
  <2>3. Lasting(k + 73)
    <3>1. CASE Clocks[k] = "ana_pll_ctrl0"
      <4>1. k = 7
        BY <3>1 DEF Clocks
      <4> QED BY <4>1, LastingAre
    <3>2. CASE Clocks[k] # "ana_pll_ctrl0"
      <4>1. Full[k + 73].reg = Clocks[k]
        BY <2>2, Shape
      <4> QED BY <1>3, <2>1, <2>2, <3>2, <4>1, LastingAre
    <3> QED BY <3>1, <3>2
  <2>4. InPlace(Modify(Clocks[k], {}, {"idf"}), f)
    BY <2>2, <2>3 DEF Left
  <2> QED BY <2>4, FieldInPlace
<1>5. ASSUME NEW k \in 1 .. 18 PROVE f[PsramPins[k]] \ {"other"} = {"drv_1"}
  <2>1. k + 81 \in 82 .. 99 /\ (k + 81) - 81 = k /\ k + 81 \in 1 .. 116
    OBVIOUS
  <2>2. /\ PsramPins[k] \in Range(PsramPins)
        /\ Full[k + 81] = Modify(PsramPins[k], {"drv_0", "drv_1"}, {"drv_1"})
    <3>1. \A i \in 82 .. 99 : /\ PsramPins[i - 81] \in Range(PsramPins)
            /\ Full[i] = Modify(PsramPins[i - 81], {"drv_0", "drv_1"}, {"drv_1"})
      BY Tables
    <3> QED BY ONLY <2>1, <3>1
  <2>3. Lasting(k + 81)
    <3>1. Full[k + 81].reg = PsramPins[k]
      BY <2>2, Shape
    <3> QED BY <1>3, <2>1, <2>2, <3>1, LastingAre
  <2>4. InPlace(Modify(PsramPins[k], {"drv_0", "drv_1"}, {"drv_1"}), f)
    BY <2>2, <2>3 DEF Left
  <2>5. /\ {"drv_1"} \subseteq f[PsramPins[k]]
        /\ ({"drv_0", "drv_1"} \ {"drv_1"}) \cap f[PsramPins[k]] = {}
    BY <2>4, FieldInPlace
  <2>6. f[PsramPins[k]] \subseteq {"drv_0", "drv_1", "other"}
    BY <1>1, <2>2, RestBits DEF Files
  <2> QED BY <2>5, <2>6
<1>6. ASSUME NEW k \in 1 .. 2 PROVE f[Dqs[k]] \ {"other"} = {"drv_1", "xpd"}
  <2>1. /\ k + 99 \in 100 .. 101 /\ (k + 99) - 99 = k /\ k + 99 \in 1 .. 116
        /\ k + 101 \in 102 .. 103 /\ (k + 101) - 101 = k /\ k + 101 \in 1 .. 116
    OBVIOUS
  <2>2. /\ Dqs[k] \in Range(Dqs)
        /\ Full[k + 99] = Modify(Dqs[k], {"drv_0", "drv_1"}, {"drv_1"})
        /\ Full[k + 101] = Modify(Dqs[k], {"xpd"}, {"xpd"})
    <3>1. \A i \in 100 .. 101 : Dqs[i - 99] \in Range(Dqs)
            /\ Full[i] = Modify(Dqs[i - 99], {"drv_0", "drv_1"}, {"drv_1"})
      BY Tables
    <3>2. \A i \in 102 .. 103 : Full[i] = Modify(Dqs[i - 101], {"xpd"}, {"xpd"})
      BY Tables
    <3> QED BY ONLY <2>1, <3>1, <3>2
  <2>3. Lasting(k + 99) /\ Lasting(k + 101)
    <3>1. Full[k + 99].reg = Dqs[k] /\ Full[k + 101].reg = Dqs[k]
      BY <2>2, Shape
    <3> QED BY <1>3, <2>1, <2>2, <3>1, LastingAre
  <2>4. /\ InPlace(Modify(Dqs[k], {"drv_0", "drv_1"}, {"drv_1"}), f)
        /\ InPlace(Modify(Dqs[k], {"xpd"}, {"xpd"}), f)
    BY <2>2, <2>3 DEF Left
  <2>5. /\ {"drv_1"} \subseteq f[Dqs[k]] /\ {"xpd"} \subseteq f[Dqs[k]]
        /\ ({"drv_0", "drv_1"} \ {"drv_1"}) \cap f[Dqs[k]] = {}
    BY <2>4, FieldInPlace
  <2>6. f[Dqs[k]] \subseteq {"drv_0", "drv_1", "xpd", "other"}
    BY <1>1, <2>2, RestBits DEF Files
  <2> QED BY <2>5, <2>6
<1> QED BY <1>2, <1>4, <1>5, <1>6

\* Two calls leave the same, but for the outcome of the ROM's unlock.
LEMMA LeftTheSame ==
  ASSUME NEW f, NEW g, Left(f), Left(g)
  PROVE  \A r \in Scratch \ {"flash_status"} : f[r] = g[r]
<1>1. /\ \A r \in Wprotects \cup Mmus \cup {"l2_lines"} : f[r] = g[r]
      /\ f["i2c_conf2"] = g["i2c_conf2"]
  BY LeftWhole
<1>2. \A r \in {"timg1_config0", "ana_pll_ctrl0", "mpll_ir_cal_rstb"} :
        "other" \in f[r] <=> "other" \in g[r]
  <2>1. {"timg1_config0", "ana_pll_ctrl0", "mpll_ir_cal_rstb"} \subseteq Registers \ Whole
    BY WatchdogBits, MpllBits DEF Watchdogs, Whole, PmuTemplates, Range, HpActive, HpSleep, LpSleep,
       PorDefaults, ExtLdo
  <2> QED BY <2>1 DEF Left
<1>3. \A r \in {"timg1_config0", "ana_pll_ctrl0", "mpll_ir_cal_rstb"} :
        f[r] \subseteq Bits[r] /\ g[r] \subseteq Bits[r]
  BY WatchdogBits, MpllBits DEF Watchdogs, Left, Files
<1>4. /\ Bits["timg1_config0"] = {"wdt_en", "flashboot_mod_en", "other"}
      /\ Bits["ana_pll_ctrl0"] = {"mspi_cal_stop", "idf", "other"}
      /\ Bits["mpll_ir_cal_rstb"] = {"rstb", "other"}
  BY WatchdogBits, MpllBits DEF Watchdogs
<1>5. \A h \in {f, g} : /\ h["timg1_config0"] \cap {"wdt_en", "flashboot_mod_en"} = {}
                        /\ {"mspi_cal_stop", "idf"} \subseteq h["ana_pll_ctrl0"]
                        /\ "rstb" \in h["mpll_ir_cal_rstb"]
  <2> TAKE h \in {f, g}
  <2>1. Left(h)
    OBVIOUS
  <2>2. 7 \in DOMAIN Clocks /\ Clocks[7] = "ana_pll_ctrl0"
    BY DEF Clocks
  <2>3. "idf" \in h["ana_pll_ctrl0"]
    BY <2>1, <2>2, LeftTables
  <2> QED BY <2>1, <2>3, LeftFields
<1>6. f["timg1_config0"] = g["timg1_config0"]
  BY <1>2, <1>3, <1>4, <1>5
<1>7. f["ana_pll_ctrl0"] = g["ana_pll_ctrl0"]
  BY <1>2, <1>3, <1>4, <1>5
<1>8. f["mpll_ir_cal_rstb"] = g["mpll_ir_cal_rstb"]
  BY <1>2, <1>3, <1>4, <1>5
<1> QED BY <1>1, <1>6, <1>7, <1>8 DEF Scratch, AppRegisters

-----------------------------------------------------------------------------
(* The theorems.                                                           *)

\* Every access of wdt.rs finds its key in, every access to the analog bus its
\* power, clock and route, the L2 helpers their mode, the flash commands an attached
\* and awake chip: whatever was found, and however runs were cut short before.
THEOREM NoAccessDropped == Spec => []EveryAccessLands
<1>1. OutcomeInv => EveryAccessLands
  BY Lands DEF OutcomeInv, IInv, EveryAccessLands
<1> QED BY <1>1, OutcomeInvariance, PTL

\* lib.rs, "a repeat call just re-asserts the same configured state": once
\* init_phase2_full has returned, and until a reset, no access of a later call moves
\* anything but scratch state, on the way to its return included.
THEOREM OnlyScratchMoves == Spec => RepeatOnlyReasserts
<1>1. OutcomeInv /\ [Next]_vars
        => (settled # NotYet /\ resets' = resets
              => \A r \in Registers \ Scratch : reg'[r] = reg[r])
  BY OnlyReasserts
<1> QED BY <1>1, OutcomeInvariance, PTL DEF Spec, RepeatOnlyReasserts

\* The post-condition lib.rs gives init_phase2_full, "chip is ready for psram::init()":
\* it holds at every return, from whatever state an interrupted run left.
THEOREM ReadyForPsram == Spec => []HandedOver
<1>1. OutcomeInv => HandedOver
  <2> SUFFICES ASSUME IInv, InForce, AtReturn, entry = "init_phase2_full" PROVE HandedOver
    BY DEF OutcomeInv, HandedOver
  <2>1. Left(reg)
    BY LeftAtReturn
  <2> QED BY <2>1, LeftTemplates, LeftWhole, LeftFields, LeftTables DEF HandedOver
<1> QED BY <1>1, OutcomeInvariance, PTL

\* ... and when the repeat call returns the scratch state too is as after the first
\* call, what the ROM's unlock chose for the flash status excepted.
THEOREM RepeatLeavesSame == Spec => []RepeatCallSame
<1>1. OutcomeInv => RepeatCallSame
  <2> SUFFICES ASSUME OutcomeInv, AtReturn, entry = "init_phase2_full", settled # NotYet,
                      NEW r \in Registers \ {"flash_status"}
               PROVE  reg[r] = settled[r]
    BY DEF RepeatCallSame
  <2>1. Left(reg) /\ Left(settled)
    BY LeftAtReturn DEF OutcomeInv, Settled
  <2>2. CASE r \in Scratch
    BY <2>1, <2>2, LeftTheSame
  <2>3. CASE r \notin Scratch
    BY <2>3 DEF OutcomeInv, Settled
  <2> QED BY <2>2, <2>3
<1> QED BY <1>1, OutcomeInvariance, PTL
=============================================================================
