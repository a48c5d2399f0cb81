----------------------------- MODULE BootProofs -----------------------------
(***************************************************************************)
(* Proofs about Boot: for every set of register files a power-on or other  *)
(* firmware may leave, and any number of resets, no access goes beyond the *)
(* bits it owns, and nothing can reset the chip behind the watchdogs'      *)
(* accesses.                                                               *)
(***************************************************************************)
EXTENDS Boot, SequenceTheorems, TLAPS

Noisy == Detectors \cup Watchdogs \cup {"swd_config"}
Fields == {"reset_ena", "other", "wdt_en", "flashboot_mod_en", "swd_auto_feed_en",
           "key", "idf", "mspi_phy_xpd", "xpd_perif_i2c", "mpll_500m_en", "root_sel_0",
           "lp_i2cmst", "sel_160m", "bias", "mspi", "dreg_10", "dreg_other", "dhref_3",
           "rstb", "400MHz", "mspi_cal_stop", "drv_0", "drv_1", "xpd",
           "flash_pll_clk_en", "src_sel_0", "src_sel_1", "flash_core_clk_en", "div_6",
           "div_other", "set", "valid", "enabled", "autoload", "mapped", "cs_hold",
           "cs_setup", "cs_hold_time", "cs_setup_time", "attached", "deep_power_down",
           "wel", "protected"}
Whole == PmuTemplates \cup {"i2c_conf1", "i2c_conf2", "mpll_div"}

\* The accesses that stay within the bits of their register, and outside Whole
\* within the fields the code owns.
Careful == {a \in [what : {"access", "Cache_Enable_L2_Cache", "esp_rom_spiflash_unlock"},
                   reg : Registers, clear : SUBSET Fields, set : SUBSET Fields] :
              /\ a.set \subseteq Bits[a.reg]
              /\ a.reg \notin Whole => "other" \notin a.clear \cup a.set}
Quiet == {a \in Careful : a.reg \notin Noisy}

Prelude == BodDisable \o WdtDisableAll

\* A program that begins with the detectors and watchdogs and is done with them.
Begins(p) == /\ p \in Seq(Careful)
             /\ Len(p) >= 16
             /\ \A i \in 1 .. 16 : p[i] = Prelude[i]
             /\ \A i \in 17 .. Len(p) : p[i] \in Quiet

-----------------------------------------------------------------------------
(* The registers.                                                          *)

\* The bits of the registers of bod.rs and wdt.rs.
LEMMA WatchdogBits ==
  /\ \A r \in Detectors : r \in Registers /\ Bits[r] = {"reset_ena", "other"}
  /\ \A r \in Watchdogs : r \in Registers /\ Bits[r] = {"wdt_en", "flashboot_mod_en", "other"}
  /\ "swd_config" \in Registers /\ Bits["swd_config"] = {"swd_auto_feed_en", "other"}
  /\ \A r \in Wprotects : r \in Registers /\ Bits[r] = {"key"}
<1> USE DEF Registers, Bits, Pins, Mpll, Detectors, Watchdogs, Wprotects, PmuTemplates, Range,
            HpActive, HpSleep, LpSleep, PorDefaults, ExtLdo, Bias, Clocks, PsramPins, Dqs, Mmus
<1>1. \A r \in Detectors : r \in Registers /\ Bits[r] = {"reset_ena", "other"}
  OBVIOUS
<1>2. \A r \in Watchdogs : r \in Registers /\ Bits[r] = {"wdt_en", "flashboot_mod_en", "other"}
  OBVIOUS
<1>3. "swd_config" \in Registers /\ Bits["swd_config"] = {"swd_auto_feed_en", "other"}
  OBVIOUS
<1>4. \A r \in Wprotects : r \in Registers /\ Bits[r] = {"key"}
  OBVIOUS
<1> HIDE DEF Registers, Bits, Pins, Mpll, Detectors, Watchdogs, Wprotects, PmuTemplates, Range,
            HpActive, HpSleep, LpSleep, PorDefaults, ExtLdo, Bias, Clocks, PsramPins, Dqs, Mmus
<1> QED BY <1>1, <1>2, <1>3, <1>4

\* The bits of the registers of pmu.rs, mpll.rs and regi2c.rs.
LEMMA MpllBits ==
  /\ \A r \in PmuTemplates : r \in Registers /\ Bits[r] = {"idf", "other"}
  /\ "pmu_rf_pwc" \in Registers /\ Bits["pmu_rf_pwc"] = {"mspi_phy_xpd", "xpd_perif_i2c", "other"}
  /\ "hp_clk_ctrl" \in Registers /\ Bits["hp_clk_ctrl"] = {"mpll_500m_en", "root_sel_0", "other"}
  /\ "lpperi_clk_en" \in Registers /\ Bits["lpperi_clk_en"] = {"lp_i2cmst", "other"}
  /\ "i2c_clk160m" \in Registers /\ Bits["i2c_clk160m"] = {"sel_160m", "other"}
  /\ "i2c_conf1" \in Registers /\ Bits["i2c_conf1"] = {"other"}
  /\ "i2c_conf2" \in Registers /\ Bits["i2c_conf2"] = {"bias", "mspi", "other"}
  /\ \A r \in Bias : r \in Registers /\ Bits[r] = {"dreg_10", "dreg_other", "other"}
  /\ "mpll_dhref" \in Registers /\ Bits["mpll_dhref"] = {"dhref_3", "other"}
  /\ "mpll_ir_cal_rstb" \in Registers /\ Bits["mpll_ir_cal_rstb"] = {"rstb", "other"}
  /\ "mpll_div" \in Registers /\ Bits["mpll_div"] = {"400MHz", "other"}
  /\ "ana_pll_ctrl0" \in Registers /\ Bits["ana_pll_ctrl0"] = {"mspi_cal_stop", "idf", "other"}
<1> USE DEF Registers, Bits, Pins, Mpll, Detectors, Watchdogs, Wprotects, PmuTemplates, Range,
            HpActive, HpSleep, LpSleep, PorDefaults, ExtLdo, Bias, Clocks, PsramPins, Dqs, Mmus
<1>1. \A r \in PmuTemplates : r \in Registers /\ Bits[r] = {"idf", "other"}
  OBVIOUS
<1>2. "pmu_rf_pwc" \in Registers /\ Bits["pmu_rf_pwc"] = {"mspi_phy_xpd", "xpd_perif_i2c", "other"}
  OBVIOUS
<1>3. "hp_clk_ctrl" \in Registers /\ Bits["hp_clk_ctrl"] = {"mpll_500m_en", "root_sel_0", "other"}
  OBVIOUS
<1>4. "lpperi_clk_en" \in Registers /\ Bits["lpperi_clk_en"] = {"lp_i2cmst", "other"}
  OBVIOUS
<1>5. "i2c_clk160m" \in Registers /\ Bits["i2c_clk160m"] = {"sel_160m", "other"}
  OBVIOUS
<1>6. "i2c_conf1" \in Registers /\ Bits["i2c_conf1"] = {"other"}
  OBVIOUS
<1>7. "i2c_conf2" \in Registers /\ Bits["i2c_conf2"] = {"bias", "mspi", "other"}
  OBVIOUS
<1>8. \A r \in Bias : r \in Registers /\ Bits[r] = {"dreg_10", "dreg_other", "other"}
  OBVIOUS
<1>9. "mpll_dhref" \in Registers /\ Bits["mpll_dhref"] = {"dhref_3", "other"}
  OBVIOUS
<1>10. "mpll_ir_cal_rstb" \in Registers /\ Bits["mpll_ir_cal_rstb"] = {"rstb", "other"}
  OBVIOUS
<1>11. "mpll_div" \in Registers /\ Bits["mpll_div"] = {"400MHz", "other"}
  OBVIOUS
<1>12. "ana_pll_ctrl0" \in Registers /\ Bits["ana_pll_ctrl0"] = {"mspi_cal_stop", "idf", "other"}
  OBVIOUS
<1> HIDE DEF Registers, Bits, Pins, Mpll, Detectors, Watchdogs, Wprotects, PmuTemplates, Range,
            HpActive, HpSleep, LpSleep, PorDefaults, ExtLdo, Bias, Clocks, PsramPins, Dqs, Mmus
<1> QED BY <1>1, <1>2, <1>3, <1>4, <1>5, <1>6, <1>7, <1>8, <1>9, <1>10, <1>11, <1>12

\* The bits of the other registers.
LEMMA RestBits ==
  /\ \A r \in Range(Clocks) \ {"ana_pll_ctrl0"} : r \in Registers /\ Bits[r] = {"idf", "other"}
  /\ \A r \in Range(PsramPins) : r \in Registers /\ Bits[r] = {"drv_0", "drv_1", "other"}
  /\ \A r \in Range(Dqs) : r \in Registers /\ Bits[r] = {"drv_0", "drv_1", "xpd", "other"}
  /\ "peri_clk_ctrl00" \in Registers
  /\ Bits["peri_clk_ctrl00"] = {"flash_pll_clk_en", "src_sel_0", "src_sel_1",
                                "flash_core_clk_en", "div_6", "div_other", "other"}
  /\ "l2_mode" \in Registers /\ Bits["l2_mode"] = {"set"}
  /\ "l2_lines" \in Registers /\ Bits["l2_lines"] = {"valid"}
  /\ "l2_cache" \in Registers /\ Bits["l2_cache"] = {"enabled", "autoload"}
  /\ \A r \in Mmus : r \in Registers /\ Bits[r] = {"mapped"}
  /\ "spi0_user" \in Registers /\ Bits["spi0_user"] = {"cs_hold", "cs_setup", "other"}
  /\ "spi0_ctrl2" \in Registers /\ Bits["spi0_ctrl2"] = {"cs_hold_time", "cs_setup_time", "other"}
  /\ "mspi" \in Registers /\ Bits["mspi"] = {"attached"}
  /\ "flash_power" \in Registers /\ Bits["flash_power"] = {"deep_power_down"}
  /\ "flash_status" \in Registers /\ Bits["flash_status"] = {"wel", "protected"}
<1> USE DEF Registers, Bits, Pins, Mpll, Detectors, Watchdogs, Wprotects, PmuTemplates, Range,
            HpActive, HpSleep, LpSleep, PorDefaults, ExtLdo, Bias, Clocks, PsramPins, Dqs, Mmus
<1>1. \A r \in Range(Clocks) \ {"ana_pll_ctrl0"} : r \in Registers /\ Bits[r] = {"idf", "other"}
  OBVIOUS
<1>2. \A r \in Range(PsramPins) : r \in Registers /\ Bits[r] = {"drv_0", "drv_1", "other"}
  OBVIOUS
<1>3. \A r \in Range(Dqs) : r \in Registers /\ Bits[r] = {"drv_0", "drv_1", "xpd", "other"}
  OBVIOUS
<1>4. /\ "peri_clk_ctrl00" \in Registers
      /\ Bits["peri_clk_ctrl00"] = {"flash_pll_clk_en", "src_sel_0", "src_sel_1",
                                "flash_core_clk_en", "div_6", "div_other", "other"}
  OBVIOUS
<1>5. "l2_mode" \in Registers /\ Bits["l2_mode"] = {"set"}
  OBVIOUS
<1>6. "l2_lines" \in Registers /\ Bits["l2_lines"] = {"valid"}
  OBVIOUS
<1>7. "l2_cache" \in Registers /\ Bits["l2_cache"] = {"enabled", "autoload"}
  OBVIOUS
<1>8. \A r \in Mmus : r \in Registers /\ Bits[r] = {"mapped"}
  OBVIOUS
<1>9. "spi0_user" \in Registers /\ Bits["spi0_user"] = {"cs_hold", "cs_setup", "other"}
  OBVIOUS
<1>10. "spi0_ctrl2" \in Registers /\ Bits["spi0_ctrl2"] = {"cs_hold_time", "cs_setup_time", "other"}
  OBVIOUS
<1>11. "mspi" \in Registers /\ Bits["mspi"] = {"attached"}
  OBVIOUS
<1>12. "flash_power" \in Registers /\ Bits["flash_power"] = {"deep_power_down"}
  OBVIOUS
<1>13. "flash_status" \in Registers /\ Bits["flash_status"] = {"wel", "protected"}
  OBVIOUS
<1> HIDE DEF Registers, Bits, Pins, Mpll, Detectors, Watchdogs, Wprotects, PmuTemplates, Range,
            HpActive, HpSleep, LpSleep, PorDefaults, ExtLdo, Bias, Clocks, PsramPins, Dqs, Mmus
<1> QED BY <1>1, <1>2, <1>3, <1>4, <1>5, <1>6, <1>7, <1>8, <1>9, <1>10, <1>11, <1>12,
           <1>13

\* The registers that are written as a whole, by name.
LEMMA WholeRegisters ==
  /\ \A r \in Detectors \cup Watchdogs \cup Wprotects \cup {"swd_config"} : r \notin Whole
  /\ \A r \in Whole : r \notin Noisy
  /\ \A r \in Range(Clocks) \cup Pins \cup Mmus \cup Bias : r \notin Noisy /\ r \notin Whole
  /\ \A r \in {"pmu_rf_pwc", "hp_clk_ctrl", "lpperi_clk_en", "i2c_clk160m",
               "mpll_dhref", "mpll_ir_cal_rstb", "peri_clk_ctrl00", "l2_mode", "l2_lines",
               "l2_cache", "spi0_user", "spi0_ctrl2", "mspi", "flash_power", "flash_status"} :
       r \notin Noisy /\ r \notin Whole
<1> USE DEF Detectors, Watchdogs, Wprotects, Whole, Noisy, PmuTemplates, Range, HpActive, HpSleep,
            LpSleep, PorDefaults, ExtLdo, Clocks, Pins, PsramPins, Dqs, Mmus, Bias
<1>1. \A r \in Detectors \cup Watchdogs \cup Wprotects \cup {"swd_config"} : r \notin Whole
  OBVIOUS
<1>2. \A r \in Whole : r \notin Noisy
  OBVIOUS
<1>3. \A r \in Range(Clocks) : r \notin Noisy /\ r \notin Whole
  OBVIOUS
<1>4. \A r \in Pins : r \notin Noisy /\ r \notin Whole
  OBVIOUS
<1>5. \A r \in Mmus \cup Bias : r \notin Noisy /\ r \notin Whole
  OBVIOUS
<1>6. \A r \in {"pmu_rf_pwc", "hp_clk_ctrl", "lpperi_clk_en", "i2c_clk160m",
                "mpll_dhref", "mpll_ir_cal_rstb", "peri_clk_ctrl00", "l2_mode", "l2_lines",
                "l2_cache", "spi0_user", "spi0_ctrl2", "mspi", "flash_power", "flash_status"} :
        r \notin Noisy /\ r \notin Whole
  OBVIOUS
<1> HIDE DEF Detectors, Watchdogs, Wprotects, Whole, Noisy, PmuTemplates, Range, HpActive, HpSleep,
            LpSleep, PorDefaults, ExtLdo, Clocks, Pins, PsramPins, Dqs, Mmus, Bias
<1> QED BY <1>1, <1>2, <1>3, <1>4, <1>5, <1>6

\* When an access is careful, and when it leaves the watchdogs alone.
LEMMA IsCareful ==
  ASSUME NEW r \in Registers, NEW clear \in SUBSET Fields, NEW set \in SUBSET Bits[r],
         set \subseteq Fields, r \notin Whole => "other" \notin clear \cup set
  PROVE  /\ Modify(r, clear, set) \in Careful
         /\ r \notin Noisy => Modify(r, clear, set) \in Quiet
<1>1. set \in SUBSET Fields
  OBVIOUS
<1>2. Modify(r, clear, set) \in Careful
  BY <1>1 DEF Modify, Careful
<1>3. Modify(r, clear, set).reg = r
  BY DEF Modify
<1> QED BY <1>2, <1>3 DEF Quiet

-----------------------------------------------------------------------------
(* The program.                                                            *)

\* The accesses to the detectors and watchdogs, one by one.
LEMMA PreludeAccesses ==
  /\ Len(Prelude) = 16
  /\ Prelude[1] = Modify("bod_mode0_cntl", {"reset_ena"}, {})
  /\ Prelude[2] = Modify("bod_mode1_cntl", {"reset_ena"}, {})
  /\ Prelude[3] = Modify("ck_glitch_cntl", {"reset_ena"}, {})
  /\ Prelude[4] = Modify("pg_glitch_cntl", {"reset_ena"}, {})
  /\ Prelude[5] = Write("lp_wprotect", {"key"})
  /\ Prelude[6] = Modify("lp_config0", {"wdt_en", "flashboot_mod_en"}, {})
  /\ Prelude[7] = Write("lp_wprotect", {})
  /\ Prelude[8] = Write("swd_wprotect", {"key"})
  /\ Prelude[9] = Modify("swd_config", {}, {"swd_auto_feed_en"})
  /\ Prelude[10] = Write("swd_wprotect", {})
  /\ Prelude[11] = Write("timg0_wprotect", {"key"})
  /\ Prelude[12] = Modify("timg0_config0", {"wdt_en", "flashboot_mod_en"}, {})
  /\ Prelude[13] = Write("timg0_wprotect", {})
  /\ Prelude[14] = Write("timg1_wprotect", {"key"})
  /\ Prelude[15] = Modify("timg1_config0", {"wdt_en", "flashboot_mod_en"}, {})
  /\ Prelude[16] = Write("timg1_wprotect", {})
BY DEF Prelude, BodDisable, WdtDisableAll, WithKey

\* They are careful.
LEMMA PreludeBegins == Begins(Prelude)
<1>1. \A r \in Detectors : Modify(r, {"reset_ena"}, {}) \in Careful
  <2> TAKE r \in Detectors
  <2>1. r \in Registers /\ r \notin Whole
    BY WatchdogBits, WholeRegisters
  <2>2. {"reset_ena"} \in SUBSET Fields
    BY DEF Fields
  <2> QED BY <2>1, <2>2, IsCareful
<1>2. \A r \in Watchdogs : Modify(r, {"wdt_en", "flashboot_mod_en"}, {}) \in Careful
  <2> TAKE r \in Watchdogs
  <2>1. r \in Registers /\ r \notin Whole
    BY WatchdogBits, WholeRegisters
  <2>2. {"wdt_en", "flashboot_mod_en"} \in SUBSET Fields
    BY DEF Fields
  <2> QED BY <2>1, <2>2, IsCareful
<1>3. Modify("swd_config", {}, {"swd_auto_feed_en"}) \in Careful
  <2>1. "swd_config" \in Registers /\ {"swd_auto_feed_en"} \in SUBSET Bits["swd_config"]
    BY WatchdogBits
  <2>2. {"swd_auto_feed_en"} \in SUBSET Fields
    BY DEF Fields
  <2> QED BY <2>1, <2>2, IsCareful
<1>4. \A r \in Wprotects : Write(r, {"key"}) \in Careful /\ Write(r, {}) \in Careful
  <2> TAKE r \in Wprotects
  <2>1. r \in Registers /\ r \notin Whole /\ Bits[r] = {"key"}
    BY WatchdogBits, WholeRegisters
  <2>2. {"key"} \in SUBSET Fields
    BY DEF Fields
  <2> QED BY <2>1, <2>2, IsCareful DEF Write
<1>5. \A i \in 1 .. 4 : Prelude[i] \in Careful
  BY <1>1, PreludeAccesses DEF Detectors
<1>6. \A i \in {6, 12, 15} : Prelude[i] \in Careful
  BY <1>2, PreludeAccesses DEF Watchdogs
<1>7. \A i \in {5, 7, 8, 10, 11, 13, 14, 16} : Prelude[i] \in Careful
  BY <1>4, PreludeAccesses DEF Wprotects
<1>8. \A i \in 1 .. 16 : Prelude[i] \in Careful
  BY <1>3, <1>5, <1>6, <1>7, PreludeAccesses
<1>9. Prelude = [i \in 1 .. 16 |-> Prelude[i]]
  BY DEF Prelude, BodDisable, WdtDisableAll, WithKey
<1>10. Prelude \in Seq(Careful)
  BY <1>8, <1>9
<1> QED BY <1>10, PreludeAccesses DEF Begins

\* What follows without touching them again keeps a program in that shape.
LEMMA BeginsStill ==
  ASSUME NEW p, Begins(p), NEW t \in Seq(Quiet)
  PROVE  Begins(p \o t) /\ Len(p \o t) = Len(p) + Len(t)
<1>1. t \in Seq(Careful)
  BY DEF Quiet
<1>2. p \in Seq(Careful)
  BY DEF Begins
<1>3. /\ p \o t \in Seq(Careful)
      /\ Len(p \o t) = Len(p) + Len(t)
      /\ \A i \in 1 .. Len(p) + Len(t) : (p \o t)[i] = IF i <= Len(p) THEN p[i] ELSE t[i - Len(p)]
  BY <1>1, <1>2, ConcatProperties
<1>4. Len(p) \in Nat /\ Len(t) \in Nat /\ Len(p) >= 16
  BY <1>2 DEF Begins
<1>5. \A i \in 1 .. 16 : (p \o t)[i] = Prelude[i]
  <2> SUFFICES ASSUME NEW i \in 1 .. 16 PROVE (p \o t)[i] = Prelude[i]
    OBVIOUS
  <2> DEFINE n == Len(p)
             m == Len(t)
  <2>1. i \in 1 .. n + m /\ i <= n
    <3>1. n \in Nat /\ m \in Nat /\ n >= 16
      BY <1>4
    <3> HIDE DEF n, m
    <3> QED BY <3>1
  <2>2. (p \o t)[i] = p[i]
    BY <1>3, <2>1, Zenon
  <2>3. p[i] = Prelude[i]
    BY Zenon DEF Begins
  <2> QED BY <2>2, <2>3
<1>6. \A i \in 17 .. Len(p \o t) : (p \o t)[i] \in Quiet
  <2> SUFFICES ASSUME NEW i \in 17 .. Len(p) + Len(t) PROVE (p \o t)[i] \in Quiet
    BY <1>3
  <2>1. CASE i <= Len(p)
    BY <1>3, <1>4, <2>1 DEF Begins
  <2>2. CASE i > Len(p)
    <3>1. i - Len(p) \in 1 .. Len(t)
      BY <1>4, <2>2
    <3> QED BY <1>3, <1>4, <2>2, <3>1
  <2> QED BY <1>4, <2>1, <2>2
<1>7. Len(p \o t) >= 16
  BY <1>3, <1>4
<1> QED BY <1>3, <1>5, <1>6, <1>7, Zenon DEF Begins

\* A table written register by register.
LEMMA EachIsSeq ==
  ASSUME NEW S, NEW T, NEW table \in Seq(T), NEW clear, NEW set
  PROVE  /\ (\A r \in T : Modify(r, clear, set) \in S) => EachModify(table, clear, set) \in Seq(S)
         /\ (\A r \in T : Write(r, set) \in S) => EachWrite(table, set) \in Seq(S)
BY DEF EachModify, EachWrite

\* pmu.rs
LEMMA PmuQuiet == PmuInitActiveState \in Seq(Quiet)
<1>1. \A r \in PmuTemplates : Write(r, {"idf"}) \in Quiet
  <2> TAKE r \in PmuTemplates
  <2>1. r \in Registers /\ r \in Whole /\ r \notin Noisy /\ Bits[r] = {"idf", "other"}
    BY MpllBits, WholeRegisters DEF Whole
  <2>2. {"idf"} \in SUBSET Fields /\ {"idf", "other"} \in SUBSET Fields
    BY DEF Fields
  <2> QED BY <2>1, <2>2, IsCareful DEF Write
<1>2. /\ HpActive \in Seq(PmuTemplates) /\ HpSleep \in Seq(PmuTemplates)
      /\ LpSleep \in Seq(PmuTemplates) /\ PorDefaults \in Seq(PmuTemplates)
      /\ ExtLdo \in Seq(PmuTemplates)
  BY DEF PmuTemplates, Range, HpActive, HpSleep, LpSleep, PorDefaults, ExtLdo
<1> QED BY <1>1, <1>2, EachIsSeq, ConcatProperties DEF PmuInitActiveState

\* mpll.rs and regi2c.rs
LEMMA MpllQuiet == MpllBringup400 \in Seq(Quiet)
<1>1. /\ {} \in SUBSET Fields
      /\ {"mspi_phy_xpd", "xpd_perif_i2c"} \in SUBSET Fields
      /\ {"mpll_500m_en", "root_sel_0"} \in SUBSET Fields
      /\ {"lp_i2cmst"} \in SUBSET Fields /\ {"sel_160m"} \in SUBSET Fields
      /\ {"other"} \in SUBSET Fields /\ {"bias", "mspi"} \in SUBSET Fields
      /\ {"bias"} \in SUBSET Fields /\ {"mspi"} \in SUBSET Fields
      /\ {"dreg_other"} \in SUBSET Fields /\ {"dreg_10"} \in SUBSET Fields
      /\ {"mspi_cal_stop"} \in SUBSET Fields /\ {"dhref_3"} \in SUBSET Fields
      /\ {"rstb"} \in SUBSET Fields /\ {"400MHz"} \in SUBSET Fields
      /\ {"400MHz", "other"} \in SUBSET Fields
      /\ {"bias", "mspi", "other"} \in SUBSET Fields
  BY DEF Fields
<1>2. "ana_pll_ctrl0" \in Range(Clocks)
  BY DEF Range, Clocks
<1>3. \A r \in {"i2c_conf1", "i2c_conf2", "mpll_div"} : r \in Whole /\ r \notin Noisy
  BY WholeRegisters DEF Whole
<1>4. << Modify("pmu_rf_pwc", {}, {"mspi_phy_xpd", "xpd_perif_i2c"}),
         Modify("hp_clk_ctrl", {}, {"mpll_500m_en", "root_sel_0"}) >> \in Seq(Quiet)
  <2>1. Modify("pmu_rf_pwc", {}, {"mspi_phy_xpd", "xpd_perif_i2c"}) \in Quiet
    BY <1>1, MpllBits, WholeRegisters, IsCareful
  <2>2. Modify("hp_clk_ctrl", {}, {"mpll_500m_en", "root_sel_0"}) \in Quiet
    BY <1>1, MpllBits, WholeRegisters, IsCareful
  <2> QED BY <2>1, <2>2
<1>5. EnableBus \in Seq(Quiet)
  <2>1. Modify("lpperi_clk_en", {}, {"lp_i2cmst"}) \in Quiet
    BY <1>1, MpllBits, WholeRegisters, IsCareful
  <2>2. Modify("i2c_clk160m", {}, {"sel_160m"}) \in Quiet
    BY <1>1, MpllBits, WholeRegisters, IsCareful
  <2>3. Write("i2c_conf1", {}) \in Quiet
    BY <1>1, <1>3, MpllBits, IsCareful DEF Write
  <2> QED BY <2>1, <2>2, <2>3 DEF EnableBus
<1>6. SelectBlock("bias") \in Seq(Quiet) /\ SelectBlock("mspi") \in Seq(Quiet)
  <2>1. Write("i2c_conf2", {"bias"}) \in Quiet
    BY <1>1, <1>3, MpllBits, IsCareful DEF Write
  <2>2. Write("i2c_conf2", {"mspi"}) \in Quiet
    BY <1>1, <1>3, MpllBits, IsCareful DEF Write
  <2> QED BY <2>1, <2>2 DEF SelectBlock
<1>7. SetBiasFields \in Seq(Quiet)
  <2>1. \A r \in Bias : Modify(r, {"dreg_other"}, {"dreg_10"}) \in Quiet
    BY <1>1, MpllBits, WholeRegisters, IsCareful
  <2> QED BY <2>1 DEF SetBiasFields, Bias
<1>8. Calibrate \in Seq(Quiet)
  <2>1. Modify("ana_pll_ctrl0", {"mspi_cal_stop"}, {}) \in Quiet
    BY <1>1, <1>2, MpllBits, WholeRegisters, IsCareful
  <2>2. Modify("mpll_dhref", {}, {"dhref_3"}) \in Quiet
    BY <1>1, MpllBits, WholeRegisters, IsCareful
  <2>3. Modify("mpll_ir_cal_rstb", {"rstb"}, {}) \in Quiet
    BY <1>1, MpllBits, WholeRegisters, IsCareful
  <2>4. Modify("mpll_ir_cal_rstb", {}, {"rstb"}) \in Quiet
    BY <1>1, MpllBits, WholeRegisters, IsCareful
  <2>5. Write("mpll_div", {"400MHz"}) \in Quiet
    BY <1>1, <1>3, MpllBits, IsCareful DEF Write
  <2>6. Modify("ana_pll_ctrl0", {}, {"mspi_cal_stop"}) \in Quiet
    BY <1>1, <1>2, MpllBits, WholeRegisters, IsCareful
  <2> QED BY <2>1, <2>2, <2>3, <2>4, <2>5, <2>6 DEF Calibrate
<1> QED BY <1>4, <1>5, <1>6, <1>7, <1>8, ConcatProperties DEF MpllBringup400

\* clkrst.rs
LEMMA ClocksQuiet == InitHpClocks \in Seq(Quiet)
<1>1. \A r \in Range(Clocks) : Modify(r, {}, {"idf"}) \in Quiet
  <2> TAKE r \in Range(Clocks)
  <2>1. r \in Registers /\ {"idf"} \in SUBSET Bits[r]
    BY MpllBits, RestBits
  <2>2. {"idf"} \in SUBSET Fields
    BY DEF Fields
  <2> QED BY <2>1, <2>2, WholeRegisters, IsCareful
<1>2. Clocks \in Seq(Range(Clocks))
  BY DEF Clocks, Range
<1> QED BY <1>1, <1>2, EachIsSeq DEF InitHpClocks

\* pin_mux.rs
LEMMA PinsQuiet == PinDrvSet({"drv_1"}) \in Seq(Quiet) /\ EnableDqs(TRUE) \in Seq(Quiet)
<1>1. /\ {"drv_0", "drv_1"} \in SUBSET Fields /\ {"drv_1"} \in SUBSET Fields
      /\ {"xpd"} \in SUBSET Fields
  BY DEF Fields
<1>2. Range(PsramPins) \subseteq Pins /\ Range(Dqs) \subseteq Pins
  BY DEF Pins, Range, PsramPins, Dqs
<1>3. PsramPins \in Seq(Range(PsramPins)) /\ Dqs \in Seq(Range(Dqs))
  BY DEF Range, PsramPins, Dqs
<1>4. \A r \in Range(PsramPins) \cup Range(Dqs) :
        Modify(r, {"drv_0", "drv_1"}, {"drv_1"}) \in Quiet
  <2> TAKE r \in Range(PsramPins) \cup Range(Dqs)
  <2>1. r \in Registers /\ {"drv_1"} \in SUBSET Bits[r]
    BY RestBits
  <2> QED BY <1>1, <1>2, <2>1, WholeRegisters, IsCareful
<1>5. \A r \in Range(Dqs) : Modify(r, {"xpd"}, {"xpd"}) \in Quiet
  <2> TAKE r \in Range(Dqs)
  <2>1. r \in Registers /\ {"xpd"} \in SUBSET Bits[r]
    BY RestBits
  <2> QED BY <1>1, <1>2, <2>1, WholeRegisters, IsCareful
<1>6. EachModify(PsramPins, {"drv_0", "drv_1"}, {"drv_1"}) \in Seq(Quiet)
  BY <1>3, <1>4, EachIsSeq
<1>7. EachModify(Dqs, {"drv_0", "drv_1"}, {"drv_1"}) \in Seq(Quiet)
  BY <1>3, <1>4, EachIsSeq
<1>8. EachModify(Dqs, {"xpd"}, {"xpd"}) \in Seq(Quiet)
  BY <1>3, <1>5, EachIsSeq
<1> QED BY <1>6, <1>7, <1>8, ConcatProperties DEF PinDrvSet, EnableDqs

\* The ROM calls of cache.rs and flash.rs.
LEMMA RomCallsQuiet == EnableL2Cache \in Quiet /\ Unlock \in Quiet
<1>1. "l2_cache" \in Registers /\ "l2_cache" \notin Noisy /\ "flash_status" \in Registers
      /\ "flash_status" \notin Noisy
  BY RestBits, WholeRegisters
<1>2. EnableL2Cache = [what |-> "Cache_Enable_L2_Cache", reg |-> "l2_cache",
                       clear |-> {}, set |-> {}]
  BY DEF EnableL2Cache, Modify
<1>3. Unlock = [what |-> "esp_rom_spiflash_unlock", reg |-> "flash_status",
                clear |-> {}, set |-> {}]
  BY DEF Unlock, Modify
<1>4. EnableL2Cache \in Careful /\ Unlock \in Careful
  BY <1>1, <1>2, <1>3 DEF Careful
<1> QED BY <1>1, <1>2, <1>3, <1>4 DEF Quiet

\* flash.rs, cache.rs and mmu.rs
LEMMA FlashQuiet ==
  /\ SetSpllClockRev1plus \in Seq(Quiet) /\ InitL2CacheMode \in Seq(Quiet)
  /\ CacheHalInit \in Seq(Quiet) /\ MmuHalInit \in Seq(Quiet)
  /\ BootloaderInitSpiFlash \in Seq(Quiet)
<1>1. /\ {"src_sel_1"} \in SUBSET Fields /\ {"flash_pll_clk_en", "src_sel_0"} \in SUBSET Fields
      /\ {"div_other"} \in SUBSET Fields /\ {"flash_core_clk_en", "div_6"} \in SUBSET Fields
      /\ {"set"} \in SUBSET Fields /\ {"valid"} \in SUBSET Fields /\ {} \in SUBSET Fields
      /\ {"mapped"} \in SUBSET Fields /\ {"attached"} \in SUBSET Fields
      /\ {"cs_hold", "cs_setup"} \in SUBSET Fields
      /\ {"cs_hold_time", "cs_setup_time"} \in SUBSET Fields
      /\ {"deep_power_down"} \in SUBSET Fields /\ {"wel"} \in SUBSET Fields
  BY DEF Fields
<1>2. SetSpllClockRev1plus \in Seq(Quiet)
  <2>1. Modify("peri_clk_ctrl00", {"src_sel_1"}, {"flash_pll_clk_en", "src_sel_0"}) \in Quiet
    BY <1>1, RestBits, WholeRegisters, IsCareful
  <2>2. Modify("peri_clk_ctrl00", {"div_other"}, {"flash_core_clk_en", "div_6"}) \in Quiet
    BY <1>1, RestBits, WholeRegisters, IsCareful
  <2> QED BY <2>1, <2>2 DEF SetSpllClockRev1plus
<1>3. InitL2CacheMode \in Seq(Quiet)
  <2>1. Write("l2_mode", {"set"}) \in Quiet
    BY <1>1, RestBits, WholeRegisters, IsCareful DEF Write
  <2>2. Write("l2_lines", {}) \in Quiet
    BY <1>1, RestBits, WholeRegisters, IsCareful DEF Write
  <2> QED BY <2>1, <2>2 DEF InitL2CacheMode
<1>4. CacheHalInit \in Seq(Quiet)
  BY RomCallsQuiet DEF CacheHalInit
<1>5. MmuHalInit \in Seq(Quiet)
  <2>1. \A r \in Mmus : Write(r, {}) \in Quiet
    BY <1>1, RestBits, WholeRegisters, IsCareful DEF Write
  <2> QED BY <2>1 DEF MmuHalInit, Mmus
<1>6. << Write("mspi", {"attached"}) >> \in Seq(Quiet)
  <2>1. Write("mspi", {"attached"}) \in Quiet
    BY <1>1, RestBits, WholeRegisters, IsCareful DEF Write
  <2> QED BY <2>1
<1>7. FlashCsTimingConfig \in Seq(Quiet)
  <2>1. Modify("spi0_user", {}, {"cs_hold", "cs_setup"}) \in Quiet
    BY <1>1, RestBits, WholeRegisters, IsCareful
  <2>2. Modify("spi0_ctrl2", {"cs_hold_time", "cs_setup_time"}, {}) \in Quiet
    BY <1>1, RestBits, WholeRegisters, IsCareful
  <2> QED BY <2>1, <2>2 DEF FlashCsTimingConfig
<1>8. << Write("flash_power", {}), Unlock, Modify("flash_status", {"wel"}, {}) >> \in Seq(Quiet)
  <2>1. Write("flash_power", {}) \in Quiet
    BY <1>1, RestBits, WholeRegisters, IsCareful DEF Write
  <2>2. Modify("flash_status", {"wel"}, {}) \in Quiet
    BY <1>1, RestBits, WholeRegisters, IsCareful
  <2> QED BY <2>1, <2>2, RomCallsQuiet
<1>9. BootloaderInitSpiFlash \in Seq(Quiet)
  BY <1>6, <1>7, <1>8, ConcatProperties DEF BootloaderInitSpiFlash
<1> QED BY <1>2, <1>3, <1>4, <1>5, <1>9

\* Both entry points.
LEMMA Programs ==
  \A e \in {"init", "init_phase2_full"} :
    Begins(Program(e)) /\ Len(Program(e)) <= Len(InitPhase2FullProgram)
<1> DEFINE p1 == Prelude \o PmuInitActiveState
           p2 == p1 \o MpllBringup400
           p3 == p2 \o InitHpClocks
           p4 == p3 \o PinDrvSet({"drv_1"})
           p5 == p4 \o EnableDqs(TRUE)
           p6 == p5 \o SetSpllClockRev1plus
           p7 == p6 \o InitL2CacheMode
           p8 == p7 \o CacheHalInit
           p9 == p8 \o MmuHalInit
           pA == p9 \o BootloaderInitSpiFlash
<1>1. InitProgram = Prelude \o InitL2CacheMode /\ InitPhase2FullProgram = pA
  BY DEF InitProgram, InitPhase2FullProgram, Prelude
<1>2. Begins(InitProgram) /\ Len(InitProgram) = 16 + Len(InitL2CacheMode)
  BY <1>1, PreludeBegins, PreludeAccesses, FlashQuiet, BeginsStill
<1> HIDE DEF p1, p2, p3, p4, p5, p6, p7, p8, p9, pA
<1>3. Begins(p1)
  BY PreludeBegins, PmuQuiet, BeginsStill DEF p1
<1>4. Begins(p2)
  BY <1>3, MpllQuiet, BeginsStill DEF p2
<1>5. Begins(p3)
  BY <1>4, ClocksQuiet, BeginsStill DEF p3
<1>6. Begins(p4)
  BY <1>5, PinsQuiet, BeginsStill DEF p4
<1>7. Begins(p5)
  BY <1>6, PinsQuiet, BeginsStill DEF p5
<1>8. Begins(p6)
  BY <1>7, FlashQuiet, BeginsStill DEF p6
<1>9. Begins(p7) /\ Len(p7) = Len(p6) + Len(InitL2CacheMode)
  BY <1>8, FlashQuiet, BeginsStill DEF p7
<1>10. Begins(p8) /\ Len(p8) = Len(p7) + Len(CacheHalInit)
  BY <1>9, FlashQuiet, BeginsStill DEF p8
<1>11. Begins(p9) /\ Len(p9) = Len(p8) + Len(MmuHalInit)
  BY <1>10, FlashQuiet, BeginsStill DEF p9
<1>12. Begins(pA) /\ Len(pA) = Len(p9) + Len(BootloaderInitSpiFlash)
  BY <1>11, FlashQuiet, BeginsStill DEF pA
<1>13. /\ Len(p6) \in Nat /\ Len(p6) >= 16
       /\ Len(InitL2CacheMode) \in Nat /\ Len(CacheHalInit) \in Nat
       /\ Len(MmuHalInit) \in Nat /\ Len(BootloaderInitSpiFlash) \in Nat
  <2>1. p6 \in Seq(Careful) /\ Len(p6) >= 16
    BY <1>8, Zenon DEF Begins
  <2>2. Len(p6) \in Nat
    BY <2>1, LenProperties
  <2>3. /\ Len(InitL2CacheMode) \in Nat /\ Len(CacheHalInit) \in Nat
        /\ Len(MmuHalInit) \in Nat /\ Len(BootloaderInitSpiFlash) \in Nat
    BY FlashQuiet, LenProperties
  <2> QED BY <2>1, <2>2, <2>3
<1>14. Len(InitProgram) <= Len(pA)
  BY <1>2, <1>9, <1>10, <1>11, <1>12, <1>13
<1>15. Len(pA) <= Len(pA)
  BY <1>9, <1>10, <1>11, <1>12, <1>13
<1> QED BY <1>1, <1>2, <1>12, <1>14, <1>15 DEF Program

-----------------------------------------------------------------------------
(* The invariant.                                                          *)

\* Where the program is.
Place == /\ reg \in Files
         /\ entry \in {"none", "init", "init_phase2_full"}
         /\ pc \in IF Running THEN 1 .. Len(Program(entry)) + 1 ELSE {1}

\* What the accesses done so far have silenced, and the key that is in for the next.
Silenced ==
  Running =>
    /\ pc > 1 => "reset_ena" \notin reg["bod_mode0_cntl"]
    /\ pc > 2 => "reset_ena" \notin reg["bod_mode1_cntl"]
    /\ pc > 3 => "reset_ena" \notin reg["ck_glitch_cntl"]
    /\ pc > 4 => "reset_ena" \notin reg["pg_glitch_cntl"]
    /\ pc = 6 => "key" \in reg["lp_wprotect"]
    /\ pc > 6 => reg["lp_config0"] \cap {"wdt_en", "flashboot_mod_en"} = {}
    /\ pc = 9 => "key" \in reg["swd_wprotect"]
    /\ pc > 9 => "swd_auto_feed_en" \in reg["swd_config"]
    /\ pc = 12 => "key" \in reg["timg0_wprotect"]
    /\ pc > 12 => reg["timg0_config0"] \cap {"wdt_en", "flashboot_mod_en"} = {}
    /\ pc = 15 => "key" \in reg["timg1_wprotect"]
    /\ pc > 15 => reg["timg1_config0"] \cap {"wdt_en", "flashboot_mod_en"} = {}

Counts == /\ resets \in 0 .. MaxResets
          /\ inherited \subseteq Registers
          /\ settled \in Files \cup {NotYet}

IInv == Place /\ Counts /\ Silenced /\ OtherBitsPreserved

-----------------------------------------------------------------------------
(* Lemmas about a step.                                                    *)

\* A register file with a register changed within its bits is a register file.
LEMMA FileUpdate ==
  ASSUME NEW f \in Files, NEW r \in Registers, NEW v \in SUBSET Bits[r]
  PROVE  /\ [f EXCEPT ![r] = v] \in Files
         /\ f[r] \subseteq Bits[r]
         /\ \A s \in Registers : [f EXCEPT ![r] = v][s] = IF s = r THEN v ELSE f[s]
<1>1. /\ f \in [Registers -> SUBSET UNION {Bits[s] : s \in Registers}]
      /\ \A s \in Registers : f[s] \subseteq Bits[s]
  BY DEF Files
<1>2. v \in SUBSET UNION {Bits[s] : s \in Registers}
  OBVIOUS
<1>3. [f EXCEPT ![r] = v] \in [Registers -> SUBSET UNION {Bits[s] : s \in Registers}]
  BY <1>1, <1>2
<1>4. \A s \in Registers : [f EXCEPT ![r] = v][s] = IF s = r THEN v ELSE f[s]
  BY <1>1
<1>5. \A s \in Registers : [f EXCEPT ![r] = v][s] \subseteq Bits[s]
  BY <1>1, <1>4
<1>6. [f EXCEPT ![r] = v] \in Files
  BY <1>3, <1>5 DEF Files
<1> QED BY <1>1, <1>4, <1>6

\* The access at pc.
LEMMA AccessShape ==
  ASSUME Place, Running, ~AtReturn
  PROVE  /\ pc \in Nat \ {0}
         /\ Access \in Careful
         /\ pc <= 16 => Access = Prelude[pc]
         /\ pc > 16 => Access \in Quiet
         /\ pc + 1 \in 1 .. Len(Program(entry)) + 1
<1>1. entry \in {"init", "init_phase2_full"}
  BY DEF Place, Running
<1> DEFINE p == Program(entry)
           n == Len(p)
<1>2. Begins(p)
  BY <1>1, Programs
<1>3. p \in Seq(Careful) /\ n >= 16
  BY <1>2, Zenon DEF Begins
<1>4. n \in Nat
  BY <1>3, LenProperties
<1>5. pc \in 1 .. n + 1 /\ ~(pc > n)
  BY DEF Place, AtReturn
<1>6. pc \in 1 .. n
  <2> HIDE DEF n
  <2> QED BY <1>4, <1>5
<1>7. p[pc] \in Careful
  BY <1>3, <1>6, ElementOfSeq
<1>8. pc <= 16 => p[pc] = Prelude[pc]
  <2>1. pc <= 16 => pc \in 1 .. 16
    <3> HIDE DEF n
    <3> QED BY <1>4, <1>6
  <2> QED BY <1>2, <2>1, Zenon DEF Begins
<1>9. pc > 16 => p[pc] \in Quiet
  <2>1. pc > 16 => pc \in 17 .. n
    <3> HIDE DEF n
    <3> QED BY <1>4, <1>6
  <2> QED BY <1>2, <2>1, Zenon DEF Begins
<1>10. pc \in Nat \ {0} /\ pc + 1 \in 1 .. n + 1
  <2> HIDE DEF n
  <2> QED BY <1>4, <1>6
<1> QED BY <1>7, <1>8, <1>9, <1>10, Zenon DEF Access

\* The first sixteen accesses are no ROM calls.
LEMMA PreludePlain == \A i \in 1 .. 16 : Prelude[i].what = "access"
<1>1. \A r, clear, set : Modify(r, clear, set).what = "access" /\ Write(r, set).what = "access"
  BY DEF Modify, Write
<1>2. \A i \in 1 .. 16 : i \in {1, 2, 3, 4, 5, 6, 7, 8, 9, 10, 11, 12, 13, 14, 15, 16}
  OBVIOUS
<1>3. \A i \in {1, 2, 3, 4, 5, 6, 7, 8, 9, 10, 11, 12, 13, 14, 15, 16} :
        Prelude[i].what = "access"
  BY <1>1, PreludeAccesses
<1> QED BY <1>2, <1>3

\* A step past the watchdogs that leaves their registers alone leaves them silenced.
LEMMA StaysSilenced ==
  ASSUME Silenced, pc \in Nat, pc > 16, Running, entry' = entry, pc' = pc + 1,
         \A r \in Noisy : reg'[r] = reg[r]
  PROVE  Silenced'
<1>1. /\ "reset_ena" \notin reg["bod_mode0_cntl"]
      /\ "reset_ena" \notin reg["bod_mode1_cntl"]
      /\ "reset_ena" \notin reg["ck_glitch_cntl"]
      /\ "reset_ena" \notin reg["pg_glitch_cntl"]
      /\ reg["lp_config0"] \cap {"wdt_en", "flashboot_mod_en"} = {}
      /\ "swd_auto_feed_en" \in reg["swd_config"]
      /\ reg["timg0_config0"] \cap {"wdt_en", "flashboot_mod_en"} = {}
      /\ reg["timg1_config0"] \cap {"wdt_en", "flashboot_mod_en"} = {}
  BY DEF Silenced
<1>2. \A r \in {"bod_mode0_cntl", "bod_mode1_cntl", "ck_glitch_cntl", "pg_glitch_cntl",
                "lp_config0", "swd_config", "timg0_config0", "timg1_config0"} :
        reg'[r] = reg[r]
  BY DEF Noisy, Detectors, Watchdogs
<1>3. pc' # 6 /\ pc' # 9 /\ pc' # 12 /\ pc' # 15
  OBVIOUS
<1> QED BY <1>1, <1>2, <1>3 DEF Silenced

\* What reaches the detectors, the write protects and the watchdogs.
LEMMA Reaches ==
  /\ \A r \in Detectors \cup Wprotects : Open(r)
  /\ Open("lp_config0") <=> "key" \in reg["lp_wprotect"]
  /\ Open("swd_config") <=> "key" \in reg["swd_wprotect"]
  /\ Open("timg0_config0") <=> "key" \in reg["timg0_wprotect"]
  /\ Open("timg1_config0") <=> "key" \in reg["timg1_wprotect"]
BY DEF Open, KeyOf, Detectors, Wprotects, Watchdogs, Bias, Mpll

\* The registers the first sixteen accesses are about, by name.
Twelve == {"bod_mode0_cntl", "bod_mode1_cntl", "ck_glitch_cntl", "pg_glitch_cntl",
           "lp_wprotect", "swd_wprotect", "timg0_wprotect", "timg1_wprotect",
           "lp_config0", "swd_config", "timg0_config0", "timg1_config0"}

LEMMA TwelveRegisters == Twelve \subseteq Registers
BY WatchdogBits DEF Twelve, Detectors, Watchdogs, Wprotects

\* What the accesses do when they land.
LEMMA Applied ==
  ASSUME NEW r, NEW clear, NEW set, Open(r)
  PROVE  /\ Modify(r, clear, set).reg = r
         /\ Apply(Modify(r, clear, set)) = (reg[r] \ clear) \cup set
BY DEF Modify, Apply

\* ... and for a register written as a whole.
LEMMA Written ==
  ASSUME NEW r, NEW value, Open(r)
  PROVE  /\ Write(r, value).reg = r
         /\ Apply(Write(r, value)) = (reg[r] \ Bits[r]) \cup value
BY Applied DEF Write

-----------------------------------------------------------------------------
(* The steps.                                                              *)

\* The accesses that silence, one by one: each finds its key in.
LEMMA PreludeSilences ==
  ASSUME Place, Silenced, Running, ~AtReturn, pc <= 16, pc \in Nat \ {0}, entry' = entry,
         pc' = pc + 1, Access = Prelude[pc],
         \A s \in Registers : reg'[s] = IF s = Access.reg THEN Apply(Access) ELSE reg[s]
  PROVE  Silenced'
<1>1. \A s \in Twelve : reg'[s] = IF s = Access.reg THEN Apply(Access) ELSE reg[s]
  BY TwelveRegisters
<1>2. \A r \in Detectors \cup Wprotects : Open(r)
  BY Reaches
<1>3. /\ "lp_wprotect" \in Wprotects /\ "swd_wprotect" \in Wprotects
      /\ "timg0_wprotect" \in Wprotects /\ "timg1_wprotect" \in Wprotects
      /\ "bod_mode0_cntl" \in Detectors /\ "bod_mode1_cntl" \in Detectors
      /\ "ck_glitch_cntl" \in Detectors /\ "pg_glitch_cntl" \in Detectors
  BY DEF Wprotects, Detectors
<1>4. CASE pc = 1
  <2>1. /\ Access.reg = "bod_mode0_cntl"
        /\ Apply(Access) = (reg["bod_mode0_cntl"] \ {"reset_ena"}) \cup {}
    BY <1>4, <1>2, <1>3, PreludeAccesses, Applied
  <2> QED BY <1>1, <1>4, <2>1 DEF Silenced, Twelve
<1>5. CASE pc = 2
  <2>1. /\ Access.reg = "bod_mode1_cntl"
        /\ Apply(Access) = (reg["bod_mode1_cntl"] \ {"reset_ena"}) \cup {}
    BY <1>5, <1>2, <1>3, PreludeAccesses, Applied
  <2> QED BY <1>1, <1>5, <2>1 DEF Silenced, Twelve
<1>6. CASE pc = 3
  <2>1. /\ Access.reg = "ck_glitch_cntl"
        /\ Apply(Access) = (reg["ck_glitch_cntl"] \ {"reset_ena"}) \cup {}
    BY <1>6, <1>2, <1>3, PreludeAccesses, Applied
  <2> QED BY <1>1, <1>6, <2>1 DEF Silenced, Twelve
<1>7. CASE pc = 4
  <2>1. /\ Access.reg = "pg_glitch_cntl"
        /\ Apply(Access) = (reg["pg_glitch_cntl"] \ {"reset_ena"}) \cup {}
    BY <1>7, <1>2, <1>3, PreludeAccesses, Applied
  <2> QED BY <1>1, <1>7, <2>1 DEF Silenced, Twelve
<1>8. CASE pc = 5
  <2>1. Access = Write("lp_wprotect", {"key"}) /\ Open("lp_wprotect")
    BY <1>8, <1>2, <1>3, PreludeAccesses
  <2>2. /\ Access.reg = "lp_wprotect"
        /\ Apply(Access) = (reg["lp_wprotect"] \ Bits["lp_wprotect"]) \cup {"key"}
    BY <2>1, Written
  <2> QED BY <1>1, <1>8, <2>2 DEF Silenced, Twelve
<1>9. CASE pc = 6
  <2>0. Open("lp_config0")
    BY <1>9, Reaches DEF Silenced
  <2>1. /\ Access.reg = "lp_config0"
        /\ Apply(Access) = (reg["lp_config0"] \ {"wdt_en", "flashboot_mod_en"}) \cup {}
    BY <1>9, <2>0, PreludeAccesses, Applied
  <2> QED BY <1>1, <1>9, <2>1 DEF Silenced, Twelve
<1>10. CASE pc = 7
  <2>1. Access = Write("lp_wprotect", {}) /\ Open("lp_wprotect")
    BY <1>10, <1>2, <1>3, PreludeAccesses
  <2>2. /\ Access.reg = "lp_wprotect"
        /\ Apply(Access) = (reg["lp_wprotect"] \ Bits["lp_wprotect"]) \cup {}
    BY <2>1, Written
  <2> QED BY <1>1, <1>10, <2>2 DEF Silenced, Twelve
<1>11. CASE pc = 8
  <2>1. Access = Write("swd_wprotect", {"key"}) /\ Open("swd_wprotect")
    BY <1>11, <1>2, <1>3, PreludeAccesses
  <2>2. /\ Access.reg = "swd_wprotect"
        /\ Apply(Access) = (reg["swd_wprotect"] \ Bits["swd_wprotect"]) \cup {"key"}
    BY <2>1, Written
  <2> QED BY <1>1, <1>11, <2>2 DEF Silenced, Twelve
<1>12. CASE pc = 9
  <2>0. Open("swd_config")
    BY <1>12, Reaches DEF Silenced
  <2>1. /\ Access.reg = "swd_config"
        /\ Apply(Access) = (reg["swd_config"] \ {}) \cup {"swd_auto_feed_en"}
    BY <1>12, <2>0, PreludeAccesses, Applied
  <2> QED BY <1>1, <1>12, <2>1 DEF Silenced, Twelve
<1>13. CASE pc = 10
  <2>1. Access = Write("swd_wprotect", {}) /\ Open("swd_wprotect")
    BY <1>13, <1>2, <1>3, PreludeAccesses
  <2>2. /\ Access.reg = "swd_wprotect"
        /\ Apply(Access) = (reg["swd_wprotect"] \ Bits["swd_wprotect"]) \cup {}
    BY <2>1, Written
  <2> QED BY <1>1, <1>13, <2>2 DEF Silenced, Twelve
<1>14. CASE pc = 11
  <2>1. Access = Write("timg0_wprotect", {"key"}) /\ Open("timg0_wprotect")
    BY <1>14, <1>2, <1>3, PreludeAccesses
  <2>2. /\ Access.reg = "timg0_wprotect"
        /\ Apply(Access) = (reg["timg0_wprotect"] \ Bits["timg0_wprotect"]) \cup {"key"}
    BY <2>1, Written
  <2> QED BY <1>1, <1>14, <2>2 DEF Silenced, Twelve
<1>15. CASE pc = 12
  <2>0. Open("timg0_config0")
    BY <1>15, Reaches DEF Silenced
  <2>1. /\ Access.reg = "timg0_config0"
        /\ Apply(Access) = (reg["timg0_config0"] \ {"wdt_en", "flashboot_mod_en"}) \cup {}
    BY <1>15, <2>0, PreludeAccesses, Applied
  <2> QED BY <1>1, <1>15, <2>1 DEF Silenced, Twelve
<1>16. CASE pc = 13
  <2>1. Access = Write("timg0_wprotect", {}) /\ Open("timg0_wprotect")
    BY <1>16, <1>2, <1>3, PreludeAccesses
  <2>2. /\ Access.reg = "timg0_wprotect"
        /\ Apply(Access) = (reg["timg0_wprotect"] \ Bits["timg0_wprotect"]) \cup {}
    BY <2>1, Written
  <2> QED BY <1>1, <1>16, <2>2 DEF Silenced, Twelve
<1>17. CASE pc = 14
  <2>1. Access = Write("timg1_wprotect", {"key"}) /\ Open("timg1_wprotect")
    BY <1>17, <1>2, <1>3, PreludeAccesses
  <2>2. /\ Access.reg = "timg1_wprotect"
        /\ Apply(Access) = (reg["timg1_wprotect"] \ Bits["timg1_wprotect"]) \cup {"key"}
    BY <2>1, Written
  <2> QED BY <1>1, <1>17, <2>2 DEF Silenced, Twelve
<1>18. CASE pc = 15
  <2>0. Open("timg1_config0")
    BY <1>18, Reaches DEF Silenced
  <2>1. /\ Access.reg = "timg1_config0"
        /\ Apply(Access) = (reg["timg1_config0"] \ {"wdt_en", "flashboot_mod_en"}) \cup {}
    BY <1>18, <2>0, PreludeAccesses, Applied
  <2> QED BY <1>1, <1>18, <2>1 DEF Silenced, Twelve
<1>19. CASE pc = 16
  <2>1. Access = Write("timg1_wprotect", {}) /\ Open("timg1_wprotect")
    BY <1>19, <1>2, <1>3, PreludeAccesses
  <2>2. /\ Access.reg = "timg1_wprotect"
        /\ Apply(Access) = (reg["timg1_wprotect"] \ Bits["timg1_wprotect"]) \cup {}
    BY <2>1, Written
  <2> QED BY <1>1, <1>19, <2>2 DEF Silenced, Twelve
<1> QED BY <1>4, <1>5, <1>6, <1>7, <1>8, <1>9, <1>10, <1>11, <1>12, <1>13, <1>14, <1>15,
           <1>16, <1>17, <1>18, <1>19

\* Any access, the watchdogs' and the others.
LEMMA AccessRegisterStep == IInv /\ AccessRegister => IInv'
<1> SUFFICES ASSUME IInv, AccessRegister PROVE IInv'
  OBVIOUS
<1> DEFINE r == Access.reg
           v == Apply(Access)
<1>1. /\ Place /\ Counts /\ Silenced /\ OtherBitsPreserved
      /\ Running /\ ~AtReturn /\ reg \in Files
  BY DEF IInv, Place, AccessRegister, Performs
<1>2. /\ pc' = pc + 1 /\ entry' = entry /\ resets' = resets
      /\ inherited' = inherited /\ settled' = settled
      /\ reg' = [reg EXCEPT ![r] = v]
  BY DEF AccessRegister, Advance
<1>3. /\ pc \in Nat \ {0} /\ Access \in Careful
      /\ pc <= 16 => Access = Prelude[pc]
      /\ pc > 16 => Access \in Quiet
      /\ pc + 1 \in 1 .. Len(Program(entry)) + 1
  BY <1>1, AccessShape
<1>4. /\ r \in Registers /\ Access.set \subseteq Bits[r]
      /\ r \notin Whole => "other" \notin Access.clear \cup Access.set
  BY <1>3 DEF Careful
<1>5. v \in SUBSET Bits[r]
  <2>1. reg[r] \subseteq Bits[r]
    BY <1>1, <1>4 DEF Files
  <2> QED BY <1>4, <2>1 DEF Apply
<1>6. /\ reg' \in Files
      /\ \A s \in Registers : reg'[s] = IF s = r THEN v ELSE reg[s]
  <2>1. \A q \in Registers : \A w : w \in SUBSET Bits[q] =>
          /\ [reg EXCEPT ![q] = w] \in Files
          /\ \A s \in Registers : [reg EXCEPT ![q] = w][s] = IF s = q THEN w ELSE reg[s]
    BY <1>1, FileUpdate
  <2>2. r \in Registers /\ v \in SUBSET Bits[r]
    BY <1>4, <1>5
  <2>3. reg' = [reg EXCEPT ![r] = v]
    BY <1>2
  <2> HIDE DEF r, v
  <2>4. \A w : w \in SUBSET Bits[r] =>
          /\ [reg EXCEPT ![r] = w] \in Files
          /\ \A s \in Registers : [reg EXCEPT ![r] = w][s] = IF s = r THEN w ELSE reg[s]
    BY <2>1, <2>2
  <2>5. /\ [reg EXCEPT ![r] = v] \in Files
        /\ \A s \in Registers : [reg EXCEPT ![r] = v][s] = IF s = r THEN v ELSE reg[s]
    BY <2>2, <2>4
  <2> QED BY <2>3, <2>5
<1>7. Place'
  <2>1. Running'
    BY <1>1, <1>2 DEF Running
  <2>2. Len(Program(entry))' = Len(Program(entry))
    BY <1>2
  <2> QED BY <1>1, <1>2, <1>3, <1>6, <2>1, <2>2 DEF Place
<1>8. Counts'
  BY <1>1, <1>2 DEF Counts
<1>9. Silenced'
  <2>1. CASE pc <= 16
    BY <1>1, <1>2, <1>3, <1>6, <2>1, PreludeSilences
  <2>2. CASE pc > 16
    <3>1. r \notin Noisy
      BY <1>3, <2>2 DEF Quiet
    <3>2. Noisy \subseteq Registers
      BY WatchdogBits DEF Noisy
    <3>3. \A s \in Noisy : reg'[s] = reg[s]
      BY <1>6, <3>1, <3>2
    <3> QED BY <1>1, <1>2, <1>3, <2>2, <3>3, StaysSilenced
  <2> QED BY <1>3, <2>1, <2>2
<1>10. OtherBitsPreserved'
  <2> SUFFICES ASSUME NEW s \in Registers \ Whole
               PROVE  "other" \in reg'[s] <=> s \in inherited
    BY <1>2 DEF OtherBitsPreserved, Whole
  <2>1. "other" \in reg[s] <=> s \in inherited
    BY <1>1 DEF OtherBitsPreserved, Whole
  <2>2. CASE s = r
    <3>1. "other" \in v <=> "other" \in reg[r]
      BY <1>4, <2>2 DEF Apply
    <3> QED BY <1>6, <2>1, <2>2, <3>1
  <2>3. CASE s # r
    BY <1>6, <2>1, <2>3
  <2> QED BY <2>2, <2>3
<1> QED BY <1>7, <1>8, <1>9, <1>10 DEF IInv

\* A ROM call changes the register it is named for.
LEMMA RomCall ==
  ASSUME IInv, Running, ~AtReturn, Access.what # "access", Advance,
         NEW r \in {"l2_cache", "flash_status"}, NEW v \in SUBSET Bits[r],
         "other" \notin Bits[r], reg' = [reg EXCEPT ![r] = v]
  PROVE  IInv'
<1>1. Place /\ Counts /\ Silenced /\ OtherBitsPreserved /\ reg \in Files
  BY DEF IInv, Place
<1>2. /\ pc' = pc + 1 /\ entry' = entry /\ resets' = resets
      /\ inherited' = inherited /\ settled' = settled
  BY DEF Advance
<1>3. /\ pc \in Nat \ {0}
      /\ pc <= 16 => Access = Prelude[pc]
      /\ pc + 1 \in 1 .. Len(Program(entry)) + 1
  BY <1>1, AccessShape
<1>4. pc > 16
  <2>1. pc <= 16 => pc \in 1 .. 16
    BY <1>3
  <2>2. CASE pc <= 16
    <3>1. Prelude[pc].what = "access"
      BY <2>1, <2>2, PreludePlain
    <3>2. Access.what = "access"
      BY <1>3, <2>2, <3>1, Zenon
    <3> QED BY <3>2, Zenon
  <2> QED BY <1>3, <2>2
<1>5. r \in Registers /\ r \notin Noisy
  BY RestBits, WholeRegisters
<1>6. /\ reg' \in Files /\ reg[r] \subseteq Bits[r]
      /\ \A s \in Registers : reg'[s] = IF s = r THEN v ELSE reg[s]
  <2>1. /\ [reg EXCEPT ![r] = v] \in Files
        /\ reg[r] \subseteq Bits[r]
        /\ \A s \in Registers : [reg EXCEPT ![r] = v][s] = IF s = r THEN v ELSE reg[s]
    BY <1>1, <1>5, FileUpdate, Zenon
  <2> QED BY <2>1, Zenon
<1>7. Place'
  <2>1. Running'
    BY <1>2 DEF Running
  <2>2. Len(Program(entry))' = Len(Program(entry))
    BY <1>2
  <2> QED BY <1>1, <1>2, <1>3, <1>6, <2>1, <2>2 DEF Place
<1>8. Counts'
  BY <1>1, <1>2 DEF Counts
<1>9. Silenced'
  <2>1. Noisy \subseteq Registers
    BY WatchdogBits DEF Noisy
  <2>2. \A s \in Noisy : reg'[s] = reg[s]
    BY <1>5, <1>6, <2>1
  <2> QED BY <1>1, <1>2, <1>3, <1>4, <2>2, StaysSilenced
<1>10. OtherBitsPreserved'
  BY <1>1, <1>2, <1>6 DEF OtherBitsPreserved
<1> QED BY <1>7, <1>8, <1>9, <1>10 DEF IInv

\* The ROM's Cache_Enable_L2_Cache.
LEMMA EnableCacheStep == IInv /\ EnableCache => IInv'
<1> SUFFICES ASSUME IInv, EnableCache PROVE IInv'
  OBVIOUS
<1>1. Bits["l2_cache"] = {"enabled", "autoload"}
  BY RestBits
<1> DEFINE v == {"enabled"} \cup (IF "autoload" \in reg["l2_cache"] THEN {"autoload"} ELSE {})
<1>2. v \in SUBSET Bits["l2_cache"] /\ "other" \notin Bits["l2_cache"]
  BY <1>1
<1>3. /\ Running /\ ~AtReturn /\ Access.what # "access" /\ Advance
      /\ reg' = [reg EXCEPT !["l2_cache"] = v]
  BY DEF EnableCache, Performs
<1> QED BY <1>2, <1>3, RomCall

\* The ROM's esp_rom_spiflash_unlock.
LEMMA UnlockFlashStep == IInv /\ UnlockFlash => IInv'
<1> SUFFICES ASSUME IInv, UnlockFlash PROVE IInv'
  OBVIOUS
<1>1. Bits["flash_status"] = {"wel", "protected"}
  BY RestBits
<1>2. PICK wel \in SUBSET {"wel"}, protected \in SUBSET {"protected"} :
        reg' = [reg EXCEPT !["flash_status"] = wel \cup protected]
  BY DEF UnlockFlash
<1>3. /\ wel \cup protected \in SUBSET Bits["flash_status"]
      /\ "other" \notin Bits["flash_status"]
  BY <1>1
<1>4. Running /\ ~AtReturn /\ Access.what # "access" /\ Advance
  BY DEF UnlockFlash, Performs
<1> QED BY <1>2, <1>3, <1>4, RomCall

\* Between calls.
LEMMA CallStep == IInv /\ (\E e \in {"init", "init_phase2_full"} : Call(e)) => IInv'
<1> SUFFICES ASSUME IInv, NEW e \in {"init", "init_phase2_full"}, Call(e) PROVE IInv'
  OBVIOUS
<1>1. /\ entry' = e /\ pc' = 1 /\ reg' = reg /\ resets' = resets
      /\ inherited' = inherited /\ settled' = settled
  BY DEF Call
<1>2. Running'
  BY <1>1 DEF Running
<1>3. Place'
  <2>1. 1 \in 1 .. Len(Program(e)) + 1
    <3>1. Begins(Program(e))
      BY Programs
    <3>2. Program(e) \in Seq(Careful)
      BY <3>1, Zenon DEF Begins
    <3>3. Len(Program(e)) \in Nat
      BY <3>2, LenProperties
    <3> QED BY <3>3
  <2>2. Len(Program(entry))' = Len(Program(e))
    BY <1>1
  <2> QED BY <1>1, <1>2, <2>1, <2>2 DEF IInv, Place
<1>4. Silenced'
  BY <1>1 DEF Silenced
<1>5. Counts' /\ OtherBitsPreserved'
  BY <1>1 DEF IInv, Counts, OtherBitsPreserved
<1> QED BY <1>3, <1>4, <1>5 DEF IInv

LEMMA ReturnStep == IInv /\ Return => IInv'
<1> SUFFICES ASSUME IInv, Return PROVE IInv'
  OBVIOUS
<1>1. /\ entry' = "none" /\ pc' = 1 /\ reg' = reg /\ resets' = resets
      /\ inherited' = inherited /\ settled' \in {reg, settled}
  BY DEF Return
<1>2. ~Running'
  BY <1>1 DEF Running
<1>3. Place' /\ Counts'
  BY <1>1, <1>2 DEF IInv, Place, Counts
<1>4. Silenced' /\ OtherBitsPreserved'
  BY <1>1, <1>2 DEF IInv, Silenced, OtherBitsPreserved
<1> QED BY <1>3, <1>4 DEF IInv

LEMMA ApplicationStep == IInv /\ Application => IInv'
<1> SUFFICES ASSUME IInv, Application PROVE IInv'
  OBVIOUS
<1>1. /\ entry' = entry /\ pc' = pc /\ resets' = resets
      /\ inherited' = inherited /\ settled' = settled /\ ~Running
  BY DEF Application
<1>2. PICK r \in AppRegisters :
        reg' = [reg EXCEPT ![r] = @ \cup (Bits[r] \cap {"mapped", "valid", "wdt_en"})]
  BY DEF Application
<1>3. r \in Registers
  BY WatchdogBits, RestBits DEF AppRegisters, Watchdogs
<1> DEFINE v == reg[r] \cup (Bits[r] \cap {"mapped", "valid", "wdt_en"})
<1>4. reg \in Files /\ v \in SUBSET Bits[r] /\ reg' = [reg EXCEPT ![r] = v]
  BY <1>2, <1>3 DEF IInv, Place, Files
<1>5. /\ reg' \in Files
      /\ \A s \in Registers : reg'[s] = IF s = r THEN v ELSE reg[s]
  <2>1. /\ [reg EXCEPT ![r] = v] \in Files
        /\ reg[r] \subseteq Bits[r]
        /\ \A s \in Registers : [reg EXCEPT ![r] = v][s] = IF s = r THEN v ELSE reg[s]
    <3> HIDE DEF v
    <3>1. reg \in Files /\ r \in Registers /\ v \in SUBSET Bits[r]
      BY <1>3, <1>4
    <3> QED BY <3>1, FileUpdate
  <2> HIDE DEF v
  <2> QED BY <1>4, <2>1, Zenon
<1>6. ~Running'
  BY <1>1 DEF Running
<1>7. Place' /\ Counts'
  BY <1>1, <1>5, <1>6 DEF IInv, Place, Counts
<1>8. Silenced'
  BY <1>6 DEF Silenced
<1>9. OtherBitsPreserved'
  BY <1>1, <1>5 DEF IInv, OtherBitsPreserved
<1> QED BY <1>7, <1>8, <1>9 DEF IInv

\* A reset of any kind, warm or not.
LEMMA ResetStep == IInv /\ Reset => IInv'
<1> SUFFICES ASSUME IInv, Reset PROVE IInv'
  OBVIOUS
<1>1. /\ entry' = "none" /\ pc' = 1 /\ settled' = NotYet /\ resets < MaxResets
      /\ resets' = resets + 1 /\ inherited' = {r \in Registers : "other" \in reg'[r]}
      /\ reg' \in Boots(WarmReset) \cup LeftBehind
  BY DEF Reset
<1>2. ~Running'
  BY <1>1 DEF Running
<1>3. reg' \in Files
  <2>1. reg \in Files
    BY DEF IInv, Place
  <2>2. "l2_mode" \in Registers
    BY RestBits
  <2>3. WarmReset \in Files
    BY <2>1, <2>2, FileUpdate DEF WarmReset
  <2>4. \A f \in Files : Boots(f) \subseteq Files
    <3> SUFFICES ASSUME NEW f \in Files PROVE Boots(f) \subseteq Files
      OBVIOUS
    <3>1. /\ "lp_config0" \in Registers /\ "timg0_config0" \in Registers
          /\ "flashboot_mod_en" \in Bits["lp_config0"]
          /\ "flashboot_mod_en" \in Bits["timg0_config0"]
      BY WatchdogBits DEF Watchdogs
    <3> DEFINE g == [f EXCEPT !["lp_config0"] = f["lp_config0"] \cup {"flashboot_mod_en"}]
               h == [g EXCEPT !["timg0_config0"] = g["timg0_config0"] \cup {"flashboot_mod_en"}]
    <3>2. f["lp_config0"] \cup {"flashboot_mod_en"} \in SUBSET Bits["lp_config0"]
      BY <3>1 DEF Files
    <3>3. g \in Files
      BY <3>1, <3>2, FileUpdate
    <3>4. g["timg0_config0"] \cup {"flashboot_mod_en"} \in SUBSET Bits["timg0_config0"]
      BY <3>1, <3>3 DEF Files
    <3>5. h \in Files
      BY <3>1, <3>3, <3>4, FileUpdate
    <3>6. Boots(f) = {f, h}
      BY DEF Boots
    <3> QED BY <3>5, <3>6
  <2> QED BY <1>1, <2>3, <2>4, LeftBehindAssumption
<1>4. Place'
  BY <1>1, <1>2, <1>3 DEF Place
<1>5. Counts'
  BY <1>1, MaxResetsAssumption DEF IInv, Counts
<1>6. Silenced'
  BY <1>2 DEF Silenced
<1>7. OtherBitsPreserved'
  BY <1>1 DEF OtherBitsPreserved
<1> QED BY <1>4, <1>5, <1>6, <1>7 DEF IInv

\* The invariant holds at the start and every step keeps it.
LEMMA Invariance == Spec => []IInv
<1>1. Init => IInv
  <2> SUFFICES ASSUME Init PROVE IInv
    OBVIOUS
  <2>1. ~Running
    BY DEF Init, Running
  <2>2. Place /\ Counts
    BY <2>1, LeftBehindAssumption, MaxResetsAssumption DEF Init, Place, Counts
  <2>3. Silenced /\ OtherBitsPreserved
    BY <2>1 DEF Init, Silenced, OtherBitsPreserved
  <2> QED BY <2>2, <2>3 DEF IInv
<1>2. IInv /\ [Next]_vars => IInv'
  <2> SUFFICES ASSUME IInv, [Next]_vars PROVE IInv'
    OBVIOUS
  <2>1. CASE UNCHANGED vars
    BY <2>1 DEF vars, IInv, Place, Counts, Silenced, OtherBitsPreserved, Running
  <2>2. CASE Next
    BY <2>2, CallStep, AccessRegisterStep, EnableCacheStep, UnlockFlashStep, ReturnStep,
       ApplicationStep, ResetStep DEF Next, SelfReset, HostReset
  <2> QED BY <2>1, <2>2
<1> QED BY <1>1, <1>2, PTL DEF Spec

-----------------------------------------------------------------------------
(* The theorems.                                                           *)

\* No access of the bring-up sets a bit its register does not have, from any
\* register file that was found, and the program counter stays in the program.
THEOREM TypeCorrect == Spec => []TypeOK
<1>1. IInv => TypeOK
  <2> SUFFICES ASSUME IInv PROVE TypeOK
    OBVIOUS
  <2>1. pc \in 1 .. Len(InitPhase2FullProgram) + 1
    <3> DEFINE n == Len(InitPhase2FullProgram)
    <3> SUFFICES pc \in 1 .. n + 1
      OBVIOUS
    <3>1. n \in Nat
      <4>1. Begins(Program("init_phase2_full"))
        BY Programs
      <4>2. Program("init_phase2_full") \in Seq(Careful)
        BY <4>1, Zenon DEF Begins
      <4> QED BY <4>2, LenProperties DEF Program
    <3>2. CASE Running
      <4> DEFINE m == Len(Program(entry))
      <4>1. Begins(Program(entry)) /\ m <= n
        BY <3>2, Programs DEF IInv, Place, Running
      <4>2. Program(entry) \in Seq(Careful)
        BY <4>1, Zenon DEF Begins
      <4>3. m \in Nat /\ pc \in 1 .. m + 1
        BY <3>2, <4>2, LenProperties DEF IInv, Place
      <4> HIDE DEF m, n
      <4> QED BY <3>1, <4>1, <4>3
    <3>3. CASE ~Running
      <4>1. pc = 1
        BY <3>3 DEF IInv, Place
      <4> HIDE DEF n
      <4> QED BY <3>1, <4>1
    <3> QED BY <3>2, <3>3
  <2> QED BY <2>1 DEF IInv, Place, Counts, TypeOK
<1> QED BY <1>1, Invariance, PTL

\* The read-modify-writes of bod.rs, wdt.rs, mpll.rs, clkrst.rs, pin_mux.rs and
\* flash.rs leave the bits they do not own, however runs are cut short.
THEOREM OthersKept == Spec => []OtherBitsPreserved
<1>1. IInv => OtherBitsPreserved
  BY DEF IInv
<1> QED BY <1>1, Invariance, PTL

\* lib.rs calls bod::disable and wdt::disable_all first: whatever was armed when
\* the run began, nothing can reset the chip behind them, up to the return.
THEOREM NoResetDuringBringUp == Spec => []QuietBeforeTheRest
<1>1. IInv => QuietBeforeTheRest
  <2> SUFFICES ASSUME IInv, Running,
                      AtReturn \/ Access.reg \notin Detectors \cup Watchdogs \cup Wprotects
                                                    \cup {"swd_config"}
               PROVE  ~CanSelfReset
    BY DEF QuietBeforeTheRest
  <2>1. Place /\ Silenced
    BY DEF IInv
  <2>2. pc \in Nat /\ pc > 16
    <3>1. CASE AtReturn
      <4> DEFINE n == Len(Program(entry))
      <4>1. Begins(Program(entry))
        BY <2>1, Programs DEF Place, Running
      <4>2. Program(entry) \in Seq(Careful) /\ n >= 16
        BY <4>1, Zenon DEF Begins
      <4>3. n \in Nat /\ pc \in 1 .. n + 1 /\ pc > n
        BY <2>1, <3>1, <4>2, LenProperties DEF Place, AtReturn
      <4> HIDE DEF n
      <4> QED BY <4>2, <4>3
    <3>2. CASE ~AtReturn
      <4>1. pc \in Nat \ {0} /\ (pc <= 16 => Access = Prelude[pc])
        BY <2>1, <3>2, AccessShape
      <4>2. \A i \in 1 .. 16 : Prelude[i].reg \in Twelve
        <5>1. \A r, clear, set : Modify(r, clear, set).reg = r /\ Write(r, set).reg = r
          BY DEF Modify, Write
        <5>2. \A i \in 1 .. 16 : i \in {1, 2, 3, 4, 5, 6, 7, 8, 9, 10, 11, 12, 13, 14, 15, 16}
          OBVIOUS
        <5>3. \A i \in {1, 2, 3, 4, 5, 6, 7, 8, 9, 10, 11, 12, 13, 14, 15, 16} :
                Prelude[i].reg \in Twelve
          BY <5>1, PreludeAccesses DEF Twelve
        <5> QED BY <5>2, <5>3
      <4>3. Twelve \subseteq Detectors \cup Watchdogs \cup Wprotects \cup {"swd_config"}
        BY DEF Twelve, Detectors, Watchdogs, Wprotects
      <4>4. pc <= 16 => pc \in 1 .. 16
        BY <4>1
      <4> QED BY <3>2, <4>1, <4>2, <4>3, <4>4
    <3> QED BY <3>1, <3>2
  <2>3. /\ \A r \in Detectors : "reset_ena" \notin reg[r]
        /\ \A r \in Watchdogs : reg[r] \cap {"wdt_en", "flashboot_mod_en"} = {}
        /\ "swd_auto_feed_en" \in reg["swd_config"]
    BY <2>1, <2>2 DEF Silenced, Detectors, Watchdogs
  <2> QED BY <2>3 DEF CanSelfReset
<1> QED BY <1>1, Invariance, PTL
=============================================================================
