---------------------------- MODULE BootProgram ----------------------------
(***************************************************************************)
(* The register accesses of the bring-up: each function of bod, wdt, pmu,  *)
(* mpll, regi2c, clkrst, pin_mux, flash, cache and mmu that lib.rs calls,  *)
(* as the sequence of its accesses, and the two entry points as the        *)
(* sequences of their calls.  Boot executes them, one access a step.       *)
(*                                                                         *)
(* A register is the set of its bits (or facts) that are 1.  "other" is    *)
(* what the register holds beside the fields this code sets.  The tables   *)
(* of registers are sequences, in the order the code goes through them.    *)
(*                                                                         *)
(* The definitions named for a slip (WdtDisableAllButFlashboot, ...) are   *)
(* used nowhere: each is the one after it with a plausible bug, and shows  *)
(* that a property of Boot would notice.                                   *)
(***************************************************************************)
EXTENDS Sequences, Functions

Detectors == {"bod_mode0_cntl", "bod_mode1_cntl", "ck_glitch_cntl", "pg_glitch_cntl"}
Watchdogs == {"lp_config0", "timg0_config0", "timg1_config0"}
Wprotects == {"lp_wprotect", "swd_wprotect", "timg0_wprotect", "timg1_wprotect"}
Clocks == <<"root_clk_ctrl0", "soc_clk_ctrl1", "soc_clk_ctrl2", "peri_clk_ctrl23",
            "peri_clk_ctrl24", "peri_clk_ctrl25", "ana_pll_ctrl0", "cpu_clk_status0">>
Bias == {"bias_dreg_1p1", "bias_dreg_1p1_pvt"}
Mpll == {"mpll_dhref", "mpll_ir_cal_rstb", "mpll_div"}

\* The PMU registers by their offsets: the HP_ACTIVE, HP_SLEEP and LP_SLEEP
\* templates, those that lose their power-on value, the LDO regulators.
HpActive == <<"pmu_14", "pmu_18", "pmu_1C", "pmu_20", "pmu_24", "pmu_28">>
HpSleep == <<"pmu_68", "pmu_6C", "pmu_70", "pmu_78", "pmu_7C", "pmu_80", "pmu_84",
             "pmu_88", "pmu_8C", "pmu_90", "pmu_98", "pmu_9C">>
LpSleep == <<"pmu_B4", "pmu_BC">>
PorDefaults == <<"pmu_C4", "pmu_C8", "pmu_F4", "pmu_F8", "pmu_FC", "pmu_10C",
                 "pmu_110", "pmu_12C", "pmu_164", "pmu_174">>
ExtLdo == <<"pmu_1B8", "pmu_1BC", "pmu_1C0", "pmu_1C4", "pmu_1C8", "pmu_1CC",
            "pmu_1D0", "pmu_1D4", "pmu_1D8", "pmu_1DC", "pmu_1E0", "pmu_1E4">>
PmuTemplates == Range(HpActive \o HpSleep \o LpSleep \o PorDefaults \o ExtLdo)

PsramPins == <<"d", "q", "wp", "hold", "dq4", "dq5", "dq6", "dq7", "ck", "cs",
               "dq8", "dq9", "dq10", "dq11", "dq12", "dq13", "dq14", "dq15">>
Dqs == <<"dqs_0", "dqs_1">>
Pins == Range(PsramPins \o Dqs)
Mmus == {"flash_mmu", "psram_mmu"}

Registers ==
  Detectors \cup Watchdogs \cup Wprotects \cup PmuTemplates \cup Range(Clocks) \cup Bias
  \cup Mpll \cup Pins \cup Mmus \cup
  {"swd_config", "pmu_rf_pwc", "hp_clk_ctrl", "lpperi_clk_en", "i2c_clk160m",
   "i2c_conf1", "i2c_conf2", "peri_clk_ctrl00",
   "l2_mode", "l2_lines", "l2_cache", "spi0_user", "spi0_ctrl2",
   "mspi", "flash_power", "flash_status"}

Bits == [r \in Registers |->
  CASE r \in Detectors               -> {"reset_ena", "other"}
    [] r \in Watchdogs               -> {"wdt_en", "flashboot_mod_en", "other"}
    [] r = "swd_config"              -> {"swd_auto_feed_en", "other"}
    [] r \in Wprotects               -> {"key"}
    [] r \in PmuTemplates            -> {"idf", "other"}
    [] r = "pmu_rf_pwc"              -> {"mspi_phy_xpd", "xpd_perif_i2c", "other"}
    [] r = "hp_clk_ctrl"             -> {"mpll_500m_en", "root_sel_0", "other"}
    [] r = "lpperi_clk_en"           -> {"lp_i2cmst", "other"}
    [] r = "i2c_clk160m"             -> {"sel_160m", "other"}
    [] r = "i2c_conf1"               -> {"other"}
    [] r = "i2c_conf2"               -> {"bias", "mspi", "other"}
    [] r \in Bias                    -> {"dreg_10", "dreg_other", "other"}
    [] r = "mpll_dhref"              -> {"dhref_3", "other"}
    [] r = "mpll_ir_cal_rstb"        -> {"rstb", "other"}
    [] r = "mpll_div"                -> {"400MHz", "other"}
    [] r = "ana_pll_ctrl0"           -> {"mspi_cal_stop", "idf", "other"}
    [] r \in Range(Clocks) \ {"ana_pll_ctrl0"} -> {"idf", "other"}
    [] r \in Range(PsramPins)        -> {"drv_0", "drv_1", "other"}
    [] r \in Range(Dqs)              -> {"drv_0", "drv_1", "xpd", "other"}
    [] r = "peri_clk_ctrl00"         -> {"flash_pll_clk_en", "src_sel_0", "src_sel_1",
                                         "flash_core_clk_en", "div_6", "div_other", "other"}
    [] r = "l2_mode"                 -> {"set"}
    [] r = "l2_lines"                -> {"valid"}
    [] r = "l2_cache"                -> {"enabled", "autoload"}
    [] r \in Mmus                    -> {"mapped"}
    [] r = "spi0_user"               -> {"cs_hold", "cs_setup", "other"}
    [] r = "spi0_ctrl2"              -> {"cs_hold_time", "cs_setup_time", "other"}
    [] r = "mspi"                    -> {"attached"}
    [] r = "flash_power"             -> {"deep_power_down"}
    [] r = "flash_status"            -> {"wel", "protected"}]

Files == {f \in [Registers -> SUBSET UNION {Bits[r] : r \in Registers}] :
            \A r \in Registers : f[r] \subseteq Bits[r]}

-----------------------------------------------------------------------------
(* The three shapes of an access: read-modify-write, plain write, and the  *)
(* two ROM calls whose outcome is not the caller's to choose.              *)

Modify(r, clear, set) == [what |-> "access", reg |-> r, clear |-> clear, set |-> set]
Write(r, value) == Modify(r, Bits[r], value)
EachModify(table, clear, set) == [i \in DOMAIN table |-> Modify(table[i], clear, set)]
EachWrite(table, value) == [i \in DOMAIN table |-> Write(table[i], value)]
EnableL2Cache == [Modify("l2_cache", {}, {}) EXCEPT !.what = "Cache_Enable_L2_Cache"]
Unlock == [Modify("flash_status", {}, {}) EXCEPT !.what = "esp_rom_spiflash_unlock"]

-----------------------------------------------------------------------------
(* bod.rs and wdt.rs.                                                      *)

BodDisable == << Modify("bod_mode0_cntl", {"reset_ena"}, {}),
                 Modify("bod_mode1_cntl", {"reset_ena"}, {}),
                 Modify("ck_glitch_cntl", {"reset_ena"}, {}),
                 Modify("pg_glitch_cntl", {"reset_ena"}, {}) >>

WithKey(wprotect, access) == << Write(wprotect, {"key"}), access, Write(wprotect, {}) >>

WdtDisableAllButFlashboot ==
  WithKey("lp_wprotect", Modify("lp_config0", {"wdt_en"}, {}))
  \o WithKey("swd_wprotect", Modify("swd_config", {}, {"swd_auto_feed_en"}))
  \o WithKey("timg0_wprotect", Modify("timg0_config0", {"wdt_en"}, {}))
  \o WithKey("timg1_wprotect", Modify("timg1_config0", {"wdt_en"}, {}))

WdtDisableAll ==
  WithKey("lp_wprotect", Modify("lp_config0", {"wdt_en", "flashboot_mod_en"}, {}))
  \o WithKey("swd_wprotect", Modify("swd_config", {}, {"swd_auto_feed_en"}))
  \o WithKey("timg0_wprotect", Modify("timg0_config0", {"wdt_en", "flashboot_mod_en"}, {}))
  \o WithKey("timg1_wprotect", Modify("timg1_config0", {"wdt_en", "flashboot_mod_en"}, {}))

-----------------------------------------------------------------------------
(* pmu.rs, mpll.rs with regi2c.rs, clkrst.rs.                              *)

PmuInitActiveState == EachWrite(HpActive, {"idf"}) \o EachWrite(HpSleep, {"idf"})
                      \o EachWrite(LpSleep, {"idf"}) \o EachWrite(PorDefaults, {"idf"})
                      \o EachWrite(ExtLdo, {"idf"})

EnableBus == << Modify("lpperi_clk_en", {}, {"lp_i2cmst"}),
                Modify("i2c_clk160m", {}, {"sel_160m"}),
                Write("i2c_conf1", {}) >>

SelectBlock(master) == << Write("i2c_conf2", {master}) >>

SetBiasFieldsWhole == << Write("bias_dreg_1p1", {"dreg_10"}),
                         Write("bias_dreg_1p1_pvt", {"dreg_10"}) >>

\* set_field(REGI2C_BIAS_BLOCK, ..., 10) on the two DREG fields.
SetBiasFields == << Modify("bias_dreg_1p1", {"dreg_other"}, {"dreg_10"}),
                    Modify("bias_dreg_1p1_pvt", {"dreg_other"}, {"dreg_10"}) >>

\* The bounded wait for mspi_cal_end ends in either case and changes no
\* register: it is between the last two accesses.
Calibrate == << Modify("ana_pll_ctrl0", {"mspi_cal_stop"}, {}),
                Modify("mpll_dhref", {}, {"dhref_3"}),
                Modify("mpll_ir_cal_rstb", {"rstb"}, {}),
                Modify("mpll_ir_cal_rstb", {}, {"rstb"}),
                Write("mpll_div", {"400MHz"}),
                Modify("ana_pll_ctrl0", {}, {"mspi_cal_stop"}) >>

MpllBringup400NotReselected ==
  << Modify("pmu_rf_pwc", {}, {"mspi_phy_xpd", "xpd_perif_i2c"}),
     Modify("hp_clk_ctrl", {}, {"mpll_500m_en", "root_sel_0"}) >>
  \o EnableBus \o SelectBlock("bias") \o SetBiasFields \o Calibrate

MpllBringup400 ==
  << Modify("pmu_rf_pwc", {}, {"mspi_phy_xpd", "xpd_perif_i2c"}),
     Modify("hp_clk_ctrl", {}, {"mpll_500m_en", "root_sel_0"}) >>
  \o EnableBus \o SelectBlock("bias") \o SetBiasFields
  \o SelectBlock("mspi") \o Calibrate

InitHpClocksFromOff == EachModify(Clocks, {"idf"}, {}) \o EachModify(Clocks, {}, {"idf"})

InitHpClocks == EachModify(Clocks, {}, {"idf"})

-----------------------------------------------------------------------------
(* pin_mux.rs, flash.rs, cache.rs, mmu.rs.                                 *)

\* drv is the set of bits of the 2-bit field that are 1.
PinDrvSet(drv) == EachModify(PsramPins, {"drv_0", "drv_1"}, drv)
                  \o EachModify(Dqs, {"drv_0", "drv_1"}, drv)

EnableDqsOnEveryPin(en) == EachModify(PsramPins \o Dqs, {"xpd"}, IF en THEN {"xpd"} ELSE {})

EnableDqs(en) == EachModify(Dqs, {"xpd"}, IF en THEN {"xpd"} ELSE {})

SetSpllClockRev1plus ==
  << Modify("peri_clk_ctrl00", {"src_sel_1"}, {"flash_pll_clk_en", "src_sel_0"}),
     Modify("peri_clk_ctrl00", {"div_other"}, {"flash_core_clk_en", "div_6"}) >>

InitL2CacheMode == << Write("l2_mode", {"set"}), Write("l2_lines", {}) >>

CacheHalInit == << EnableL2Cache >>

MmuHalInit == << Write("flash_mmu", {}), Write("psram_mmu", {}) >>

FlashCsTimingConfig == << Modify("spi0_user", {}, {"cs_hold", "cs_setup"}),
                          Modify("spi0_ctrl2", {"cs_hold_time", "cs_setup_time"}, {}) >>

BootloaderInitSpiFlashWpFirst ==
  << Write("mspi", {"attached"}) >> \o FlashCsTimingConfig
  \o << Write("flash_power", {}), Modify("flash_status", {"wel"}, {}), Unlock >>

\* attach; CS timing; RESUME wakes the chip; unlock; WRDI clears its latch.
BootloaderInitSpiFlash ==
  << Write("mspi", {"attached"}) >> \o FlashCsTimingConfig
  \o << Write("flash_power", {}), Unlock, Modify("flash_status", {"wel"}, {}) >>

-----------------------------------------------------------------------------
(* lib.rs.                                                                 *)

InitProgram == BodDisable \o WdtDisableAll \o InitL2CacheMode

InitPhase2FullProgram ==
  BodDisable \o WdtDisableAll \o PmuInitActiveState \o MpllBringup400
  \o InitHpClocks \o PinDrvSet({"drv_1"}) \o EnableDqs(TRUE) \o SetSpllClockRev1plus
  \o InitL2CacheMode \o CacheHalInit \o MmuHalInit \o BootloaderInitSpiFlash

Program(entry) == IF entry = "init" THEN InitProgram ELSE InitPhase2FullProgram
=============================================================================
