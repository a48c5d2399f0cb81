-------------------------------- MODULE Boot --------------------------------
(***************************************************************************)
(* The chip during bring-up (src/src/lib.rs): the application calls init   *)
(* and init_phase2_full, one register access of BootProgram a step, on a   *)
(* chip that is not quiet meanwhile.  A detector or watchdog still armed   *)
(* may reset it, the host may reset it at any step, and a warm reset keeps *)
(* the registers as the interrupted run left them.  Between calls the      *)
(* application uses what the bring-up set up.                              *)
(***************************************************************************)
EXTENDS Naturals, BootProgram

CONSTANTS
  LeftBehind,   \* register files found after a power-on, or when other
                \* firmware ran before
  MaxResets,    \* bound on the resets of one behaviour
  NotYet        \* init_phase2_full has not returned since the last reset

ASSUME LeftBehindAssumption ==
  LeftBehind # {} /\ LeftBehind \subseteq Files
ASSUME MaxResetsAssumption == MaxResets \in Nat

VARIABLES
  reg,          \* the register file
  entry,        \* the entry point that is running, or "none"
  pc,           \* its next access
  resets,       \* resets so far
  inherited,    \* history: the registers whose "other" bits were 1 after the
                \* last reset
  settled       \* history: the register file init_phase2_full last returned
                \* with, or NotYet

vars == <<reg, entry, pc, resets, inherited, settled>>

-----------------------------------------------------------------------------
(* The hardware.                                                           *)

\* What an access needs to reach its target: a key in the write protect,
\* power, clock and routing on the analog bus, a mode for the L2 helpers,
\* an attached controller and a chip that is awake for flash commands.
KeyOf(r) == CASE r = "lp_config0"    -> "lp_wprotect"
              [] r = "swd_config"    -> "swd_wprotect"
              [] r = "timg0_config0" -> "timg0_wprotect"
              [] r = "timg1_config0" -> "timg1_wprotect"

\* PERIF_I2C_RSTB ("release reset - set it once") is left out: no code sets
\* it, and EngineOutOfReset of Regi2c says so.
BusUp == /\ "xpd_perif_i2c" \in reg["pmu_rf_pwc"]
         /\ "lp_i2cmst" \in reg["lpperi_clk_en"]
         /\ "sel_160m" \in reg["i2c_clk160m"]
         /\ "other" \notin reg["i2c_conf1"]

Open(r) == /\ r \in Watchdogs \cup {"swd_config"} => "key" \in reg[KeyOf(r)]
           /\ r \in Bias => BusUp /\ reg["i2c_conf2"] = {"bias"}
           /\ r \in Mpll => BusUp /\ reg["i2c_conf2"] = {"mspi"}
           /\ r \in {"l2_lines", "l2_cache"} => "set" \in reg["l2_mode"]
           /\ r \in {"flash_power", "flash_status"} => "attached" \in reg["mspi"]
           /\ r = "flash_status" => "deep_power_down" \notin reg["flash_power"]

\* "clearing only wdt_en leaves the WDT armed via the flashboot path"; the
\* super watchdog is quiet only while it feeds itself.
CanSelfReset == \/ \E r \in Detectors : "reset_ena" \in reg[r]
                \/ \E r \in Watchdogs : reg[r] \cap {"wdt_en", "flashboot_mod_en"} # {}
                \/ "swd_auto_feed_en" \notin reg["swd_config"]

\* The L2 mode registers do not survive a warm reset as a mode the helpers
\* can use; everything else is kept.
WarmReset == [reg EXCEPT !["l2_mode"] = {}]

\* Booting from flash, the ROM arms the flashboot path of LP_WDT and TIMG0.
Boots(f) == {f, [f EXCEPT !["lp_config0"] = @ \cup {"flashboot_mod_en"},
                          !["timg0_config0"] = @ \cup {"flashboot_mod_en"}]}

-----------------------------------------------------------------------------
(* The program.                                                            *)

Running == entry # "none"
AtReturn == Running /\ pc > Len(Program(entry))
Access == Program(entry)[pc]
Performs(what) == Running /\ ~AtReturn /\ Access.what = what

Apply(a) == IF Open(a.reg) THEN (reg[a.reg] \ a.clear) \cup a.set ELSE reg[a.reg]

Advance == pc' = pc + 1 /\ UNCHANGED <<entry, resets, inherited, settled>>

Call(e) == /\ ~Running
           /\ entry' = e
           /\ pc' = 1
           /\ UNCHANGED <<reg, resets, inherited, settled>>

AccessRegister == /\ Performs("access")
                  /\ reg' = [reg EXCEPT ![Access.reg] = Apply(Access)]
                  /\ Advance

\* An operator named for a slip (...Inverted) is used nowhere: it is the next
\* definition with a plausible bug, and shows that a property would notice.
\* BootProgram has more of them.
EnableCacheInverted ==
  /\ Performs("Cache_Enable_L2_Cache")
  /\ reg' = [reg EXCEPT !["l2_cache"] = {"enabled"} \cup ({"autoload"} \ @)]
  /\ Advance

\* The ROM enables the cache and leaves autoload as the flag says.
EnableCache ==
  /\ Performs("Cache_Enable_L2_Cache")
  /\ reg' = [reg EXCEPT !["l2_cache"] =
               {"enabled"} \cup (IF "autoload" \in @ THEN {"autoload"} ELSE {})]
  /\ Advance

\* The ROM's unlock may fail half-way; its result is discarded.
UnlockFlash == /\ Performs("esp_rom_spiflash_unlock")
               /\ \E wel \in SUBSET {"wel"}, protected \in SUBSET {"protected"} :
                    /\ protected \subseteq reg["flash_status"]
                    /\ reg' = [reg EXCEPT !["flash_status"] = wel \cup protected]
               /\ Advance

Return == /\ AtReturn
          /\ entry' = "none"
          /\ pc' = 1
          /\ settled' = IF entry = "init_phase2_full" THEN reg ELSE settled
          /\ UNCHANGED <<reg, resets, inherited>>

\* Between calls: the application maps flash and PSRAM, fills the cache and
\* arms TIMG1.
AppRegisters == Mmus \cup {"l2_lines", "timg1_config0"}

Application == /\ ~Running
               /\ settled # NotYet
               /\ \E r \in AppRegisters :
                    reg' = [reg EXCEPT ![r] = @ \cup (Bits[r] \cap {"mapped", "valid", "wdt_en"})]
               /\ UNCHANGED <<entry, pc, resets, inherited, settled>>

Reset == /\ resets < MaxResets
         /\ resets' = resets + 1
         /\ reg' \in Boots(WarmReset) \cup LeftBehind
         /\ inherited' = {r \in Registers : "other" \in reg'[r]}
         /\ entry' = "none"
         /\ pc' = 1
         /\ settled' = NotYet

SelfReset == CanSelfReset /\ Reset
HostReset == Reset

Init == /\ reg \in LeftBehind
        /\ entry = "none"
        /\ pc = 1
        /\ resets = 0
        /\ inherited = {r \in Registers : "other" \in reg[r]}
        /\ settled = NotYet

Next == \/ \E e \in {"init", "init_phase2_full"} : Call(e)
        \/ AccessRegister \/ EnableCache \/ UnlockFlash \/ Return
        \/ Application \/ SelfReset \/ HostReset

Spec == Init /\ [][Next]_vars

-----------------------------------------------------------------------------
(* Properties.                                                             *)

\* No access sets a bit its register does not have, and the program counter
\* stays in the program.
TypeOK == /\ reg \in Files
          /\ entry \in {"none", "init", "init_phase2_full"}
          /\ pc \in 1 .. Len(InitPhase2FullProgram) + 1
          /\ resets \in 0 .. MaxResets
          /\ inherited \subseteq Registers
          /\ settled \in Files \cup {NotYet}

\* No access of the bring-up is dropped, whatever run was cut short before
\* it: the key is in, the analog target has power, clock and route, the L2
\* mode was set after the last reset, the flash chip is awake.
EveryAccessLands == Running /\ ~AtReturn => Open(Access.reg)

\* "BOD/WDT off so the chip doesn't reset itself during long init": before
\* the first access outside the detectors and watchdogs, none can fire.
QuietBeforeTheRest ==
  Running /\ (AtReturn \/ Access.reg \notin Detectors \cup Watchdogs \cup Wprotects
                                            \cup {"swd_config"})
    => ~CanSelfReset

\* Fields the code does not own keep what the ROM or earlier firmware chose,
\* except in the registers that are written as a whole.
OtherBitsPreserved ==
  \A r \in Registers \ (PmuTemplates \cup {"i2c_conf1", "i2c_conf2", "mpll_div"}) :
    "other" \in reg[r] <=> r \in inherited

\* The post-condition of init_phase2_full, from every state an interrupted
\* or other firmware's run can leave: "chip is ready for psram::init()".
HandedOver ==
  AtReturn /\ entry = "init_phase2_full" =>
    /\ \A r \in Wprotects \cup Mmus \cup {"l2_lines", "i2c_conf1", "flash_power"} : reg[r] = {}
    /\ \A r \in PmuTemplates : reg[r] = {"idf"}
    /\ {"mspi_phy_xpd", "xpd_perif_i2c"} \subseteq reg["pmu_rf_pwc"]
    /\ {"mpll_500m_en", "root_sel_0"} \subseteq reg["hp_clk_ctrl"]
    /\ \A r \in Bias : reg[r] \ {"other"} = {"dreg_10"}
    /\ reg["mpll_div"] = {"400MHz"}
    /\ "dhref_3" \in reg["mpll_dhref"] /\ "rstb" \in reg["mpll_ir_cal_rstb"]
    /\ "mspi_cal_stop" \in reg["ana_pll_ctrl0"]
    /\ \A i \in DOMAIN Clocks : "idf" \in reg[Clocks[i]]
    /\ \A i \in DOMAIN PsramPins : reg[PsramPins[i]] \ {"other"} = {"drv_1"}
    /\ \A i \in DOMAIN Dqs : reg[Dqs[i]] \ {"other"} = {"drv_1", "xpd"}
    /\ reg["peri_clk_ctrl00"] \ {"other"} =
         {"flash_pll_clk_en", "src_sel_0", "flash_core_clk_en", "div_6"}
    /\ "set" \in reg["l2_mode"] /\ "enabled" \in reg["l2_cache"]
    /\ {"cs_hold", "cs_setup"} \subseteq reg["spi0_user"]
    /\ reg["spi0_ctrl2"] \cap {"cs_hold_time", "cs_setup_time"} = {}
    /\ "wel" \notin reg["flash_status"]

\* The scratch state of the accesses themselves (keys, bus routing, the
\* calibration handshake, the flash status) and what the application changes.
Scratch == Wprotects \cup AppRegisters
           \cup {"i2c_conf2", "ana_pll_ctrl0", "mpll_ir_cal_rstb", "flash_status"}

\* "a repeat call after warm reset is safe" is part of HandedOver, which holds
\* from every state a reset leaves.  "It just re-asserts the same configured
\* state" is stated here without a reset: until the next one, no step of a
\* later call moves anything but scratch state.
RepeatOnlyReasserts ==
  [][settled # NotYet /\ resets' = resets
       => \A r \in Registers \ Scratch : reg'[r] = reg[r]]_vars

\* ... and when the repeat call returns, the scratch state too is what the
\* first call left, the outcome of the ROM's unlock excepted.
RepeatCallSame ==
  AtReturn /\ entry = "init_phase2_full" /\ settled # NotYet
    => \A r \in Registers \ {"flash_status"} : reg[r] = settled[r]
=============================================================================
