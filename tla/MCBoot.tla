------------------------------- MODULE MCBoot -------------------------------
(* Boot from the situations the comments of the source describe.           *)
EXTENDS Boot

Cold == [r \in Registers |->
           CASE r \in Detectors -> {"reset_ena"}
             [] r \in {"timg0_wprotect", "timg1_wprotect"} -> {"key"}
             [] r \in PmuTemplates \cup {"mpll_div", "i2c_conf1"} -> {"other"}
             [] r \in Bias -> {"dreg_other"}
             [] r = "ana_pll_ctrl0" -> {"mspi_cal_stop"}
             [] r \in Pins -> {"drv_0"}
             [] r = "peri_clk_ctrl00" -> {"div_other"}
             [] r = "l2_lines" -> {"valid"}
             [] r = "spi0_ctrl2" -> {"cs_hold_time", "cs_setup_time"}
             [] r = "flash_status" -> {"protected"}
             [] OTHER -> {}]

\* After IDF firmware in flash: everything on, another configuration of the
\* shared fields, the interrupt watchdog running, the flash chip put to sleep.
AfterIdf == [r \in Registers |->
               CASE r \in Wprotects \cup {"l2_mode"} -> {}
                 [] r \in Pins -> {"drv_0", "drv_1", "other"}
                 [] r \in Bias -> {"dreg_other", "other"}
                 [] r = "swd_config" -> {"other"}
                 [] OTHER -> Bits[r]]

MCLeftBehind == Boots(Cold) \cup {AfterIdf}
=============================================================================
