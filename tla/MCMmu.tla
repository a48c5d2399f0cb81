-------------------------------- MODULE MCMmu --------------------------------
(* Mmu with tables of a few entries, see mmu.cfg.                          *)
EXTENDS Mmu

MCPages == {7}
=============================================================================
