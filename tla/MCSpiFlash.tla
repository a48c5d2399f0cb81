----------------------------- MODULE MCSpiFlash -----------------------------
(* SpiFlash with three register files to be found.                         *)
EXTENDS SpiFlash

\* Cleared; every bit set; and an address phase with the ROM's own opcode.
MCFound ==
  {[r \in Registers |-> {}],
   [r \in Registers |-> Bits(r)],
   [r \in Registers |->
      CASE r = "user" -> {"usr_command", "usr_addr"}
        [] r = "user2" -> {"bitlen_7", "other"}
        [] OTHER -> {"other"} \cap Bits(r)]}

\* No more than the assumption asks for.
MCRomSets == Saved
=============================================================================
