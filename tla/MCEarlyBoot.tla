----------------------------- MODULE MCEarlyBoot -----------------------------
(* EarlyBoot with a healthy slot, one that hangs, and one that hangs after *)
(* it has called init.                                                     *)
EXTENDS EarlyBoot

CONSTANTS healthy, hanging, unguarded

MCSlots == {healthy, hanging, unguarded}
MCHangs == {hanging, unguarded}
MCCallsInit == {healthy, unguarded}
MCTimeouts == {1, 2}

\* Every six-bit code that does not stand for a watchdog.
MCOtherCodes == {raw \in RawCodes : ~IsWatchdog(FromRaw(raw))}
=============================================================================
