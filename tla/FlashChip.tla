----------------------------- MODULE FlashChip -----------------------------
(***************************************************************************)
(* What bootloader_init_spi_flash (src/src/flash.rs) does to the flash     *)
(* chip, once its commands are on the wire: wake it, let the ROM unlock    *)
(* it, clear the write-enable latch, in this order.  Boot treats the       *)
(* commands as single accesses; SpiFlash shows that the transactions on    *)
(* the controller implement that.                                          *)
(***************************************************************************)
EXTENDS Naturals

VARIABLES
  chip,     \* [asleep, wel, protected]
  next      \* the next of the three steps, 4 when they are done

Chips == [asleep : BOOLEAN, wel : BOOLEAN, protected : BOOLEAN]

Init == chip \in Chips /\ next = 1

Step(n) == next = n /\ next' = n + 1

Wake == Step(1) /\ chip' = [chip EXCEPT !.asleep = FALSE]

\* Any outcome, the chip is awake: the result is discarded.
Unlocked(c) == {d \in Chips : ~d.asleep /\ (d.protected => c.protected)}
Unlock == Step(2) /\ chip' \in Unlocked(chip)

WriteDisable == Step(3) /\ chip' = [chip EXCEPT !.wel = FALSE]

\* Afterwards the application drives the chip.
Application == next = 4 /\ chip' \in Chips /\ UNCHANGED next

\* A repeat call, or a reset.
Restart == next' = 1 /\ UNCHANGED chip

Next == Wake \/ Unlock \/ WriteDisable \/ Application \/ Restart

Spec == Init /\ [][Next]_<<chip, next>>
=============================================================================
