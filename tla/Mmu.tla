--------------------------------- MODULE Mmu ---------------------------------
(***************************************************************************)
(* The MMU tables and the loop that empties them (src/src/mmu.rs).  The    *)
(* tables are behind an index and a content register per bank.  Before,    *)
(* between and after calls the application maps pages; the hart may be     *)
(* reset at any step, which keeps the tables.                              *)
(*                                                                         *)
(* InLoopPastTheEnd and WriteContentFrom1 are used nowhere: each is the    *)
(* definition after it with a plausible bug, and shows that a property     *)
(* would notice.                                                           *)
(***************************************************************************)
EXTENDS Integers

CONSTANTS
  EntryNum,    \* MMU_ENTRY_NUM: 1024 in the code
  Pages        \* the valid contents of an entry; 0 is MMU_INVALID

ASSUME EntryNumAssumption == EntryNum \in Nat \ {0}
ASSUME PagesAssumption == Pages \subseteq Nat \ {0}

Invalid == 0
Entries == 0 .. EntryNum - 1
Banks == {"flash", "psram"}

VARIABLES
  table,       \* table[bank][entry]
  index,       \* index[bank]: the ITEM_INDEX register
  bank,        \* the bank being unmapped, or "none" between calls
  i,           \* the loop variable of unmap_all_bank
  selected,    \* the index of this iteration is written
  unmapped     \* history: hal_init has returned, and nothing was mapped since

vars == <<table, index, bank, i, selected, unmapped>>

HalInit == /\ bank = "none"
           /\ bank' = "flash"
           /\ i' = 0
           /\ selected' = FALSE
           /\ UNCHANGED <<table, index, unmapped>>

InLoopPastTheEnd == bank # "none" /\ i <= EntryNum
InLoop == bank # "none" /\ i < EntryNum

WriteIndex == /\ InLoop /\ ~selected
              /\ index' = [index EXCEPT ![bank] = i]
              /\ selected' = TRUE
              /\ UNCHANGED <<table, bank, i, unmapped>>

WriteContentFrom1 == /\ InLoop /\ selected
                     /\ table' = [table EXCEPT ![bank][index[bank]] =
                                    IF i = 0 THEN @ ELSE Invalid]
                     /\ i' = i + 1
                     /\ selected' = FALSE
                     /\ UNCHANGED <<index, bank, unmapped>>

WriteContent == /\ InLoop /\ selected
                /\ table' = [table EXCEPT ![bank][index[bank]] = Invalid]
                /\ i' = i + 1
                /\ selected' = FALSE
                /\ UNCHANGED <<index, bank, unmapped>>

EndBank == /\ bank # "none"
           /\ i = EntryNum
           /\ IF bank = "flash" THEN bank' = "psram" /\ unmapped' = unmapped
                                ELSE bank' = "none" /\ unmapped' = TRUE
           /\ i' = 0
           /\ UNCHANGED <<table, index, selected>>

\* The application, or the ROM after a reset, maps through the same pair.
Map == /\ bank = "none"
       /\ \E b \in Banks, e \in Entries, p \in Pages :
            /\ index' = [index EXCEPT ![b] = e]
            /\ table' = [table EXCEPT ![b][e] = p]
       /\ unmapped' = FALSE
       /\ UNCHANGED <<bank, i, selected>>

WarmReset == /\ bank' = "none"
             /\ unmapped' = FALSE
             /\ UNCHANGED <<table, index, i, selected>>

Init == /\ table \in [Banks -> [Entries -> Pages \cup {Invalid}]]
        /\ index \in [Banks -> Entries]
        /\ bank = "none"
        /\ i = 0
        /\ selected = FALSE
        /\ unmapped = FALSE

Next == HalInit \/ WriteIndex \/ WriteContent \/ EndBank \/ Map \/ WarmReset

Spec == Init /\ [][Next]_vars

-----------------------------------------------------------------------------
\* Every register and the loop variable stay within the table.
TypeOK == /\ table \in [Banks -> [Entries -> Pages \cup {Invalid}]]
          /\ index \in [Banks -> Entries]
          /\ bank \in Banks \cup {"none"}
          /\ i \in 0 .. EntryNum
          /\ selected \in BOOLEAN
          /\ unmapped \in BOOLEAN

\* "Resets the flash and PSRAM MMU tables to all-invalid": no entry of any
\* earlier owner survives a complete hal_init, whatever was mapped before
\* and wherever an earlier run was cut off.
AllInvalid == unmapped => \A b \in Banks, e \in Entries : table[b][e] = Invalid
=============================================================================
