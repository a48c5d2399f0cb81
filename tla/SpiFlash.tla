------------------------------ MODULE SpiFlash ------------------------------
(***************************************************************************)
(* Flash commands through the SPIMEM1 controller (src/src/flash.rs):       *)
(* bootloader_init_spi_flash with execute_flash_command spelled out, one   *)
(* register access a step, while the controller shifts a command out on    *)
(* its own.  A register is the set of its bits (or facts) that are 1.  The *)
(* CS timing, on the other controller, is in BootProgram.                  *)
(*                                                                         *)
(* The two callers pass lengths of 0, for which the data phases are        *)
(* switched off and their registers are not written.  The hart may be      *)
(* reset at any step; the controller and the chip keep their state, also   *)
(* half-way through a transaction.                                         *)
(*                                                                         *)
(* The operators named for a slip (PhasesKeepingAddress, ...) are used     *)
(* nowhere: each is the definition after it with a plausible bug, and      *)
(* shows that a property would notice.                                     *)
(***************************************************************************)
EXTENDS Naturals, Sequences, FiniteSets

CONSTANTS
  Found,         \* register files the ROM or an application leaves
  RomSets,       \* the registers that the ROM's attach and unlock set up
  MaxResets      \* bound on warm resets

Saved == {"ctrl", "user", "user1", "user2"}
Registers == Saved \cup {"addr", "mosi_dlen", "miso_dlen", "w0"}
Opcodes == {"0xAB", "0x04"}      \* CMD_RESUME, CMD_WRDI
Phases == {"usr_command", "usr_addr", "usr_dummy", "usr_mosi", "usr_miso"}

Bits(r) == CASE r = "ctrl"  -> {"wp", "other"}
             [] r = "user"  -> Phases \cup {"other"}
             [] r = "user2" -> Opcodes \cup {"bitlen_7", "other"}
             [] r \in {"mosi_dlen", "miso_dlen", "w0"} -> {"asked", "other"}
             [] r \in {"user1", "addr"} -> {"other"}

Files == {f \in [Registers -> SUBSET UNION {Bits(r) : r \in Registers}] :
            \A r \in Registers : f[r] \subseteq Bits(r)}

ASSUME FoundAssumption == Found # {} /\ Found \subseteq Files
ASSUME MaxResetsAssumption == MaxResets \in Nat

\* "main MSPI controller setup".  The ROM is not in the repository, and what
\* a cut-off call leaves in a saved register is put right by nothing else.
ASSUME RomSetsAssumption == Saved \subseteq RomSets /\ RomSets \subseteq Registers

-----------------------------------------------------------------------------
(* The program.                                                            *)

Op(do) == [do |-> do, reg |-> "ctrl", clear |-> {}, set |-> {}]
Modify(r, clear, set) == [do |-> "modify", reg |-> r, clear |-> clear, set |-> set]
Write(r, value) == Modify(r, Bits(r), value)
Restore(r) == [Op("restore") EXCEPT !.reg = r]

PhasesKeepingAddress(mosi_len, miso_len) ==
  Modify("user", Phases \ {"usr_addr"}, {"usr_command"})

\* The phases on the wire: the command, and data where there is any.
SetPhases(mosi_len, miso_len) ==
  Modify("user", Phases, {"usr_command"} \cup (IF mosi_len > 0 THEN {"usr_mosi"} ELSE {})
                                         \cup (IF miso_len > 0 THEN {"usr_miso"} ELSE {}))

CommandInWrongRegister(opcode) ==
  Modify("user", Opcodes \cup {"other"}, {"bitlen_7", opcode})

SetCommand(opcode) == Modify("user2", Opcodes \cup {"other"}, {"bitlen_7", opcode})

SetData(mosi_len, miso_len) ==
  (IF mosi_len > 0 THEN << Write("mosi_dlen", {"asked"}), Write("w0", {"asked"}) >> ELSE <<>>)
  \o (IF miso_len > 0 THEN << Write("miso_dlen", {"asked"}) >> ELSE <<>>)

Configure(opcode, mosi_len, miso_len) ==
  << Write("ctrl", {}), Modify("ctrl", {}, {"wp"}), SetPhases(mosi_len, miso_len),
     SetCommand(opcode), Write("user1", {}), Write("addr", {}) >>
  \o SetData(mosi_len, miso_len)

RestoreAll == << Restore("ctrl"), Restore("user"), Restore("user1"), Restore("user2") >>

ExecuteFlashCommand(opcode, mosi_len, miso_len) ==
  << Op("save") >> \o Configure(opcode, mosi_len, miso_len)
  \o << Op("start"), Op("wait") >> \o RestoreAll

BootloaderInitSpiFlashUnattached ==
  ExecuteFlashCommand("0xAB", 0, 0) \o << Op("unlock") >> \o ExecuteFlashCommand("0x04", 0, 0)

BootloaderInitSpiFlash ==
  << Op("attach") >> \o ExecuteFlashCommand("0xAB", 0, 0)
  \o << Op("unlock") >> \o ExecuteFlashCommand("0x04", 0, 0)

-----------------------------------------------------------------------------
VARIABLES
  running,       \* bootloader_init_spi_flash is being executed
  pc,            \* its next access
  old,           \* old_ctrl, old_user, old_user1, old_user2
  reg,           \* the controller's registers
  usr,           \* the USR bit of CMD: a transaction is on the wire
  chip,          \* the flash chip
  rom,           \* history: the registers as they were last set up, by the
                 \* ROM or by the application, and not by a command
  resets

vars == <<running, pc, old, reg, usr, chip, rom, resets>>

Chips == [asleep : BOOLEAN, wel : BOOLEAN, protected : BOOLEAN]

AtReturn == pc > Len(BootloaderInitSpiFlash)
Current == BootloaderInitSpiFlash[pc]
Does(do) == running /\ ~AtReturn /\ Current.do = do
Advance == pc' = pc + 1 /\ UNCHANGED <<running, resets>>

\* The restart of a hart takes milliseconds, a transaction microseconds.
Call == /\ ~running /\ ~usr
        /\ running' = TRUE
        /\ pc' = 1
        /\ UNCHANGED <<old, reg, usr, chip, rom, resets>>

\* The ROM sets the controller up, whatever it finds there.
RomSetsUp == \E found \in Found :
  LET Over(file) == [r \in Registers |-> IF r \in RomSets THEN found[r] ELSE file[r]]
  IN  reg' = Over(reg) /\ rom' = Over(rom)

Attach == /\ Does("attach")
          /\ RomSetsUp
          /\ Advance
          /\ UNCHANGED <<old, usr, chip>>

\* The ROM's own transactions reach the chip only when it is awake, and any
\* of them may fail; the result is discarded.
Unlock == /\ Does("unlock")
          /\ RomSetsUp
          /\ IF chip.asleep THEN UNCHANGED chip
             ELSE \E d \in Chips : /\ ~d.asleep
                                   /\ d.protected => chip.protected
                                   /\ chip' = d
          /\ Advance
          /\ UNCHANGED <<old, usr>>

Save == /\ Does("save")
        /\ old' = [r \in Saved |-> reg[r]]
        /\ Advance
        /\ UNCHANGED <<reg, usr, chip, rom>>

ModifyRegister == /\ Does("modify")
                  /\ reg' = [reg EXCEPT ![Current.reg] = (@ \ Current.clear) \cup Current.set]
                  /\ Advance
                  /\ UNCHANGED <<old, usr, chip, rom>>

RestoreRegister == /\ Does("restore")
                   /\ reg' = [reg EXCEPT ![Current.reg] = old[Current.reg]]
                   /\ Advance
                   /\ UNCHANGED <<old, usr, chip, rom>>

Start == /\ Does("start")
         /\ usr' = TRUE
         /\ Advance
         /\ UNCHANGED <<old, reg, chip, rom>>

\* while cmd.usr is set: only the poll that ends the loop is a step.
DoneWhileSet == usr
DoneAtOnce == TRUE
Done == ~usr

Wait == /\ Does("wait") /\ Done
        /\ Advance
        /\ UNCHANGED <<old, reg, usr, chip, rom>>

Return == /\ running /\ AtReturn
          /\ running' = FALSE
          /\ UNCHANGED <<pc, old, reg, usr, chip, rom, resets>>

-----------------------------------------------------------------------------
(* The hardware, the application, the reset.                               *)

\* A chip obeys a command of exactly its eight bits.
OnWire(opcode) == /\ reg["user"] \cap Phases = {"usr_command"}
                  /\ reg["user2"] = {"bitlen_7", opcode}

TransactionEnds ==
  /\ usr
  /\ usr' = FALSE
  /\ chip' = IF OnWire("0xAB") THEN [chip EXCEPT !.asleep = FALSE]
             ELSE IF OnWire("0x04") /\ ~chip.asleep THEN [chip EXCEPT !.wel = FALSE]
             ELSE chip
  /\ UNCHANGED <<running, pc, old, reg, rom, resets>>

Application == /\ ~running /\ AtReturn
               /\ reg' \in Found
               /\ rom' = reg'
               /\ chip' \in Chips
               /\ UNCHANGED <<running, pc, old, usr, resets>>

WarmReset == /\ resets < MaxResets
             /\ resets' = resets + 1
             /\ running' = FALSE
             /\ UNCHANGED <<pc, old, reg, usr, chip, rom>>

Init == /\ running = FALSE /\ pc = 1
        /\ reg \in Found
        /\ rom = reg
        /\ old = [r \in Saved |-> {}]
        /\ usr = FALSE
        /\ chip \in Chips
        /\ resets = 0

HartStep == Attach \/ Unlock \/ Save \/ ModifyRegister \/ RestoreRegister
            \/ Start \/ Wait \/ Return

Next == Call \/ HartStep \/ TransactionEnds \/ Application \/ WarmReset

Spec == Init /\ [][Next]_vars

\* The hart executes and the controller ends what it started.
FairSpec == Spec /\ WF_vars(HartStep) /\ WF_vars(TransactionEnds)

-----------------------------------------------------------------------------
(* Properties.                                                             *)

\* No access writes bits a register does not have, no step is skipped.
TypeOK == /\ running \in BOOLEAN
          /\ pc \in 1 .. Len(BootloaderInitSpiFlash) + 1
          /\ \A r \in Saved : old[r] \subseteq Bits(r)
          /\ reg \in Files /\ rom \in Files
          /\ usr \in BOOLEAN
          /\ chip \in Chips
          /\ resets \in 0 .. MaxResets

\* "Saves and restores USER/USER1/USER2/CTRL": outside its transactions the
\* controller is as it was set up, also when an earlier call was cut off in
\* a transaction and left its own values for this one to save and restore.
SetupRestored ==
  running /\ (AtReturn \/ Current.do = "unlock") => \A r \in Saved : reg[r] = rom[r]

\* The registers do not change under a transaction, and what it sends is
\* the bare eight-bit command, with the write-protect pin high.
SentAsAsked ==
  usr => /\ \E opcode \in Opcodes : OnWire(opcode)
         /\ reg["ctrl"] = {"wp"}
         /\ reg["addr"] = {}

\* How many of the chip's steps the first n accesses make.
IsChipStep(op) == op.do \in {"start", "unlock"}
ChipSteps(n) == Cardinality({m \in 1 .. n : IsChipStep(BootloaderInitSpiFlash[m])})

Flash == INSTANCE FlashChip
  WITH next <- 1 + ChipSteps(pc - 1) - (IF usr THEN 1 ELSE 0)

\* The accesses implement the three steps of FlashChip on the chip.
ImplementsFlashChip == Flash!Spec

\* The call returns, or the hart is reset.
InitEnds == running ~> ~running
=============================================================================
