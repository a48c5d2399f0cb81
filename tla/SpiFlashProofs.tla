---------------------------- MODULE SpiFlashProofs ----------------------------
(***************************************************************************)
(* Proofs about SpiFlash: for every set of register files the ROM or an    *)
(* application may leave and any number of warm resets, what is on the     *)
(* wire is the command asked for, and the controller is handed back as     *)
(* the ROM set it up.                                                      *)
(***************************************************************************)
EXTENDS SpiFlash, FiniteSetTheorems, TLAPS

-----------------------------------------------------------------------------
(* What the program does at each of its positions.                         *)

\* The accesses of bootloader_init_spi_flash, one by one.
LEMMA Accesses ==
  /\ Len(BootloaderInitSpiFlash) = 28
  /\ BootloaderInitSpiFlash[1] = Op("attach")
  /\ BootloaderInitSpiFlash[2] = Op("save")
  /\ BootloaderInitSpiFlash[3] = Write("ctrl", {})
  /\ BootloaderInitSpiFlash[4] = Modify("ctrl", {}, {"wp"})
  /\ BootloaderInitSpiFlash[5] = SetPhases(0, 0)
  /\ BootloaderInitSpiFlash[6] = SetCommand("0xAB")
  /\ BootloaderInitSpiFlash[7] = Write("user1", {})
  /\ BootloaderInitSpiFlash[8] = Write("addr", {})
  /\ BootloaderInitSpiFlash[9] = Op("start")
  /\ BootloaderInitSpiFlash[10] = Op("wait")
  /\ BootloaderInitSpiFlash[11] = Restore("ctrl")
  /\ BootloaderInitSpiFlash[12] = Restore("user")
  /\ BootloaderInitSpiFlash[13] = Restore("user1")
  /\ BootloaderInitSpiFlash[14] = Restore("user2")
  /\ BootloaderInitSpiFlash[15] = Op("unlock")
  /\ BootloaderInitSpiFlash[16] = Op("save")
  /\ BootloaderInitSpiFlash[17] = Write("ctrl", {})
  /\ BootloaderInitSpiFlash[18] = Modify("ctrl", {}, {"wp"})
  /\ BootloaderInitSpiFlash[19] = SetPhases(0, 0)
  /\ BootloaderInitSpiFlash[20] = SetCommand("0x04")
  /\ BootloaderInitSpiFlash[21] = Write("user1", {})
  /\ BootloaderInitSpiFlash[22] = Write("addr", {})
  /\ BootloaderInitSpiFlash[23] = Op("start")
  /\ BootloaderInitSpiFlash[24] = Op("wait")
  /\ BootloaderInitSpiFlash[25] = Restore("ctrl")
  /\ BootloaderInitSpiFlash[26] = Restore("user")
  /\ BootloaderInitSpiFlash[27] = Restore("user1")
  /\ BootloaderInitSpiFlash[28] = Restore("user2")
BY DEF BootloaderInitSpiFlash, ExecuteFlashCommand, Configure, SetData, RestoreAll

\* Where each kind of access stands.
LEMMA Positions ==
  ASSUME running, pc \in 1 .. 29
  PROVE  /\ AtReturn <=> pc = 29
         /\ Does("attach") => pc = 1
         /\ Does("unlock") => pc = 15
         /\ pc # 29 /\ Current.do = "unlock" => pc = 15
         /\ Does("save") => pc \in {2, 16}
         /\ Does("start") => pc \in {9, 23}
         /\ Does("wait") => pc \in {10, 24}
         /\ Does("modify") => pc \in 3 .. 8 \cup 17 .. 22
         /\ Does("restore") => pc \in 11 .. 14 \cup 25 .. 28
<1> DEFINE n == Len(BootloaderInitSpiFlash)
<1>1. n = 28
  BY Accesses
<1>2. /\ AtReturn <=> pc > n
      /\ \A do : Does(do) <=> pc <= n /\ Current.do = do
  BY DEF AtReturn, Does
<1> HIDE DEF n
<1> USE DEF Current, Op, Modify, Write, Restore, SetPhases, SetCommand
<1>3. CASE pc \in 1 .. 2
  BY <1>1, <1>2, <1>3, Accesses
<1>4. CASE pc \in 3 .. 5
  BY <1>1, <1>2, <1>4, Accesses
<1>5. CASE pc \in 6 .. 8
  BY <1>1, <1>2, <1>5, Accesses
<1>6. CASE pc \in 9 .. 11
  BY <1>1, <1>2, <1>6, Accesses
<1>7. CASE pc \in 12 .. 14
  BY <1>1, <1>2, <1>7, Accesses
<1>8. CASE pc \in 15 .. 16
  BY <1>1, <1>2, <1>8, Accesses
<1>9. CASE pc \in 17 .. 19
  BY <1>1, <1>2, <1>9, Accesses
<1>10. CASE pc \in 20 .. 22
  BY <1>1, <1>2, <1>10, Accesses
<1>11. CASE pc \in 23 .. 25
  BY <1>1, <1>2, <1>11, Accesses
<1>12. CASE pc \in 26 .. 28
  BY <1>1, <1>2, <1>12, Accesses
<1>13. CASE pc = 29
  BY <1>1, <1>2, <1>13
<1> QED BY <1>3, <1>4, <1>5, <1>6, <1>7, <1>8, <1>9, <1>10, <1>11, <1>12, <1>13

\* The place of the current access in the command it belongs to: 2 saves, 3 to 8
\* set up, 9 starts, 10 waits, 11 to 14 restore; 15 is behind the command.
step == IF pc <= 15 THEN pc ELSE pc - 14

\* What the accesses that write registers write, and where.
LEMMA RegisterWrites ==
  ASSUME running, pc \in 1 .. 29
  PROVE  /\ Does("modify") => Current.reg \in Registers /\ Current.set \subseteq Bits(Current.reg)
         /\ Does("modify") =>
              \/ step = 3 /\ Current.reg = "ctrl" /\ Current.clear = Bits("ctrl") /\ Current.set = {}
              \/ step = 4 /\ Current.reg = "ctrl" /\ Current.clear = {} /\ Current.set = {"wp"}
              \/ step = 5 /\ Current.reg = "user" /\ Current.clear = Phases
                          /\ Current.set = {"usr_command"}
              \/ step = 6 /\ Current.reg = "user2" /\ Current.clear = Opcodes \cup {"other"}
                          /\ \E opcode \in Opcodes : Current.set = {"bitlen_7", opcode}
              \/ step = 7 /\ Current.reg = "user1"
              \/ step = 8 /\ Current.reg = "addr" /\ Current.clear = Bits("addr")
                          /\ Current.set = {}
         /\ Does("restore") =>
              \/ step = 11 /\ Current.reg = "ctrl"
              \/ step = 12 /\ Current.reg = "user"
              \/ step = 13 /\ Current.reg = "user1"
              \/ step = 14 /\ Current.reg = "user2"
<1> USE DEF Modify, Write, Restore, SetPhases, SetCommand
<1>1. CASE pc \in {3, 17}
  BY <1>1, Accesses, Positions DEF Current, Registers, Saved, Bits, Phases, Opcodes, step, Op
<1>2. CASE pc \in {4, 18}
  BY <1>2, Accesses, Positions DEF Current, Registers, Saved, Bits, Phases, Opcodes, step, Op
<1>3. CASE pc \in {5, 19}
  BY <1>3, Accesses, Positions DEF Current, Registers, Saved, Bits, Phases, Opcodes, step, Op
<1>4. CASE pc \in {6, 20}
  BY <1>4, Accesses, Positions DEF Current, Registers, Saved, Bits, Phases, Opcodes, step, Op
<1>5. CASE pc \in {7, 21}
  BY <1>5, Accesses, Positions DEF Current, Registers, Saved, Bits, Phases, Opcodes, step, Op
<1>6. CASE pc \in {8, 22}
  BY <1>6, Accesses, Positions DEF Current, Registers, Saved, Bits, Phases, Opcodes, step, Op
<1>7. CASE pc \in 11 .. 14 \cup 25 .. 28
  BY <1>7, Accesses, Positions DEF Current, Op, step
<1>8. CASE pc \in 1 .. 2 \cup 9 .. 10 \cup 15 .. 16 \cup 23 .. 24 \cup {29}
  BY <1>8, Positions
<1> QED BY <1>1, <1>2, <1>3, <1>4, <1>5, <1>6, <1>7, <1>8

\* What is known of the registers of a file.
LEMMA FileBits ==
  ASSUME NEW f \in Files
  PROVE  /\ \A r \in Registers : f[r] \subseteq Bits(r)
         /\ f = [r \in Registers |-> f[r]]
BY DEF Files

\* The bits of the two registers with an owned field.
LEMMA BitsOf ==
  /\ Bits("ctrl") = {"wp", "other"}
  /\ Bits("user2") = Opcodes \cup {"bitlen_7", "other"}
  /\ Bits("addr") = {"other"}
BY DEF Bits, Opcodes

\* A file with one register changed within its bits is a file.
LEMMA FileUpdate ==
  ASSUME NEW f \in Files, NEW r \in Registers, NEW value \in SUBSET Bits(r)
  PROVE  [f EXCEPT ![r] = value] \in Files
BY DEF Files

-----------------------------------------------------------------------------
(* The inductive invariant.                                                *)

\* The type invariant, with the length of the program in figures.
Others == /\ running \in BOOLEAN
          /\ \A r \in Saved : old[r] \subseteq Bits(r)
          /\ reg \in Files /\ rom \in Files
          /\ usr \in BOOLEAN
          /\ chip \in Chips
Counts == /\ pc \in 1 .. 29
          /\ resets \in 0 .. MaxResets

OnlyWaiting == usr => step = 10

\* Before and behind a command the registers are the ROM's.
Untouched == running /\ step \in {2, 15} => \A r \in Saved : reg[r] = rom[r]

\* In between, the locals hold what the ROM had set up.
Kept == running /\ step \in 3 .. 14 => \A r \in Saved : old[r] = rom[r]

\* The command as far as it is assembled.
Assembled ==
  running => /\ step = 4 => reg["ctrl"] = {}
             /\ step \in 5 .. 10 => reg["ctrl"] = {"wp"}
             /\ step \in 6 .. 10 => reg["user"] \cap Phases = {"usr_command"}
             /\ step \in 7 .. 10 => \E opcode \in Opcodes : reg["user2"] = {"bitlen_7", opcode}
             /\ step \in 9 .. 10 => reg["addr"] = {}

\* The registers as far as they are restored.
Restored ==
  running => /\ step \in 12 .. 14 => reg["ctrl"] = rom["ctrl"]
             /\ step \in 13 .. 14 => reg["user"] = rom["user"]
             /\ step = 14 => reg["user1"] = rom["user1"]

IInv == /\ Others /\ Counts /\ OnlyWaiting /\ Untouched /\ Kept
        /\ Assembled /\ Restored /\ SentAsAsked

\* It is the type invariant.
LEMMA TypedIsTypeOK == Others /\ Counts => TypeOK
<1> DEFINE n == Len(BootloaderInitSpiFlash)
<1>1. n = 28
  BY Accesses
<1>2. Others /\ Counts /\ pc \in 1 .. n + 1 => TypeOK
  BY DEF TypeOK, Others, Counts
<1> HIDE DEF n
<1> QED BY <1>1, <1>2 DEF Counts

-----------------------------------------------------------------------------
(* The initial states, and the steps.                                      *)

\* The invariant holds initially.
LEMMA InitIInv == Init => IInv
<1> SUFFICES ASSUME Init PROVE IInv  OBVIOUS
<1>1. Others
  BY FoundAssumption DEF Init, Others
<1> QED BY <1>1, MaxResetsAssumption
        DEF Init, IInv, Counts, OnlyWaiting, Untouched, Kept, Assembled, Restored, SentAsAsked

\* A call starts on an idle controller.
LEMMA CallIInv == ASSUME IInv, Call PROVE IInv'
<1> USE DEF IInv, Call
<1>1. (/\ Others /\ Counts /\ OnlyWaiting /\ Untouched
      /\ Kept /\ Assembled /\ Restored /\ SentAsAsked)'
  BY DEF Others, Counts, OnlyWaiting, Untouched, step, Kept, Assembled, Restored, SentAsAsked
<1> QED BY <1>1

\* A call that is finished leaves the registers as they are.
LEMMA ReturnIInv == ASSUME IInv, Return PROVE IInv'
<1> USE DEF IInv, Return
<1>1. (/\ Others /\ Counts /\ OnlyWaiting /\ Untouched
      /\ Kept /\ Assembled /\ Restored /\ SentAsAsked)'
  BY DEF Others, Counts, OnlyWaiting, step, Untouched, Kept, Assembled, Restored, SentAsAsked,
         OnWire
<1> QED BY <1>1

\* What the ROM sets up are two files that agree on the registers saved later.
LEMMA RomSetsUpFiles ==
  ASSUME reg \in Files, rom \in Files, RomSetsUp
  PROVE  reg' \in Files /\ rom' \in Files /\ \A r \in Saved : reg'[r] = rom'[r]
<1> DEFINE Over(f, file) == [r \in Registers |-> IF r \in RomSets THEN f[r] ELSE file[r]]
<1>1. PICK f \in Found : reg' = Over(f, reg) /\ rom' = Over(f, rom)
  BY DEF RomSetsUp
<1>2. f \in Files
  BY FoundAssumption
<1>3. ASSUME NEW g \in Files PROVE Over(f, g) \in Files
  BY <1>2 DEF Files
<1>4. Saved \subseteq RomSets /\ Saved \subseteq Registers
  BY RomSetsAssumption DEF Registers
<1> QED BY <1>1, <1>3, <1>4

\* The ROM sets the controller up before the first command.
LEMMA AttachIInv == ASSUME IInv, Attach PROVE IInv'
<1> USE DEF IInv, Attach, Advance
<1>1. pc \in 1 .. 29 /\ running
  BY DEF Counts, Does
<1>2. pc = 1
  BY <1>1, Positions
<1>3. ~usr
  BY <1>2 DEF OnlyWaiting, step
<1>4. Untouched'
  BY RomSetsUpFiles DEF Others, Untouched
<1>5. (Counts /\ Kept /\ Assembled /\ Restored)'
  BY <1>2 DEF Counts, Kept, step, Assembled, Restored
<1>6. (OnlyWaiting /\ SentAsAsked)'
  BY <1>3 DEF OnlyWaiting, SentAsAsked
<1>7. Others'
  BY RomSetsUpFiles DEF Others, Chips
<1> QED BY <1>4, <1>5, <1>6, <1>7

\* The ROM sets it up again between the two commands.
LEMMA UnlockIInv == ASSUME IInv, Unlock PROVE IInv'
<1> USE DEF IInv, Unlock, Advance
<1>1. pc \in 1 .. 29 /\ running
  BY DEF Counts, Does
<1>2. pc = 15
  BY <1>1, Positions
<1>3. ~usr
  BY <1>2 DEF OnlyWaiting, step
<1>4. Untouched'
  BY RomSetsUpFiles DEF Others, Untouched
<1>5. (Counts /\ Kept /\ Assembled /\ Restored)'
  BY <1>2 DEF Counts, Kept, step, Assembled, Restored
<1>6. (OnlyWaiting /\ SentAsAsked)'
  BY <1>3 DEF OnlyWaiting, SentAsAsked
<1>7. Others'
  BY RomSetsUpFiles DEF Others, Chips
<1> QED BY <1>4, <1>5, <1>6, <1>7

\* The save takes the ROM's registers.
LEMMA SaveIInv == ASSUME IInv, Save PROVE IInv'
<1> USE DEF IInv, Save, Advance
<1>1. pc \in 1 .. 29 /\ running
  BY DEF Counts, Does
<1>2. pc \in {2, 16}
  BY <1>1, Positions
<1>3. ~usr
  BY <1>2 DEF OnlyWaiting, step
<1>4. SentAsAsked'
  BY DEF SentAsAsked, OnWire
<1>5. (Counts /\ Untouched /\ Kept /\ Assembled /\ Restored)'
  BY <1>2 DEF Counts, Untouched, step, Kept, Assembled, Restored
<1>6. OnlyWaiting'
  BY <1>3 DEF OnlyWaiting
<1>7. Others'
  BY FileBits DEF Others, Registers
<1> QED BY <1>4, <1>5, <1>6, <1>7

\* The set-up assembles the command, register by register.
LEMMA ModifyRegisterIInv == ASSUME IInv, ModifyRegister PROVE IInv'
<1> USE DEF IInv, ModifyRegister, Advance
<1>1. pc \in 1 .. 29 /\ running
  BY DEF Counts, Does
<1>2. pc \in 3 .. 8 \cup 17 .. 22
  BY <1>1, Positions
<1>3. ~usr
  BY <1>2 DEF OnlyWaiting, step
<1>4. /\ Current.reg \in Registers /\ Current.set \subseteq Bits(Current.reg)
      /\ \/ step = 3 /\ Current.reg = "ctrl" /\ Current.clear = Bits("ctrl") /\ Current.set = {}
         \/ step = 4 /\ Current.reg = "ctrl" /\ Current.clear = {} /\ Current.set = {"wp"}
         \/ step = 5 /\ Current.reg = "user" /\ Current.clear = Phases
                     /\ Current.set = {"usr_command"}
         \/ step = 6 /\ Current.reg = "user2" /\ Current.clear = Opcodes \cup {"other"}
                     /\ \E opcode \in Opcodes : Current.set = {"bitlen_7", opcode}
         \/ step = 7 /\ Current.reg = "user1"
         \/ step = 8 /\ Current.reg = "addr" /\ Current.clear = Bits("addr") /\ Current.set = {}
  BY <1>1, RegisterWrites
<1>5. reg' = [reg EXCEPT ![Current.reg] = (@ \ Current.clear) \cup Current.set]
  OBVIOUS
<1>6. \A r \in Registers :
        reg'[r] = IF r = Current.reg THEN (reg[r] \ Current.clear) \cup Current.set ELSE reg[r]
  BY <1>4, <1>5, FileBits DEF Others
<1>7. step' = step + 1
  BY <1>2 DEF step
<1>8. Others'
  BY <1>4, FileUpdate, FileBits DEF Others
<1>9. Counts'
  BY <1>2 DEF Counts
<1>10. OnlyWaiting'
  BY <1>3 DEF OnlyWaiting
<1>11. Untouched'
  BY <1>4 DEF Untouched, step
<1>12. Kept'
  BY <1>4 DEF Kept
<1>13. Assembled'
  <2> USE DEF Assembled
  <2>1. CASE step = 3
    <3>1. reg["ctrl"] \subseteq Bits("ctrl") /\ "ctrl" \in Registers
      BY FileBits DEF Others, Registers, Saved
    <3> QED BY <1>4, <1>6, <1>7, <2>1, <3>1
  <2>2. CASE step = 4
    BY <1>4, <1>6, <1>7, <2>2 DEF Registers, Saved
  <2>3. CASE step = 5
    BY <1>4, <1>6, <1>7, <2>3 DEF Registers, Saved, Phases
  <2>4. CASE step = 6
    <3>1. reg["user2"] \subseteq Bits("user2") /\ "user2" \in Registers
      BY FileBits DEF Others, Registers, Saved
    <3>2. PICK opcode \in Opcodes : Current.set = {"bitlen_7", opcode}
      BY <1>4, <2>4
    <3>3. reg'["user2"] = {"bitlen_7", opcode}
      BY <1>4, <1>6, <2>4, <3>1, <3>2, BitsOf DEF Opcodes
    <3> QED BY <1>4, <1>6, <1>7, <2>4, <3>3 DEF Registers, Saved
  <2>5. CASE step = 7
    BY <1>4, <1>6, <1>7, <2>5 DEF Registers, Saved
  <2>6. CASE step = 8
    <3>1. reg["addr"] \subseteq Bits("addr") /\ "addr" \in Registers
      BY FileBits DEF Others, Registers
    <3> QED BY <1>4, <1>6, <1>7, <2>6, <3>1 DEF Registers, Saved
  <2> QED BY <1>4, <2>1, <2>2, <2>3, <2>4, <2>5, <2>6
<1>14. Restored'
  BY <1>4 DEF Restored, step
<1>15. SentAsAsked'
  BY <1>3 DEF SentAsAsked
<1> QED BY <1>8, <1>9, <1>10, <1>11, <1>12, <1>13, <1>14, <1>15

\* The restores put the saved registers back, one by one.
LEMMA RestoreRegisterIInv == ASSUME IInv, RestoreRegister PROVE IInv'
<1> USE DEF IInv, RestoreRegister, Advance
<1>1. pc \in 1 .. 29 /\ running
  BY DEF Counts, Does
<1>2. pc \in 11 .. 14 \cup 25 .. 28
  BY <1>1, Positions
<1>3. ~usr
  BY <1>2 DEF OnlyWaiting, step
<1>4. \/ step = 11 /\ Current.reg = "ctrl"
      \/ step = 12 /\ Current.reg = "user"
      \/ step = 13 /\ Current.reg = "user1"
      \/ step = 14 /\ Current.reg = "user2"
  BY <1>1, RegisterWrites
<1>5. /\ \A r \in Registers : reg'[r] = IF r = Current.reg THEN old[r] ELSE reg[r]
      /\ step' = step + 1
  BY <1>2, <1>4, FileBits DEF Others, step, Registers, Saved
<1>6. Saved = {"ctrl", "user", "user1", "user2"} /\ Saved \subseteq Registers
  BY DEF Saved, Registers
<1>7. (Untouched /\ Restored)'
  BY <1>4, <1>5, <1>6 DEF Untouched, Kept, Restored
<1>8. Others'
  BY <1>4, <1>6, FileUpdate DEF Others
<1>9. (Counts /\ Assembled)'
  BY <1>2 DEF Counts, Assembled, step
<1>10. SentAsAsked'
  BY <1>3 DEF SentAsAsked
<1>11. (OnlyWaiting /\ Kept)'
  BY <1>4 DEF OnlyWaiting, Kept
<1> QED BY <1>7, <1>8, <1>9, <1>10, <1>11

\* What is started is the assembled command.
LEMMA StartIInv == ASSUME IInv, Start PROVE IInv'
<1> USE DEF IInv, Start, Advance
<1>1. pc \in 1 .. 29 /\ running
  BY DEF Counts, Does
<1>2. pc \in {9, 23}
  BY <1>1, Positions
<1>3. Others'
  BY DEF Others
<1>4. SentAsAsked'
  BY <1>1, <1>2 DEF SentAsAsked, OnWire, Assembled, step
<1>5. (Counts /\ OnlyWaiting /\ Untouched /\ Kept /\ Assembled /\ Restored)'
  BY <1>2 DEF Counts, OnlyWaiting, step, Untouched, Kept, Assembled, Restored
<1> QED BY <1>3, <1>4, <1>5

\* The wait ends when nothing is on the wire.
LEMMA WaitIInv == ASSUME IInv, Wait PROVE IInv'
<1> USE DEF IInv, Wait, Done, Advance
<1>1. pc \in 1 .. 29 /\ running
  BY DEF Counts, Does
<1>2. pc \in {10, 24}
  BY <1>1, Positions
<1>3. (Others /\ OnlyWaiting /\ SentAsAsked)'
  BY DEF Others, OnlyWaiting, SentAsAsked
<1>4. (Counts /\ Untouched /\ Kept /\ Assembled /\ Restored)'
  BY <1>2 DEF Counts, Untouched, step, Kept, Assembled, Restored
<1> QED BY <1>3, <1>4

\* The chip's side of a transaction leaves the controller's registers alone.
LEMMA TransactionEndsIInv == ASSUME IInv, TransactionEnds PROVE IInv'
<1> USE DEF IInv, TransactionEnds
<1>1. (Counts /\ OnlyWaiting /\ Untouched /\ Kept)'
  BY DEF Counts, OnlyWaiting, Untouched, Kept, step
<1>2. (Assembled /\ Restored /\ SentAsAsked)'
  BY DEF Assembled, Restored, SentAsAsked, step
<1>3. Others'
  BY DEF Others, Chips
<1> QED BY <1>1, <1>2, <1>3

\* The application has the controller when no call is in progress.
LEMMA ApplicationIInv == ASSUME IInv, Application PROVE IInv'
<1> USE DEF IInv, Application
<1>1. pc = 29
  <2> DEFINE n == Len(BootloaderInitSpiFlash)
  <2>1. n = 28 /\ pc > n
    BY Accesses DEF AtReturn
  <2> HIDE DEF n
  <2> QED BY <2>1 DEF Counts
<1>2. ~usr
  BY <1>1 DEF OnlyWaiting, step
<1>3. (Counts /\ OnlyWaiting /\ Untouched /\ Kept /\ Assembled /\ Restored)'
  BY DEF Counts, OnlyWaiting, step, Untouched, Kept, Assembled, Restored
<1>4. SentAsAsked'
  BY <1>2 DEF SentAsAsked
<1>5. Others'
  BY FoundAssumption DEF Others
<1> QED BY <1>3, <1>4, <1>5

\* A reset leaves the transaction that it cut off on the wire.
LEMMA WarmResetIInv == ASSUME IInv, WarmReset PROVE IInv'
<1> USE DEF IInv, WarmReset
<1>1. (Others /\ OnlyWaiting /\ Untouched /\ Kept /\ Assembled /\ Restored /\ SentAsAsked)'
  BY DEF Others, OnlyWaiting, step, Untouched, Kept, Assembled, Restored, SentAsAsked, OnWire
<1>2. Counts'
  BY MaxResetsAssumption DEF Counts
<1> QED BY <1>1, <1>2

-----------------------------------------------------------------------------
(* The theorems.                                                           *)

\* Every step of the hart, the controller, the chip and the application keeps
\* the invariant.
LEMMA StepIInv == IInv /\ [Next]_vars => IInv'
<1> SUFFICES ASSUME IInv, [Next]_vars PROVE IInv'  OBVIOUS
<1>1. CASE Call               BY <1>1, CallIInv
<1>2. CASE Attach             BY <1>2, AttachIInv
<1>3. CASE Unlock             BY <1>3, UnlockIInv
<1>4. CASE Save               BY <1>4, SaveIInv
<1>5. CASE ModifyRegister     BY <1>5, ModifyRegisterIInv
<1>6. CASE RestoreRegister    BY <1>6, RestoreRegisterIInv
<1>7. CASE Start              BY <1>7, StartIInv
<1>8. CASE Wait               BY <1>8, WaitIInv
<1>9. CASE Return             BY <1>9, ReturnIInv
<1>10. CASE TransactionEnds   BY <1>10, TransactionEndsIInv
<1>11. CASE Application       BY <1>11, ApplicationIInv
<1>12. CASE WarmReset         BY <1>12, WarmResetIInv
<1>13. CASE UNCHANGED vars
  BY <1>13 DEF IInv, vars, Others, Counts, OnlyWaiting, Untouched, Kept, Assembled, Restored,
               SentAsAsked, OnWire, step
<1> QED BY <1>1, <1>2, <1>3, <1>4, <1>5, <1>6, <1>7, <1>8, <1>9, <1>10, <1>11, <1>12, <1>13
        DEF Next, HartStep

\* The invariant holds throughout.
LEMMA Invariance == Spec => []IInv
<1>1. Init => IInv
  BY InitIInv
<1>2. IInv /\ [Next]_vars => IInv'
  BY StepIInv
<1> QED BY <1>1, <1>2, PTL DEF Spec

\* The variables keep their types: execute_flash_command writes no bit that a
\* register does not have, whatever it finds in it.
THEOREM TypeCorrect == Spec => []TypeOK
<1>1. IInv => TypeOK
  BY TypedIsTypeOK DEF IInv
<1> QED BY <1>1, Invariance, PTL

\* execute_flash_command hands USER, USER1, USER2 and CTRL back as the ROM set
\* them up in this call, from any registers found and after any cut-off call.
THEOREM SetupComesBack == Spec => []SetupRestored
<1>1. IInv => SetupRestored
  <2> SUFFICES ASSUME IInv, running, AtReturn \/ Current.do = "unlock"
               PROVE  \A r \in Saved : reg[r] = rom[r]
    BY DEF SetupRestored
  <2>1. pc \in 1 .. 29
    BY DEF IInv, Counts
  <2>2. pc = 15 \/ pc = 29
    BY <2>1, Positions
  <2> QED BY <2>2 DEF IInv, Untouched, step
<1> QED BY <1>1, Invariance, PTL

\* While execute_flash_command's transaction is on the wire, the registers hold
\* the bare command asked for, also when the call that started it was cut off.
THEOREM CommandOnTheWire == Spec => []SentAsAsked
<1>1. IInv => SentAsAsked
  BY DEF IInv
<1> QED BY <1>1, Invariance, PTL

-----------------------------------------------------------------------------
(* The accesses implement the three steps of FlashChip.                    *)

\* The chip's steps are the accesses 9, 15 and 23.
LEMMA ChipStepsAre ==
  ASSUME NEW n \in 0 .. 28
  PROVE  ChipSteps(n) = IF n < 9 THEN 0 ELSE IF n < 15 THEN 1 ELSE IF n < 23 THEN 2 ELSE 3
<1> DEFINE steps == {m \in 1 .. n : IsChipStep(BootloaderInitSpiFlash[m])}
<1>1. \A m \in 1 .. 28 : IsChipStep(BootloaderInitSpiFlash[m]) <=> m \in {9, 15, 23}
  <2> SUFFICES ASSUME NEW m \in 1 .. 28
               PROVE  IsChipStep(BootloaderInitSpiFlash[m]) <=> m \in {9, 15, 23}
    OBVIOUS
  <2> USE DEF IsChipStep, Op, Modify, Write, Restore, SetPhases, SetCommand
  <2>1. CASE m \in 1 .. 8
    BY <2>1, Accesses
  <2>2. CASE m \in 9 .. 14
    BY <2>2, Accesses
  <2>3. CASE m \in 15 .. 22
    BY <2>3, Accesses
  <2>4. CASE m \in 23 .. 28
    BY <2>4, Accesses
  <2> QED BY <2>1, <2>2, <2>3, <2>4
<1>2. steps = {m \in {9, 15, 23} : m <= n}
  BY <1>1
<1>3. /\ IsFiniteSet({}) /\ Cardinality({}) = 0
      /\ IsFiniteSet({9}) /\ Cardinality({9}) = 1
  BY FS_EmptySet, FS_Singleton
<1>4. IsFiniteSet({9, 15}) /\ Cardinality({9, 15}) = 2
  <2>1. {9, 15} = {9} \cup {15}
    OBVIOUS
  <2> QED BY <1>3, <2>1, FS_AddElement
<1>5. Cardinality({9, 15, 23}) = 3
  <2>1. {9, 15, 23} = {9, 15} \cup {23}
    OBVIOUS
  <2> QED BY <1>4, <2>1, FS_AddElement
<1>6. ChipSteps(n) = Cardinality(steps)
  BY DEF ChipSteps
<1> HIDE DEF steps
<1>7. CASE n < 9
  <2>1. steps = {}  BY <1>2, <1>7
  <2> QED BY <1>3, <1>6, <1>7, <2>1
<1>8. CASE 9 <= n /\ n < 15
  <2>1. steps = {9}  BY <1>2, <1>8
  <2> QED BY <1>3, <1>6, <1>8, <2>1
<1>9. CASE 15 <= n /\ n < 23
  <2>1. steps = {9, 15}  BY <1>2, <1>9
  <2> QED BY <1>4, <1>6, <1>9, <2>1
<1>10. CASE 23 <= n
  <2>1. steps = {9, 15, 23}  BY <1>2, <1>10
  <2> QED BY <1>5, <1>6, <1>10, <2>1
<1> QED BY <1>7, <1>8, <1>9, <1>10

\* The step of FlashChip that comes next, in figures.
NextStep == 1 + ChipSteps(pc - 1) - (IF usr THEN 1 ELSE 0)
LEMMA NextStepIs ==
  ASSUME NEW k \in 1 .. 29, NEW u \in BOOLEAN
  PROVE  1 + ChipSteps(k - 1) - (IF u THEN 1 ELSE 0) =
           (IF k < 10 THEN 1 ELSE IF k < 16 THEN 2 ELSE IF k < 24 THEN 3 ELSE 4)
           - (IF u THEN 1 ELSE 0)
<1>1. k - 1 \in 0 .. 28
  OBVIOUS
<1> QED BY <1>1, ChipStepsAre

\* Which command the set-up assembles, and which one is on the wire.
Named == running => /\ pc \in 7 .. 10 => reg["user2"] = {"bitlen_7", "0xAB"}
                    /\ pc \in 21 .. 24 => reg["user2"] = {"bitlen_7", "0x04"}
OnItsWay == usr => /\ pc \in {10, 24}
                   /\ pc = 10 => OnWire("0xAB")
                   /\ pc = 24 => OnWire("0x04")

\* From the first command on the chip is awake, until the application has it.
Awake == pc \in 11 .. 28 \/ (pc = 10 /\ ~usr) => ~chip.asleep

CInv == Named /\ OnItsWay /\ Awake

\* Setting the command up names the opcode of this position.
LEMMA ModifyNames ==
  ASSUME IInv, CInv, ModifyRegister PROVE CInv'
<1> USE DEF IInv, CInv, ModifyRegister, Advance
<1>1. pc \in 1 .. 29 /\ running
  BY DEF Counts, Does
<1>2. pc \in 3 .. 8 \cup 17 .. 22
  BY <1>1, Positions
<1>3. ~usr
  BY <1>2 DEF OnlyWaiting, step
<1>4. Current.reg \in Registers /\ reg \in Files
  BY <1>1, RegisterWrites DEF Others
<1>5. \A r \in Registers :
        reg'[r] = IF r = Current.reg THEN (reg[r] \ Current.clear) \cup Current.set ELSE reg[r]
  BY <1>4, FileBits
<1>6. reg["user2"] \subseteq Bits("user2") /\ "user2" \in Registers
  BY <1>4, FileBits DEF Registers, Saved
<1>7. ASSUME pc = 6 PROVE reg'["user2"] = {"bitlen_7", "0xAB"}
  <2>1. /\ Current.reg = "user2" /\ Current.clear = Opcodes \cup {"other"}
        /\ Current.set = {"bitlen_7", "0xAB"}
    BY <1>7, Accesses DEF Current, SetCommand, Modify
  <2> QED BY <1>5, <1>6, <2>1, BitsOf DEF Opcodes
<1>8. ASSUME pc = 20 PROVE reg'["user2"] = {"bitlen_7", "0x04"}
  <2>1. /\ Current.reg = "user2" /\ Current.clear = Opcodes \cup {"other"}
        /\ Current.set = {"bitlen_7", "0x04"}
    BY <1>8, Accesses DEF Current, SetCommand, Modify
  <2> QED BY <1>5, <1>6, <2>1, BitsOf DEF Opcodes
<1>9. pc \in {7, 8, 21, 22} => Current.reg # "user2"
  BY <1>1, RegisterWrites DEF step
<1>10. Named'
  <2>1. CASE pc \in {6, 20}
    BY <1>7, <1>8, <2>1 DEF Named
  <2>2. CASE pc \in {7, 8, 21, 22}
    BY <1>5, <1>6, <1>9, <2>2 DEF Named
  <2>3. CASE pc \notin {6, 7, 8, 20, 21, 22}
    BY <1>2, <2>3 DEF Named
  <2> QED BY <2>1, <2>2, <2>3
<1>11. OnItsWay' /\ Awake'
  BY <1>2, <1>3 DEF OnItsWay, Awake
<1> QED BY <1>10, <1>11

\* The other steps of the hart set no command up; a start sends it.
LEMMA StartNames ==
  ASSUME IInv, CInv, Start PROVE CInv'
<1> USE DEF IInv, CInv, Start, Advance
<1>1. pc \in 1 .. 29 /\ running
  BY DEF Counts, Does
<1>2. pc \in {9, 23}
  BY <1>1, Positions
<1>3. OnItsWay'
  BY <1>1, <1>2 DEF OnItsWay, Named, OnWire, Assembled, step
<1>4. Named' /\ Awake'
  BY <1>1, <1>2 DEF Named, Awake
<1> QED BY <1>3, <1>4

\* The chip's steps: it wakes up, stays awake, and obeys what is on the wire.
LEMMA ChipNames ==
  ASSUME IInv, CInv, TransactionEnds
  PROVE  /\ CInv'
         /\ pc = 10 => chip' = [chip EXCEPT !.asleep = FALSE]
         /\ pc = 24 => chip' = [chip EXCEPT !.wel = FALSE]
         /\ pc \in {10, 24}
<1> USE DEF IInv, CInv, TransactionEnds
<1>1. pc \in {10, 24} /\ chip \in Chips
  BY DEF OnItsWay, Others
<1>2. pc = 10 => OnWire("0xAB")
  BY DEF OnItsWay
<1>3. pc = 24 => OnWire("0x04") /\ ~OnWire("0xAB") /\ ~chip.asleep
  BY DEF OnItsWay, OnWire, Awake
<1>4. pc = 10 => chip' = [chip EXCEPT !.asleep = FALSE]
  BY <1>2
<1>5. pc = 24 => chip' = [chip EXCEPT !.wel = FALSE]
  BY <1>3
<1>6. ~chip'.asleep
  BY <1>1, <1>3, <1>4, <1>5 DEF Chips
<1>7. CInv'
  BY <1>6 DEF Named, OnItsWay, Awake
<1> QED BY <1>1, <1>4, <1>5, <1>7

\* The rest of the steps.
LEMMA OthersNames ==
  ASSUME IInv, CInv,
         \/ Call \/ Attach \/ Unlock \/ Save \/ RestoreRegister \/ Wait \/ Return
         \/ Application \/ WarmReset \/ UNCHANGED vars
  PROVE  CInv'
<1> USE DEF IInv, CInv, Advance
<1>0. pc \in 1 .. 29
  BY DEF Counts
<1>1. CASE Call
  BY <1>1 DEF Call, Named, OnItsWay, Awake
<1>2. CASE Attach
  <2>1. pc = 1 /\ ~usr
    BY <1>0, <1>2, Positions DEF Attach, Does, OnlyWaiting, step
  <2> QED BY <1>2, <2>1 DEF Attach, Named, OnItsWay, Awake
<1>3. CASE Unlock
  <2>1. pc = 15 /\ ~usr
    BY <1>0, <1>3, Positions DEF Unlock, Does, OnlyWaiting, step
  <2> QED BY <1>3, <2>1 DEF Unlock, Named, OnItsWay, Awake
<1>4. CASE Save
  <2>1. pc \in {2, 16} /\ ~usr
    BY <1>0, <1>4, Positions DEF Save, Does, OnlyWaiting, step
  <2> QED BY <1>4, <2>1 DEF Save, Named, OnItsWay, Awake
<1>5. CASE RestoreRegister
  <2>1. pc \in 11 .. 14 \cup 25 .. 28 /\ ~usr
    BY <1>0, <1>5, Positions DEF RestoreRegister, Does, OnlyWaiting, step
  <2> QED BY <1>5, <2>1 DEF RestoreRegister, Named, OnItsWay, Awake
<1>6. CASE Wait
  <2>1. pc \in {10, 24} /\ ~usr
    BY <1>0, <1>6, Positions DEF Wait, Does, Done
  <2> QED BY <1>6, <2>1 DEF Wait, Named, OnItsWay, Awake
<1>7. CASE Return \/ WarmReset \/ UNCHANGED vars
  BY <1>7 DEF Return, WarmReset, vars, Named, OnItsWay, OnWire, Awake
<1>8. CASE Application
  <2>1. pc = 29
    <3> DEFINE n == Len(BootloaderInitSpiFlash)
    <3>1. n = 28 /\ pc > n
      BY <1>8, Accesses DEF Application, AtReturn
    <3> HIDE DEF n
    <3> QED BY <3>1 DEF Counts
  <2> QED BY <1>8, <2>1 DEF Application, Named, OnItsWay, Awake
<1> QED BY <1>1, <1>2, <1>3, <1>4, <1>5, <1>6, <1>7, <1>8

\* The parts hold throughout, with the invariant above.
LEMMA ChipInvariance == Spec => [](IInv /\ CInv)
<1>1. Init => CInv
  BY DEF Init, CInv, Named, OnItsWay, Awake
<1>2. IInv /\ CInv /\ [Next]_vars => CInv'
  BY ModifyNames, StartNames, ChipNames, OthersNames DEF Next, HartStep
<1> QED BY <1>1, <1>2, StepIInv, InitIInv, PTL DEF Spec

\* The step of the chip that a position of the program stands before.
PositionStep == (IF pc < 10 THEN 1 ELSE IF pc < 16 THEN 2 ELSE IF pc < 24 THEN 3 ELSE 4)
                - (IF usr THEN 1 ELSE 0)
LEMMA NextStepNow == IInv => NextStep = PositionStep
BY NextStepIs DEF IInv, Counts, Others, NextStep, PositionStep
LEMMA NextStepThen == IInv' => NextStep' = PositionStep'
<1> SUFFICES ASSUME IInv' PROVE NextStep' = PositionStep'
  OBVIOUS
<1>1. pc' \in 1 .. 29 /\ usr' \in BOOLEAN
  BY DEF IInv, Counts, Others
<1> QED BY <1>1, NextStepIs DEF NextStep, PositionStep

\* What a step of the program is to the chip.
LEMMA StepOfChip ==
  ASSUME IInv, IInv', CInv, [Next]_vars
  PROVE  \/ Flash!Wake \/ Flash!Unlock \/ Flash!WriteDisable \/ Flash!Application
         \/ Flash!Restart \/ UNCHANGED <<chip, NextStep>>
<1> USE DEF IInv, Advance
<1>0. pc \in 1 .. 29 /\ usr \in BOOLEAN /\ chip \in Chips
  BY DEF Counts, Others
<1>1. NextStep = PositionStep /\ NextStep' = PositionStep'
  BY NextStepNow, NextStepThen
<1>2. CASE Call
  <2>1. NextStep' = 1 /\ UNCHANGED chip
    BY <1>1, <1>2 DEF Call, PositionStep
  <2> QED BY <2>1 DEF Flash!Restart, NextStep
<1>3. CASE TransactionEnds
  <2>1. CASE pc = 10
    <3>1. NextStep = 1 /\ NextStep' = 2
      BY <1>1, <1>3, <2>1 DEF TransactionEnds, PositionStep
    <3>2. chip' = [chip EXCEPT !.asleep = FALSE]
      BY <1>3, <2>1, ChipNames
    <3> QED BY <3>1, <3>2 DEF Flash!Wake, Flash!Step, NextStep
  <2>2. CASE pc = 24
    <3>1. NextStep = 3 /\ NextStep' = 4
      BY <1>1, <1>3, <2>2 DEF TransactionEnds, PositionStep
    <3>2. chip' = [chip EXCEPT !.wel = FALSE]
      BY <1>3, <2>2, ChipNames
    <3> QED BY <3>1, <3>2 DEF Flash!WriteDisable, Flash!Step, NextStep
  <2> QED BY <1>3, <2>1, <2>2, ChipNames
<1>4. CASE Unlock
  <2>1. pc = 15 /\ ~usr
    BY <1>0, <1>4, Positions DEF Unlock, Does, OnlyWaiting, step
  <2>2. NextStep = 2 /\ NextStep' = 3
    BY <1>1, <1>4, <2>1 DEF Unlock, PositionStep
  <2>3. ~chip.asleep
    BY <2>1 DEF CInv, Awake
  <2>4. chip' \in Flash!Unlocked(chip)
    BY <1>4, <2>3 DEF Unlock, Flash!Unlocked, Flash!Chips, Chips
  <2> QED BY <2>2, <2>4 DEF Flash!Unlock, Flash!Step, NextStep
<1>5. CASE Application
  <2>1. pc = 29 /\ ~usr
    <3> DEFINE n == Len(BootloaderInitSpiFlash)
    <3>1. n = 28 /\ pc > n
      BY <1>5, Accesses DEF Application, AtReturn
    <3> HIDE DEF n
    <3> QED BY <3>1 DEF Counts, OnlyWaiting, step
  <2>2. NextStep = 4 /\ NextStep' = NextStep
    BY <1>1, <1>5, <2>1 DEF Application, PositionStep
  <2>3. chip' \in Flash!Chips
    BY <1>5 DEF Application, Chips, Flash!Chips
  <2> QED BY <2>2, <2>3 DEF Flash!Application, NextStep
<1>6. CASE Start
  <2>1. pc \in {9, 23} /\ ~usr
    BY <1>0, <1>6, Positions DEF Start, Does, OnlyWaiting, step
  <2> QED BY <1>1, <1>6, <2>1 DEF Start, PositionStep
<1>7. CASE Attach \/ Save \/ ModifyRegister \/ RestoreRegister \/ Wait
  <2>1. pc \notin {9, 15, 23, 29} /\ UNCHANGED <<chip, usr>> /\ pc' = pc + 1
    BY <1>0, <1>7, Positions
       DEF Attach, Save, ModifyRegister, RestoreRegister, Wait, Does
  <2> QED BY <1>0, <1>1, <2>1 DEF PositionStep
<1>8. CASE Return \/ WarmReset \/ UNCHANGED vars
  BY <1>1, <1>8 DEF Return, WarmReset, vars, PositionStep
<1> QED BY <1>2, <1>3, <1>4, <1>5, <1>6, <1>7, <1>8 DEF Next, HartStep

\* The register accesses of execute_flash_command implement the steps Boot
\* takes for single accesses: the chip is woken, unlocked by the ROM, and its
\* write-enable latch is cleared, in this order, whatever was found.
THEOREM AccessesAreChipSteps == Spec => ImplementsFlashChip
<1>1. Init => Flash!Init
  <2> SUFFICES ASSUME Init PROVE Flash!Init
    OBVIOUS
  <2>1. NextStep = 1 /\ chip \in Chips
    BY InitIInv, NextStepNow DEF Init, PositionStep
  <2> QED BY <2>1 DEF Flash!Init, NextStep, Chips, Flash!Chips
<1>2. IInv /\ IInv' /\ CInv /\ [Next]_vars => [Flash!Next]_<<chip, NextStep>>
  BY StepOfChip DEF Flash!Next
<1> QED BY <1>1, <1>2, ChipInvariance, PTL DEF Spec, ImplementsFlashChip, Flash!Spec, NextStep
=============================================================================
