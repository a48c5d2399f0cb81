# Verification of the ESP32-P4 bring-up

TLA+ models of this repository's crate (`src/`), checked with TLC, and theorems about them checked
with TLAPS. The crate is the register program that takes the chip from the ROM to an application:
short and sequential, but on hardware that runs on its own beside it (watchdogs, the analog-bus
engine, the MPLL calibration, SPI transactions, the UART) and that keeps its registers when a reset
cuts the program off at any access. The models are about these interleavings.

## The system

| component | source | state | operations |
|---|---|---|---|
| entry points | `lib.rs` | none of its own: the order of the calls | `init`, `init_phase2_full` |
| detectors | `bod.rs` | four LP_ANA control registers | `disable` |
| watchdogs | `wdt.rs` | LP_WDT, SuperWDT, TIMG0, TIMG1, a write protect for each | `disable_all` |
| early watchdog | `wdt.rs` | TIMG1: configuration, hold value, counter, write protect | `enable_timg1_reset`, `feed_timg1`, `disable_timg1` |
| PMU | `pmu.rs` | 42 template and LDO registers | `init_active_state` |
| MPLL | `mpll.rs` | power and clock bits, calibration start/end, bytes behind the analog bus | `bringup_400`, `calibration_*` |
| analog bus | `regi2c.rs` | I2C0_CTRL (BUSY, DATA, command), CONF1, CONF2, clock | `enable_bus`, `select_block`, byte and field accesses, two diagnostics |
| clocks | `clkrst.rs` | eight HP_SYS_CLKRST registers | `init_hp_clocks` |
| pins | `pin_mux.rs` | 20 pin registers | `pin_drv_set`, `enable_dqs` |
| flash | `flash.rs` | flash clock, SPIMEM0 timing, SPIMEM1 user registers, the flash chip | `set_spll_clock_rev1plus`, `bootloader_init_spi_flash`, `execute_flash_command` |
| cache | `cache.rs` | L2 mode, lines, enable, autoload | `init_l2_cache_mode`, `hal_init` |
| MMU | `mmu.rs` | two tables behind index and content registers | `hal_init` |
| logger | `uart_log.rs` | the UART0 TX FIFO | `uart_byte`, `uart_str`, `uart_hex32` |
| reset cause | `reset_cause.rs` | a sticky LP_AON register | `from_raw`, `raw`, `is_watchdog`, `read_hpcore0` |

They interact through calls (lib calls everything; mpll calls regi2c; bod, wdt and mpll call the
logger), through hardware state one sets up for another (the bus needs the PMU bits, the L2 helpers
need the mode, the flash commands need the attached controller) and through the chip: a detector or
watchdog left armed resets the program that is still configuring, and every reset leaves its cause in
the latch that the next boot decides by. Outside the repository are the mini-bootloader that arms TIMG1
and counts boot attempts, the ROM functions, and the application; the crate's comments say what the
mini-bootloader does with it (`wdt.rs:94-103`, `reset_cause.rs:5-10`, `33-35`, `93-95`), and
`EarlyBoot` is built from that.

What makes each part correct, and where it is hard:

- *early watchdog*: fires exactly when the application has hung for the time-out, and never on a
  healthy one; calls are preempted, harts interleave, old configurations are found running.
- *bring-up*: nothing may reset the chip while it runs past the first two calls; every access must
  reach its target; the post-condition must hold from any state an interrupted run left; a repeat
  call must not disturb what it finds.
- *analog bus and MPLL*: read-modify-writes over a handshake with an engine; routing, power and
  clock are silent preconditions; calibration may be late, stale or never end.
- *flash*: a transaction is sent from registers the hart goes on to restore; a chip may be asleep.
- *reset cause*: two tables that must agree on 64 codes; a sticky latch shared by two readers,
  overwritten by the next reset or, after a soft reset, perhaps not; one classifier that decides
  whether an OTA slot is blamed.
- *MMU*, *logger*: loops with a boundary, against resets and a full FIFO.

## Modules

| module | models | with |
|---|---|---|
| `HangDetector` | the promise of the early watchdog | |
| `Timg1` | `wdt.rs`, TIMG1 functions, access by access | any number of harts, the timer, hangs; implements `HangDetector` |
| `Timg1Proofs` | its theorems | |
| `ResetCause` | `reset_cause.rs`: `from_raw`, `raw`, `is_watchdog` over the six-bit field | |
| `EarlyBoot` | the life of an OTA slot: `init`, `read_hpcore0`, `enable_timg1_reset`, `feed_timg1`, `disable_timg1` as the mini-bootloader and the application use them | `HangDetector` as the watchdog, `ResetCause`, resets of every cause, the boot-attempt counter |
| `EarlyBootProofs` | their theorems | |
| `BootProgram` | the accesses of bod, wdt, pmu, mpll, clkrst, pin_mux, flash, cache, mmu and the two entry points, as sequences | |
| `Boot` | executes them | self-resets, host resets, ROM calls, the application between calls |
| `BootProofs`, `BootOutcomeProofs` | its theorems: what the accesses never do; what they achieve | |
| `AnalogBus` | ordered, atomic writes of fields behind the analog bus, each at its position in a program, as `BootProgram` assumes | |
| `Regi2c` | `regi2c.rs` and `mpll.rs`, transaction by transaction | the engine, the calibration, warm resets; implements `AnalogBus` |
| `Regi2cProofs` | its theorems | |
| `FlashChip` | wake, unlock, write-disable as single steps, as `BootProgram` assumes | |
| `SpiFlash` | `bootloader_init_spi_flash` and `execute_flash_command` | the SPIMEM1 controller, the chip, warm resets; implements `FlashChip` |
| `SpiFlashProofs` | its theorems | |
| `Mmu`, `MmuProofs` | `mmu.rs` entry by entry, its theorems | mappings and resets in between |
| `UartLog` | `uart_log.rs` | a UART of any pace |
| `UartLogProofs` | its theorems | |

`MC*` modules hold the small instances. Operators named for a slip (`FinishAtOnce`,
`Bringup400LatchFirst`) are used nowhere; each is a definition with one plausible bug and documents
which property notices it.

### How state and actions correspond to the code

*Registers are sets* of the bits or facts that are 1. A field whose exact value matters is spelled
out bit by bit (drive strength, clock source, the divider byte); a field that is set to one pattern is
one fact (`"idf"`, `"400MHz"`, `"div_6"`), the rest of the register is `"other"`. The 42 PMU registers
are named by their offsets and the 18 + 2 pins by their signals, in sequences that stand for the tables
and the straight-line code, in its order; `EachModify` and `EachWrite` are the loops over them. One access is one
step: a read-modify-write is atomic because one hart makes it and the fields beside it are not
changed by the hardware. In `Boot` each access has a precondition `Open`, its key, power, clock, route
or mode; when it fails, the access is lost, which is what the comments describe ("the write is silently
dropped", "the engine completes its handshake ... config writes never take effect").

*Timg1*: `pc[h]` is the access hart h performs next. `EnableTimg1Reset`, `FeedTimg1`, `DisableTimg1`
and `DisableAll` begin a call; `Unlock`, `Configure` (wdtconfig0), `SetPrescale`, `SetHold`,
`ResetCount`, `Start`, `Feed`, `Disable`, `Relock` are the accesses in the order of the code. The harts take
turns through the critical section that the comment in `feed_timg1` asks a multi-hart application for.
A tick is one millisecond if this crate set clock and prescale, else the counter moves by any amount.
The application may hang anywhere; while it does not, it begins a call at most `Deadline` ticks after
the last one, `2 * Deadline < timeout` being the rule of `feed_timg1`. Time-outs that cannot keep the
rule, 0 among them, are allowed; only the promise to a healthy application excepts them. That a hold
value of 0 fires as soon as the timer runs is an assumption about the hardware. A register value takes effect
when written: the repository says nothing about the latch that `wdt_conf_update_en` controls.

*Boot*: `pc` walks through `Program(entry)`. `SelfReset` is possible while a detector or watchdog is
enabled by any of its paths; `HostReset` always. A reset keeps the registers except the L2 mode, or
finds another firmware's. Not in the program: log lines (in `UartLog`) and the calibration's poll,
between two accesses (in `Regi2c`).

*EarlyBoot*: `stage` is where the mini-bootloader is: `BootInit` (the crate's `init`, of which
`disable_all` is what matters here), `BootRead` (`read_hpcore0`), `Count` (`boot_attempts`, and another
slot at `MaxAttempts`), `ArmAndJump`. `Succeed` is `mark_boot_succeeded` with `disable_timg1`; `AppInit` an
application that calls `init` itself. TIMG1 is not modelled again: its variables are those of
`HangDetector`, which `Timg1` is proved to implement. `Timg1Fires`, `RomWatchdogFires`, `DetectorFires` and
`OtherReset` latch the codes of the crate's tables (7 for TIMG1; 7, 9, 16, 18 for the watchdogs of a flash
boot; 1 for a detector, `bod.rs:7-9`; anything that is no watchdog otherwise). Assumed of the parts
outside the repository: the mini-bootloader acts in that order, and otadata survives every reset; a chip
that hangs with no watchdog armed is reset by hand. What a software reset does to the latch, the comments
leave open: `reset_cause.rs:3-4` has a cause latched "after every reset", `5-8` lets the value
persist "across soft resets" until a power-on or a write of the `_CLR` bit, which the crate never makes.
`Persists` admits both: `OtherReset` latches a cause of its own, `SoftReset` leaves the one before it. Two
history variables say what a slot may be blamed for: `counted`, that the reset the latch tells of has been
through `Count`, and `charges`, the resets since the slot was selected or marked good that were a ROM
watchdog before `init` or a soft reset over a cause already counted. `HealthySlotKept` says that a healthy
slot is given up for `MaxAttempts` of those and for nothing else; no bound on them is assumed.

*Boot*'s `BusUp` is the PMU power, clock and route the bus needs. It leaves out PERIF_I2C_RSTB (bit 26),
which a comment calls needed and nothing sets: with it no bus access would land, so `EngineOutOfReset`
reports it on its own (below). `HandedOver` and `AllInvalid` are about what is found at the end: that
`hal_init` enables the cache before the old mappings are gone is in the sequences, but no line of the
repository asks for the other order, and no property does.

*Regi2c*: `Issue` is wait_idle and the write of CTRL, `Finish` the second wait_idle and the read of
DATA; `EngineCompletes` runs the command in between, or returns noise if power, clock or route is
missing. `pulsed` is a history variable of the calibration: RSTB has been low since the start. A call finds the engine idle: a restart takes milliseconds, a transaction microseconds.

*SpiFlash*: `Save`, `ModifyRegister`, `Start`, `Wait`, `RestoreRegister` are the accesses of
`execute_flash_command`, whose set-up is assembled from `SetPhases`, `SetCommand` and `SetData` by the data
lengths, as in the code (both callers pass 0); `TransactionEnds` is when the chip sees what the registers hold at that moment. The
registers to be restored are told from leftovers of a cut-off call by `RomSets`, the registers that the
ROM's attach and unlock set up. `RomSetsAssumption` asks for the four that `execute_flash_command` saves:
nothing in the crate clears them, and if the ROM left one of them alone, a call after a cut-off one would
save and restore its leftovers (`SetupRestored` fails then). The application may set them as it likes.

*Mmu*: one step per register write. *UartLog*: `Poll` ends the wait, `Put` writes; a write into a full
FIFO is dropped.

## Runs

| run | instance | states | shows |
|---|---|---|---|
| `timg1` | 2 harts, time-outs 0, 4 and 5, deadline 2, four leftover configurations | 7 821 | no write dropped, healthy applications live, the caller's deadline is in force, the refinement, a hang is caught |
| `timg1_optout` | 1 hart | violated | the claim of two opt-outs |
| `boot` | 2 resets, power-on, flash boot, leftover IDF firmware; 116 accesses | 861 658 | every access lands, nothing can fire after disable_all, foreign fields kept, the post-condition, repeat calls |
| `early_boot` | 3 slots (healthy, hanging, hanging after `init`), 2 attempts, 2 time-outs, 2 slow boots, 3 resets from outside: soft ones, and every code that is no watchdog | 204 722 | causes decode and agree, what a healthy slot is given up for, a hanging one is left |
| `early_boot_cold` | the same, every reset latching its own cause | violated | the comment on `PowerOn` |
| `early_boot_sticky` | as `early_boot` | violated | the latch over a soft reset against the attempt counter |
| `regi2c` | 2 polls, 2 resets, three initial byte patterns, every combination of the bits around the bus | 115 524 | handshake, routing, latch at 400 MHz, the refinement, termination |
| `regi2c_rstb` | no resets | violated | the comment on bit 26 |
| `spi_flash` | 2 resets, three leftover register files, every chip state | 12 432 | restoring, well-formed commands, the refinement, termination |
| `mmu` | 3 entries | 3 840 | nothing survives |
| `uart_log` | 5 calls, FIFO of 3 | 161 | nothing lost, words read back, the log ends |
| `uart_log_init` | the lengths of init's log, FIFO of 128 | violated | "a few microseconds" |

*Why the bounds are enough.* `timg1`: 5 and 2 are the tightest integers with 2 * Deadline < timeout
other than degenerate ones, 4 is one tick too short and 0 the edge; each is a time-out to confuse
another with, and leftover hold values 0, 1, 2 lie among them; two harts interleave, and the theorems
below hold for any number.
`early_boot`: the counter below, at and reset from its limit; a watchdog's cause overwritten, or kept, by
another reset before or after it is read, more often than the limit; as many slow boots and soft resets
as attempts, so that a healthy slot is given up for each of them and for both; the safety theorems hold
for any number of slots, attempts and resets.
`boot`: the program has no loop or counter, so one reset reaches every cut-off state of a run and the
second cuts off the run that recovers. `regi2c`: the poll bound is reached and not reached; three byte
patterns make every owned bit start as 0 and as 1. `mmu`: 3 is the least with a first, an inner and a
last entry, and the theorems hold for 1024. `uart_log`: the texts are longer than the FIFO, so it fills,
drains and wraps; 3 digits cover a zero, a full and a mixed word. Deadlock is checked except in
`uart_log`, whose program ends.

*Fairness.* `timg1`: only the clock and the expired timer, which are hardware; the application owes
nothing. `regi2c`: the hart executes and the engine completes what it accepted (wait_idle has no bound,
so without it nothing can be said); that the calibration ends is not assumed. `early_boot`: the
mini-bootloader runs, the slots that hang come to hang, TIMG1 ticks and fires; resets from outside are
bounded in number on a chip that is not stuck, since a chip that is reset for ever counts no attempt. `spi_flash`: the same for
the controller. `uart_log`: hart and UART clock. The waits that have no bound in the code (`regi2c.rs:69`, `flash.rs:203`,
`uart_log.rs:29`) thereby end: engine, controller and UART are taken to be alive. If one is not, the boot
stops there, with the watchdogs already off; nothing in the crate recovers from it, so there is no
property to state, and the hazard list carries them as not covered. Likewise `NoDroppedWrite` takes the
critical section that `feed_timg1` asks its callers for as given, and `HealthyAppIsNeverReset` the feed
rule; what a caller that breaks either gets is not a property of the crate.

## What the violated runs show

1. `NoOtherOptOut`: `enable_timg1_reset` says there is "no opt-out apart from those two paths"
   (`wdt.rs:119-122`). `disable_all` clears TIMG1 too, whoever armed it, and `init` and
   `init_phase2_full` call it. An application that the mini-bootloader starts under the early watchdog
   and that calls either goes on without one.
2. `EngineOutOfReset`: the comment in `bringup_400` says bit 26 is set "once before the first REGI2C
   transaction" (`mpll.rs:63-65`); the code sets bits 24 and 27 only. The dump quoted in the same
   comment has bits 24 and 27 only, so it is likely the comment that is wrong.
3. `NeverWaits`: `init` "Runs in a few microseconds" (`lib.rs:53`); it logs 668 bytes through a FIFO
   of 128, waiting for about 540 of them at 87 microseconds each at 115200 baud.
4. `PowerOnMeansCold`: cause 0x01 is "the most reliable signal that the chip just came up from cold"
   (`reset_cause.rs:25-26`); a brown-out or glitch detector latches the same code on a chip that was
   running (`bod.rs:7-9`). No slot is blamed for it, but telemetry takes it for a power cycle.
   The run lets every reset latch a cause of its own, so that the detector alone is to blame; where the
   latch persists, a soft reset after a power-on reads as cold too.
5. `OneAttemptPerReset`: `is_watchdog` is for "the watchdog-induced resets", to "decide whether to bump the
   otadata attempt counter" (`reset_cause.rs:93-95`), and the module says the value "persists across soft
   resets" until a `_CLR` write (`reset_cause.rs:5-8`). The crate has no such write and `read_hpcore0` "does
   not clear the latch" (`reset_cause.rs:190-191`). If the register does persist, a watchdog's cause that has
   been counted is counted again at every software reset after it, and a healthy slot that marked itself
   good is left after `MaxAttempts` of them. Either the sentence on persistence is wrong or the reader has
   to clear the latch once it has counted.

Not run: `lib.rs:92-93` calls the PMU writes "read-modify-writes", but `pmu_w` (`pmu.rs:27-29`) writes the
whole register, as `PmuInitActiveState` has it; so does `select_block` with CONF2 (`regi2c.rs:64`), whose other
bits `OtherBitsPreserved` therefore excepts. `lib.rs:70` and `pmu.rs:3` name HP_MODEM templates, which no write of `init_active_state` sets.
`pin_mux.rs:56` says "all 21 PSRAM pin registers", the tables and their test have 20;
`README.md` of the crate says SuperWDT is disabled, the code lets it feed itself.

## Proofs

`Timg1Proofs`, for every set of harts, every set of time-outs, every `Deadline` (`TimingAssumption` asks
for naturals only) and every leftover configuration (`LeftBehindAssumption`):
`TypeCorrect`, `WritesTakeEffect` (`NoDroppedWrite`), `FeedRuleSuffices` (`HealthyAppIsNeverReset`),
`DeadlineIsTheCallers` (`ArmedAsAsked`), `Refinement` (`ImplementsHangDetector`).

None of these is inductive. The inductive invariant `IInv` adds `Mutex` (a hart inside a call is the
holder of the critical section, so at most one label is not idle; without it a relock could come
between another hart's unlock and write), `Staged` (at each label of `enable_timg1_reset` the timer is
off and the settings written so far are in place; without it `Start` could arm an old hold value),
`Asked` (an armed timer outside a reconfiguration has the caller's settings) and the two that carry the
feed rule: `Counting` and `CountBound` bound the armed counter by the time since a call last started,
plus one deadline while the call's write is still pending. A feed that starts within one deadline of the
last and writes within the next leaves the counter below 2 * Deadline: that is where the factor two of
the documented rule comes from, and with `Deadline < timeout` only the invariant is false. `BeginIInv` treats
the start of a call, `StepIInv` has one case per action, `StepRefines` one per action for the
refinement.

`EarlyBootProofs`: `RawRoundTrip` and `WatchdogCodes` over the whole six-bit field; and for every set of
slots, time-outs, codes and every attempt limit, `TypeCorrect`, `TheLatchIsShared` (`HandoffAgrees`) and
`HealthySlotStays` (`HealthySlotKept`), under either reading of the latch (`PersistsAssumption` is that
`Persists` is a Boolean). The inductive invariant adds `NoisyFirst` (the ROM's watchdogs and the detectors
are a danger only until `init` has run), `HungInApp`, `InTime` (an armed watchdog of a healthy application
has not expired), `Agreed` (who has read the cause holds what the latch holds), `CountedFirst` (what the
application finds in the latch has been counted) and the one that carries the argument, `Blamed`: the
attempts counted against a healthy slot, plus one for a watchdog cause in the latch that this boot has
yet to count, are at most its charges. Without the term for the pending attempt it is not inductive;
`CountedFirst` is what charges a soft reset out of the application. `StepIInv` has one case per action; the
resets share `RestartIInv`, and `Charged` is what a charge adds.

`MmuProofs`, for every table size and every set of contents: `TypeCorrect` and `NothingSurvives`
(`AllInvalid`). The inductive invariant adds `Selected` (when the content is written, the index
register holds the loop variable), `Passed` (the entries below it are invalid) and `FlashFirst` (the
flash table stays empty while PSRAM's is emptied).

`BootProofs`, for every set of register files found (`LeftBehindAssumption`) and any number of resets:
`TypeCorrect`, `OthersKept` (`OtherBitsPreserved`) and `NoResetDuringBringUp` (`QuietBeforeTheRest`).
The proof has two halves. The first is about the program alone: `Begins` says that it starts with the
sixteen accesses of `bod::disable` and `wdt::disable_all`, that no access goes beyond its register or
touches foreign bits (`Careful`), and that none after the sixteenth goes near a detector or watchdog
(`Quiet`); each function of the crate gets a lemma (`PmuQuiet`, `MpllQuiet`, ...), `Programs` puts the
entry points together. The second is the inductive invariant: `Silenced` says access by access what is
off by now and, at the access behind each write protect, that the key is in. Without the keys it is not
inductive, since a configuration write would be dropped.

`BootOutcomeProofs`, under the same assumption: `NoAccessDropped` (`EveryAccessLands`), `ReadyForPsram`
(`HandedOver`), `OnlyScratchMoves` (`RepeatOnlyReasserts`) and `RepeatLeavesSame` (`RepeatCallSame`). Again
the first half is about the program. `Layout` gives each function its positions among the 116 accesses of
`init_phase2_full`; `Singles` and `Tables` say what stands there. The bits fall in those the bring-up turns
only `On` and those it turns only `Off`, apart from eight positions (`Transient`: a key put in, the bus
routed to the bias block, the calibration started and its logic reset, the ROM's unlock). So an access
undoes an earlier one (`Undoes`) only there, and `Lasting` accesses, with no `Transient` one to the same
register behind them, stand to the return (`LastingStands`); that covers all but scratch state
(`LastingAre`). The second half is the invariant: `InForce` (what was asserted and not undone since is in
the register file) and `Settled` (the file of the last return is one `init_phase2_full` leaves, and only
scratch state differs from it). `InForce` is what makes the induction go through: an effect is in force
only because its access landed, and it lands only because the effects before it are in force (`Lands`,
with the keys from `Silenced`). `LeftAtReturn` turns `InForce` into `Left`, from which the post-condition is read off
register by register (`LeftTemplates`, `LeftWhole`, `LeftFields`, `LeftTables`); `LeftTheSame`
compares two returns: `Left` and the inherited bits leave only the flash status open.

`Regi2cProofs`, for every set of initial bytes, every poll bound and any number of resets:
`TypeCorrect`, `CommandsAlwaysReach` (`CommandsReach`), `AlwaysRoutedBack` (`RoutedToMspi`),
`LatchIsAtTarget` (`LatchedAtTarget`), `ResetPulseWhileStarted` (`RstbPulsedWhileStarted`: every write of RSTB
finds the calibration started, and it is not stopped without the pulse)
and `TransactionsAreFieldWrites` (`ImplementsAnalogBus`). The
inductive invariant adds where the program is (`InProgram`), that the command in flight is the one the
program issued (`OneCommand`, `InFlight`), that a modification carries the byte that was read
(`Carried`), what power, clock and route each position of `bringup_400` relies on (`Powered`, `Routed`),
and how far the calibration is (`Patience`, `Calibrating`, `Latched`). There is one lemma per action.
For the refinement, `AnalogBus` names each write by its position in the program, so that the writes done
are the positions the program has passed, with the one whose command has been executed: no count over
the program is needed. `TransactionAt` says that a write command is preceded by the read of its byte;
`Fresh`, the part the refinement adds to the invariant, that the byte read is the byte the device still
holds when the write lands. `EngineImplementsWrite` is the one step that maps to a write, a new call and
a reset map to `Restart`, and every other step stutters.

`SpiFlashProofs`, for every set of register files, any number of resets and any ROM that sets up the saved
registers (`RomSetsAssumption`, from which `RomSetsUpFiles`): `TypeCorrect`,
`SetupComesBack` (`SetupRestored`), `CommandOnTheWire` (`SentAsAsked`) and `AccessesAreChipSteps`
(`ImplementsFlashChip`). The inductive invariant adds that
a transaction runs only while the hart waits for it or after its call was cut off (`OnlyWaiting`),
that the saved copies are the ROM's set-up (`Kept`, `Untouched`), what each access of the assembly has
put in place (`Assembled`) and what has been restored (`Restored`). For the refinement, `ChipStepsAre`
counts the accesses of the program the chip notices, `Named` and `OnItsWay` say that the command on the
wire is the one of the step that comes next, and `Awake` that the chip is not asleep when a command
after the wake-up reaches it.

`UartLogProofs`, for every log, FIFO size and number of digits (`LogAssumption`): `TypeCorrect`,
`NothingIsLost` (`NothingLost`), `WordsReadBack` (`LoggedWordsReadBack`) and `HexReadsBack`, that the
digits `uart_hex32` prints read back as the word. The text of the log, the shifts of a word and the
value of its digits are recursive functions. What they compute is proved by induction over a set of
naturals (`SetInduction`, from `WFMin`), which needs no operator as a parameter: `ShiftedSteps`,
`ValueSteps` and `TextSteps` show that the functions satisfy their equations, `TextType` and `TextGrows`
that the text of n lines is a prefix of that of more. The inductive invariant adds to `NothingLost`
where the program is in the line (`InLine`) and that room found by a poll stands until the byte is put
(`RoomStands`): only the hart fills the FIFO, so the poll cannot be stale.

Model-checked only: the liveness properties (`HangIsCaught`, `HungSlotIsLeft`, `BringupEnds`,
`InitEnds`, `LogCompletes`), which are beyond the prover. Every other property of a passing run is
stated by a theorem.

## Not modelled

- The host stubs: their bodies are empty.
- Register values that are data: the PMU templates, clock dividers, LDO tuning. Whether the values are
  right is a question to the hardware.
- The latch behind `wdt_conf_update_en`, what the encodings of HP_ROOT_CLK_SRC_SEL and the divider fields
  mean, what ROM functions do inside, how long a flash chip takes to wake: not in the repository. ROM
  calls are single steps with every outcome the code has to expect.
- The word `execute_flash_command` returns, which both callers discard.
- The mini-bootloader beyond what the crate's comments say of it; more than one hart during bring-up,
  which the crate excludes; the lpcore and hpcore1 fields of the reset cause, which it does not read.

## Plan

Done: the early watchdog, the reset causes and the OTA slots, the bring-up register by register, the
analog bus, flash transactions, the MMU and the logger, each with the proofs of all its safety and action
properties and of its refinement. Left:

1. That one access of `Boot` stands for what the detailed modules do: `AnalogBus` and `FlashChip` are the
   interface now, agreed on by reading; a refinement of `Boot`'s accesses would state it.
2. The hazards no property covers, where the repository gains what they need (see the notes in
   `PROJECT.json`).
