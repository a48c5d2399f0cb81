----------------------------- MODULE AnalogBus -----------------------------
(***************************************************************************)
(* What src/src/mpll.rs relies on src/src/regi2c.rs for: a byte behind the *)
(* analog bus changes only as one of the writes of a list, each in one     *)
(* step, in order, on the bits it owns, and on the value the byte has at   *)
(* that moment.  Boot treats the analog registers this way; Regi2c shows   *)
(* that the bus transactions implement it.                                 *)
(***************************************************************************)
EXTENDS Naturals, Sequences

CONSTANTS
  Writes,      \* the list: the writes, records with fields block, addr,
               \* clear and set, by their positions in a program
  Targets      \* the <<block, addr>> pairs behind the bus

VARIABLES
  dev,         \* dev[target]: the byte, as the set of its bits that are 1
  done         \* the positions of the writes that are done

avars == <<dev, done>>

Init == dev \in [Targets -> SUBSET (0 .. 7)] /\ done = {}

WriteField(n) ==
  /\ n \notin done
  /\ \A m \in DOMAIN Writes : m < n => m \in done
  /\ LET w == Writes[n]
     IN  dev' = [dev EXCEPT ![<<w.block, w.addr>>] = (@ \ w.clear) \cup w.set]
  /\ done' = done \cup {n}

\* The list is run again from its start: a repeat call, or a reset.
Restart == done' = {} /\ UNCHANGED dev

Next == (\E n \in DOMAIN Writes : WriteField(n)) \/ Restart

Spec == Init /\ [][Next]_avars
=============================================================================
