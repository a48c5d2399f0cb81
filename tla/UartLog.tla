------------------------------ MODULE UartLog ------------------------------
(***************************************************************************)
(* The boot logger (src/src/uart_log.rs): a hart that polls the FIFO count *)
(* and then writes a byte, and a UART that takes bytes out at its own      *)
(* pace.  A write into a full FIFO is dropped by the hardware.             *)
(*                                                                         *)
(* The text is what the modules pass to uart_str and uart_hex32: a prefix, *)
(* and for uart_hex32 a word, most significant digit first, and CR LF.     *)
(*                                                                         *)
(* HexFromLow, RoomOffByOne, RoomReversed and NextLineFromZero are used    *)
(* nowhere: each is the definition after it with a plausible bug, and      *)
(* shows that a property would notice.                                     *)
(***************************************************************************)
EXTENDS Integers, Sequences

CONSTANTS
  Lines,       \* the calls of one run: [prefix |-> sequence, word |-> number
               \* or NoWord for a plain uart_str]
  NoWord,
  Letters,     \* the bytes of the prefixes
  Digits,      \* hex digits of a word: 8 in the code
  Capacity     \* TXFIFO_CAPACITY: 128 in the code

\* v >> (4 * k), for k in 0..Digits.
Shifted(v) == LET s[k \in 0 .. Digits] == IF k = 0 THEN v ELSE s[k - 1] \div 16
              IN  s

\* A word has as many digits as are printed: u32 has 8.
ASSUME LogAssumption ==
  /\ Digits \in Nat \ {0}
  /\ Capacity \in Nat \ {0}
  /\ Len(Lines) \in Nat
  /\ \A i \in 1 .. Len(Lines) :
       /\ Lines[i].prefix \in Seq(Letters)
       /\ Lines[i].word # NoWord => Lines[i].word \in Nat /\ Shifted(Lines[i].word)[Digits] = 0

Crlf == <<"cr", "lf">>

\* hex[(v >> ((7 - i) * 4)) & 0xF] for i in 0..8
HexFromLow(v) == [i \in 1 .. Digits |-> Shifted(v)[i - 1] % 16]
Hex(v) == [i \in 1 .. Digits |-> Shifted(v)[Digits - i] % 16]

Bytes(line) == IF line.word = NoWord THEN line.prefix
               ELSE line.prefix \o Hex(line.word) \o Crlf

VARIABLES
  line,        \* the call that runs
  at,          \* its next byte
  polled,      \* the poll found room; the byte is not yet written
  fifo,        \* the UART's TX FIFO
  wire         \* history: what has been sent

vars == <<line, at, polled, fifo, wire>>

Current == Bytes(Lines[line])
Logging == line <= Len(Lines) /\ at <= Len(Current)

\* while txfifo_count() >= TXFIFO_CAPACITY: a poll of a full FIFO changes
\* nothing, so only the poll that ends the loop is a step.
RoomOffByOne == Len(fifo) <= Capacity
RoomReversed == Len(fifo) >= Capacity
Room == Len(fifo) < Capacity

Poll == /\ Logging /\ ~polled
        /\ Room
        /\ polled' = TRUE
        /\ UNCHANGED <<line, at, fifo, wire>>

Put == /\ Logging /\ polled
       /\ fifo' = IF Len(fifo) < Capacity THEN Append(fifo, Current[at]) ELSE fifo
       /\ at' = at + 1
       /\ polled' = FALSE
       /\ UNCHANGED <<line, wire>>

NextLineFromZero == /\ line <= Len(Lines)
                    /\ at > Len(Current)
                    /\ line' = line + 1
                    /\ at' = 0
                    /\ UNCHANGED <<polled, fifo, wire>>

NextLine == /\ line <= Len(Lines)
            /\ at > Len(Current)
            /\ line' = line + 1
            /\ at' = 1
            /\ UNCHANGED <<polled, fifo, wire>>

Transmit == /\ fifo # << >>
            /\ wire' = Append(wire, Head(fifo))
            /\ fifo' = Tail(fifo)
            /\ UNCHANGED <<line, at, polled>>

Init == /\ line = 1 /\ at = 1
        /\ polled = FALSE
        /\ fifo = << >>
        /\ wire = << >>

Hart == Poll \/ Put \/ NextLine
Next == Hart \/ Transmit

Spec == Init /\ [][Next]_vars

\* The hart executes, and the UART's clock runs.
FairSpec == Spec /\ WF_vars(Hart) /\ WF_vars(Transmit)

-----------------------------------------------------------------------------
TextUpTo[n \in 0 .. Len(Lines)] ==
  IF n = 0 THEN << >> ELSE TextUpTo[n - 1] \o Bytes(Lines[n])

\* The position is in the text, and no more is queued or sent than there is.
TypeOK == /\ line \in 1 .. Len(Lines) + 1
          /\ at \in Nat \ {0}
          /\ polled \in BOOLEAN
          /\ Len(fifo) \in 0 .. Capacity
          /\ Len(wire) \in 0 .. Len(TextUpTo[Len(Lines)])

\* No byte is overrun, reordered or doubled, however the UART's pace and the
\* hart's interleave: what was sent and what is queued is the text so far.
NothingLost ==
  wire \o fifo = TextUpTo[line - 1]
                 \o (IF line <= Len(Lines) THEN SubSeq(Current, 1, at - 1) ELSE << >>)

\* What a reader of the log makes of the digits after a prefix.
Value(digits) ==
  LET v[i \in 0 .. Digits] == IF i = 0 THEN 0 ELSE 16 * v[i - 1] + digits[i]
  IN  v[Digits]

\* The number a reader makes of each logged word is the value it had.
LoggedWordsReadBack ==
  \A n \in 1 .. Len(Lines) :
    LET end == Len(TextUpTo[n])
    IN  Lines[n].word # NoWord /\ Len(wire) >= end
          => /\ SubSeq(wire, end - 1, end) = Crlf
             /\ Value(SubSeq(wire, end - 1 - Digits, end - 2)) = Lines[n].word

\* Logging never blocks a boot for good: the text is sent and the hart gets
\* through it.
LogCompletes == <>(line > Len(Lines) /\ wire = TextUpTo[Len(Lines)])

\* "Runs in a few microseconds" (init in lib.rs): a byte takes 87 of them at
\* 115200 baud, so init, whose log this is, never waits for one.
NeverWaits == Logging => Room
=============================================================================
