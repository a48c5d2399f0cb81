---------------------------- MODULE UartLogProofs ----------------------------
(***************************************************************************)
(* Proofs about UartLog: for every text, every FIFO and every number of    *)
(* digits, however the pace of the UART and the hart interleave, no byte   *)
(* is lost and every logged word reads back.                               *)
(*                                                                         *)
(* The text and the digits are defined by recursion.  Facts about them     *)
(* are proved by induction over a set of naturals.                         *)
(***************************************************************************)
EXTENDS UartLog, SequenceTheorems, WellFoundedInduction, TLAPS

-----------------------------------------------------------------------------
(* Induction, for a set.                                                   *)

\* A set of naturals with 0 and every successor has all of them.
LEMMA SetInduction ==
  ASSUME NEW S, 0 \in S, \A n \in Nat : n \in S => n + 1 \in S
  PROVE  Nat \subseteq S
<1> SUFFICES ASSUME NEW k \in Nat, k \notin S PROVE FALSE
  OBVIOUS
<1> DEFINE T == {n \in Nat : n \notin S}
<1>1. IsWellFoundedOn(OpToRel(<, Nat), Nat)
  BY NatLessThanWellFounded
<1>2. T \subseteq Nat /\ T # {}
  OBVIOUS
<1>3. PICK x \in T : \A y \in T : ~(<<y, x>> \in OpToRel(<, Nat))
  BY <1>1, <1>2, WFMin
<1>4. x \in Nat /\ x # 0
  OBVIOUS
<1>5. x - 1 \in T
  BY <1>4
<1>6. <<x - 1, x>> \in OpToRel(<, Nat)
  BY <1>4 DEF OpToRel
<1> QED BY <1>3, <1>5, <1>6

-----------------------------------------------------------------------------
(* The digits of a word.                                                   *)

\* The constants, without the lines.
LEMMA Sizes == Digits \in Nat \ {0} /\ Capacity \in Nat \ {0} /\ Len(Lines) \in Nat
BY LogAssumption

\* Shifting once more divides by 16.
LEMMA ShiftedSteps ==
  ASSUME NEW v
  PROVE  Shifted(v) = [k \in 0 .. Digits |-> IF k = 0 THEN v ELSE Shifted(v)[k - 1] \div 16]
<1> DEFINE Step(g, n) == [k \in 0 .. n |-> IF k = 0 THEN v ELSE g[k - 1] \div 16]
<1> DEFINE S == {n \in Nat : \E g : g = Step(g, n)}
<1>1. 0 \in S
  <2> DEFINE g == [k \in 0 .. 0 |-> v]
  <2>1. g = Step(g, 0)
    OBVIOUS
  <2> QED BY <2>1
<1>2. ASSUME NEW n \in Nat, n \in S PROVE n + 1 \in S
  <2>1. PICK g : g = Step(g, n)
    BY <1>2
  <2> DEFINE h == [k \in 0 .. n + 1 |-> IF k = 0 THEN v ELSE g[k - 1] \div 16]
  <2>2. \A k \in 0 .. n : h[k] = g[k]
    BY <2>1
  <2>3. \A k \in 0 .. n + 1 : k # 0 => k - 1 \in 0 .. n
    OBVIOUS
  <2>4. \A k \in 0 .. n + 1 : k # 0 => h[k - 1] = g[k - 1]
    <3> HIDE DEF h
    <3> QED BY <2>2, <2>3
  <2>5. h = Step(h, n + 1)
    BY <2>4
  <2>6. \E f : f = Step(f, n + 1)
    <3> HIDE DEF h, Step
    <3> QED BY <2>5
  <2> QED BY <2>6
<1>3. Digits \in S
  <2> HIDE DEF S
  <2> QED BY <1>1, <1>2, SetInduction, Sizes
<1>4. PICK g : g = Step(g, Digits)
  BY <1>3
<1> QED BY <1>4 DEF Shifted

\* Every shift of a natural is one.
LEMMA ShiftedType ==
  ASSUME NEW v \in Nat
  PROVE  /\ \A k \in 0 .. Digits : Shifted(v)[k] \in Nat
         /\ Shifted(v)[0] = v
         /\ \A k \in 1 .. Digits : Shifted(v)[k] = Shifted(v)[k - 1] \div 16
<1> DEFINE s == Shifted(v)
<1>1. s = [k \in 0 .. Digits |-> IF k = 0 THEN v ELSE s[k - 1] \div 16]
  BY ShiftedSteps
<1> HIDE DEF s
<1>2. s[0] = v /\ \A k \in 1 .. Digits : s[k] = s[k - 1] \div 16
  <2>1. \A k \in 0 .. Digits : s[k] = IF k = 0 THEN v ELSE s[k - 1] \div 16
    BY <1>1
  <2> QED BY <2>1, Sizes
<1> DEFINE S == {n \in Nat : n <= Digits => s[n] \in Nat}
<1>3. 0 \in S
  BY <1>2
<1>4. ASSUME NEW n \in Nat, n \in S PROVE n + 1 \in S
  BY <1>2, <1>4, Sizes
<1>5. Nat \subseteq S
  <2> HIDE DEF S
  <2> QED BY <1>3, <1>4, SetInduction
<1>6. \A k \in 0 .. Digits : s[k] \in Nat
  BY <1>5, Sizes
<1> QED BY <1>2, <1>6 DEF s

\* The sum a reader forms, unfolded.
LEMMA ValueSteps ==
  ASSUME NEW d
  PROVE  \E h : /\ h = [i \in 0 .. Digits |-> IF i = 0 THEN 0 ELSE 16 * h[i - 1] + d[i]]
                /\ Value(d) = h[Digits]
<1> DEFINE Step(g, n) == [i \in 0 .. n |-> IF i = 0 THEN 0 ELSE 16 * g[i - 1] + d[i]]
<1> DEFINE S == {n \in Nat : \E g : g = Step(g, n)}
<1>1. 0 \in S
  <2> DEFINE g == [i \in 0 .. 0 |-> 0]
  <2>1. g = Step(g, 0)
    OBVIOUS
  <2> QED BY <2>1
<1>2. ASSUME NEW n \in Nat, n \in S PROVE n + 1 \in S
  <2>1. PICK g : g = Step(g, n)
    BY <1>2
  <2> DEFINE h == [i \in 0 .. n + 1 |-> IF i = 0 THEN 0 ELSE 16 * g[i - 1] + d[i]]
  <2>2. \A i \in 0 .. n : h[i] = g[i]
    BY <2>1
  <2>3. \A i \in 0 .. n + 1 : i # 0 => i - 1 \in 0 .. n
    OBVIOUS
  <2>4. \A i \in 0 .. n + 1 : i # 0 => h[i - 1] = g[i - 1]
    <3> HIDE DEF h
    <3> QED BY <2>2, <2>3
  <2>5. h = Step(h, n + 1)
    BY <2>4
  <2>6. \E f : f = Step(f, n + 1)
    <3> HIDE DEF h, Step
    <3> QED BY <2>5
  <2> QED BY <2>6
<1>3. Digits \in S
  <2> HIDE DEF S
  <2> QED BY <1>1, <1>2, SetInduction, Sizes
<1>4. PICK g : g = Step(g, Digits)
  BY <1>3
<1> QED BY <1>4 DEF Value

\* What uart_hex32 prints of a word of at most Digits digits is its value.
THEOREM HexReadsBack ==
  ASSUME NEW v \in Nat, Shifted(v)[Digits] = 0
  PROVE  Value(Hex(v)) = v
<1> DEFINE s == Shifted(v)
           d == Hex(v)
<1>1. /\ \A k \in 0 .. Digits : s[k] \in Nat
      /\ s[0] = v /\ s[Digits] = 0
      /\ \A k \in 1 .. Digits : s[k] = s[k - 1] \div 16
  BY ShiftedType
<1>2. \A i \in 1 .. Digits : d[i] = s[Digits - i] % 16
  BY DEF Hex
<1> HIDE DEF s, d
<1>3. PICK h : /\ h = [i \in 0 .. Digits |-> IF i = 0 THEN 0 ELSE 16 * h[i - 1] + d[i]]
               /\ Value(d) = h[Digits]
  BY ValueSteps
<1>4. h[0] = 0 /\ \A i \in 1 .. Digits : h[i] = 16 * h[i - 1] + d[i]
  <2>1. \A i \in 0 .. Digits : h[i] = IF i = 0 THEN 0 ELSE 16 * h[i - 1] + d[i]
    BY <1>3
  <2> QED BY <2>1, Sizes
<1> DEFINE S == {n \in Nat : n <= Digits => h[n] = s[Digits - n]}
<1>5. 0 \in S
  BY <1>1, <1>4, Sizes
<1>6. ASSUME NEW n \in Nat, n \in S PROVE n + 1 \in S
  <2> SUFFICES ASSUME n + 1 <= Digits PROVE h[n + 1] = s[Digits - (n + 1)]
    OBVIOUS
  <2>1. h[n] = s[Digits - n] /\ Digits - n \in 1 .. Digits /\ n + 1 \in 1 .. Digits
    BY <1>6, Sizes
  <2> DEFINE k == Digits - n
  <2>2. k \in 1 .. Digits /\ k - 1 \in 0 .. Digits /\ Digits - (n + 1) = k - 1
    BY <2>1, Sizes
  <2>3. h[n + 1] = 16 * s[k] + (s[k - 1] % 16)
    BY <1>2, <1>4, <2>1, <2>2
  <2>4. s[k] = s[k - 1] \div 16 /\ s[k - 1] \in Nat
    BY <1>1, <2>2
  <2>5. h[n + 1] = s[k - 1]
    <3> DEFINE x == s[k - 1]
    <3>1. x \in Nat /\ h[n + 1] = 16 * (x \div 16) + (x % 16)
      BY <2>3, <2>4
    <3> HIDE DEF x
    <3>2. x = 16 * (x \div 16) + (x % 16)
      BY <3>1
    <3> QED BY <3>1, <3>2 DEF x
  <2> QED BY <2>2, <2>5
<1>7. Nat \subseteq S
  <2> HIDE DEF S
  <2> QED BY <1>5, <1>6, SetInduction
<1>8. h[Digits] = s[0]
  BY <1>7, Sizes
<1> QED BY <1>1, <1>3, <1>8 DEF d

-----------------------------------------------------------------------------
(* The text.                                                               *)

Alphabet == Letters \cup 0 .. 15 \cup {"cr", "lf"}
LineBytes(n) == Bytes(Lines[n])

\* The digits are hex digits.
LEMMA HexType ==
  ASSUME NEW v \in Nat
  PROVE  Hex(v) \in Seq(Alphabet) /\ Len(Hex(v)) = Digits
<1>1. \A i \in 1 .. Digits : Shifted(v)[Digits - i] % 16 \in 0 .. 15
  <2> SUFFICES ASSUME NEW i \in 1 .. Digits
               PROVE  Shifted(v)[Digits - i] % 16 \in 0 .. 15
    OBVIOUS
  <2>1. Digits - i \in 0 .. Digits
    BY Sizes
  <2>2. Shifted(v)[Digits - i] \in Nat
    BY <2>1, ShiftedType
  <2> QED BY <2>2
<1>2. Hex(v) \in [1 .. Digits -> 0 .. 15]
  BY <1>1 DEF Hex
<1>3. Hex(v) \in Seq(0 .. 15) /\ Len(Hex(v)) = Digits
  BY <1>2, Sizes
<1>4. Hex(v) \in Seq(Alphabet)
  <2>1. 0 .. 15 \subseteq Alphabet
    BY DEF Alphabet
  <2> QED BY <1>3, <2>1, SeqMonotonic
<1> QED BY <1>3, <1>4

\* The bytes of a line are a sequence over the alphabet; those of a logged
\* word end with its digits and the end of the line.
LEMMA LineType ==
  ASSUME NEW n \in 1 .. Len(Lines)
  PROVE  /\ LineBytes(n) \in Seq(Alphabet)
         /\ Lines[n].word # NoWord =>
              /\ Lines[n].word \in Nat /\ Shifted(Lines[n].word)[Digits] = 0
              /\ \E k \in Nat :
                   /\ Len(LineBytes(n)) = k + Digits + 2
                   /\ \A i \in 1 .. Digits : LineBytes(n)[k + i] = Hex(Lines[n].word)[i]
                   /\ LineBytes(n)[k + Digits + 1] = "cr"
                   /\ LineBytes(n)[k + Digits + 2] = "lf"
<1> DEFINE p == Lines[n].prefix
           h == Hex(Lines[n].word)
<1>1. p \in Seq(Letters)
  BY LogAssumption
<1>2. p \in Seq(Alphabet)
  <2>1. Letters \subseteq Alphabet
    BY DEF Alphabet
  <2> QED BY <1>1, <2>1, SeqMonotonic
<1>3. CASE Lines[n].word = NoWord
  BY <1>2, <1>3 DEF LineBytes, Bytes
<1>4. CASE Lines[n].word # NoWord
  <2>1. Lines[n].word \in Nat /\ Shifted(Lines[n].word)[Digits] = 0
    BY <1>4, LogAssumption
  <2>2. h \in Seq(Alphabet) /\ Len(h) = Digits
    BY <2>1, HexType
  <2>3. Crlf \in Seq(Alphabet) /\ Len(Crlf) = 2 /\ Crlf[1] = "cr" /\ Crlf[2] = "lf"
    BY DEF Crlf, Alphabet
  <2>4. LineBytes(n) = (p \o h) \o Crlf
    BY <1>4 DEF LineBytes, Bytes
  <2> HIDE DEF p, h
  <2>5. Len(p) \in Nat
    BY <1>2, LenProperties
  <2>6. /\ p \o h \in Seq(Alphabet) /\ Len(p \o h) = Len(p) + Digits
        /\ \A i \in 1 .. Digits : (p \o h)[Len(p) + i] = h[i]
    <3>1. /\ p \o h \in Seq(Alphabet) /\ Len(p \o h) = Len(p) + Len(h)
          /\ \A i \in 1 .. Len(p) + Len(h) :
               (p \o h)[i] = IF i <= Len(p) THEN p[i] ELSE h[i - Len(p)]
      BY <1>2, <2>2, ConcatProperties
    <3>2. ASSUME NEW i \in 1 .. Digits PROVE (p \o h)[Len(p) + i] = h[i]
      <4>1. Len(p) + i \in 1 .. Len(p) + Len(h) /\ ~(Len(p) + i <= Len(p))
            /\ (Len(p) + i) - Len(p) = i
        BY <2>2, <2>5, Sizes
      <4> QED BY <3>1, <4>1
    <3> QED BY <2>2, <3>1, <3>2
  <2> DEFINE q == p \o h
             k == Len(p)
  <2>7. /\ q \o Crlf \in Seq(Alphabet) /\ Len(q \o Crlf) = Len(q) + Len(Crlf)
        /\ \A i \in 1 .. Len(q) + Len(Crlf) :
             (q \o Crlf)[i] = IF i <= Len(q) THEN q[i] ELSE Crlf[i - Len(q)]
    <3>1. q \in Seq(Alphabet)
      BY <2>6
    <3> HIDE DEF q
    <3> QED BY <2>3, <3>1, ConcatProperties
  <2>8. Len(q) = k + Digits /\ k \in Nat /\ \A i \in 1 .. Digits : q[k + i] = h[i]
    BY <2>5, <2>6
  <2>9. LineBytes(n) = q \o Crlf
    BY <2>4
  <2> HIDE DEF q, k
  <2>10. Len(LineBytes(n)) = k + Digits + 2 /\ LineBytes(n) \in Seq(Alphabet)
    BY <2>3, <2>7, <2>8, <2>9, Sizes
  <2>11. \A i \in 1 .. Digits : LineBytes(n)[k + i] = h[i]
    <3> SUFFICES ASSUME NEW i \in 1 .. Digits PROVE LineBytes(n)[k + i] = h[i]
      OBVIOUS
    <3>1. k + i \in 1 .. Len(q) + Len(Crlf) /\ k + i <= Len(q)
      BY <2>3, <2>8, Sizes
    <3> QED BY <2>7, <2>8, <2>9, <3>1
  <2>12. /\ LineBytes(n)[k + Digits + 1] = "cr"
         /\ LineBytes(n)[k + Digits + 2] = "lf"
    <3>1. /\ k + Digits + 1 \in 1 .. Len(q) + Len(Crlf) /\ ~(k + Digits + 1 <= Len(q))
          /\ (k + Digits + 1) - Len(q) = 1
          /\ k + Digits + 2 \in 1 .. Len(q) + Len(Crlf) /\ ~(k + Digits + 2 <= Len(q))
          /\ (k + Digits + 2) - Len(q) = 2
      BY <2>3, <2>8, Sizes
    <3> QED BY <2>3, <2>7, <2>9, <3>1
  <2> QED BY <2>1, <2>8, <2>10, <2>11, <2>12 DEF h
<1> QED BY <1>3, <1>4

\* The text so far, unfolded.
LEMMA TextSteps ==
  TextUpTo = [n \in 0 .. Len(Lines) |->
                IF n = 0 THEN << >> ELSE TextUpTo[n - 1] \o Bytes(Lines[n])]
<1> DEFINE none == << >>
           then(t, n) == t \o Bytes(Lines[n])
           Step(g, m) == [n \in 0 .. m |-> IF n = 0 THEN none ELSE then(g[n - 1], n)]
           S == {m \in Nat : \E g : g = Step(g, m)}
<1> HIDE DEF none, then
<1>1. 0 \in S
  <2> DEFINE g == [n \in 0 .. 0 |-> none]
  <2>1. g = Step(g, 0)
    OBVIOUS
  <2> QED BY <2>1
<1>2. ASSUME NEW m \in Nat, m \in S PROVE m + 1 \in S
  <2>1. PICK g : g = Step(g, m)
    BY <1>2
  <2> DEFINE h == [n \in 0 .. m + 1 |-> IF n = 0 THEN none ELSE then(g[n - 1], n)]
  <2>2. \A n \in 0 .. m : h[n] = g[n]
    BY <2>1
  <2>3. \A n \in 0 .. m + 1 : n # 0 => n - 1 \in 0 .. m
    OBVIOUS
  <2>4. \A n \in 0 .. m + 1 : n # 0 => h[n - 1] = g[n - 1]
    <3> HIDE DEF h
    <3> QED BY <2>2, <2>3
  <2>5. h = Step(h, m + 1)
    BY <2>4
  <2>6. \E f : f = Step(f, m + 1)
    <3> HIDE DEF h, Step
    <3> QED BY <2>5
  <2> QED BY <2>6
<1>3. Len(Lines) \in S
  <2> HIDE DEF S
  <2> QED BY <1>1, <1>2, SetInduction, Sizes
<1>4. PICK g : g = Step(g, Len(Lines))
  BY <1>3
<1> QED BY <1>4 DEF TextUpTo, none, then

\* It grows line by line.
LEMMA TextType ==
  /\ TextUpTo[0] = << >>
  /\ \A n \in 1 .. Len(Lines) : TextUpTo[n] = TextUpTo[n - 1] \o LineBytes(n)
  /\ \A n \in 0 .. Len(Lines) : TextUpTo[n] \in Seq(Alphabet)
<1>1. /\ TextUpTo[0] = << >>
      /\ \A n \in 1 .. Len(Lines) : TextUpTo[n] = TextUpTo[n - 1] \o LineBytes(n)
  <2> DEFINE t == TextUpTo
             none == << >>
             then(x, n) == x \o Bytes(Lines[n])
  <2>1. t = [n \in 0 .. Len(Lines) |-> IF n = 0 THEN none ELSE then(t[n - 1], n)]
    BY TextSteps
  <2> HIDE DEF t, none, then
  <2>2. \A n \in 0 .. Len(Lines) : t[n] = IF n = 0 THEN none ELSE then(t[n - 1], n)
    BY <2>1
  <2>3. t[0] = none /\ \A n \in 1 .. Len(Lines) : t[n] = then(t[n - 1], n)
    BY <2>2, Sizes
  <2> QED BY <2>3 DEF t, none, then, LineBytes
<1> DEFINE S == {n \in Nat : n <= Len(Lines) => TextUpTo[n] \in Seq(Alphabet)}
<1>2. 0 \in S
  BY <1>1, EmptySeq
<1>3. ASSUME NEW n \in Nat, n \in S PROVE n + 1 \in S
  <2> SUFFICES ASSUME n + 1 <= Len(Lines) PROVE TextUpTo[n + 1] \in Seq(Alphabet)
    OBVIOUS
  <2>1. n + 1 \in 1 .. Len(Lines) /\ (n + 1) - 1 = n
    BY Sizes
  <2>2. TextUpTo[n] \in Seq(Alphabet) /\ LineBytes(n + 1) \in Seq(Alphabet)
    BY <1>3, <2>1, LineType, Sizes
  <2>3. TextUpTo[n + 1] = TextUpTo[n] \o LineBytes(n + 1)
    BY <1>1, <2>1
  <2> QED BY <2>2, <2>3, ConcatProperties
<1>4. Nat \subseteq S
  <2> HIDE DEF S
  <2> QED BY <1>2, <1>3, SetInduction
<1> QED BY <1>1, <1>4, Sizes

\* A sequence and one that continues it.
Prefix(s, t) == Len(s) <= Len(t) /\ \A i \in 1 .. Len(s) : s[i] = t[i]

LEMMA PrefixOfConcat ==
  ASSUME NEW s \in Seq(Alphabet), NEW t \in Seq(Alphabet)
  PROVE  Prefix(s, s \o t)
BY ConcatProperties, LenProperties DEF Prefix

LEMMA PrefixTransitive ==
  ASSUME NEW s \in Seq(Alphabet), NEW t \in Seq(Alphabet), NEW u \in Seq(Alphabet),
         Prefix(s, t), Prefix(t, u)
  PROVE  Prefix(s, u)
<1>1. Len(s) \in Nat /\ Len(t) \in Nat /\ Len(u) \in Nat
  BY LenProperties
<1> QED BY <1>1 DEF Prefix

\* The text up to a line continues the text up to an earlier one.
LEMMA TextGrows ==
  ASSUME NEW n \in 0 .. Len(Lines)
  PROVE  \A m \in n .. Len(Lines) : Prefix(TextUpTo[n], TextUpTo[m])
<1> DEFINE S == {m \in Nat : m >= n /\ m <= Len(Lines) => Prefix(TextUpTo[n], TextUpTo[m])}
<1>0. TextUpTo[n] \in Seq(Alphabet)
  BY TextType
<1>1. Prefix(TextUpTo[n], TextUpTo[n])
  BY <1>0, LenProperties DEF Prefix
<1>2. 0 \in S
  BY <1>1, Sizes
<1>3. ASSUME NEW m \in Nat, m \in S PROVE m + 1 \in S
  <2> SUFFICES ASSUME m + 1 >= n, m + 1 <= Len(Lines)
               PROVE  Prefix(TextUpTo[n], TextUpTo[m + 1])
    OBVIOUS
  <2>1. CASE n = m + 1
    BY <1>1, <2>1
  <2>2. CASE n # m + 1
    <3>1. m >= n /\ m \in 0 .. Len(Lines) /\ m + 1 \in 1 .. Len(Lines) /\ (m + 1) - 1 = m
      BY <2>2, Sizes
    <3>2. Prefix(TextUpTo[n], TextUpTo[m])
      BY <1>3, <3>1
    <3>3. /\ TextUpTo[m + 1] = TextUpTo[m] \o LineBytes(m + 1)
          /\ TextUpTo[m] \in Seq(Alphabet) /\ LineBytes(m + 1) \in Seq(Alphabet)
      BY <3>1, TextType, LineType
    <3>4. Prefix(TextUpTo[m], TextUpTo[m + 1]) /\ TextUpTo[m + 1] \in Seq(Alphabet)
      BY <3>3, PrefixOfConcat, ConcatProperties
    <3> QED BY <1>0, <3>2, <3>3, <3>4, PrefixTransitive
  <2> QED BY <2>1, <2>2
<1>4. Nat \subseteq S
  <2> HIDE DEF S
  <2> QED BY <1>2, <1>3, SetInduction
<1> QED BY <1>4, Sizes

-----------------------------------------------------------------------------
(* The inductive invariant.                                                *)

Typed == /\ line \in 1 .. Len(Lines) + 1
         /\ at \in Nat \ {0}
         /\ polled \in BOOLEAN
         /\ fifo \in Seq(Alphabet) /\ wire \in Seq(Alphabet)
         /\ Len(fifo) <= Capacity

\* The position is in the line, or just behind it.
InLine == at <= (IF line <= Len(Lines) THEN Len(Current) ELSE 0) + 1

\* What a poll has found is still there when the byte is written: the UART
\* only makes room.
RoomStands == polled => Logging /\ Room

IInv == Typed /\ InLine /\ RoomStands /\ NothingLost

\* The line that is being logged.
LEMMA CurrentType ==
  ASSUME Typed, line <= Len(Lines)
  PROVE  /\ line \in 1 .. Len(Lines)
         /\ Current \in Seq(Alphabet) /\ Len(Current) \in Nat
         /\ TextUpTo[line] = TextUpTo[line - 1] \o Current
         /\ TextUpTo[line - 1] \in Seq(Alphabet)
<1>1. line \in 1 .. Len(Lines) /\ line - 1 \in 0 .. Len(Lines)
  BY Sizes DEF Typed
<1>2. LineBytes(line) \in Seq(Alphabet)
  BY <1>1, LineType
<1>3. Current = LineBytes(line)
  BY DEF Current, LineBytes
<1> HIDE DEF Current
<1> QED BY <1>1, <1>2, <1>3, TextType, LenProperties

\* The invariant holds initially.
LEMMA InitIInv == Init => IInv
<1> SUFFICES ASSUME Init PROVE IInv
  OBVIOUS
<1>1. Typed
  <2>1. << >> \in Seq(Alphabet) /\ Len(<< >>) = 0
    BY EmptySeq
  <2>2. line \in 1 .. Len(Lines) + 1 /\ at \in Nat \ {0} /\ polled \in BOOLEAN
    <3>1. line = 1 /\ at = 1
      BY DEF Init
    <3>2. polled \in BOOLEAN
      BY DEF Init
    <3>3. line \in 1 .. Len(Lines) + 1 /\ at \in Nat \ {0}
      BY <3>1, Sizes
    <3> QED BY <3>2, <3>3
  <2>3. fifo = << >> /\ wire = << >>
    BY DEF Init
  <2>4. Len(fifo) <= Capacity
    BY <2>1, <2>3, Sizes
  <2> QED BY <2>1, <2>2, <2>3, <2>4 DEF Typed
<1>2. InLine
  <2>1. line <= Len(Lines) => Len(Current) \in Nat
    BY <1>1, CurrentType
  <2> QED BY <2>1 DEF Init, InLine
<1>3. RoomStands
  BY DEF Init, RoomStands
<1>4. NothingLost
  <2>1. wire \o fifo = << >>
    <3>1. wire = << >> /\ fifo = << >> /\ << >> \in Seq(Alphabet)
      BY EmptySeq DEF Init
    <3> QED BY <3>1, ConcatEmptySeq
  <2>2. TextUpTo[line - 1] = << >>
    BY TextType DEF Init
  <2>3. SubSeq(Current, 1, at - 1) = << >>
    BY SubSeqEmpty DEF Init
  <2>4. << >> \o << >> = << >>
    BY EmptySeq, ConcatEmptySeq
  <2> QED BY <2>1, <2>2, <2>3, <2>4 DEF NothingLost
<1> QED BY <1>1, <1>2, <1>3, <1>4 DEF IInv

\* A poll that finds room commits the hart to one byte.
LEMMA PollIInv == ASSUME IInv, Poll PROVE IInv'
BY DEF IInv, Poll, Typed, InLine, RoomStands, NothingLost, Logging, Room, Current

\* The byte goes where there is room, after those before it.
LEMMA PutIInv == ASSUME IInv, Put PROVE IInv'
<1> USE DEF IInv, Put
<1>1. Typed /\ NothingLost /\ line <= Len(Lines) /\ at <= Len(Current) /\ Len(fifo) < Capacity
  BY DEF Logging, RoomStands, Room
<1>2. /\ line \in 1 .. Len(Lines) /\ Current \in Seq(Alphabet) /\ Len(Current) \in Nat
      /\ TextUpTo[line - 1] \in Seq(Alphabet)
  BY <1>1, CurrentType
<1>3. at \in 1 .. Len(Current)
  BY <1>1, <1>2 DEF Typed
<1> DEFINE c == Current
           b == c[at]
           before == SubSeq(c, 1, at - 1)
<1>4. /\ line' = line /\ wire' = wire /\ fifo' = Append(fifo, b) /\ at' = at + 1
      /\ polled' = FALSE
  BY <1>1
<1>5. c' = c
  BY <1>4 DEF Current
<1>6. c \in Seq(Alphabet) /\ at \in 1 .. Len(c)
  BY <1>2, <1>3
<1> HIDE DEF c
<1>7. b \in Alphabet
  BY <1>6, ElementOfSeq
<1>8. /\ fifo \in Seq(Alphabet) /\ wire \in Seq(Alphabet)
      /\ fifo' \in Seq(Alphabet) /\ Len(fifo') = Len(fifo) + 1
  BY <1>1, <1>4, <1>7, AppendProperties DEF Typed
<1>9. Typed'
  <2>1. Len(fifo') <= Capacity
    BY <1>1, <1>8, Sizes, LenProperties
  <2>2. at' \in Nat \ {0}
    BY <1>1, <1>4 DEF Typed
  <2> QED BY <1>1, <1>4, <1>8, <2>1, <2>2 DEF Typed
<1>10. before \in Seq(Alphabet) /\ SubSeq(c, 1, at) = before \o << b >>
  <2>1. before \in Seq(Alphabet)
    <3>1. at - 1 \in Int /\ at - 1 <= Len(c) /\ Len(c) \in Nat
      BY <1>6, LenProperties
    <3>2. \A i \in 1 .. at - 1 : c[i] \in Alphabet
      BY <1>6, <3>1, ElementOfSeq
    <3> QED BY <3>1, <3>2, SubSeqProperties
  <2>2. SubSeq(c, 1, at) = SubSeq(c, 1, at - 1) \o << c[at] >>
    BY <1>6, LenProperties, SubSeqRecursiveSecond
  <2> QED BY <2>1, <2>2
<1> DEFINE t == TextUpTo[line - 1]
<1>11. wire \o fifo = t \o before
  BY <1>1 DEF NothingLost, c
<1> HIDE DEF b, before, t
<1>12. wire \o fifo' = t \o SubSeq(c, 1, at)
  <2>1. << b >> \in Seq(Alphabet) /\ t \in Seq(Alphabet)
    BY <1>2, <1>7 DEF t
  <2>2. fifo' = fifo \o << b >>
    BY <1>4, <1>7, <1>8, AppendIsConcat
  <2>3. wire \o (fifo \o << b >>) = (wire \o fifo) \o << b >>
    BY <1>8, <2>1, ConcatAssociative
  <2>4. (t \o before) \o << b >> = t \o (before \o << b >>)
    BY <1>10, <2>1, ConcatAssociative
  <2> QED BY <1>10, <1>11, <2>2, <2>3, <2>4
<1>13. NothingLost'
  <2>1. (at + 1) - 1 = at
    BY <1>3
  <2>2. wire' \o fifo' = TextUpTo[line' - 1] \o SubSeq(c', 1, at' - 1)
    BY <1>4, <1>5, <1>12, <2>1 DEF t
  <2> QED BY <1>1, <1>4, <2>2 DEF NothingLost, c
<1>14. InLine'
  <2>1. at' <= Len(c') + 1
    BY <1>4, <1>5, <1>6, LenProperties
  <2> QED BY <1>1, <1>4, <2>1 DEF InLine, c
<1>15. RoomStands'
  BY <1>4 DEF RoomStands
<1> QED BY <1>9, <1>13, <1>14, <1>15

\* A line that is through is in the text.
LEMMA NextLineIInv == ASSUME IInv, NextLine PROVE IInv'
<1> USE DEF IInv, NextLine
<1>1. /\ line \in 1 .. Len(Lines) /\ Current \in Seq(Alphabet) /\ Len(Current) \in Nat
      /\ TextUpTo[line] = TextUpTo[line - 1] \o Current
  BY CurrentType
<1>2. at = Len(Current) + 1
  BY <1>1 DEF InLine, Typed
<1>3. wire \o fifo = TextUpTo[line]
  <2>1. SubSeq(Current, 1, at - 1) = Current
    <3>1. at - 1 = Len(Current)
      BY <1>1, <1>2
    <3> HIDE DEF Current
    <3> QED BY <1>1, <3>1, SubSeqFull
  <2> QED BY <1>1, <2>1 DEF NothingLost
<1>4. Typed'
  BY <1>1, Sizes DEF Typed
<1>5. NothingLost'
  <2> DEFINE rest == IF line' <= Len(Lines) THEN SubSeq(Current', 1, at' - 1) ELSE << >>
  <2>1. rest = << >>
    <3>1. SubSeq(Current', 1, at' - 1) = << >>
      BY SubSeqEmpty
    <3> QED BY <3>1
  <2>2. TextUpTo[line' - 1] = TextUpTo[line] /\ TextUpTo[line] \in Seq(Alphabet)
    <3>1. line' - 1 = line
      BY <1>1
    <3> QED BY <1>1, <3>1, TextType
  <2>3. wire' \o fifo' = TextUpTo[line' - 1] \o rest
    BY <1>3, <2>1, <2>2, ConcatEmptySeq
  <2> QED BY <2>3 DEF NothingLost
<1>6. InLine'
  <2>1. line' <= Len(Lines) => Len(Current') \in Nat
    <3> SUFFICES ASSUME line' <= Len(Lines) PROVE Len(Current') \in Nat
      OBVIOUS
    <3>1. line' \in 1 .. Len(Lines)
      BY <1>1
    <3>2. LineBytes(line') \in Seq(Alphabet)
      BY <3>1, LineType
    <3>3. Current' = LineBytes(line')
      BY DEF Current, LineBytes
    <3> HIDE DEF Current
    <3> QED BY <3>2, <3>3, LenProperties
  <2> QED BY <2>1 DEF InLine
<1>7. RoomStands'
  <2>1. ~polled
    BY <1>1, <1>2 DEF RoomStands, Logging
  <2> QED BY <2>1 DEF RoomStands
<1> QED BY <1>4, <1>5, <1>6, <1>7

\* What is taken out of the FIFO is what is sent next.
LEMMA TransmitIInv == ASSUME IInv, Transmit PROVE IInv'
<1> USE DEF IInv, Transmit
<1>1. fifo \in Seq(Alphabet) /\ wire \in Seq(Alphabet) /\ fifo # << >>
  BY DEF Typed
<1>2. /\ Head(fifo) \in Alphabet /\ Tail(fifo) \in Seq(Alphabet)
      /\ Len(Tail(fifo)) = Len(fifo) - 1 /\ Len(fifo) \in Nat
  BY <1>1, HeadTailProperties, LenProperties
<1>3. wire' \in Seq(Alphabet) /\ fifo' \in Seq(Alphabet)
  BY <1>1, <1>2, AppendProperties
<1>4. Typed'
  BY <1>2, <1>3, Sizes DEF Typed
<1>5. wire' \o fifo' = wire \o fifo
  <2>1. fifo = << Head(fifo) >> \o Tail(fifo)
    <3> DEFINE f == << Head(fifo) >> \o Tail(fifo)
    <3>1. << Head(fifo) >> \in Seq(Alphabet) /\ Len(<< Head(fifo) >>) = 1
      BY <1>2
    <3>2. f \in Seq(Alphabet) /\ Len(f) = Len(fifo)
          /\ \A i \in 1 .. Len(fifo) :
               f[i] = IF i <= 1 THEN << Head(fifo) >>[i] ELSE Tail(fifo)[i - 1]
      BY <1>2, <3>1, ConcatProperties
    <3>3. \A i \in 1 .. Len(fifo) : f[i] = fifo[i]
      <4> SUFFICES ASSUME NEW i \in 1 .. Len(fifo) PROVE f[i] = fifo[i]
        OBVIOUS
      <4>1. CASE i = 1
        BY <3>2, <4>1
      <4>2. CASE i # 1
        <5>1. i - 1 \in 1 .. Len(Tail(fifo)) /\ ~(i <= 1) /\ (i - 1) + 1 = i
          BY <1>2, <4>2
        <5> QED BY <1>1, <3>2, <5>1, HeadTailProperties
      <4> QED BY <4>1, <4>2
    <3> HIDE DEF f
    <3>4. f = fifo
      BY <1>1, <3>2, <3>3, SeqEqual
    <3> QED BY <3>4 DEF f
  <2>2. wire' = wire \o << Head(fifo) >>
    BY <1>1, <1>2, AppendIsConcat
  <2>3. << Head(fifo) >> \in Seq(Alphabet)
    BY <1>2
  <2>4. (wire \o << Head(fifo) >>) \o Tail(fifo) = wire \o (<< Head(fifo) >> \o Tail(fifo))
    BY <1>1, <1>2, <2>3, ConcatAssociative
  <2> QED BY <2>1, <2>2, <2>4
<1>6. NothingLost'
  BY <1>5 DEF NothingLost, Current
<1>7. InLine' /\ RoomStands'
  BY <1>2, Sizes DEF InLine, RoomStands, Current, Logging, Room
<1> QED BY <1>4, <1>6, <1>7

-----------------------------------------------------------------------------
(* The theorems.                                                           *)

\* Every step of the hart and of the UART keeps the invariant.
LEMMA Invariance == Spec => []IInv
<1>1. IInv /\ [Next]_vars => IInv'
  <2>1. ASSUME IInv, UNCHANGED vars PROVE IInv'
    <3>1. /\ line' = line /\ at' = at /\ polled' = polled /\ fifo' = fifo /\ wire' = wire
          /\ Current' = Current
      BY <2>1 DEF vars, Current
    <3> QED BY <2>1, <3>1 DEF IInv, Typed, InLine, RoomStands, NothingLost, Logging, Room
  <2> QED BY <2>1, PollIInv, PutIInv, NextLineIInv, TransmitIInv DEF Next, Hart
<1> QED BY InitIInv, <1>1, PTL DEF Spec

\* uart_byte never writes into a full FIFO, so no byte of the log is dropped,
\* doubled or moved, at whatever pace the UART sends: for every text, every
\* FIFO and every number of digits.
THEOREM NothingIsLost == Spec => []NothingLost
<1>1. IInv => NothingLost
  BY DEF IInv
<1> QED BY <1>1, Invariance, PTL

\* What is sent is the beginning of the text.
LEMMA WireIsText ==
  ASSUME IInv
  PROVE  Prefix(wire, TextUpTo[Len(Lines)])
<1>1. /\ wire \in Seq(Alphabet) /\ fifo \in Seq(Alphabet) /\ line \in 1 .. Len(Lines) + 1
      /\ NothingLost
  BY DEF IInv, Typed
<1>2. Prefix(wire, wire \o fifo)
  BY <1>1, PrefixOfConcat
<1>3. wire \o fifo \in Seq(Alphabet)
  BY <1>1, ConcatProperties
<1>4. CASE line > Len(Lines)
  <2>1. line - 1 = Len(Lines) /\ Len(Lines) \in 0 .. Len(Lines)
    BY <1>1, <1>4, Sizes
  <2>2. TextUpTo[Len(Lines)] \in Seq(Alphabet)
    BY <2>1, TextType
  <2>3. wire \o fifo = TextUpTo[Len(Lines)] \o << >>
    <3>1. ~(line <= Len(Lines))
      BY <1>1, <1>4, Sizes
    <3> QED BY <1>1, <2>1, <3>1 DEF NothingLost
  <2>4. wire \o fifo = TextUpTo[Len(Lines)]
    BY <2>2, <2>3, ConcatEmptySeq
  <2> QED BY <1>2, <2>4
<1>5. CASE line <= Len(Lines)
  <2> DEFINE c == Current
             t == TextUpTo[line - 1]
             part == SubSeq(c, 1, at - 1)
  <2>1. /\ line \in 1 .. Len(Lines) /\ c \in Seq(Alphabet) /\ t \in Seq(Alphabet)
        /\ TextUpTo[line] = t \o c
    BY <1>5, CurrentType DEF IInv
  <2>2. at \in Nat \ {0} /\ at - 1 <= Len(c)
    BY <1>5, <2>1, LenProperties DEF IInv, Typed, InLine
  <2>3. wire \o fifo = t \o part
    BY <1>1, <1>5 DEF NothingLost
  <2>4. TextUpTo[line] \in Seq(Alphabet) /\ TextUpTo[Len(Lines)] \in Seq(Alphabet)
        /\ Prefix(TextUpTo[line], TextUpTo[Len(Lines)])
    <3>1. line \in 0 .. Len(Lines) /\ Len(Lines) \in line .. Len(Lines)
          /\ Len(Lines) \in 0 .. Len(Lines)
      BY <2>1, Sizes
    <3> QED BY <3>1, TextType, TextGrows
  <2> HIDE DEF c, t
  <2>5. /\ part \in Seq(Alphabet) /\ Len(part) = at - 1
        /\ \A i \in 1 .. at - 1 : part[i] = c[i]
    <3>1. \A i \in 1 .. at - 1 : c[i] \in Alphabet
      BY <2>1, <2>2, LenProperties, ElementOfSeq
    <3>2. /\ part \in Seq(Alphabet) /\ Len(part) = IF 1 <= at - 1 THEN (at - 1) - 1 + 1 ELSE 0
          /\ \A i \in 1 .. (at - 1) - 1 + 1 : part[i] = c[1 + i - 1]
      BY <2>2, <3>1, SubSeqProperties
    <3> QED BY <2>2, <3>2
  <2> HIDE DEF part
  <2>6. Prefix(t \o part, t \o c)
    <3>1. /\ Len(t \o part) = Len(t) + Len(part) /\ Len(t \o c) = Len(t) + Len(c)
          /\ \A i \in 1 .. Len(t) + Len(part) :
               (t \o part)[i] = IF i <= Len(t) THEN t[i] ELSE part[i - Len(t)]
          /\ \A i \in 1 .. Len(t) + Len(c) :
               (t \o c)[i] = IF i <= Len(t) THEN t[i] ELSE c[i - Len(t)]
      BY <2>1, <2>5, ConcatProperties
    <3>2. Len(t) \in Nat /\ Len(c) \in Nat
      BY <2>1, LenProperties
    <3>3. ASSUME NEW i \in 1 .. Len(t) + Len(part) PROVE (t \o part)[i] = (t \o c)[i]
      <4>1. i \in 1 .. Len(t) + Len(c)
        BY <2>2, <2>5, <3>2
      <4>2. ~(i <= Len(t)) => i - Len(t) \in 1 .. at - 1
        BY <2>2, <2>5, <3>2
      <4> QED BY <2>5, <3>1, <4>1, <4>2
    <3> QED BY <2>2, <2>5, <3>1, <3>2, <3>3 DEF Prefix
  <2>7. Prefix(wire, TextUpTo[line])
    <3>1. t \o part \in Seq(Alphabet)
      BY <1>3, <2>3
    <3> QED BY <1>1, <1>2, <2>1, <2>3, <2>4, <2>6, <3>1, PrefixTransitive
  <2> QED BY <1>1, <2>4, <2>7, PrefixTransitive
<1> QED BY <1>1, <1>4, <1>5, Sizes

\* The position stays in the text, and no more is queued or sent than there is.
THEOREM TypeCorrect == Spec => []TypeOK
<1>1. IInv => TypeOK
  <2> SUFFICES ASSUME IInv PROVE TypeOK
    OBVIOUS
  <2>1. Len(fifo) \in 0 .. Capacity /\ Len(wire) \in Nat
    BY Sizes, LenProperties DEF IInv, Typed
  <2>2. Len(wire) <= Len(TextUpTo[Len(Lines)]) /\ Len(TextUpTo[Len(Lines)]) \in Nat
    <3>1. TextUpTo[Len(Lines)] \in Seq(Alphabet)
      BY TextType, Sizes
    <3> QED BY <3>1, WireIsText, LenProperties DEF Prefix
  <2>3. Len(wire) \in 0 .. Len(TextUpTo[Len(Lines)])
    BY <2>1, <2>2
  <2> QED BY <2>1, <2>3 DEF TypeOK, IInv, Typed
<1> QED BY <1>1, Invariance, PTL

\* The number a reader of the log makes of a word whose line is sent is the
\* number uart_hex32 was called with, for words of any number of digits.
THEOREM WordsReadBack == Spec => []LoggedWordsReadBack
<1>1. IInv => LoggedWordsReadBack
  <2> SUFFICES ASSUME IInv, NEW n \in 1 .. Len(Lines), Lines[n].word # NoWord,
                      Len(wire) >= Len(TextUpTo[n])
               PROVE  LET end == Len(TextUpTo[n])
                      IN  /\ SubSeq(wire, end - 1, end) = Crlf
                          /\ Value(SubSeq(wire, end - 1 - Digits, end - 2)) = Lines[n].word
    BY DEF LoggedWordsReadBack
  <2> DEFINE t == TextUpTo[n - 1]
             b == LineBytes(n)
             end == Len(TextUpTo[n])
             h == Hex(Lines[n].word)
  <2>1. /\ n \in 0 .. Len(Lines) /\ n - 1 \in 0 .. Len(Lines)
        /\ Len(Lines) \in n .. Len(Lines) /\ Len(Lines) \in 0 .. Len(Lines)
    BY Sizes
  <2>2. /\ TextUpTo[n] = t \o b /\ t \in Seq(Alphabet) /\ b \in Seq(Alphabet)
        /\ TextUpTo[n] \in Seq(Alphabet)
    BY <2>1, TextType, LineType
  <2>3. PICK k \in Nat : /\ Len(b) = k + Digits + 2
                         /\ \A i \in 1 .. Digits : b[k + i] = h[i]
                         /\ b[k + Digits + 1] = "cr"
                         /\ b[k + Digits + 2] = "lf"
    BY LineType
  <2>4. Lines[n].word \in Nat /\ Shifted(Lines[n].word)[Digits] = 0
    BY LineType
  <2>5. wire \in Seq(Alphabet) /\ Len(wire) \in Nat /\ end \in Nat /\ Len(wire) >= end
    BY <2>2, LenProperties DEF IInv, Typed
  <2>6. \A i \in 1 .. end : wire[i] = TextUpTo[n][i]
    <3>1. Prefix(wire, TextUpTo[Len(Lines)]) /\ Prefix(TextUpTo[n], TextUpTo[Len(Lines)])
      BY <2>1, WireIsText, TextGrows
    <3> QED BY <2>5, <3>1 DEF Prefix
  <2>7. Value(h) = Lines[n].word
    BY <2>4, HexReadsBack
  <2>8. /\ Len(t) \in Nat /\ end = Len(t) + k + Digits + 2
        /\ \A i \in 1 .. Len(b) : TextUpTo[n][Len(t) + i] = b[i]
    <3> HIDE DEF t, b
    <3>1. Len(t) \in Nat /\ Len(b) \in Nat
      BY <2>2, LenProperties
    <3>2. /\ Len(t \o b) = Len(t) + Len(b)
          /\ \A i \in 1 .. Len(t) + Len(b) :
               (t \o b)[i] = IF i <= Len(t) THEN t[i] ELSE b[i - Len(t)]
      BY <2>2, ConcatProperties
    <3>3. ASSUME NEW i \in 1 .. Len(b) PROVE (t \o b)[Len(t) + i] = b[i]
      <4>1. /\ Len(t) + i \in 1 .. Len(t) + Len(b) /\ ~(Len(t) + i <= Len(t))
            /\ (Len(t) + i) - Len(t) = i
        BY <3>1
      <4> QED BY <3>2, <4>1
    <3>4. end = Len(t) + Len(b)
      BY <2>2, <3>2
    <3> QED BY <2>2, <2>3, <3>1, <3>3, <3>4, Sizes
  <2> DEFINE base == Len(t) + k
  <2>9. base \in Nat /\ end = base + Digits + 2 /\ Len(b) = k + Digits + 2
    BY <2>3, <2>8
  <2>10. /\ \A i \in 1 .. Digits : wire[base + i] = h[i]
         /\ wire[base + Digits + 1] = "cr" /\ wire[base + Digits + 2] = "lf"
    <3>1. \A i \in 1 .. Digits + 2 : wire[base + i] = b[k + i]
      <4> SUFFICES ASSUME NEW i \in 1 .. Digits + 2 PROVE wire[base + i] = b[k + i]
        OBVIOUS
      <4> DEFINE l == Len(t)
                 m == Len(b)
      <4>1. l \in Nat /\ base = l + k /\ m = k + Digits + 2 /\ end = base + Digits + 2
        BY <2>8, <2>9
      <4> HIDE DEF l, m, base, end
      <4>2. base + i \in 1 .. end /\ k + i \in 1 .. m /\ base + i = l + (k + i)
        BY <4>1, Sizes
      <4> QED BY <2>6, <2>8, <4>2 DEF l, m
    <3>2. /\ \A i \in 1 .. Digits : i \in 1 .. Digits + 2
          /\ Digits + 1 \in 1 .. Digits + 2 /\ Digits + 2 \in 1 .. Digits + 2
          /\ base + (Digits + 1) = base + Digits + 1 /\ base + (Digits + 2) = base + Digits + 2
          /\ k + (Digits + 1) = k + Digits + 1 /\ k + (Digits + 2) = k + Digits + 2
      <4>1. base \in Nat
        BY <2>9
      <4> HIDE DEF base
      <4> QED BY <4>1, Sizes
    <3> HIDE DEF base, b, h
    <3> QED BY <2>3, <3>1, <3>2
  <2> HIDE DEF t, b, end, h, base
  <2>11. SubSeq(wire, end - 1, end) = Crlf
    <3> DEFINE q == SubSeq(wire, end - 1, end)
    <3>1. end - 1 = base + Digits + 1 /\ end = base + Digits + 2 /\ end - 1 \in 1 .. Len(wire)
          /\ end \in 1 .. Len(wire) /\ end - 1 \in Int /\ end \in Int
      BY <2>5, <2>9, Sizes
    <3>2. /\ q \in Seq(Alphabet) /\ Len(q) = 2
          /\ \A i \in 1 .. end - (end - 1) + 1 : q[i] = wire[(end - 1) + i - 1]
      <4>1. \A i \in (end - 1) .. end : wire[i] \in Alphabet
        BY <2>5, <3>1, ElementOfSeq
      <4>2. /\ q \in Seq(Alphabet)
            /\ Len(q) = IF end - 1 <= end THEN end - (end - 1) + 1 ELSE 0
            /\ \A i \in 1 .. end - (end - 1) + 1 : q[i] = wire[(end - 1) + i - 1]
        BY <3>1, <4>1, SubSeqProperties
      <4> QED BY <3>1, <4>2
    <3>3. q[1] = wire[end - 1] /\ q[2] = wire[end]
      <4>1. /\ 1 \in 1 .. end - (end - 1) + 1 /\ (end - 1) + 1 - 1 = end - 1
            /\ 2 \in 1 .. end - (end - 1) + 1 /\ (end - 1) + 2 - 1 = end
        BY <3>1
      <4> HIDE DEF q
      <4> QED BY <3>2, <4>1
    <3>4. q[1] = "cr" /\ q[2] = "lf"
      BY <2>10, <3>1, <3>3
    <3>5. Crlf \in Seq(Alphabet) /\ Len(Crlf) = 2 /\ Crlf[1] = "cr" /\ Crlf[2] = "lf"
      BY DEF Crlf, Alphabet
    <3> HIDE DEF q
    <3>6. q = Crlf
      BY <3>2, <3>4, <3>5, SeqEqual
    <3> QED BY <3>6 DEF q
  <2>12. SubSeq(wire, end - 1 - Digits, end - 2) = h
    <3> DEFINE q == SubSeq(wire, base + 1, base + Digits)
    <3>1. /\ end - 1 - Digits = base + 1 /\ end - 2 = base + Digits
          /\ base + 1 \in Int /\ base + Digits \in Int /\ base + Digits <= Len(wire)
          /\ base + 1 >= 1
      BY <2>5, <2>9, Sizes
    <3>2. /\ q \in Seq(Alphabet) /\ Len(q) = Digits
          /\ \A i \in 1 .. Digits : q[i] = wire[base + i]
      <4>1. \A i \in (base + 1) .. (base + Digits) : wire[i] \in Alphabet
        BY <2>5, <2>9, <3>1, ElementOfSeq
      <4>2. /\ q \in Seq(Alphabet)
            /\ Len(q) = IF base + 1 <= base + Digits
                        THEN (base + Digits) - (base + 1) + 1 ELSE 0
            /\ \A i \in 1 .. (base + Digits) - (base + 1) + 1 :
                 q[i] = wire[(base + 1) + i - 1]
        BY <3>1, <4>1, SubSeqProperties
      <4>3. (base + Digits) - (base + 1) + 1 = Digits /\ base + 1 <= base + Digits
        BY <2>9, Sizes
      <4>4. \A i \in 1 .. Digits : (base + 1) + i - 1 = base + i
        BY <2>9, Sizes
      <4> HIDE DEF q
      <4> QED BY <4>2, <4>3, <4>4
    <3>3. h \in Seq(Alphabet) /\ Len(h) = Digits
      BY <2>4, HexType DEF h
    <3> HIDE DEF q
    <3>4. q = h
      BY <2>10, <3>2, <3>3, SeqEqual
    <3> QED BY <3>1, <3>4 DEF q
  <2> QED BY <2>7, <2>11, <2>12 DEF end
<1> QED BY <1>1, Invariance, PTL
=============================================================================
