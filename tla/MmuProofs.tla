------------------------------ MODULE MmuProofs ------------------------------
(***************************************************************************)
(* Mmu for tables of every size (1024 entries in the code) and every set   *)
(* of valid contents: the loop of unmap_all_bank, cut off anywhere and run *)
(* again, leaves no entry of an earlier owner.                             *)
(***************************************************************************)
EXTENDS Mmu, TLAPS

\* In an iteration the content register addresses the entry of the loop
\* variable.
Selected == bank # "none" /\ selected => i \in Entries /\ index[bank] = i

\* The entries the loop has passed are invalid.
Passed == bank # "none" =>
            \A e \in Entries : e < i => table[bank][e] = Invalid

\* The flash table was finished before the PSRAM table was begun.
FlashFirst == bank = "psram" => \A e \in Entries : table["flash"][e] = Invalid

IInv == TypeOK /\ Selected /\ Passed /\ FlashFirst /\ AllInvalid

\* The inductive invariant holds at first ...
LEMMA InitIInv == Init => IInv
<1> SUFFICES ASSUME Init PROVE IInv
  OBVIOUS
<1>1. 0 \in 0 .. EntryNum
  BY EntryNumAssumption
<1>2. TypeOK
  BY <1>1 DEF Init, TypeOK
<1>3. Selected /\ Passed
  BY DEF Init, Selected, Passed
<1>4. FlashFirst
  BY DEF Init, FlashFirst
<1>5. AllInvalid
  BY DEF Init, AllInvalid
<1> QED
  BY <1>2, <1>3, <1>4, <1>5 DEF IInv

\* ... and every step keeps it, one case per action.
LEMMA StepIInv == IInv /\ [Next]_vars => IInv'
<1> SUFFICES ASSUME IInv, [Next]_vars
             PROVE  IInv'
  OBVIOUS
<1>t. /\ EntryNum \in Nat /\ 0 \in 0 .. EntryNum /\ i \in 0 .. EntryNum
      /\ index \in [Banks -> Entries]
      /\ table \in [Banks -> [Entries -> Pages \cup {Invalid}]]
  BY EntryNumAssumption DEF IInv, TypeOK
<1>1. CASE HalInit
  <2>1. TypeOK'
    BY <1>1, <1>t DEF HalInit, IInv, TypeOK, Banks
  <2>2. Selected' /\ FlashFirst' /\ AllInvalid'
    BY <1>1 DEF HalInit, IInv, Selected, FlashFirst, AllInvalid
  <2>3. Passed'
    BY <1>1, EntryNumAssumption DEF HalInit, Passed, Entries
  <2> QED
    BY <2>1, <2>2, <2>3 DEF IInv
<1>2. CASE WriteIndex
  <2>1. i \in Entries /\ bank \in Banks
    BY <1>2, <1>t DEF WriteIndex, InLoop, IInv, TypeOK, Entries
  <2>2. TypeOK'
    BY <1>2, <2>1 DEF WriteIndex, IInv, TypeOK
  <2>3. Selected'
    BY <1>2, <1>t, <2>1 DEF WriteIndex, Selected
  <2>4. Passed' /\ FlashFirst' /\ AllInvalid'
    BY <1>2 DEF WriteIndex, IInv, Passed, FlashFirst, AllInvalid
  <2> QED
    BY <2>2, <2>3, <2>4 DEF IInv
<1>3. CASE WriteContent
  <2>1. /\ bank \in Banks /\ i \in Entries
        /\ table' = [table EXCEPT ![bank][i] = Invalid]
        /\ i' = i + 1 /\ ~selected'
        /\ UNCHANGED <<index, bank, unmapped>>
    BY <1>3 DEF WriteContent, InLoop, IInv, TypeOK, Selected
  <2>2. /\ table' \in [Banks -> [Entries -> Pages \cup {Invalid}]]
        /\ \A b \in Banks, e \in Entries :
             table'[b][e] = IF b = bank /\ e = i THEN Invalid ELSE table[b][e]
    BY <2>1, <1>t
  <2>3. i' \in 0 .. EntryNum /\ \A e \in Entries : e < i' => e < i \/ e = i
    BY <2>1, <1>t DEF Entries
  <2>4. TypeOK'
    BY <1>3, <2>1, <2>2, <2>3 DEF IInv, TypeOK, WriteContent
  <2>5. Passed'
    BY <2>1, <2>2, <2>3 DEF IInv, Passed
  <2>6. Selected'
    BY <2>1 DEF Selected
  <2>7. FlashFirst' /\ AllInvalid'
    BY <2>1, <2>2 DEF IInv, FlashFirst, AllInvalid, Banks
  <2> QED
    BY <2>4, <2>5, <2>6, <2>7 DEF IInv
<1>4. CASE EndBank
  <2>1. \A e \in Entries : e < i
    BY <1>4, <1>t DEF EndBank, Entries
  <2>2. \A e \in Entries : table[bank][e] = Invalid
    BY <1>4, <2>1 DEF EndBank, IInv, Passed
  <2>3. bank \in Banks
    BY <1>4 DEF EndBank, IInv, TypeOK
  <2>4. TypeOK'
    BY <1>4, <1>t DEF EndBank, IInv, TypeOK, Banks
  <2>5. Passed'
    BY <1>4, EntryNumAssumption DEF EndBank, Passed, Entries
  <2>6. FlashFirst' /\ AllInvalid'
    BY <1>4, <2>2, <2>3 DEF EndBank, IInv, FlashFirst, AllInvalid, Banks
  <2>7. ~selected
    BY <1>4, <1>t DEF EndBank, IInv, Selected, Entries
  <2>8. Selected'
    BY <1>4, <2>7 DEF EndBank, Selected
  <2> QED
    BY <2>4, <2>5, <2>6, <2>8 DEF IInv
<1>5. CASE Map
  <2>1. /\ index' \in [Banks -> Entries]
        /\ table' \in [Banks -> [Entries -> Pages \cup {Invalid}]]
    <3>1. PICK b \in Banks, e \in Entries, p \in Pages :
            /\ index' = [index EXCEPT ![b] = e]
            /\ table' = [table EXCEPT ![b][e] = p]
      BY <1>5 DEF Map
    <3> QED
      BY <3>1, <1>t
  <2>2. TypeOK'
    BY <1>5, <2>1 DEF Map, IInv, TypeOK
  <2> QED
    BY <1>5, <2>2 DEF Map, IInv, Selected, Passed, FlashFirst, AllInvalid
<1>6. CASE WarmReset
  <2>1. TypeOK'
    BY <1>6 DEF WarmReset, IInv, TypeOK
  <2> QED
    BY <1>6, <2>1 DEF WarmReset, IInv, Selected, Passed, FlashFirst, AllInvalid
<1>7. CASE UNCHANGED vars
  BY <1>7 DEF vars, IInv, TypeOK, Selected, Passed, FlashFirst, AllInvalid
<1> QED
  BY <1>1, <1>2, <1>3, <1>4, <1>5, <1>6, <1>7 DEF Next

-----------------------------------------------------------------------------
\* The inductive invariant holds throughout: the two theorems after it are
\* its first and last conjuncts.
THEOREM Invariance == Spec => []IInv
  BY InitIInv, StepIInv, PTL DEF Spec

\* Whatever the number of entries, the index register and the loop variable
\* of unmap_all_bank stay within the table.
THEOREM TypeCorrect == Spec => []TypeOK
<1>1. IInv => TypeOK
  BY DEF IInv
<1> QED
  BY <1>1, Invariance, PTL

\* mmu::hal_init leaves all entries of both tables invalid, from every
\* contents and also after runs that a reset cut off.
THEOREM NothingSurvives == Spec => []AllInvalid
<1>1. IInv => AllInvalid
  BY DEF IInv
<1> QED
  BY <1>1, Invariance, PTL
=============================================================================
