----------------------------- MODULE MCUartLog -----------------------------
(* UartLog on a short text, and on the text of lib.rs init.                *)
EXTENDS UartLog

MCLetters == {"p", "q", "r", "s", "t", "u", "c"}

MCLines == << [prefix |-> <<"p", "q">>, word |-> NoWord],
              [prefix |-> <<"r">>, word |-> 0],
              [prefix |-> <<"s", "t">>, word |-> 16^3 - 1],
              [prefix |-> << >>, word |-> 10 * 16^2 + 5],
              [prefix |-> <<"u">>, word |-> NoWord] >>

\* The calls of bod::disable and wdt::disable_all by their lengths.
Str(n) == [prefix |-> [i \in 1 .. n |-> "c"], word |-> NoWord]
Word(n) == [prefix |-> [i \in 1 .. n |-> "c"], word |-> 0]
InitLines ==
  << Str(20), Word(23), Word(23), Word(23), Word(23), Word(23), Word(23), Word(23),
     Word(23), Str(19),
     Str(24), Word(28), Word(28), Word(31), Word(31), Word(30), Word(30), Word(30),
     Word(30), Str(23) >>
=============================================================================
