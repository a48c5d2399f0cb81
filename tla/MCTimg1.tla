------------------------------ MODULE MCTimg1 ------------------------------
(* Timg1 on a small instance: see the .cfg files for the harts, the        *)
(* time-outs and the bounds.                                               *)
EXTENDS Timg1

CONSTANTS h1, h2

MCHarts == {h1, h2}
OneHart == {h1}

\* Zero fires as soon as the timer starts; 4 is one short of the feed rule,
\* 2 * Deadline < timeout; 5 is the least time-out that keeps it.
MCTimeouts == {0, 4, 5}

\* The four situations the code comments describe: a RAM boot (all off, the
\* timer's reset default is unlocked), a flash boot (the ROM armed the
\* flashboot path), the IDF interrupt watchdog still running, and an earlier
\* early watchdog with a smaller time-out and a count already at it.
MCLeftBehind ==
  {[unlocked |-> TRUE, wdt_en |-> FALSE, flashboot |-> FALSE, xtal |-> FALSE,
    stages |-> "inherited", prescale |-> "inherited", hold |-> 1, count |-> 4],
   [unlocked |-> TRUE, wdt_en |-> FALSE, flashboot |-> TRUE, xtal |-> FALSE,
    stages |-> "inherited", prescale |-> "inherited", hold |-> 0, count |-> 0],
   [unlocked |-> FALSE, wdt_en |-> TRUE, flashboot |-> FALSE, xtal |-> FALSE,
    stages |-> "inherited", prescale |-> "inherited", hold |-> 2, count |-> 2],
   [unlocked |-> FALSE, wdt_en |-> TRUE, flashboot |-> TRUE, xtal |-> TRUE,
    stages |-> "reset_sys", prescale |-> "40000", hold |-> 1, count |-> 1]}
=============================================================================
