------------------------------ MODULE MCRegi2c ------------------------------
(* Regi2c with analog bytes that start all-zero, all-one or mixed.         *)
EXTENDS Regi2c

MCInitialBytes == {{}, 0 .. 7, {0, 2, 5, 6}}
=============================================================================
