------------------------------ MODULE MCStore ------------------------------
(* GenerationStore on small sets for TLC.                                  *)
EXTENDS GenerationStore

CONSTANTS i1, i2, r1

\* Enough for two runs at a time: a run never waits for a file.
MCInodes == 1..6
\* Every file has an identity of its own.
FreshStamps == [n \in MCInodes |-> n]
=============================================================================
