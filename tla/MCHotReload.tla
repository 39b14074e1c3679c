---------------------------- MODULE MCHotReload ----------------------------
(* HotReload on small sets for TLC.                                        *)
EXTENDS HotReload

MCInodes == 1..6
\* Every file has an identity of its own.
FreshStamps == [n \in MCInodes |-> n]
=============================================================================
