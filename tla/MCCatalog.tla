----------------------------- MODULE MCCatalog -----------------------------
(* Catalog on small sets for TLC.                                          *)
EXTENDS Catalog

CONSTANTS c1, c2

\* Every name is contested by two branches, one branch has a commit without
\* packages, and the listed order is not the sorted one.
MCBranches == 1..3
MCProvides ==
  << c1 :> <<2, 1>> @@ c2 :> <<4, 3>>,
     c1 :> <<2, 3>> @@ c2 :> <<1, 4>>,
     c1 :> <<4, 1>> @@ c2 :> <<>> >>
MCNames == 1..4
=============================================================================
