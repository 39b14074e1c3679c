------------------------------ MODULE MCGitRepo ------------------------------
(* GitRepo on small sets for TLC.                                          *)
EXTENDS GitRepo

\* All packages have the same mutex.
Shared == [p \in Packages |-> CHOOSE s \in Stripes : TRUE]
=============================================================================
