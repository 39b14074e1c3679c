------------------------------ MODULE MCGitExec ------------------------------
(* GitExec on small sets for TLC, pipes of one unit: a command, an answer   *)
(* without a body, a body longer than a pipe that is answered with what     *)
(* fits a pipe or with more, and a request that is cut short.               *)
EXTENDS GitExec

Piped(body, answer, early, waits) ==
  [pipes |-> TRUE, body |-> body, answer |-> answer, early |-> early, waits |-> waits]

MCJobs ==
  {[pipes |-> FALSE, body |-> 0, answer |-> 0, early |-> 0, waits |-> FALSE],
   Piped(0, 1, 0, FALSE), Piped(2, 1, 1, FALSE), Piped(2, 2, 2, FALSE),
   Piped(1, 1, 0, TRUE)}
=============================================================================
