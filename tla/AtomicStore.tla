---------------------------- MODULE AtomicStore ----------------------------
(***************************************************************************)
(* What the files of the indexer promise their readers: the snapshot path  *)
(* is one register.  An indexer run takes a picture of the mirror's refs   *)
(* and may later replace, in one step, everything a reader sees by that    *)
(* picture; nothing else a run does is visible.                            *)
(***************************************************************************)
CONSTANTS Trees,      \* the possible states of the mirror's refs
          NoTree,     \* what a reader sees while nothing can be read
          Indexers    \* the indexer processes

VARIABLES mirror,     \* the refs of the mirror
          seen,       \* the refs each indexer last listed
          visible     \* the refs a reader of the snapshot path sees

aVars == <<mirror, seen, visible>>

AInit == /\ mirror \in Trees
         /\ seen = [i \in Indexers |-> NoTree]
         /\ visible = NoTree

Change == /\ mirror' \in Trees
          /\ UNCHANGED <<seen, visible>>

List(i) == /\ seen' = [seen EXCEPT ![i] = mirror]
           /\ UNCHANGED <<mirror, visible>>

Commit(i) == /\ seen[i] # NoTree
             /\ visible' = seen[i]
             /\ UNCHANGED <<mirror, seen>>

End(i) == /\ seen' = [seen EXCEPT ![i] = NoTree]
          /\ UNCHANGED <<mirror, visible>>

ANext == Change \/ \E i \in Indexers : List(i) \/ Commit(i) \/ End(i)

ASpec == AInit /\ [][ANext]_aVars
=============================================================================
