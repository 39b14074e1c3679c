----------------------------- MODULE BuildPool -----------------------------
(***************************************************************************)
(* The threads of a full build.  Every worker takes the next branch index  *)
(* from a shared counter until none is left or one of them failed; the     *)
(* main thread starts them, joins them, and writes the snapshot from what  *)
(* all of them compiled, or throws.                                        *)
(*                                                                         *)
(* A branch stands for the packages of its .SRCINFO, also when it has      *)
(* none.  The order in which a worker met its branches is not kept: the    *)
(* snapshot sorts all packages by name and branch.                         *)
(***************************************************************************)
EXTENDS Integers

CONSTANTS
  Jobs,          \* worker threads
  BranchCount    \* branches to read

ASSUME PoolAssumption ==
  /\ Jobs \in Nat \ {0}
  /\ BranchCount \in Nat

Workers == 1..Jobs
Indexes == 0..(BranchCount - 1)
NoError == 0

VARIABLES
  next,       \* next_branch
  failed,     \* the flag that stops the workers
  error,      \* worker_error: whose exception it is
  wpc,        \* where each worker stands
  taken,      \* the index each worker fetched last
  built,      \* the branches each worker has compiled
  main,       \* where full_build stands
  spawned,    \* threads started
  joined,     \* threads joined
  published   \* the branches of the snapshot that was written

workVars == <<next, failed, error, taken, built>>
mainVars == <<main, spawned, joined, published>>
vars == <<workVars, wpc, mainVars>>

Init ==
  /\ next = 0
  /\ failed = FALSE
  /\ error = NoError
  /\ wpc = [w \in Workers |-> "off"]
  /\ taken = [w \in Workers |-> 0]
  /\ built = [w \in Workers |-> {}]
  /\ main = "spawn" /\ spawned = 0 /\ joined = 0
  /\ published = {}

Goto(w, label) == wpc' = [wpc EXCEPT ![w] = label]

-----------------------------------------------------------------------------
(* run_worker *)

\* The git cat-file process of this worker.
Open(w) ==
  /\ wpc[w] = "open"
  /\ Goto(w, "check")
  /\ UNCHANGED <<workVars, mainVars>>

Check(w) ==
  /\ wpc[w] = "check"
  /\ Goto(w, IF failed THEN "ended" ELSE "fetch")
  /\ UNCHANGED <<workVars, mainVars>>

BugFetchAgain(w) ==
  /\ wpc[w] = "fetch"
  /\ IF next >= BranchCount
       THEN Goto(w, "check") /\ UNCHANGED <<next, taken>>
       ELSE Goto(w, "read") /\ next' = next + 1 /\ taken' = [taken EXCEPT ![w] = next]
  /\ UNCHANGED <<failed, error, built, mainVars>>
\* fetch_add: also the worker that finds nothing left moves the counter.
Fetch(w) ==
  /\ wpc[w] = "fetch"
  /\ next' = next + 1
  /\ IF next >= BranchCount
       THEN Goto(w, "ended") /\ UNCHANGED taken
       ELSE Goto(w, "read") /\ taken' = [taken EXCEPT ![w] = next]
  /\ UNCHANGED <<failed, error, built, mainVars>>

\* append_branch_package_views.
Read(w) ==
  /\ wpc[w] = "read"
  /\ built' = [built EXCEPT ![w] = @ \cup {taken[w]}]
  /\ Goto(w, "check")
  /\ UNCHANGED <<next, failed, error, taken, mainVars>>

BugThrowGivesBack(w) ==
  /\ wpc[w] \in {"open", "read"}
  /\ next' = IF wpc[w] = "read" THEN taken[w] ELSE next
  /\ Goto(w, "caught")
  /\ failed' = TRUE
  /\ UNCHANGED <<error, taken, built, mainVars>>
\* The process or the read fails: the flag is set before the error is stored.
Throw(w) ==
  /\ wpc[w] \in {"open", "read"}
  /\ failed' = TRUE
  /\ Goto(w, "caught")
  /\ UNCHANGED <<next, error, taken, built, mainVars>>

\* Under error_mutex: the first exception is kept.
Record(w) ==
  /\ wpc[w] = "caught"
  /\ error' = IF error = NoError THEN w ELSE error
  /\ Goto(w, "ended")
  /\ UNCHANGED <<next, failed, taken, built, mainVars>>

Worker(w) == Open(w) \/ Check(w) \/ Fetch(w) \/ Read(w) \/ Throw(w) \/ Record(w)

-----------------------------------------------------------------------------
(* full_build *)

Spawn ==
  /\ main = "spawn" /\ spawned < Jobs
  /\ spawned' = spawned + 1
  /\ Goto(spawned + 1, "open")
  /\ main' = IF spawned + 1 = Jobs THEN "join" ELSE "spawn"
  /\ UNCHANGED <<workVars, joined, published>>

\* std::thread throws: the threads there are get stopped and joined.
SpawnFails ==
  /\ main = "spawn"
  /\ failed' = TRUE
  /\ main' = "abort"
  /\ UNCHANGED <<next, error, taken, built, wpc, spawned, joined, published>>

Join ==
  /\ main \in {"join", "abort"}
  /\ joined < spawned
  /\ wpc[joined + 1] = "ended"
  /\ joined' = joined + 1
  /\ UNCHANGED <<workVars, wpc, main, spawned, published>>

BugPublishUnchecked ==
  /\ main = "join" /\ joined = spawned
  /\ main' = "published"
  /\ published' = UNION {built[w] : w \in Workers}
  /\ UNCHANGED <<workVars, wpc, spawned, joined>>
\* No worker stored an exception: the packages of all are put together.
Publish ==
  /\ main = "join" /\ joined = spawned
  /\ error = NoError
  /\ main' = "published"
  /\ published' = UNION {built[w] : w \in Workers}
  /\ UNCHANGED <<workVars, wpc, spawned, joined>>

BugRethrowEarly ==
  /\ main \in {"join", "abort"}
  /\ main = "abort" \/ (joined = spawned /\ error # NoError)
  /\ main' = "threw"
  /\ UNCHANGED <<workVars, wpc, spawned, joined, published>>
\* The exception of a worker, or that of std::thread, leaves full_build.
Rethrow ==
  /\ main \in {"join", "abort"} /\ joined = spawned
  /\ main = "abort" \/ error # NoError
  /\ main' = "threw"
  /\ UNCHANGED <<workVars, wpc, spawned, joined, published>>

Main == Spawn \/ SpawnFails \/ Join \/ Publish \/ Rethrow

Next == Main \/ \E w \in Workers : Worker(w)

Spec == Init /\ [][Next]_vars

\* Threads are scheduled; nobody waits for anything but a thread to end.
FairSpec == Spec /\ WF_vars(Main) /\ \A w \in Workers : WF_vars(Worker(w))
-----------------------------------------------------------------------------
(* Properties *)

Returned == main \in {"published", "threw"}

\* Every variable has its type; no worker ever indexes past the branches (the
\* type invariant).
TypeOK ==
  /\ next \in Nat
  /\ failed \in BOOLEAN
  /\ error \in Workers \cup {NoError}
  /\ wpc \in [Workers -> {"off", "open", "check", "fetch", "read", "caught", "ended"}]
  /\ taken \in [Workers -> Indexes \cup {0}]
  /\ built \in [Workers -> SUBSET Indexes]
  /\ main \in {"spawn", "join", "abort", "published", "threw"}
  /\ spawned \in 0..Jobs
  /\ joined \in 0..Jobs
  /\ published \subseteq Indexes

\* The branches a worker has compiled or is writing to.
Held(w) == built[w] \cup (IF wpc[w] = "read" THEN {taken[w]} ELSE {})

\* No two workers ever have the same branch: its entry in `branches`, which
\* they write without a lock, has one writer, and no package is there twice
\* (indexer.cpp:374-384).
EachBranchOnce ==
  \A v, w \in Workers : v # w => Held(v) \cap Held(w) = {}

\* A snapshot is written only with every branch in it: an exception in any
\* worker is seen by the main thread, also when the others stopped early
\* because of it (indexer.cpp:372-424).
PublishedIsComplete == main = "published" => published = Indexes

\* No thread runs on after full_build has returned or thrown and its locals are
\* gone (indexer.cpp:408-424).
NoThreadLeft == Returned => \A w \in Workers : wpc[w] \in {"off", "ended"}

\* The build comes to an end, whoever fails.
Terminates == <>Returned
=============================================================================
