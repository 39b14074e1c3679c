---------------------------- MODULE IndexerProofs ----------------------------
(***************************************************************************)
(* Proofs about how the indexer reads its mirror.                          *)
(*                                                                         *)
(* BuildPool, for any number of workers and branches.  That a written      *)
(* snapshot is complete follows from what the main thread knows when it    *)
(* has joined everybody and found no error: nobody failed, so nobody       *)
(* stopped before the counter ran out, and every index the counter gave    *)
(* away was compiled by whoever took it.                                   *)
(*                                                                         *)
(* RefListing, for any branches, commits and runs of git pack-refs.  What  *)
(* a listing has read stays right for as long as no ref is updated or      *)
(* packed: a loose ref that is pruned meanwhile is in packed-refs.         *)
(*                                                                         *)
(* Srcinfo, for any lines and any length of the text.  A fatal report has  *)
(* been made if and only if the lines read so far already break one of the *)
(* conditions that no later line can mend; while none was made, every      *)
(* field has exactly the lines of its section, one dimension for each      *)
(* suffix they have, in the order of the text.  What the end of the text   *)
(* checks and projects is then what the text states.                       *)
(***************************************************************************)
EXTENDS BuildPool, RefListing, Srcinfo, FiniteSetTheorems, TLAPS

\* Who has been started, and who has been joined.
ThreadsInv ==
  /\ joined <= spawned
  /\ main = "join" => spawned = Jobs
  /\ Returned => joined = spawned
  /\ \A w \in Workers : wpc[w] = "off" <=> w > spawned
  /\ \A w \in Workers : w <= joined => wpc[w] = "ended"

\* An index below the counter was given to one worker, and is kept by it
\* unless somebody failed.
ClaimsInv ==
  /\ \A w \in Workers : wpc[w] = "read" => taken[w] \in Indexes
  /\ \A w \in Workers : \A i \in Held(w) : i < next
  /\ EachBranchOnce
  /\ ~failed => \A i \in Indexes : i < next => \E w \in Workers : i \in Held(w)
  /\ ~failed => \A w \in Workers : wpc[w] = "ended" => next >= BranchCount

\* A failure of a worker is stored, or its worker is about to store it.
FailureInv ==
  /\ error # NoError => failed
  /\ \A w \in Workers : wpc[w] = "caught" => failed
  /\ failed /\ main \notin {"abort", "threw"} =>
       error # NoError \/ \E w \in Workers : wpc[w] = "caught"

PoolInv ==
  /\ TypeOK /\ ThreadsInv /\ ClaimsInv /\ FailureInv
  /\ PublishedIsComplete

-----------------------------------------------------------------------------
\* The initial state has all of the invariant.
LEMMA PoolInit == Init => PoolInv
<1> SUFFICES ASSUME Init PROVE PoolInv
  OBVIOUS
<1> USE PoolAssumption DEF Init
<1>1. TypeOK
  <2>1. /\ wpc \in [Workers -> {"off", "open", "check", "fetch", "read", "caught", "ended"}]
        /\ taken \in [Workers -> Indexes \cup {0}]
        /\ built \in [Workers -> SUBSET Indexes]
    OBVIOUS
  <2>2. /\ next \in Nat /\ error \in Workers \cup {NoError}
        /\ main = "spawn" /\ spawned \in 0..Jobs /\ joined \in 0..Jobs
    OBVIOUS
  <2>3. failed \in BOOLEAN /\ published \subseteq Indexes
    BY Zenon
  <2> QED
    BY <2>3, <2>1, <2>2 DEF TypeOK
<1>2. ThreadsInv
  BY DEF ThreadsInv, Returned, Workers
<1>3. ClaimsInv
  BY DEF ClaimsInv, EachBranchOnce, Held, Workers, Indexes, NoError
<1>4. FailureInv /\ PublishedIsComplete
  BY DEF FailureInv, PublishedIsComplete, NoError
<1> QED
  BY <1>1, <1>2, <1>3, <1>4 DEF PoolInv

\* Every step keeps the types; only the counter decides what is taken.
LEMMA PoolTyped == PoolInv /\ [Next]_vars => TypeOK'
<1> SUFFICES ASSUME PoolInv, [Next]_vars PROVE TypeOK'
  OBVIOUS
<1> USE PoolAssumption
    DEF PoolInv, TypeOK, vars, workVars, mainVars, Goto, Workers, Indexes, NoError
<1>1. CASE Spawn
  BY <1>1 DEF Spawn
<1>2. CASE SpawnFails \/ Rethrow
  BY <1>2 DEF SpawnFails, Rethrow
<1>6. CASE Join
  BY <1>6 DEF Join
<1>3. CASE Publish
  BY <1>3 DEF Publish
<1>4. ASSUME NEW w \in Workers, Worker(w) PROVE TypeOK'
  <2>1. CASE Open(w) \/ Check(w) \/ Throw(w) \/ Record(w)
    BY <2>1 DEF Open, Check, Throw, Record
  <2>2. CASE Fetch(w)
    BY <2>2 DEF Fetch
  <2>3. CASE Read(w)
    <3>1. built[w] \cup {taken[w]} \subseteq Indexes
      BY <2>3 DEF Read, ClaimsInv
    <3> QED
      BY <2>3, <3>1 DEF Read
  <2> QED
    BY <1>4, <2>1, <2>2, <2>3 DEF Worker
<1>5. CASE UNCHANGED vars
  BY <1>5
<1> QED
  BY <1>1, <1>2, <1>3, <1>4, <1>5, <1>6 DEF Next, Main

\* Threads are started in order and joined in order, and an ended one stays so.
LEMMA PoolThreads == PoolInv /\ [Next]_vars => ThreadsInv'
<1> SUFFICES ASSUME PoolInv, [Next]_vars PROVE ThreadsInv'
  OBVIOUS
<1> USE PoolAssumption
    DEF PoolInv, TypeOK, ThreadsInv, Returned, vars, workVars, mainVars, Goto, Workers
<1>1. CASE Spawn
  BY <1>1 DEF Spawn
<1>2. CASE SpawnFails \/ Publish \/ Rethrow
  BY <1>2 DEF SpawnFails, Publish, Rethrow
<1>3. CASE Join
  BY <1>3 DEF Join
<1>4. ASSUME NEW w \in Workers, Worker(w) PROVE ThreadsInv'
  BY <1>4 DEF Worker, Open, Check, Fetch, Read, Throw, Record
<1>5. CASE UNCHANGED vars
  BY <1>5
<1> QED
  BY <1>1, <1>2, <1>3, <1>4, <1>5 DEF Next, Main

\* Steps of the main thread give and take no index.
LEMMA MainClaims ==
  ASSUME PoolInv, wpc' = wpc \/ Spawn, UNCHANGED <<next, taken, built>>,
         failed' = failed \/ failed' = TRUE
  PROVE  ClaimsInv'
<1>1. \A w \in Workers : wpc'[w] = wpc[w] \/ (wpc[w] = "off" /\ wpc'[w] = "open")
  BY PoolAssumption DEF Spawn, Goto, PoolInv, TypeOK, ThreadsInv, Workers
<1>2. \A w \in Workers : Held(w)' = Held(w)
  BY <1>1 DEF Held
<1> QED
  BY <1>1, <1>2 DEF PoolInv, ClaimsInv, EachBranchOnce

\* The counter gives every index away once; only a failure gives one up.
LEMMA PoolClaims == PoolInv /\ [Next]_vars => ClaimsInv'
<1> SUFFICES ASSUME PoolInv, [Next]_vars PROVE ClaimsInv'
  OBVIOUS
<1>1. CASE Main
  BY <1>1, MainClaims
     DEF Main, Spawn, SpawnFails, Join, Publish, Rethrow, workVars
<1>2. ASSUME NEW w \in Workers, Worker(w) PROVE ClaimsInv'
  <2> USE PoolAssumption
      DEF PoolInv, TypeOK, ClaimsInv, EachBranchOnce, workVars, mainVars, Goto
  <2>1. CASE Open(w) \/ Check(w) \/ Record(w)
    <3>1. \A v \in Workers : Held(v)' = Held(v)
      BY <2>1 DEF Held, Open, Check, Record
    <3> QED
      BY <2>1, <3>1 DEF Open, Check, Record, FailureInv
  <2>2. CASE Fetch(w)
    <3>1. \A v \in Workers : v # w => Held(v)' = Held(v)
      BY <2>2 DEF Held, Fetch
    <3>2. CASE next >= BranchCount
      <4>1. Held(w)' = Held(w)
        BY <2>2, <3>2 DEF Held, Fetch
      <4>2. \A v \in Workers : Held(v)' = Held(v)
        BY <3>1, <4>1
      <4>3. /\ next' = next + 1 /\ failed' = failed /\ taken' = taken
            /\ wpc' = [wpc EXCEPT ![w] = "ended"]
        BY <2>2, <3>2 DEF Fetch
      <4>4. \A v \in Workers : \A i \in Held(v) : i \in Indexes
        BY DEF Held
      <4>5. EachBranchOnce' /\ \A v \in Workers : \A i \in Held(v)' : i < next'
        BY <4>2, <4>3, <4>4 DEF Indexes
      <4>6. \A i \in Indexes : i < next
        BY <3>2 DEF Indexes
      <4>7. ~failed' => \A i \in Indexes : i < next' => \E v \in Workers : i \in Held(v)'
        BY <4>2, <4>3, <4>6
      <4> QED
        BY <3>2, <4>3, <4>5, <4>7 DEF Indexes
    <3>3. CASE ~(next >= BranchCount)
      <4>1. /\ Held(w)' = Held(w) \cup {next}
            /\ next \in Indexes /\ next' = next + 1
            /\ wpc' = [wpc EXCEPT ![w] = "read"]
            /\ taken' = [taken EXCEPT ![w] = next]
            /\ failed' = failed
        BY <2>2, <3>3 DEF Held, Fetch, Indexes
      <4>2. \A v \in Workers : \A i \in Held(v) : i \in Indexes
        BY DEF Held
      <4>3. EachBranchOnce'
        BY <3>1, <4>1, <4>2 DEF Indexes
      <4>4. \A v \in Workers : \A i \in Held(v)' : i < next'
        BY <3>1, <4>1, <4>2 DEF Indexes
      <4>5. ~failed' => \A i \in Indexes : i < next' => \E v \in Workers : i \in Held(v)'
        <5> SUFFICES ASSUME ~failed', NEW i \in Indexes, i < next'
                     PROVE  \E v \in Workers : i \in Held(v)'
          OBVIOUS
        <5>1. CASE i = next
          BY <4>1, <5>1
        <5>2. CASE i < next
          BY <3>1, <4>1, <5>2
        <5> QED
          BY <4>1, <5>1, <5>2 DEF Indexes
      <4> QED
        BY <4>1, <4>3, <4>4, <4>5 DEF Indexes
    <3> QED
      BY <3>2, <3>3
  <2>3. CASE Read(w)
    <3>1. \A v \in Workers : Held(v)' = Held(v)
      BY <2>3 DEF Held, Read
    <3> QED
      BY <2>3, <3>1 DEF Read
  <2>4. CASE Throw(w)
    <3>1. \A v \in Workers : Held(v)' \subseteq Held(v)
      BY <2>4 DEF Held, Throw
    <3> QED
      BY <2>4, <3>1 DEF Throw
  <2> QED
    BY <1>2, <2>1, <2>2, <2>3, <2>4 DEF Worker
<1>3. CASE UNCHANGED vars
  <2>1. \A v \in Workers : Held(v)' = Held(v)
    BY <1>3 DEF Held, vars, workVars
  <2> QED
    BY <1>3, <2>1 DEF PoolInv, ClaimsInv, EachBranchOnce, vars, workVars
<1> QED
  BY <1>1, <1>2, <1>3 DEF Next

\* The flag never gets ahead of the error without a worker that will store it.
LEMMA PoolFailure == PoolInv /\ [Next]_vars => FailureInv'
<1> SUFFICES ASSUME PoolInv, [Next]_vars PROVE FailureInv'
  OBVIOUS
<1> USE PoolAssumption
    DEF PoolInv, TypeOK, FailureInv, vars, workVars, mainVars, Goto, Workers, NoError
<1>1. CASE Spawn
  BY <1>1 DEF Spawn, ThreadsInv
<1>2. CASE SpawnFails \/ Join \/ Publish \/ Rethrow
  BY <1>2 DEF SpawnFails, Join, Publish, Rethrow
<1>3. ASSUME NEW w \in Workers, Worker(w) PROVE FailureInv'
  <2>1. CASE Open(w) \/ Check(w) \/ Fetch(w) \/ Read(w)
    BY <2>1 DEF Open, Check, Fetch, Read
  <2>2. CASE Throw(w)
    BY <2>2 DEF Throw
  <2>3. CASE Record(w)
    BY <2>3 DEF Record
  <2> QED
    BY <1>3, <2>1, <2>2, <2>3 DEF Worker
<1>4. CASE UNCHANGED vars
  BY <1>4
<1> QED
  BY <1>1, <1>2, <1>3, <1>4 DEF Next, Main

\* What the main thread may conclude from having joined all without an error.
LEMMA JoinedIsComplete ==
  ASSUME PoolInv, main = "join", joined = spawned, error = NoError
  PROVE  UNION {built[w] : w \in Workers} = Indexes
<1> USE PoolAssumption DEF PoolInv
<1>1. \A w \in Workers : wpc[w] = "ended"
  BY DEF ThreadsInv, TypeOK, Workers
<1>2. ~failed
  BY <1>1 DEF FailureInv, TypeOK
<1>3. 1 \in Workers /\ next \in Nat
  BY DEF Workers, TypeOK
<1>4. next >= BranchCount
  BY <1>1, <1>2, <1>3 DEF ClaimsInv
<1>5. \A i \in Indexes : i < next
  BY <1>3, <1>4 DEF Indexes
<1>6. \A i \in Indexes : \E w \in Workers : i \in Held(w)
  BY <1>2, <1>5 DEF ClaimsInv
<1>7. \A w \in Workers : Held(w) = built[w]
  BY <1>1 DEF Held
<1>8. Indexes \subseteq UNION {built[w] : w \in Workers}
  BY <1>6, <1>7
<1>9. UNION {built[w] : w \in Workers} \subseteq Indexes
  BY DEF TypeOK
<1> QED
  BY <1>8, <1>9

\* A snapshot is written at one place only, where everything is known to be in.
LEMMA PoolComplete == PoolInv /\ [Next]_vars => PublishedIsComplete'
<1> SUFFICES ASSUME PoolInv, [Next]_vars PROVE PublishedIsComplete'
  OBVIOUS
<1>1. CASE Publish
  <2>1. published' = UNION {built[w] : w \in Workers}
    BY <1>1 DEF Publish
  <2>2. UNION {built[w] : w \in Workers} = Indexes
    BY <1>1, JoinedIsComplete DEF Publish
  <2> QED
    BY <2>1, <2>2 DEF PublishedIsComplete
<1>2. CASE ~Publish
  <2>1. main' = "published" => main = "published" /\ published' = published
    BY <1>2 DEF Next, Main, Spawn, SpawnFails, Join, Rethrow, vars, mainVars,
                Worker, Open, Check, Fetch, Read, Throw, Record
  <2> QED
    BY <2>1 DEF PoolInv, PublishedIsComplete
<1> QED
  BY <1>1, <1>2

\* The whole invariant holds in every reachable state.
LEMMA PoolInvariant == Spec => []PoolInv
<1>1. PoolInv /\ [Next]_vars => PoolInv'
  BY PoolTyped, PoolThreads, PoolClaims, PoolFailure, PoolComplete DEF PoolInv
<1> QED
  BY PoolInit, <1>1, PTL DEF Spec

-----------------------------------------------------------------------------
\* The type invariant, with the bounds on every index a worker uses.
THEOREM PoolTypeCorrect == Spec => []TypeOK
<1>1. PoolInv => TypeOK
  BY DEF PoolInv
<1> QED
  BY PoolInvariant, <1>1, PTL

\* No two of any number of workers ever share a branch.
THEOREM BranchesOnce == Spec => []EachBranchOnce
<1>1. PoolInv => EachBranchOnce
  BY DEF PoolInv, ClaimsInv
<1> QED
  BY PoolInvariant, <1>1, PTL

\* No worker's exception, whenever it happens, lets an incomplete snapshot out.
THEOREM SnapshotComplete == Spec => []PublishedIsComplete
<1>1. PoolInv => PublishedIsComplete
  BY DEF PoolInv
<1> QED
  BY PoolInvariant, <1>1, PTL

\* All threads are joined on every way out of full_build.
THEOREM ThreadsJoined == Spec => []NoThreadLeft
<1>1. PoolInv => NoThreadLeft
  <2> SUFFICES ASSUME PoolInv, Returned, NEW w \in Workers
               PROVE  wpc[w] \in {"off", "ended"}
    BY DEF NoThreadLeft
  <2>1. joined = spawned /\ (w <= spawned \/ w > spawned)
    BY PoolAssumption DEF PoolInv, ThreadsInv, TypeOK, Workers
  <2> QED
    BY <2>1 DEF PoolInv, ThreadsInv
<1> QED
  BY PoolInvariant, <1>1, PTL

-----------------------------------------------------------------------------
(* RefListing *)

ListingTypes ==
  /\ packed \in [Branches -> Nat] /\ loose \in [Branches -> Nat]
  /\ lockFile \in [Branches -> Nat]
  /\ seenPacked \in [Branches -> Nat] /\ seenLoose \in [Branches -> Nat]
  /\ pc \in {"start", "packed", "loose"}
  /\ unread \subseteq Entries

\* The branch is listed as it was when the listing began.
ReadRight(b) ==
  IF seenLoose[b] # 0 THEN seenLoose[b] = atStart[b] ELSE packed[b] = atStart[b]

\* While nothing was updated or packed, the refs are still what they were, no lock
\* file lies about, and what was read of them is right.
QuietInv ==
  ~disturbed =>
    /\ lockFile = None
    /\ pc # "start" => Refs = atStart
    /\ pc = "loose" =>
         /\ seenPacked = packed /\ strange = {}
         /\ \A b \in Branches : <<b, "ref">> \notin unread => ReadRight(b)

ListingInv == ListingTypes /\ QuietInv /\ QuietIsExact

LEMMA NoneTyped == None \in [Branches -> Nat] /\ \A b \in Branches : None[b] = 0
BY DEF None

\* Before the first listing nothing was read, and no ref is locked.
LEMMA ListingBegins == ListingInit => ListingInv
<1> SUFFICES ASSUME ListingInit PROVE ListingInv
  OBVIOUS
<1>1. ListingTypes
  <2>1. packed \in [Branches -> Nat] /\ loose \in [Branches -> Nat]
    BY DEF ListingInit
  <2> QED BY <2>1, NoneTyped DEF ListingInit, ListingTypes
<1> QED BY <1>1 DEF ListingInit, ListingInv, QuietInv, QuietIsExact, Listed

\* Every step keeps the types.
LEMMA TypesKept == ListingTypes /\ [ListingNext]_listingVars => ListingTypes'
<1> SUFFICES ASSUME ListingTypes, [ListingNext]_listingVars PROVE ListingTypes'
  OBVIOUS
<1> USE DEF ListingTypes
<1>0. /\ \A b \in Branches : Refs[b] \in Nat
      /\ Refs \in [Branches -> Nat]
  BY DEF Refs, Over
<1>1. ASSUME NEW b \in Branches, LockRef(b) PROVE ListingTypes'
  BY <1>0, <1>1 DEF LockRef, readVars, resultVars
<1>2. ASSUME NEW b \in Branches, MoveRef(b) PROVE ListingTypes'
  BY <1>2 DEF MoveRef, readVars, resultVars
<1>3. ASSUME NEW b \in Branches, Prune(b) PROVE ListingTypes'
  BY <1>3 DEF Prune, readVars, resultVars
<1>4. CASE Pack
  BY <1>0, <1>4 DEF Pack, readVars, resultVars
<1>5. CASE Begin
  BY <1>5 DEF Begin, gitVars
<1>6. CASE ReadPacked
  BY <1>6, NoneTyped DEF ReadPacked, gitVars
<1>7. ASSUME NEW e \in Entries, ReadLoose(e) PROVE ListingTypes'
  <2>1. e[1] \in Branches
    BY DEF Entries
  <2>2. seenLoose' \in [Branches -> Nat]
    BY <1>7, <2>1 DEF ReadLoose
  <2> QED BY <1>7, <2>2 DEF ReadLoose, gitVars
<1>8. CASE Return
  BY <1>8 DEF Return, gitVars
<1>9. CASE UNCHANGED listingVars
  BY <1>9 DEF listingVars, gitVars, readVars
<1> QED BY <1>1, <1>2, <1>3, <1>4, <1>5, <1>6, <1>7, <1>8, <1>9 DEF ListingNext, Listing

\* Every step keeps what a quiet listing has read right, and a listing that ends so
\* returns it.
LEMMA QuietKept == ListingInv /\ [ListingNext]_listingVars => QuietInv' /\ QuietIsExact'
<1> SUFFICES ASSUME ListingInv, [ListingNext]_listingVars, ~disturbed'
             PROVE  /\ lockFile' = None
                    /\ pc' # "start" => Refs' = atStart'
                    /\ pc' = "loose" =>
                         /\ seenPacked' = packed' /\ strange' = {}
                         /\ \A b \in Branches : <<b, "ref">> \notin unread' => ReadRight(b)'
                    /\ Listed' => listed' = atStart' /\ strange' = {}
  BY DEF QuietInv, QuietIsExact
<1> DEFINE Goal == /\ lockFile' = None
                   /\ pc' # "start" => Refs' = atStart'
                   /\ pc' = "loose" =>
                        /\ seenPacked' = packed' /\ strange' = {}
                        /\ \A b \in Branches : <<b, "ref">> \notin unread' => ReadRight(b)'
                   /\ Listed' => listed' = atStart' /\ strange' = {}
<1>0. ListingTypes /\ QuietInv /\ QuietIsExact
  BY DEF ListingInv
<1> SUFFICES Goal
  OBVIOUS
<1>1. \A b \in Branches : ~LockRef(b) /\ ~MoveRef(b)
  BY DEF LockRef, MoveRef
<1>2. ~Pack
  BY DEF Pack
<1>3. ASSUME NEW b \in Branches, Prune(b) PROVE Goal
  <2>1. ~disturbed /\ UNCHANGED <<packed, lockFile, readVars, resultVars>>
    BY <1>3 DEF Prune
  <2>2. Refs' = Refs
    <3>1. \A x \in Branches :
            (IF loose'[x] # 0 THEN loose'[x] ELSE packed'[x]) =
              IF loose[x] # 0 THEN loose[x] ELSE packed[x]
      BY <1>0, <1>3 DEF Prune, ListingTypes
    <3> QED BY <3>1 DEF Refs, Over
  <2> QED BY <1>0, <2>1, <2>2
      DEF QuietInv, QuietIsExact, Listed, ReadRight, readVars, resultVars
<1>4. CASE Begin
  <2>1. /\ atStart' = Refs /\ lockFile = None /\ pc' = "packed"
        /\ UNCHANGED <<packed, loose, lockFile>>
    BY <1>4 DEF Begin, gitVars
  <2> QED BY <2>1 DEF Refs, Over, Listed
<1>5. CASE ReadPacked
  <2>1. /\ ~disturbed /\ pc = "packed" /\ pc' = "loose" /\ seenPacked' = packed
        /\ strange' = {} /\ unread' = Entries
        /\ UNCHANGED <<packed, loose, lockFile, atStart>>
    BY <1>5 DEF ReadPacked, gitVars
  <2>2. \A b \in Branches : <<b, "ref">> \in unread'
    BY <2>1 DEF Entries
  <2>3. lockFile = None /\ Refs = atStart
    BY <1>0, <2>1 DEF QuietInv
  <2> QED BY <2>1, <2>2, <2>3 DEF Refs, Over, Listed
<1>6. ASSUME NEW e \in Entries, ReadLoose(e) PROVE Goal
  <2>1. /\ ~disturbed /\ pc = "loose" /\ pc' = "loose" /\ unread' = unread \ {e}
        /\ UNCHANGED <<packed, loose, lockFile, seenPacked, atStart>>
    BY <1>6 DEF ReadLoose, gitVars
  <2>2. /\ lockFile = None /\ Refs = atStart /\ seenPacked = packed /\ strange = {}
        /\ \A b \in Branches : <<b, "ref">> \notin unread => ReadRight(b)
    BY <1>0, <2>1 DEF QuietInv
  <2>3. PICK x \in Branches, k \in {"ref", "lock"} : e = <<x, k>>
    BY DEF Entries
  <2>4. strange' = {}
    BY <1>6, <2>2, <2>3, NoneTyped DEF ReadLoose
  <2>5. ASSUME NEW b \in Branches, <<b, "ref">> \notin unread' PROVE ReadRight(b)'
    <3>1. CASE e = <<b, "ref">>
      <4>1. seenLoose'[b] = loose[b]
        BY <1>0, <1>6, <3>1 DEF ReadLoose, ListingTypes
      <4>2. atStart[b] = IF loose[b] # 0 THEN loose[b] ELSE packed[b]
        BY <2>2 DEF Refs, Over
      <4> QED BY <4>1, <4>2, <2>1 DEF ReadRight
    <3>2. CASE e # <<b, "ref">>
      <4>1. <<b, "ref">> \notin unread
        BY <3>2, <2>1, <2>5
      <4>2. seenLoose'[b] = seenLoose[b]
        <5>1. CASE k = "ref"
          <6>1. x # b
            BY <5>1, <2>3, <3>2
          <6> QED BY <6>1, <2>3, <1>0, <1>6 DEF ReadLoose, ListingTypes
        <5>2. CASE k # "ref"
          BY <5>2, <2>3, <1>6 DEF ReadLoose
        <5> QED BY <5>1, <5>2
      <4> QED BY <4>1, <4>2, <2>1, <2>2 DEF ReadRight
    <3> QED BY <3>1, <3>2
  <2>6. Refs' = Refs
    BY <2>1 DEF Refs, Over
  <2> QED BY <2>1, <2>2, <2>4, <2>5, <2>6 DEF Listed
<1>7. CASE Return
  <2>1. /\ ~disturbed /\ pc = "loose" /\ pc' = "start" /\ unread = {}
        /\ UNCHANGED <<packed, loose, lockFile, atStart, strange>>
    BY <1>7 DEF Return, gitVars
  <2>2. /\ lockFile = None /\ Refs = atStart /\ seenPacked = packed /\ strange = {}
        /\ \A b \in Branches : ReadRight(b)
    BY <1>0, <2>1 DEF QuietInv
  <2>3. Over(seenLoose, seenPacked) = Refs
    <3>1. \A b \in Branches :
            (IF seenLoose[b] # 0 THEN seenLoose[b] ELSE seenPacked[b]) =
              IF loose[b] # 0 THEN loose[b] ELSE packed[b]
      BY <2>2 DEF ReadRight, Refs, Over
    <3> QED BY <3>1 DEF Refs, Over
  <2>4. listed' = Refs
    BY <1>7, <2>3 DEF Return
  <2> QED BY <2>1, <2>2, <2>4
<1>8. CASE UNCHANGED listingVars
  <2>1. UNCHANGED <<packed, loose, lockFile, pc, unread, seenPacked, seenLoose, listed,
                    strange, atStart, disturbed>>
    BY <1>8 DEF listingVars, gitVars, readVars, resultVars
  <2> QED BY <1>0, <2>1 DEF QuietInv, QuietIsExact, Listed, ReadRight, Refs, Over
<1> QED BY <1>1, <1>2, <1>3, <1>4, <1>5, <1>6, <1>7, <1>8 DEF ListingNext, Listing

\* A listing during which no ref was updated or packed returns exactly the refs there
\* were when it began, also when a git pack-refs that began before deletes loose refs
\* under its hands, for any number of branches (git.cpp:169-248).
THEOREM QuietListingExact == ListingSpec => []QuietIsExact
<1>1. ListingInv /\ [ListingNext]_listingVars => ListingInv'
  BY TypesKept, QuietKept DEF ListingInv
<1>2. ListingInv => QuietIsExact
  BY DEF ListingInv
<1> QED BY ListingBegins, <1>1, <1>2, PTL DEF ListingSpec

-----------------------------------------------------------------------------
(* Srcinfo: sequences that are put in a row *)

\* A set of natural numbers that is not empty has a least element.
LEMMA Least ==
  ASSUME NEW T, T \subseteq Nat, T # {}
  PROVE  \E x \in T : \A y \in T : x <= y
<1>1. PICK x \in T : \A y \in T : ~(<<y, x>> \in OpToRel(<, Nat))
  BY NatLessThanWellFounded, WFMin
<1>2. \A y \in T : ~(y < x)
  BY <1>1 DEF OpToRel
<1> QED BY <1>2

\* Induction from 1 up to n over a set.
LEMMA UpTo ==
  ASSUME NEW n \in Nat, NEW T, 1 \in T, \A i \in 1..n-1 : i \in T => i + 1 \in T
  PROVE  1..n \subseteq T
<1> SUFFICES ASSUME 1..n \ T # {} PROVE FALSE
  OBVIOUS
<1>0. 1..n \ T \subseteq Nat
  OBVIOUS
<1>1. PICK x \in 1..n \ T : \A y \in 1..n \ T : x <= y
  BY <1>0, Least
<1>2. x - 1 \in 1..n-1 /\ x - 1 \in T
  BY <1>1
<1> QED BY <1>1, <1>2

\* An element of a sequence is in its range.
LEMMA InRange ==
  ASSUME NEW S, NEW s \in Seq(S), NEW i \in 1..Len(s)
  PROVE  s[i] \in Range(s)
BY DEF Range

\* Concatenation, element by element.
LEMMA Concat ==
  ASSUME NEW S, NEW s \in Seq(S), NEW t \in Seq(S)
  PROVE  /\ s \o t \in Seq(S) /\ Len(s \o t) = Len(s) + Len(t)
         /\ \A i \in 1..Len(s) : (s \o t)[i] = s[i]
         /\ \A i \in 1..Len(t) : (s \o t)[Len(s) + i] = t[i]
         /\ Range(s \o t) = Range(s) \cup Range(t)
<1>1. /\ s \o t \in Seq(S) /\ Len(s \o t) = Len(s) + Len(t)
      /\ \A i \in 1..Len(s) : (s \o t)[i] = s[i]
      /\ \A i \in 1..Len(t) : (s \o t)[Len(s) + i] = t[i]
  OBVIOUS
<1>2. \A i \in 1..Len(s)+Len(t) : i \in 1..Len(s) \/ (i - Len(s) \in 1..Len(t) /\ i = Len(s) + (i - Len(s)))
  OBVIOUS
<1>3. Range(s \o t) \subseteq Range(s) \cup Range(t)
  BY <1>1, <1>2 DEF Range
<1>4. \A i \in 1..Len(s) : i \in 1..Len(s \o t)
  BY <1>1
<1>5. \A i \in 1..Len(t) : Len(s) + i \in 1..Len(s \o t)
  BY <1>1
<1>6. ASSUME NEW x \in Range(s) PROVE x \in Range(s \o t)
  <2>1. PICK i \in 1..Len(s) : x = s[i]
    BY DEF Range
  <2>2. i \in 1..Len(s \o t) /\ x = (s \o t)[i]
    BY <2>1, <1>1, <1>4
  <2> QED BY <1>1, <2>2, InRange
<1>7. ASSUME NEW x \in Range(t) PROVE x \in Range(s \o t)
  <2>1. PICK i \in 1..Len(t) : x = t[i]
    BY DEF Range
  <2>2. Len(s) + i \in 1..Len(s \o t) /\ x = (s \o t)[Len(s) + i]
    BY <2>1, <1>1, <1>5
  <2> QED BY <1>1, <2>2, InRange
<1> QED BY <1>1, <1>3, <1>6, <1>7

-----------------------------------------------------------------------------
(* FlattenSeq: the function it is defined with exists *)

\* f has the first n sequences of ss, put one after the other.
Flattening(ss, n, f) ==
  f = [i \in 1..n |-> IF i = 1 THEN ss[i] ELSE f[i - 1] \o ss[i]]

\* The function that puts sequences one after the other exists.
LEMMA FlatteningExists ==
  ASSUME NEW ss, NEW N \in Nat, N # 0
  PROVE  \E f : Flattening(ss, N, f)
<1> DEFINE T == {n \in 1..N : \E f : Flattening(ss, n, f)}
<1>1. 1 \in T
  <2> DEFINE f == [i \in 1..1 |-> ss[1]]
  <2>1. f = [i \in 1..1 |-> IF i = 1 THEN ss[i] ELSE f[i - 1] \o ss[i]]
    <3> HIDE DEF f
    <3>1. \A i \in 1..1 : i = 1
      OBVIOUS
    <3>2. f = [i \in 1..1 |-> ss[1]]
      BY Zenon DEF f
    <3> QED BY <3>1, <3>2, Zenon
  <2>2. Flattening(ss, 1, f)
    BY <2>1, Zenon DEF Flattening
  <2> QED BY <2>2
<1>2. ASSUME NEW n \in 1..N-1, n \in T
      PROVE  n + 1 \in T
  <2>1. PICK f : Flattening(ss, n, f)
    BY <1>2
  <2> DEFINE g == [i \in 1..n+1 |-> IF i = n + 1 THEN f[n] \o ss[n + 1] ELSE f[i]]
             h == [i \in 1..n+1 |-> IF i = 1 THEN ss[i] ELSE g[i - 1] \o ss[i]]
  <2>2. \A i \in 1..n : f[i] = IF i = 1 THEN ss[i] ELSE f[i - 1] \o ss[i]
    BY <2>1, Zenon DEF Flattening
  <2>3. ASSUME NEW i \in 1..n+1 PROVE g[i] = h[i]
    <3>1. n \in Nat /\ n # 0
      OBVIOUS
    <3>2. CASE i = 1
      <4>1. i # n + 1 /\ i \in 1..n
        BY <3>1, <3>2
      <4> QED BY <4>1, <3>2, <2>2
    <3>3. CASE i = n + 1
      <4>1. i # 1 /\ i - 1 = n /\ n \in 1..n+1 /\ n # n + 1
        BY <3>1, <3>3
      <4>2. g[i - 1] = f[n]
        BY <4>1
      <4>3. h[i] = g[i - 1] \o ss[i]
        BY <4>1
      <4>4. g[i] = f[n] \o ss[n + 1]
        BY <3>3
      <4> QED BY <3>3, <4>2, <4>3, <4>4
    <3>4. CASE i # 1 /\ i # n + 1
      <4>1. i \in 1..n /\ i - 1 \in 1..n+1 /\ i - 1 # n + 1
        BY <3>1, <3>4
      <4>2. g[i - 1] = f[i - 1] /\ g[i] = f[i]
        BY <4>1, <3>4
      <4>3. h[i] = g[i - 1] \o ss[i]
        BY <3>4
      <4> QED BY <4>1, <4>2, <4>3, <2>2, <3>4
    <3> QED BY <3>2, <3>3, <3>4
  <2>4. g = h
    BY <2>3, Zenon
  <2> HIDE DEF g
  <2>5. Flattening(ss, n + 1, g)
    BY <2>4, Zenon DEF Flattening
  <2> QED BY <2>5
<1> HIDE DEF T
<1>3. 1..N \subseteq T
  BY <1>1, <1>2, UpTo
<1>4. N \in T
  BY <1>3
<1> QED BY <1>4 DEF T

\* FlattenSeq is that function at the last place.
LEMMA FlattenIs ==
  ASSUME NEW ss, Len(ss) \in Nat, Len(ss) # 0
  PROVE  \E f : Flattening(ss, Len(ss), f) /\ FlattenSeq(ss) = f[Len(ss)]
<1> DEFINE N == Len(ss)
           F == CHOOSE f : Flattening(ss, N, f)
<1>1. FlattenSeq(ss) = F[N]
  BY Zenon DEF FlattenSeq, Flattening
<1>2. Flattening(ss, N, F)
  <2>1. \E f : Flattening(ss, N, f)
    BY FlatteningExists
  <2> QED BY <2>1, Zenon
<1> QED BY <1>1, <1>2

-----------------------------------------------------------------------------
(* What FlattenSeq returns *)

\* A sequence that grows.
Ascends(v) == \A p, q \in 1..Len(v) : p < q => v[p] < v[q]

\* Sequences of numbers, each ascending, no number in two of them.
Apart(ss) ==
  /\ \A i \in 1..Len(ss) : Ascends(ss[i])
  /\ \A i, j \in 1..Len(ss) : i # j => Range(ss[i]) \cap Range(ss[j]) = {}

\* v holds the numbers of the first n sequences, those of each in its order.
Joined(v, ss, n) ==
  /\ \A x : x \in Range(v) <=> \E i \in 1..n : x \in Range(ss[i])
  /\ \A p, q \in 1..Len(v) : p < q =>
       \A i \in 1..n : v[p] \in Range(ss[i]) /\ v[q] \in Range(ss[i]) => v[p] < v[q]

\* One more sequence is joined.
LEMMA JoinedStep ==
  ASSUME NEW ss \in Seq(Seq(Nat)), Apart(ss), NEW n \in 1..Len(ss)-1,
         NEW v \in Seq(Nat), Joined(v, ss, n)
  PROVE  Joined(v \o ss[n + 1], ss, n + 1)
<1> DEFINE t == ss[n + 1]
           w == v \o t
<1>0. t \in Seq(Nat) /\ n + 1 \in 1..Len(ss) /\ Len(ss) \in Nat /\ n \in Nat
  OBVIOUS
<1>1. /\ Len(w) = Len(v) + Len(t) /\ Len(v) \in Nat /\ Len(t) \in Nat
      /\ \A i \in 1..Len(v) : w[i] = v[i]
      /\ \A i \in 1..Len(t) : w[Len(v) + i] = t[i]
      /\ Range(w) = Range(v) \cup Range(t)
  BY <1>0, Concat
<1>2. \A x : x \in Range(w) <=> \E i \in 1..n+1 : x \in Range(ss[i])
  <2>1. 1..n+1 = 1..n \cup {n + 1}
    BY <1>0
  <2> QED BY <1>1, <2>1, Zenon DEF Joined
<1>3. ASSUME NEW p \in 1..Len(w), NEW q \in 1..Len(w), p < q, NEW i \in 1..n+1,
             w[p] \in Range(ss[i]), w[q] \in Range(ss[i])
      PROVE  w[p] < w[q]
  <2> HIDE DEF w
  <2>1. \A x \in Range(v) : \E j \in 1..n : x \in Range(ss[j])
    BY DEF Joined
  <2>2. \A x \in Range(v) : x \notin Range(t)
    <3>1. \A j \in 1..n : Range(ss[j]) \cap Range(ss[n + 1]) = {}
      <4>1. \A j \in 1..n : j \in 1..Len(ss) /\ j # n + 1
        BY <1>0
      <4> QED BY <4>1, <1>0 DEF Apart
    <3> QED BY <2>1, <3>1
  <2>3. \A j \in 1..Len(v) : v[j] \in Range(v)
    BY DEF Range
  <2>4. \A j \in 1..Len(t) : t[j] \in Range(t)
    <3>1. PICK u \in Seq(Nat) : u = t
      BY <1>0
    <3>2. \A j \in 1..Len(u) : u[j] \in Range(u)
      BY InRange
    <3> QED BY <3>1, <3>2
  <2>5. \/ p \in 1..Len(v) /\ q \in 1..Len(v)
        \/ p \in 1..Len(v) /\ q - Len(v) \in 1..Len(t)
        \/ p - Len(v) \in 1..Len(t) /\ q - Len(v) \in 1..Len(t)
    <3> DEFINE a == Len(v)
               b == Len(t)
    <3>1. a \in Nat /\ b \in Nat /\ p \in 1..a+b /\ q \in 1..a+b /\ p < q
      BY <1>1, <1>3
    <3> HIDE DEF a, b
    <3>2. \/ p \in 1..a /\ q \in 1..a
          \/ p \in 1..a /\ q - a \in 1..b
          \/ p - a \in 1..b /\ q - a \in 1..b
      BY <3>1
    <3> QED BY <3>2 DEF a, b
  <2>6. CASE p \in 1..Len(v) /\ q \in 1..Len(v)
    <3>1. w[p] = v[p] /\ w[q] = v[q]
      BY <2>6, <1>1
    <3>2. i # n + 1
      BY <3>1, <2>2, <2>3, <2>6, <1>3
    <3>3. i \in 1..n
      BY <3>2, <1>0
    <3> QED BY <3>1, <3>3, <2>6, <1>3 DEF Joined
  <2>7. CASE p \in 1..Len(v) /\ q - Len(v) \in 1..Len(t)
    <3>1. w[p] = v[p] /\ w[Len(v) + (q - Len(v))] = t[q - Len(v)]
      BY <2>7, <1>1
    <3>2. w[q] = t[q - Len(v)]
      BY <3>1, <1>1
    <3>3. w[q] \in Range(t) /\ w[p] \in Range(v)
      BY <3>1, <3>2, <2>3, <2>4, <2>7
    <3>4. i # n + 1
      BY <3>3, <2>2, <1>3
    <3>5. i \in 1..Len(ss) /\ n + 1 \in 1..Len(ss)
      BY <1>0
    <3>6. Range(ss[i]) \cap Range(ss[n + 1]) = {}
      BY <3>4, <3>5 DEF Apart
    <3> QED BY <3>3, <3>6, <1>3
  <2>8. CASE p - Len(v) \in 1..Len(t) /\ q - Len(v) \in 1..Len(t)
    <3>1. w[Len(v) + (p - Len(v))] = t[p - Len(v)] /\ w[Len(v) + (q - Len(v))] = t[q - Len(v)]
      BY <2>8, <1>1
    <3>2. w[q] = t[q - Len(v)] /\ w[p] = t[p - Len(v)] /\ p - Len(v) < q - Len(v)
      BY <3>1, <1>1, <1>3
    <3>3. Ascends(t)
      BY <1>0 DEF Apart
    <3> QED BY <3>2, <3>3, <2>8 DEF Ascends
  <2> QED BY <2>5, <2>6, <2>7, <2>8
<1> HIDE DEF w
<1>4. Joined(w, ss, n + 1)
  BY <1>2, <1>3, Zenon DEF Joined
<1> QED BY <1>4 DEF w

\* The first sequence alone.
LEMMA JoinedFirst ==
  ASSUME NEW ss \in Seq(Seq(Nat)), Apart(ss), Len(ss) # 0
  PROVE  Joined(ss[1], ss, 1)
<1>1. 1 \in 1..Len(ss) /\ 1..1 = {1}
  OBVIOUS
<1>2. \A p, q \in 1..Len(ss[1]) : p < q => ss[1][p] < ss[1][q]
  BY <1>1 DEF Apart, Ascends
<1> QED BY <1>1, <1>2 DEF Joined

\* FlattenSeq of such sequences.
LEMMA Flattened ==
  ASSUME NEW ss \in Seq(Seq(Nat)), Apart(ss)
  PROVE  FlattenSeq(ss) \in Seq(Nat) /\ Joined(FlattenSeq(ss), ss, Len(ss))
<1>1. CASE Len(ss) = 0
  <2>1. FlattenSeq(ss) = ss /\ ss = << >>
    <3>1. FlattenSeq(ss) = ss
      BY <1>1, Zenon DEF FlattenSeq
    <3> QED BY <3>1, <1>1
  <2>2. Range(ss) = {} /\ 1..Len(ss) = {}
    BY <2>1, <1>1 DEF Range
  <2>3. Joined(ss, ss, Len(ss))
    BY <2>2, Zenon DEF Joined
  <2> QED BY <2>1, <2>3
<1>2. CASE Len(ss) # 0
  <2> DEFINE N == Len(ss)
  <2>1. PICK f : Flattening(ss, N, f) /\ FlattenSeq(ss) = f[N]
    BY <1>2, FlattenIs
  <2> DEFINE T == {n \in 1..N : f[n] \in Seq(Nat) /\ Joined(f[n], ss, n)}
  <2>2. \A i \in 1..N : f[i] = IF i = 1 THEN ss[i] ELSE f[i - 1] \o ss[i]
    BY <2>1, Zenon DEF Flattening
  <2>3. N \in Nat /\ 1 \in 1..N
    BY <1>2
  <2>4. 1 \in T
    <3>1. f[1] = ss[1] /\ ss[1] \in Seq(Nat)
      BY <2>2, <2>3
    <3> QED BY <3>1, <2>3, <1>2, JoinedFirst
  <2>5. ASSUME NEW n \in 1..N-1, n \in T PROVE n + 1 \in T
    <3>1. n + 1 \in 1..N /\ n + 1 # 1 /\ n + 1 - 1 = n
      BY <2>3
    <3>a. f[n + 1] = f[n] \o ss[n + 1]
      <4>1. \A m \in 1..N : m # 1 => f[m] = f[m - 1] \o ss[m]
        BY <2>2, Zenon
      <4>2. PICK m \in 1..N : m # 1 /\ m = n + 1 /\ m - 1 = n
        BY <3>1
      <4>3. f[m] = f[m - 1] \o ss[m]
        BY <4>1, <4>2, Zenon
      <4> QED BY <4>2, <4>3, Zenon
    <3>b. ss[n + 1] \in Seq(Nat)
      BY <3>1
    <3>2. f[n + 1] = f[n] \o ss[n + 1] /\ ss[n + 1] \in Seq(Nat) /\ f[n] \in Seq(Nat)
      BY <3>a, <3>b, <2>5, Zenon
    <3>3. f[n + 1] \in Seq(Nat)
      BY <3>2
    <3>4. Joined(f[n + 1], ss, n + 1)
      BY <3>2, <2>5, JoinedStep
    <3> QED BY <3>1, <3>3, <3>4
  <2> HIDE DEF T
  <2>6. 1..N \subseteq T
    BY <2>3, <2>4, <2>5, UpTo
  <2>7. N \in T
    <3>1. N \in 1..N
      BY <2>3
    <3> QED BY <2>6, <3>1, Zenon
  <2> QED BY <2>1, <2>7 DEF T
<1> QED BY <1>1, <1>2

\* The dimensions a field may have after the lines d.
Dims(d) == [arch : {d[i].arch : i \in 1..Len(d)}, values : Seq(1..Len(d)), line : 1..Len(d)]

\* The fields of section s.
FieldsOf(s) == IF s = 0 THEN base ELSE blocks[s].fields

\* What the variables are.
ParseType ==
  /\ doc \in Seq(Range(doc))
  /\ pkgbase \in 0..Len(doc)
  /\ base \in [Projected -> Seq(Dims(doc))]
  /\ blocks \in Seq([line : 1..Len(doc), fields : [Projected -> Seq(Dims(doc))]])
  /\ ~done => packages = << >> /\ \A d \in diagnostics : d.line \in 1..Len(doc)

\* There is a block for each line that names a package, in their order.
SectionsInv ==
  /\ pkgbase # 0 <=> \E j \in DOMAIN doc : Has(j, "pkgbase")
  /\ Names = {blocks[b].line : b \in 1..Len(blocks)}
  /\ \A b \in 1..Len(blocks) : Section(blocks[b].line) = b
  /\ Cardinality(Names) = Len(blocks)

\* The conditions every line must meet whatever follows it: those of Correct that do
\* not wait for the end of the text.
Sound ==
  /\ \A i \in DOMAIN doc : Has(i, "pkgbase") <=> i = 1
  /\ \A i \in DOMAIN doc : Has(i, "pkgbase") => doc[i].value # ""
  /\ \A i \in Names : doc[i].value # ""
  /\ \A i, j \in Names : doc[i].value = doc[j].value => i = j
  /\ \A i \in DOMAIN doc : ParseKey(doc[i]) # "unknown" \/ doc[i].key \in {"pkgbase", "pkgname"}
  /\ \A i, j \in DOMAIN doc :
       doc[i].key = doc[j].key /\ doc[i].key \in Scalars /\ Section(i) = Section(j) => i = j
  /\ \A i \in DOMAIN doc : Section(i) # 0 => doc[i].key \notin Projected \ AllowedInPackage

\* A field holds what the lines I of d say, in their order.
Exact(d, field, I) ==
  /\ \A i \in I : \E p \in 1..Len(field) : field[p].arch = d[i].arch
  /\ \A p \in 1..Len(field) : \E i \in I : field[p].arch = d[i].arch
  /\ \A p, q \in 1..Len(field) : field[p].arch = field[q].arch => p = q
  /\ \A p \in 1..Len(field) :
       /\ Ascends(field[p].values)
       /\ Range(field[p].values) = {i \in I : d[i].value # "" /\ d[i].arch = field[p].arch}

\* Without a fatal report every field has what its section states, line by line.
ContentInv ==
  ~HasFatal => \A s \in 0..Len(blocks) : \A k \in Projected : Exact(doc, FieldsOf(s)[k], LinesOf(s, k))

\* The inductive invariant: before the end of the text a fatal report was made if and
\* only if the text read so far cannot become correct.
ParseInv ==
  /\ ParseType /\ SectionsInv /\ ContentInv
  /\ ~done => (HasFatal <=> ~Sound)
  /\ NothingLost
  /\ AcceptsExactly /\ StatesItsOwn

-----------------------------------------------------------------------------
(* A document with one more line *)

\* What one more line does to the text.
LEMMA Longer ==
  ASSUME doc \in Seq(Range(doc)), NEW l, doc' = Append(doc, l)
  PROVE  /\ doc' \in Seq(Range(doc)')
         /\ Len(doc) \in Nat /\ Len(doc)' = Len(doc) + 1
         /\ \A i \in 1..Len(doc) : doc'[i] = doc[i]
         /\ doc'[Len(doc) + 1] = l
         /\ DOMAIN doc = 1..Len(doc) /\ DOMAIN doc' = 1..Len(doc) + 1
<1> DEFINE T == Range(doc) \cup {l}
<1>1. doc \in Seq(T) /\ doc' = Append(doc, l) /\ l \in T
  OBVIOUS
<1>2. /\ doc' \in Seq(T) /\ Len(doc') = Len(doc) + 1 /\ Len(doc) \in Nat
      /\ \A i \in 1..Len(doc) : doc'[i] = doc[i]
      /\ doc'[Len(doc) + 1] = l
      /\ DOMAIN doc = 1..Len(doc) /\ DOMAIN doc' = 1..Len(doc) + 1
  <2> HIDE DEF T
  <2> QED BY <1>1
<1>3. doc' \in Seq(Range(doc'))
  BY <1>2 DEF Range
<1> QED BY <1>2, <1>3

\* What one more line does to the names and the sections.
LEMMA NamesStep ==
  ASSUME doc \in Seq(Range(doc)), NEW l, doc' = Append(doc, l), NEW n, n = Len(doc)
  PROVE  /\ Names' = Names \cup
              (IF l.key = "pkgname" /\ \E j \in DOMAIN doc : Has(j, "pkgbase")
                 THEN {n + 1} ELSE {})
         /\ Names \subseteq 1..Len(doc) /\ IsFiniteSet(Names) /\ IsFiniteSet(Names')
         /\ \A i \in 1..Len(doc) : Section(i)' = Section(i)
         /\ Section(n + 1)' = Cardinality(Names')
<1>0. /\ n \in Nat /\ \A i \in 1..n : doc'[i] = doc[i]
      /\ doc'[n + 1] = l
      /\ DOMAIN doc = 1..n /\ DOMAIN doc' = 1..n+1
  BY Longer
<1>1. Names' = {i \in 1..n+1 : doc'[i].key = "pkgname" /\ \E j \in 1..i : doc'[j].key = "pkgbase"}
  BY <1>0 DEF Names, Has
<1>2. Names = {i \in 1..n : doc[i].key = "pkgname" /\ \E j \in 1..i : doc[j].key = "pkgbase"}
  BY <1>0 DEF Names, Has
<1>3. ASSUME NEW i \in 1..n PROVE i \in Names' <=> i \in Names
  <2>1. \A j \in 1..i : doc'[j] = doc[j]
    BY <1>0
  <2> QED BY <1>0, <1>1, <1>2, <2>1
<1>4. n + 1 \in Names' <=> l.key = "pkgname" /\ \E j \in 1..n : doc[j].key = "pkgbase"
  <2>1. n + 1 \in Names' <=> l.key = "pkgname" /\ \E j \in 1..n+1 : doc'[j].key = "pkgbase"
    BY <1>0, <1>1
  <2>2. 1..n+1 = 1..n \cup {n + 1}
    BY <1>0
  <2>3. "pkgname" # "pkgbase"
    OBVIOUS
  <2> QED BY <1>0, <2>1, <2>2, <2>3
<1>5. Names' \subseteq 1..n+1 /\ Names \subseteq 1..n /\ n + 1 \notin Names /\ 1..n+1 = 1..n \cup {n + 1}
  BY <1>0, <1>1, <1>2
<1>6. Names' = Names \cup
              (IF l.key = "pkgname" /\ \E j \in 1..n : doc[j].key = "pkgbase"
                 THEN {n + 1} ELSE {})
  BY <1>3, <1>4, <1>5
<1>7. IsFiniteSet(1..n) /\ IsFiniteSet(1..n+1)
  BY <1>0, FS_Interval
<1>8. IsFiniteSet(Names) /\ IsFiniteSet(Names')
  BY <1>5, <1>7, FS_Subset
<1>9. ASSUME NEW i \in 1..n PROVE Section(i)' = Section(i)
  <2>1. Names' \cap 1..i = Names \cap 1..i
    BY <1>0, <1>3
  <2> QED BY <2>1 DEF Section
<1>10. Section(n + 1)' = Cardinality(Names')
  <2>1. Names' \cap 1..n+1 = Names'
    BY <1>5
  <2> QED BY <2>1 DEF Section
<1> QED BY <1>0, <1>5, <1>6, <1>8, <1>9, <1>10 DEF Has

\* The section of a line is one of those that have begun.
LEMMA SectionBound ==
  ASSUME doc \in Seq(Range(doc)), NEW i \in 1..Len(doc)
  PROVE  Section(i) \in 0..Cardinality(Names) /\ Cardinality(Names) \in Nat
<1>1. IsFiniteSet(1..Len(doc))
  BY FS_Interval
<1>2. Names \subseteq 1..Len(doc)
  BY DEF Names
<1>3. IsFiniteSet(Names)
  BY <1>1, <1>2, FS_Subset
<1>4. Names \cap 1..i \subseteq Names
  OBVIOUS
<1>5. Cardinality(Names \cap 1..i) <= Cardinality(Names) /\ IsFiniteSet(Names \cap 1..i)
  BY <1>3, <1>4, FS_Subset
<1>6. Cardinality(Names \cap 1..i) \in Nat /\ Cardinality(Names) \in Nat
  BY <1>3, <1>5, FS_CardinalityType
<1> QED BY <1>5, <1>6 DEF Section

\* What one more line does to the lines of a field.
LEMMA LinesStep ==
  ASSUME doc \in Seq(Range(doc)), NEW l, doc' = Append(doc, l), NEW n, n = Len(doc), NEW s, NEW k
  PROVE  LinesOf(s, k)' = LinesOf(s, k) \cup
           (IF l.key = k /\ Section(n + 1)' = s THEN {n + 1} ELSE {})
<1>0. /\ n \in Nat /\ \A i \in 1..n : doc'[i] = doc[i]
      /\ doc'[n + 1] = l
      /\ DOMAIN doc = 1..n /\ DOMAIN doc' = 1..n+1
  BY Longer
<1>1. \A i \in 1..n : Section(i)' = Section(i)
  BY NamesStep
<1>2. LinesOf(s, k)' = {i \in 1..n+1 : doc'[i].key = k /\ Section(i)' = s}
  BY <1>0 DEF LinesOf, Has
<1>3. LinesOf(s, k) = {i \in 1..n : doc[i].key = k /\ Section(i) = s}
  BY <1>0 DEF LinesOf, Has
<1>4. n + 1 \in LinesOf(s, k)' <=> l.key = k /\ Section(n + 1)' = s
  BY <1>0, <1>2
<1>5. \A i \in 1..n : i \in LinesOf(s, k)' <=> i \in LinesOf(s, k)
  BY <1>0, <1>1, <1>2, <1>3
<1>6. LinesOf(s, k)' \subseteq 1..n+1 /\ LinesOf(s, k) \subseteq 1..n /\ 1..n+1 = 1..n \cup {n + 1}
  BY <1>0, <1>2, <1>3
<1> QED BY <1>4, <1>5, <1>6

-----------------------------------------------------------------------------
(* One more line of a field *)

\* Sequences of a larger set.
LEMMA SeqGrows ==
  ASSUME NEW A, NEW B, A \subseteq B
  PROVE  Seq(A) \subseteq Seq(B)
OBVIOUS

\* A dimension stays one when the text grows.
LEMMA DimsGrow ==
  ASSUME doc \in Seq(Range(doc)), NEW l, doc' = Append(doc, l)
  PROVE  Dims(doc) \subseteq Dims(doc') /\ Seq(Dims(doc)) \subseteq Seq(Dims(doc'))
<1> DEFINE n == Len(doc)
<1>0. /\ n \in Nat /\ Len(doc') = n + 1 /\ \A i \in 1..n : doc'[i] = doc[i]
  BY Longer
<1> HIDE DEF n
<1>1. 1..n \subseteq 1..n+1
  BY <1>0
<1>z. \A i \in 1..n : i \in 1..n+1
  BY <1>0
<1>2. {doc[i].arch : i \in 1..n} \subseteq {doc'[i].arch : i \in 1..n+1}
  BY <1>0, <1>z, Zenon
<1>3. Seq(1..n) \subseteq Seq(1..n+1)
  BY <1>1, SeqGrows
<1>4. Dims(doc) \subseteq Dims(doc')
  BY <1>0, <1>1, <1>2, <1>3 DEF Dims, n
<1>5. Seq(Dims(doc)) \subseteq Seq(Dims(doc'))
  BY <1>4, SeqGrows
<1> QED BY <1>4, <1>5

\* The dimension a line begins.
LEMMA NewDimension ==
  ASSUME doc \in Seq(Range(doc)), NEW l, doc' = Append(doc, l), NEW n, n = Len(doc)
  PROVE  /\ Dimension(l) \in Dims(doc') /\ Value(l) \in Seq(1..n+1)
         /\ Dimension(l).arch = l.arch /\ Dimension(l).values = Value(l)
         /\ Dimension(l).line = n + 1
         /\ Range(Value(l)) = {i \in {n + 1} : l.value # ""}
         /\ Ascends(Value(l))
<1>0. /\ n \in Nat /\ Len(doc') = n + 1 /\ doc'[n + 1] = l
  BY Longer
<1>1. Value(l) = IF l.value = "" THEN << >> ELSE <<n + 1>>
  BY DEF Value, Number
<1>2. n + 1 \in 1..n+1
  BY <1>0
<1> DEFINE e == << >>
           o == <<n + 1>>
<1>a. e \in Seq(1..n+1) /\ DOMAIN e = {} /\ Len(e) = 0
  OBVIOUS
<1>b. o \in Seq(1..n+1) /\ DOMAIN o = {1} /\ Len(o) = 1 /\ o[1] = n + 1
  BY <1>2
<1>c. l.value = "" => Value(l) = e
  BY <1>1, Zenon
<1>d. l.value # "" => Value(l) = o
  BY <1>1, Zenon
<1> HIDE DEF e, o
<1>3. Value(l) \in Seq(1..n+1)
  BY <1>a, <1>b, <1>c, <1>d
<1>4. Range(Value(l)) = {i \in {n + 1} : l.value # ""}
  BY <1>a, <1>b, <1>c, <1>d DEF Range
<1>5. Ascends(Value(l))
  <2>1. Ascends(e)
    BY <1>a DEF Ascends
  <2>2. Ascends(o)
    <3>1. 1..1 = {1}
      OBVIOUS
    <3> QED BY <1>b, <3>1 DEF Ascends
  <2> QED BY <2>1, <2>2, <1>c, <1>d, Zenon
<1>6. l.arch \in {doc'[i].arch : i \in 1..n+1}
  BY <1>0, <1>2
<1>7. Dimension(l) \in Dims(doc')
  BY <1>0, <1>2, <1>3, <1>6 DEF Dimension, Dims, Number
<1> QED BY <1>3, <1>4, <1>5, <1>7 DEF Dimension, Number

\* A field that has the suffix: its dimension grows.
LEMMA AppendToDimension ==
  ASSUME doc \in Seq(Range(doc)), NEW l, doc' = Append(doc, l), NEW n, n = Len(doc),
         NEW field \in Seq(Dims(doc)), \E p \in 1..Len(field) : field[p].arch = l.arch
  PROVE  /\ AppendArch(field, l) \in Seq(Dims(doc'))
         /\ Len(AppendArch(field, l)) = Len(field)
         /\ \A p \in 1..Len(field) :
              /\ AppendArch(field, l)[p].arch = field[p].arch
              /\ AppendArch(field, l)[p].values =
                   IF field[p].arch = l.arch THEN field[p].values \o Value(l) ELSE field[p].values
              /\ field[p].values \in Seq(1..n) /\ field[p].values \in Seq(1..n+1)
<1> DEFINE g == AppendArch(field, l)
           D == Dims(doc')
           V == Value(l)
           N == Len(field)
           G(p) == IF field[p].arch = l.arch
                     THEN [field[p] EXCEPT !.values = @ \o V] ELSE field[p]
<1>0. /\ n \in Nat /\ Len(doc') = n + 1 /\ N \in Nat /\ DOMAIN field = 1..N
  BY Longer
<1>1. g = [p \in 1..N |-> G(p)]
  BY <1>0 DEF AppendArch
<1>2. V \in Seq(1..n+1)
  BY NewDimension
<1>3. field \in Seq(D)
  BY DimsGrow
<1> HIDE DEF V, g
<1>4. ASSUME NEW p \in 1..N
      PROVE  /\ G(p) \in D /\ G(p).arch = field[p].arch
             /\ G(p).values = IF field[p].arch = l.arch THEN field[p].values \o V ELSE field[p].values
             /\ field[p].values \in Seq(1..n) /\ field[p].values \in Seq(1..n+1)
  <2>1. field[p] \in D /\ field[p] \in Dims(doc)
    BY <1>3
  <2>2. field[p].values \in Seq(1..n+1) /\ field[p].values \in Seq(1..n)
    BY <2>1, <1>0 DEF Dims
  <2>3. field[p].values \o V \in Seq(1..n+1)
    BY <2>2, <1>2
  <2>4. G(p) \in D
    BY <2>1, <2>3, <1>0 DEF Dims
  <2>5. G(p).arch = field[p].arch
    BY <2>1 DEF Dims
  <2>6. G(p).values = IF field[p].arch = l.arch THEN field[p].values \o V ELSE field[p].values
    BY <2>1 DEF Dims
  <2> QED BY <2>2, <2>4, <2>5, <2>6
<1> HIDE DEF D, G
<1>5. g \in Seq(D) /\ Len(g) = N
  BY <1>0, <1>1, <1>4
<1>6. \A p \in 1..N : g[p] = G(p)
  BY <1>1
<1>7. \A p \in 1..N :
        /\ g[p].arch = field[p].arch
        /\ g[p].values = IF field[p].arch = l.arch THEN field[p].values \o V ELSE field[p].values
        /\ field[p].values \in Seq(1..n) /\ field[p].values \in Seq(1..n+1)
  BY <1>4, <1>6
<1> QED BY <1>5, <1>7 DEF g, D, V

\* A field that does not have the suffix: a dimension is added.
LEMMA AppendDimension ==
  ASSUME doc \in Seq(Range(doc)), NEW l, doc' = Append(doc, l), NEW n, n = Len(doc),
         NEW field \in Seq(Dims(doc)), ~ \E p \in 1..Len(field) : field[p].arch = l.arch
  PROVE  /\ AppendArch(field, l) \in Seq(Dims(doc'))
         /\ Len(AppendArch(field, l)) = Len(field) + 1
         /\ \A p \in 1..Len(field) : AppendArch(field, l)[p] = field[p]
         /\ AppendArch(field, l)[Len(field) + 1] = Dimension(l)
<1> DEFINE D == Dims(doc')
           d == Dimension(l)
<1>1. AppendArch(field, l) = Append(field, d)
  BY DEF AppendArch
<1>2. field \in Seq(D)
  BY DimsGrow
<1>3. d \in D
  BY NewDimension
<1> HIDE DEF D, d
<1>4. /\ Append(field, d) \in Seq(D) /\ Len(Append(field, d)) = Len(field) + 1
      /\ \A p \in 1..Len(field) : Append(field, d)[p] = field[p]
      /\ Append(field, d)[Len(field) + 1] = d
  BY <1>2, <1>3
<1> QED BY <1>1, <1>4 DEF D, d

\* The field g has what the field f has.
Covers(g, f) ==
  \A d \in Range(f) : \E e \in Range(g) : e.arch = d.arch /\ Range(d.values) \subseteq Range(e.values)

\* The field g has the line l, of number i.
HasLine(g, l, i) ==
  \E e \in Range(g) : e.arch = l.arch /\ (l.value # "" => i \in Range(e.values))

\* What was held stays, and the line is held.
LEMMA AppendArchKeeps ==
  ASSUME doc \in Seq(Range(doc)), NEW l, doc' = Append(doc, l), NEW n, n = Len(doc),
         NEW field \in Seq(Dims(doc))
  PROVE  /\ AppendArch(field, l) \in Seq(Dims(doc'))
         /\ Covers(AppendArch(field, l), field)
         /\ HasLine(AppendArch(field, l), l, n + 1)
<1> DEFINE g == AppendArch(field, l)
           V == Value(l)
<1>0. Range(V) = {i \in {n + 1} : l.value # ""} /\ V \in Seq(1..n+1)
  BY NewDimension
<1>1. CASE \E p \in 1..Len(field) : field[p].arch = l.arch
  <2>1. /\ g \in Seq(Dims(doc'))
        /\ Len(g) = Len(field)
        /\ \A p \in 1..Len(field) :
              /\ g[p].arch = field[p].arch
              /\ g[p].values =
                   IF field[p].arch = l.arch THEN field[p].values \o V ELSE field[p].values
              /\ field[p].values \in Seq(1..n+1)
    BY <1>1, AppendToDimension
  <2> HIDE DEF g, V
  <2>2. ASSUME NEW p \in 1..Len(field)
        PROVE  /\ g[p] \in Range(g) /\ g[p].arch = field[p].arch
               /\ Range(field[p].values) \subseteq Range(g[p].values)
               /\ field[p].arch = l.arch => Range(V) \subseteq Range(g[p].values)
    <3>1. g[p] \in Range(g)
      BY <2>1 DEF Range
    <3>2. Range(field[p].values \o V) = Range(field[p].values) \cup Range(V)
      <4>1. field[p].values \in Seq(1..n+1) /\ V \in Seq(1..n+1)
        BY <2>1, <1>0
      <4> QED BY ONLY <4>1, Concat
    <3> QED BY <3>1, <3>2, <2>1
  <2>3. ASSUME NEW d \in Range(field)
        PROVE  \E e \in Range(g) : e.arch = d.arch /\ Range(d.values) \subseteq Range(e.values)
    <3>1. PICK p \in 1..Len(field) : d = field[p]
      BY DEF Range
    <3> QED BY <3>1, <2>2
  <2>4. \E e \in Range(g) : e.arch = l.arch /\ (l.value # "" => n + 1 \in Range(e.values))
    <3>1. PICK p \in 1..Len(field) : field[p].arch = l.arch
      BY <1>1
    <3>2. g[p] \in Range(g) /\ g[p].arch = l.arch /\ Range(V) \subseteq Range(g[p].values)
      BY <2>2, <3>1
    <3> QED BY <3>2, <1>0
  <2> QED BY <2>1, <2>3, <2>4 DEF g, Covers, HasLine
<1>2. CASE ~ \E p \in 1..Len(field) : field[p].arch = l.arch
  <2>1. /\ g \in Seq(Dims(doc'))
        /\ Len(g) = Len(field) + 1
        /\ \A p \in 1..Len(field) : g[p] = field[p]
        /\ g[Len(field) + 1] = Dimension(l)
    BY <1>2, AppendDimension
  <2>2. Dimension(l).arch = l.arch /\ Dimension(l).values = V
    BY NewDimension
  <2> HIDE DEF g, V
  <2>3. Len(field) \in Nat /\ Len(field) + 1 \in 1..Len(g) /\ \A p \in 1..Len(field) : p \in 1..Len(g)
    BY <2>1
  <2>4. \A p \in 1..Len(g) : g[p] \in Range(g)
    BY <2>1 DEF Range
  <2>5. ASSUME NEW d \in Range(field)
        PROVE  d \in Range(g)
    <3>1. PICK p \in 1..Len(field) : d = field[p]
      BY DEF Range
    <3> QED BY <3>1, <2>1, <2>3, <2>4
  <2>6. Dimension(l) \in Range(g)
    BY <2>1, <2>3, <2>4
  <2>7. l.value # "" => n + 1 \in Range(V)
    BY <1>0
  <2>8. \E e \in Range(g) : e.arch = l.arch /\ (l.value # "" => n + 1 \in Range(e.values))
    BY <2>2, <2>6, <2>7, Zenon
  <2> QED BY <2>1, <2>5, <2>8 DEF g, Covers, HasLine
<1> QED BY <1>1, <1>2

\* What a field says stays what the text says.
LEMMA AppendArchExact ==
  ASSUME doc \in Seq(Range(doc)), NEW l, doc' = Append(doc, l), NEW n, n = Len(doc),
         NEW field \in Seq(Dims(doc)), NEW I, I \subseteq 1..n, Exact(doc, field, I)
  PROVE  Exact(doc', AppendArch(field, l), I \cup {n + 1})
<1> DEFINE g == AppendArch(field, l)
           V == Value(l)
           J == I \cup {n + 1}
           N == Len(field)
           Said(a) == {i \in I : doc[i].value # "" /\ doc[i].arch = a}
           Says(a) == {i \in J : doc'[i].value # "" /\ doc'[i].arch = a}
<1>0. /\ n \in Nat /\ \A i \in 1..n : doc'[i] = doc[i]
      /\ doc'[n + 1] = l /\ n + 1 \in J /\ n + 1 \notin I
  BY Longer
<1>1. Range(V) = {i \in {n + 1} : l.value # ""} /\ V \in Seq(1..n+1) /\ Ascends(V)
  BY NewDimension
<1>2. \A i \in I : doc'[i] = doc[i]
  BY <1>0
<1>3. \A a : Says(a) = IF a = l.arch THEN Said(a) \cup Range(V) ELSE Said(a)
  BY <1>0, <1>1, <1>2
<1>4. /\ \A i \in I : \E p \in 1..N : field[p].arch = doc[i].arch
      /\ \A p \in 1..N : \E i \in I : field[p].arch = doc[i].arch
      /\ \A p, q \in 1..N : field[p].arch = field[q].arch => p = q
      /\ \A p \in 1..N : Ascends(field[p].values) /\ Range(field[p].values) = Said(field[p].arch)
  BY DEF Exact
<1> SUFFICES /\ \A i \in J : \E p \in 1..Len(g) : g[p].arch = doc'[i].arch
             /\ \A p \in 1..Len(g) : \E i \in J : g[p].arch = doc'[i].arch
             /\ \A p, q \in 1..Len(g) : g[p].arch = g[q].arch => p = q
             /\ \A p \in 1..Len(g) : Ascends(g[p].values) /\ Range(g[p].values) = Says(g[p].arch)
  BY DEF Exact
<1>5. CASE \E p \in 1..N : field[p].arch = l.arch
  <2>1. /\ Len(g) = N
        /\ \A p \in 1..N :
              /\ g[p].arch = field[p].arch
              /\ g[p].values =
                   IF field[p].arch = l.arch THEN field[p].values \o V ELSE field[p].values
              /\ field[p].values \in Seq(1..n) /\ field[p].values \in Seq(1..n+1)
    BY <1>5, AppendToDimension
  <2> HIDE DEF g, V, J, Said, Says, N
  <2>2. \A i \in J : \E p \in 1..N : g[p].arch = doc'[i].arch
    BY <2>1, <1>0, <1>2, <1>4, <1>5 DEF J
  <2>3. \A p \in 1..N : \E i \in J : g[p].arch = doc'[i].arch
    BY <2>1, <1>2, <1>4 DEF J
  <2>4. \A p, q \in 1..N : g[p].arch = g[q].arch => p = q
    BY <2>1, <1>4
  <2>5. ASSUME NEW p \in 1..N
        PROVE  Ascends(g[p].values) /\ Range(g[p].values) = Says(g[p].arch)
    <3>1. CASE field[p].arch # l.arch
      BY <3>1, <2>1, <1>3, <1>4
    <3>2. CASE field[p].arch = l.arch
      <4> DEFINE v == field[p].values
      <4>1. v \in Seq(1..n) /\ v \in Seq(1..n+1) /\ g[p].values = v \o V /\ Ascends(v)
        BY <2>1, <3>2, <1>4
      <4>2. Range(v) = Said(l.arch) /\ g[p].arch = l.arch
        BY <1>4, <3>2, <2>1
      <4> HIDE DEF v
      <4>3. /\ Len(v \o V) = Len(v) + Len(V)
            /\ \A i \in 1..Len(v) : (v \o V)[i] = v[i]
            /\ \A i \in 1..Len(V) : (v \o V)[Len(v) + i] = V[i]
            /\ Range(v \o V) = Range(v) \cup Range(V)
        <5>1. V \in Seq(1..n+1)
          BY <1>1
        <5> QED BY ONLY <4>1, <5>1, Concat
      <4>4. Range(g[p].values) = Says(g[p].arch)
        BY <4>1, <4>2, <4>3, <1>3
      <4>5. ASSUME NEW x \in 1..Len(v \o V), NEW y \in 1..Len(v \o V), x < y
            PROVE  (v \o V)[x] < (v \o V)[y]
        <5> DEFINE a == Len(v)
                   b == Len(V)
        <5>1. a \in Nat /\ b \in Nat /\ x \in 1..a+b /\ y \in 1..a+b /\ x < y
          <6>1. a \in Nat /\ b \in Nat
            <7>1. v \in Seq(1..n) /\ V \in Seq(1..n+1)
              BY <4>1, <1>1, Zenon
            <7> QED BY ONLY <7>1
          <6>2. Len(v \o V) = a + b
            BY <4>3
          <6> HIDE DEF a, b
          <6> QED BY <6>1, <6>2, <4>5
        <5>2. \/ x \in 1..a /\ y \in 1..a
              \/ x \in 1..a /\ y - a \in 1..b
              \/ x - a \in 1..b /\ y - a \in 1..b
          <6> HIDE DEF a, b
          <6> QED BY <5>1
        <5>3. CASE x \in 1..a /\ y \in 1..a
          BY <5>3, <4>1, <4>3, <4>5 DEF Ascends
        <5>4. CASE x \in 1..a /\ y - a \in 1..b
          <6>1. (v \o V)[x] = v[x] /\ (v \o V)[a + (y - a)] = V[y - a] /\ a + (y - a) = y
            BY <5>1, <5>4, <4>3
          <6>2. v[x] \in 1..n
            BY <5>4, <4>1
          <6>3. V[y - a] \in Range(V)
            BY <5>4, <1>1, InRange
          <6>4. V[y - a] = n + 1
            BY <6>3, <1>1
          <6> QED BY <6>1, <6>2, <6>4, <1>0
        <5>5. CASE x - a \in 1..b /\ y - a \in 1..b
          <6>1. /\ (v \o V)[a + (x - a)] = V[x - a] /\ a + (x - a) = x
                /\ (v \o V)[a + (y - a)] = V[y - a] /\ a + (y - a) = y
                /\ x - a < y - a
            BY <5>1, <5>5, <4>3
          <6> QED BY <6>1, <5>5, <1>1 DEF Ascends
        <5> QED BY <5>2, <5>3, <5>4, <5>5
      <4>6. Ascends(v \o V)
        BY <4>5, Zenon DEF Ascends
      <4> QED BY <4>1, <4>4, <4>6
    <3> QED BY <3>1, <3>2
  <2> QED BY <2>1, <2>2, <2>3, <2>4, <2>5
<1>6. CASE ~ \E p \in 1..N : field[p].arch = l.arch
  <2>1. /\ Len(g) = N + 1
        /\ \A p \in 1..N : g[p] = field[p]
        /\ g[N + 1] = Dimension(l)
    BY <1>6, AppendDimension
  <2>2. Dimension(l).arch = l.arch /\ Dimension(l).values = V
    BY NewDimension
  <2>3. N \in Nat
    OBVIOUS
  <2> HIDE DEF g, V, J, Said, Says, N
  <2>4. g[N + 1].arch = l.arch /\ g[N + 1].values = V
    BY <2>1, <2>2
  <2>5. 1..N+1 = 1..N \cup {N + 1} /\ N + 1 \notin 1..N
    BY <2>3
  <2>6. \A i \in J : \E p \in 1..N+1 : g[p].arch = doc'[i].arch
    <3>1. ASSUME NEW i \in I PROVE \E p \in 1..N+1 : g[p].arch = doc'[i].arch
      <4>1. PICK p \in 1..N : field[p].arch = doc[i].arch
        BY <1>4
      <4>2. p \in 1..N+1 /\ g[p].arch = doc'[i].arch
        BY <4>1, <2>1, <2>5, <1>2
      <4> QED BY <4>2, Zenon
    <3>2. \E p \in 1..N+1 : g[p].arch = doc'[n + 1].arch
      <4>1. N + 1 \in 1..N+1 /\ g[N + 1].arch = doc'[n + 1].arch
        BY <2>4, <2>5, <1>0
      <4> QED BY <4>1, Zenon
    <3> QED BY <3>1, <3>2 DEF J
  <2>7. \A p \in 1..N+1 : \E i \in J : g[p].arch = doc'[i].arch
    <3>1. \A p \in 1..N : \E i \in J : g[p].arch = doc'[i].arch
      BY <2>1, <1>2, <1>4 DEF J
    <3>2. \E i \in J : g[N + 1].arch = doc'[i].arch
      BY <2>4, <1>0
    <3> QED BY <3>1, <3>2, <2>5
  <2>8. \A p \in 1..N : g[p].arch # l.arch
    BY <1>6, <2>1
  <2>9. \A p, q \in 1..N+1 : g[p].arch = g[q].arch => p = q
    <3>1. \A p, q \in 1..N : g[p].arch = g[q].arch => p = q
      BY <2>1, <1>4
    <3> QED BY <3>1, <2>4, <2>5, <2>8
  <2>10. \A p \in 1..N+1 : Ascends(g[p].values) /\ Range(g[p].values) = Says(g[p].arch)
    <3>1. \A p \in 1..N : Ascends(g[p].values) /\ Range(g[p].values) = Says(g[p].arch)
      BY <2>1, <2>8, <1>3, <1>4
    <3>2. Said(l.arch) = {}
      <4>1. \A i \in I : doc[i].arch # l.arch
        BY <1>4, <1>6
      <4> QED BY <4>1 DEF Said
    <3>3. Ascends(g[N + 1].values) /\ Range(g[N + 1].values) = Says(g[N + 1].arch)
      BY <2>4, <3>2, <1>1, <1>3
    <3> QED BY <3>1, <3>3, <2>5
  <2> QED BY <2>1, <2>6, <2>7, <2>9, <2>10
<1> QED BY <1>5, <1>6

\* What is read later changes no field.
LEMMA ExactStays ==
  ASSUME NEW d, NEW e, NEW field, NEW I, Exact(d, field, I), \A i \in I : e[i] = d[i]
  PROVE  Exact(e, field, I)
<1>1. /\ \A i \in I : \E p \in 1..Len(field) : field[p].arch = d[i].arch
      /\ \A p \in 1..Len(field) : \E i \in I : field[p].arch = d[i].arch
      /\ \A p, q \in 1..Len(field) : field[p].arch = field[q].arch => p = q
      /\ \A p \in 1..Len(field) :
           /\ Ascends(field[p].values)
           /\ Range(field[p].values) = {i \in I : d[i].value # "" /\ d[i].arch = field[p].arch}
  BY Zenon DEF Exact
<1>2. ASSUME NEW a
      PROVE  {i \in I : e[i].value # "" /\ e[i].arch = a}
               = {i \in I : d[i].value # "" /\ d[i].arch = a}
  OBVIOUS
<1>3. \A i \in I : \E p \in 1..Len(field) : field[p].arch = e[i].arch
  BY <1>1
<1>4. ASSUME NEW p \in 1..Len(field)
      PROVE  \E i \in I : field[p].arch = e[i].arch
  <2>1. PICK i \in I : field[p].arch = d[i].arch
    BY <1>1
  <2> QED BY <2>1
<1>5. \A p \in 1..Len(field) :
       /\ Ascends(field[p].values)
       /\ Range(field[p].values) = {i \in I : e[i].value # "" /\ e[i].arch = field[p].arch}
  BY <1>1, <1>2, Zenon
<1> QED BY <1>1, <1>3, <1>4, <1>5, Zenon DEF Exact

\* No lines, no field.
LEMMA ExactEmpty ==
  ASSUME NEW d, NEW T, NEW field \in Seq(T), NEW I, Exact(d, field, I)
  PROVE  field = << >> <=> I = {}
<1>1. ASSUME field = << >> PROVE I = {}
  <2>1. 1..Len(field) = {}
    BY <1>1
  <2> QED BY <2>1 DEF Exact
<1>2. ASSUME I = {} PROVE field = << >>
  <2>1. 1..Len(field) = {}
    BY <1>2 DEF Exact
  <2>2. Len(field) \in Nat
    OBVIOUS
  <2>3. Len(field) = 0
    BY <2>1, <2>2
  <2> QED BY <2>3
<1> QED BY <1>1, <1>2

\* An empty field says what no line says.
LEMMA NothingExact ==
  ASSUME NEW d
  PROVE  Exact(d, << >>, {})
<1>1. 1..Len(<< >>) = {}
  OBVIOUS
<1> QED BY <1>1 DEF Exact

-----------------------------------------------------------------------------
(* What one more line changes: types and sections *)

\* The packages the parser may have.
Blocks(d) == [line : 1..Len(d), fields : [Projected -> Seq(Dims(d))]]

\* Fields and blocks stay what they are when the text grows.
LEMMA FieldsGrow ==
  ASSUME doc \in Seq(Range(doc)), NEW l, doc' = Append(doc, l)
  PROVE  /\ [Projected -> Seq(Dims(doc))] \subseteq [Projected -> Seq(Dims(doc'))]
         /\ Seq(Blocks(doc)) \subseteq Seq(Blocks(doc'))
<1>1. [Projected -> Seq(Dims(doc))] \subseteq [Projected -> Seq(Dims(doc'))]
  <2> DEFINE A == Seq(Dims(doc))
             B == Seq(Dims(doc'))
  <2>1. A \subseteq B
    BY DimsGrow
  <2> HIDE DEF A, B
  <2>2. [Projected -> A] \subseteq [Projected -> B]
    BY <2>1
  <2> QED BY <2>2 DEF A, B
<1>2. Blocks(doc) \subseteq Blocks(doc')
  <2> DEFINE A == [Projected -> Seq(Dims(doc))]
             B == [Projected -> Seq(Dims(doc'))]
             n == Len(doc)
  <2>1. n \in Nat /\ Len(doc') = n + 1
    BY Longer
  <2>2. A \subseteq B
    BY <1>1
  <2> HIDE DEF A, B, n
  <2>3. [line : 1..n, fields : A] \subseteq [line : 1..n+1, fields : B]
    BY <2>1, <2>2
  <2> QED BY <2>1, <2>3, Zenon DEF Blocks, A, B, n
<1> QED BY <1>1, <1>2, SeqGrows

\* assign_projected_field changes the field of the line alone.
LEMMA AssignedIs ==
  ASSUME doc \in Seq(Range(doc)), NEW l, doc' = Append(doc, l), l.key \in Projected,
         NEW fields \in [Projected -> Seq(Dims(doc))]
  PROVE  /\ Assigned(fields, l) \in [Projected -> Seq(Dims(doc'))]
         /\ \A k \in Projected \ {l.key} : Assigned(fields, l)[k] = fields[k]
         /\ l.key \in Scalars => Assigned(fields, l)[l.key] = <<Dimension(l)>>
         /\ l.key \notin Scalars => Assigned(fields, l)[l.key] = AppendArch(fields[l.key], l)
<1> DEFINE new == IF l.key \in Scalars THEN <<Dimension(l)>> ELSE AppendArch(fields[l.key], l)
           B == Seq(Dims(doc'))
<1>1. Assigned(fields, l) = [fields EXCEPT ![l.key] = new]
  BY DEF Assigned
<1>2. fields \in [Projected -> B]
  BY FieldsGrow
<1>3. new \in B
  <2>1. Dimension(l) \in Dims(doc')
    BY NewDimension
  <2>2. <<Dimension(l)>> \in B
    BY <2>1
  <2>3. AppendArch(fields[l.key], l) \in B
    BY AppendArchKeeps
  <2> QED BY <2>2, <2>3
<1>4. /\ l.key \in Scalars => new = <<Dimension(l)>>
      /\ l.key \notin Scalars => new = AppendArch(fields[l.key], l)
  BY Zenon
<1> HIDE DEF new, B
<1>5. /\ [fields EXCEPT ![l.key] = new] \in [Projected -> B]
      /\ \A k \in Projected \ {l.key} : [fields EXCEPT ![l.key] = new][k] = fields[k]
      /\ [fields EXCEPT ![l.key] = new][l.key] = new
  BY <1>2, <1>3
<1> QED BY <1>1, <1>4, <1>5, Zenon DEF B

\* How the blocks of a package may change with a line.
SameBlocks == Len(blocks') = Len(blocks) /\ \A b \in 1..Len(blocks) : blocks'[b].line = blocks[b].line

\* There is still a block for each line that names a package.
LEMMA SectionsRead ==
  ASSUME ParseType, SectionsInv, NEW l, doc' = Append(doc, l), NEW n, n = Len(doc),
         pkgbase' # 0 <=> pkgbase # 0 \/ l.key = "pkgbase",
         IF l.key = "pkgname" /\ pkgbase # 0
           THEN blocks' = Append(blocks, [line |-> n + 1, fields |-> NoFields])
           ELSE SameBlocks
  PROVE  SectionsInv'
<1>0. /\ n \in Nat /\ Len(doc)' = n + 1 /\ \A i \in 1..n : doc'[i] = doc[i]
      /\ doc'[n + 1] = l
      /\ DOMAIN doc = 1..n /\ DOMAIN doc' = 1..n+1 /\ doc \in Seq(Range(doc))
  BY Longer DEF ParseType
<1>1. pkgbase' # 0 <=> \E j \in DOMAIN doc' : Has(j, "pkgbase")'
  <2>1. 1..n+1 = 1..n \cup {n + 1}
    BY <1>0
  <2>2. pkgbase # 0 <=> \E j \in 1..n : doc'[j].key = "pkgbase"
    BY <1>0 DEF SectionsInv, Has
  <2>3. pkgbase' # 0 <=> \E j \in 1..n+1 : doc'[j].key = "pkgbase"
    BY <1>0, <2>1, <2>2
  <2> QED BY <1>0, <2>3 DEF Has
<1>2. /\ Names' = Names \cup
              (IF l.key = "pkgname" /\ pkgbase # 0 THEN {n + 1} ELSE {})
      /\ Names \subseteq 1..n /\ IsFiniteSet(Names)
      /\ \A i \in 1..n : Section(i)' = Section(i)
      /\ Section(n + 1)' = Cardinality(Names')
  BY <1>0, NamesStep DEF SectionsInv
<1>3. /\ Names = {blocks[b].line : b \in 1..Len(blocks)}
      /\ \A b \in 1..Len(blocks) : Section(blocks[b].line) = b
      /\ Cardinality(Names) = Len(blocks)
  BY DEF SectionsInv
<1>4. \A b \in 1..Len(blocks) : blocks[b].line \in 1..n
  BY <1>2, <1>3
<1>5. CASE l.key = "pkgname" /\ pkgbase # 0
  <2>m. PICK m \in Nat : m = Len(blocks)
    BY DEF ParseType
  <2> DEFINE new == [line |-> n + 1, fields |-> NoFields]
  <2>1. m \in Nat
    OBVIOUS
  <2>2. /\ Len(blocks') = m + 1 /\ \A b \in 1..m : blocks'[b] = blocks[b]
        /\ blocks'[m + 1] = new
    <3>1. blocks' = Append(blocks, new)
      BY <1>5
    <3>2. blocks \in Seq(Range(blocks) \cup {new})
      BY DEF ParseType, Range
    <3> HIDE DEF new
    <3> QED BY <3>1, <3>2, <2>m
  <2>3. new.line = n + 1
    OBVIOUS
  <2> HIDE DEF new
  <2>4. 1..m+1 = 1..m \cup {m + 1}
    BY <2>1
  <2>5. Names' = Names \cup {n + 1} /\ n + 1 \notin Names
    BY <1>0, <1>2, <1>5
  <2>6. Names' = {blocks'[b].line : b \in 1..m+1}
    <3>1. {blocks'[b].line : b \in 1..m+1} = {blocks[b].line : b \in 1..m} \cup {n + 1}
      BY <2>2, <2>3, <2>4
    <3> QED BY <2>5, <2>m, <3>1, <1>3
  <2>7. Cardinality(Names') = m + 1
    <3>1. Cardinality(Names \cup {n + 1}) = Cardinality(Names) + 1
      BY <2>5, <1>2, FS_AddElement
    <3> QED BY <2>5, <2>m, <3>1, <1>3
  <2>8. \A b \in 1..m+1 : Section(blocks[b].line)' = b
    <3>1. ASSUME NEW b \in 1..m PROVE Section(blocks[b].line)' = b
      <4>1. blocks[b].line \in 1..n /\ Section(blocks[b].line) = b
        BY <1>3, <1>4, <2>m
      <4>2. PICK i \in 1..n : i = blocks[b].line
        BY <4>1
      <4>3. Section(i)' = b
        BY <4>1, <4>2, <1>2
      <4>4. blocks'[b].line = i
        BY <2>2, <4>2
      <4> QED BY <4>3, <4>4 DEF Section
    <3>2. Section(blocks[m + 1].line)' = m + 1
      <4>1. Section(n + 1)' = m + 1
        BY <1>2, <2>7
      <4> QED BY <4>1, <2>2, <2>3 DEF Section
    <3> QED BY <3>1, <3>2, <2>4
  <2> QED BY <1>1, <2>2, <2>6, <2>7, <2>8 DEF SectionsInv
<1>6. CASE ~(l.key = "pkgname" /\ pkgbase # 0)
  <2>1. Len(blocks') = Len(blocks) /\ \A b \in 1..Len(blocks) : blocks'[b].line = blocks[b].line
    BY <1>6 DEF SameBlocks
  <2>2. Names' = Names
    BY <1>2, <1>6
  <2>3. {blocks'[b].line : b \in 1..Len(blocks)} = {blocks[b].line : b \in 1..Len(blocks)}
    BY <2>1
  <2>4. \A b \in 1..Len(blocks) : Section(blocks[b].line)' = b
    <3>1. TAKE b \in 1..Len(blocks)
    <3>2. PICK i \in 1..n : i = blocks[b].line
      BY <1>4
    <3>3. Section(i)' = b
      BY <1>2, <1>3, <3>2
    <3>4. blocks'[b].line = i
      BY <2>1, <3>2
    <3> QED BY <3>3, <3>4 DEF Section
  <2> QED BY <1>1, <1>3, <2>1, <2>2, <2>3, <2>4 DEF SectionsInv
<1> QED BY <1>5, <1>6

\* A step that reads the line l.
Reads(l) ==
  \/ MalformedLine(l) \/ Pkgbase(l) \/ BeforePkgbase(l) \/ Pkgname(l)
  \/ UnknownField(l) \/ NotInPackage(l) \/ Ignore(l) \/ Assign(l)

-----------------------------------------------------------------------------
(* What one more line changes: types, sections and reports *)

\* A report adds one diagnostic, at the line that is read.
LEMMA ReportIs ==
  ASSUME NEW severity, NEW code, Report(severity, code), NEW n, n = Len(doc)
  PROVE  \E r : /\ r.line = n + 1 /\ r.severity = severity
                /\ diagnostics' = diagnostics \cup {r}
<1> DEFINE r == Diagnostic(severity, code, n + 1)
<1>1. r.line = n + 1 /\ r.severity = severity
  BY DEF Diagnostic
<1>2. diagnostics' = diagnostics \cup {r}
  BY DEF Report, Number
<1> HIDE DEF r
<1> QED BY <1>1, <1>2

\* At most one diagnostic is added, at the new line.
Adds(n) == diagnostics' = diagnostics \/ \E r : r.line = n + 1 /\ diagnostics' = diagnostics \cup {r}

\* What every line does.
LEMMA ReadAdds ==
  ASSUME NEW l, Reads(l), NEW n, n = Len(doc)
  PROVE  /\ Adds(n) /\ ~done /\ doc' = Append(doc, l)
         /\ packages' = packages /\ done' = done
<1>1. ASSUME NEW severity, NEW code, Report(severity, code) PROVE Adds(n)
  BY <1>1, ReportIs DEF Adds
<1>2. UNCHANGED diagnostics => Adds(n)
  BY DEF Adds
<1>3. Take(l)
  BY DEF Reads, MalformedLine, Pkgbase, BeforePkgbase, Pkgname, UnknownField, NotInPackage,
         Ignore, Assign
<1>4. Adds(n)
  BY <1>1, <1>2 DEF Reads, MalformedLine, Pkgbase, BeforePkgbase, Pkgname, UnknownField,
                    NotInPackage, Ignore, Assign
<1> QED BY <1>3, <1>4 DEF Take

\* What a block is made of.
LEMMA BlockOf ==
  ASSUME NEW K, NEW G, NEW s \in Seq([line : K, fields : G]), NEW m \in 1..Len(s)
  PROVE  s[m] \in [line : K, fields : G] /\ s[m].fields \in G /\ s[m].line \in K
<1> DEFINE R == [line : K, fields : G]
<1>1. s \in Seq(R)
  OBVIOUS
<1> HIDE DEF R
<1>2. s[m] \in R
  BY <1>1
<1> QED BY <1>2 DEF R

\* The block that is being read gets the line.
LEMMA AssignIs ==
  ASSUME ParseType, NEW l, Assign(l)
  PROVE  /\ base' \in [Projected -> Seq(Dims(doc'))] /\ blocks' \in Seq(Blocks(doc'))
         /\ SameBlocks /\ pkgbase' = pkgbase
         /\ IF blocks = << >> THEN blocks' = blocks /\ base' = Assigned(base, l)
            ELSE /\ base' = base
                 /\ \A b \in 1..Len(blocks)-1 : blocks'[b] = blocks[b]
                 /\ blocks'[Len(blocks)].fields = Assigned(blocks[Len(blocks)].fields, l)
<1>0. doc \in Seq(Range(doc)) /\ doc' = Append(doc, l) /\ l.key \in Projected
  BY DEF ParseType, Assign, Take
<1>1. base \in [Projected -> Seq(Dims(doc))] /\ blocks \in Seq(Blocks(doc))
  BY DEF ParseType, Blocks
<1>2. base \in [Projected -> Seq(Dims(doc'))] /\ blocks \in Seq(Blocks(doc'))
  BY <1>0, <1>1, FieldsGrow
<1>3. pkgbase' = pkgbase
  BY DEF Assign
<1>4. CASE blocks = << >>
  <2>1. base' = Assigned(base, l) /\ blocks' = blocks
    BY <1>4 DEF Assign, InPackage
  <2>2. base' \in [Projected -> Seq(Dims(doc'))]
    BY <2>1, <1>0, <1>1, AssignedIs
  <2> QED BY <1>2, <1>3, <1>4, <2>1, <2>2 DEF SameBlocks
<1>5. CASE blocks # << >>
  <2> DEFINE m == Len(blocks)
             new == Assigned(blocks[m].fields, l)
             B == Blocks(doc')
             F == [Projected -> Seq(Dims(doc'))]
             L == 1..Len(doc')
  <2>1. blocks' = [blocks EXCEPT ![m] = [blocks[m] EXCEPT !.fields = new]] /\ base' = base
    BY <1>5 DEF Assign, InPackage
  <2>2. m \in Nat /\ m \in 1..m
    BY <1>1, <1>5
  <2>3. blocks[m].fields \in [Projected -> Seq(Dims(doc))]
    <3> DEFINE G == [Projected -> Seq(Dims(doc))]
               K == 1..Len(doc)
    <3>1. blocks \in Seq([line : K, fields : G])
      BY <1>1 DEF Blocks
    <3> HIDE DEF G, K, m
    <3>2. blocks[m].fields \in G
      <4>1. m \in 1..Len(blocks)
        BY <2>2 DEF m
      <4> QED BY <3>1, <4>1, BlockOf
    <3> QED BY <3>2 DEF G
  <2>4. new \in F
    BY <1>0, <2>3, AssignedIs
  <2>5. B = [line : L, fields : F]
    BY DEF Blocks
  <2>6. blocks \in Seq(B)
    BY <1>2
  <2> HIDE DEF m, new, B, F, L
  <2>7. [blocks[m] EXCEPT !.fields = new] \in B
    <3>1. blocks[m] \in [line : L, fields : F]
      <4>1. blocks \in Seq(B) /\ m \in 1..Len(blocks)
        BY <2>2, <2>6 DEF m
      <4>2. blocks[m] \in B
        BY <4>1
      <4> QED BY <4>2, <2>5
    <3> QED BY <3>1, <2>4, <2>5
  <2>8. [blocks[m] EXCEPT !.fields = new].fields = new
        /\ [blocks[m] EXCEPT !.fields = new].line = blocks[m].line
    <3>1. blocks[m] \in [line : L, fields : F]
      <4>1. blocks \in Seq(B) /\ m \in 1..Len(blocks)
        BY <2>2, <2>6 DEF m
      <4>2. blocks[m] \in B
        BY <4>1
      <4> QED BY <4>2, <2>5
    <3> QED BY <3>1
  <2>9. /\ blocks' \in Seq(B) /\ Len(blocks') = m
        /\ \A b \in 1..m-1 : blocks'[b] = blocks[b]
        /\ blocks'[m] = [blocks[m] EXCEPT !.fields = new]
    BY <2>1, <2>2, <2>6, <2>7 DEF m
  <2>10. \A b \in 1..m : blocks'[b].line = blocks[b].line
    <3>1. \A b \in 1..m : b = m \/ b \in 1..m-1
      BY <2>2
    <3> QED BY <3>1, <2>8, <2>9
  <2>11. SameBlocks
    BY <2>9, <2>10 DEF SameBlocks, m
  <2>12. blocks'[m].fields = new
    BY <2>8, <2>9
  <2> QED BY <1>2, <1>3, <1>5, <2>1, <2>9, <2>11, <2>12 DEF m, new, B
<1> QED BY <1>4, <1>5

\* The fields of a block that has just begun.
LEMMA NoFieldsType ==
  ASSUME NEW d
  PROVE  NoFields \in [Projected -> Seq(Dims(d))] /\ \A k \in Projected : NoFields[k] = << >>
<1>1. << >> \in Seq(Dims(d))
  OBVIOUS
<1> QED BY <1>1 DEF NoFields

\* The blocks of a line that is not assigned.
LEMMA OtherBlocks ==
  ASSUME ParseType, SectionsInv, NEW l, Reads(l), ~Assign(l), NEW n, n = Len(doc)
  PROVE  /\ base' = base
         /\ IF l.key = "pkgname" /\ pkgbase # 0
              THEN blocks' = Append(blocks, [line |-> n + 1, fields |-> NoFields])
              ELSE blocks' = blocks
<1>1. CASE Pkgname(l)
  BY <1>1 DEF Pkgname, Number
<1>2. CASE MalformedLine(l)
  BY <1>2 DEF MalformedLine, Broken
<1>3. CASE Pkgbase(l)
  BY <1>3 DEF Pkgbase
<1>4. CASE BeforePkgbase(l)
  BY <1>4 DEF BeforePkgbase
<1>5. CASE UnknownField(l) \/ NotInPackage(l) \/ Ignore(l)
  BY <1>5 DEF UnknownField, NotInPackage, Ignore, Field
<1> QED BY <1>1, <1>2, <1>3, <1>4, <1>5 DEF Reads

\* The number of the pkgbase line.
LEMMA PkgbaseIs ==
  ASSUME NEW l, Reads(l), NEW n, n = Len(doc), n \in Nat
  PROVE  /\ pkgbase' = pkgbase \/ (pkgbase = 0 /\ pkgbase' = n + 1)
         /\ pkgbase' # 0 <=> pkgbase # 0 \/ l.key = "pkgbase"
<1>1. CASE Pkgbase(l)
  <2>1. l.key = "pkgbase" /\ ((pkgbase # 0 /\ pkgbase' = pkgbase) \/ (pkgbase = 0 /\ pkgbase' = n + 1))
    BY <1>1, Zenon DEF Pkgbase, Number
  <2> QED BY <2>1
<1>2. CASE MalformedLine(l)
  BY <1>2 DEF MalformedLine, Broken
<1>3. CASE BeforePkgbase(l) \/ UnknownField(l) \/ NotInPackage(l) \/ Ignore(l) \/ Pkgname(l) \/ Assign(l)
  BY <1>3 DEF BeforePkgbase, UnknownField, NotInPackage, Ignore, Assign, Field, Pkgname
<1> QED BY <1>1, <1>2, <1>3 DEF Reads

\* A line keeps the types, and the blocks as the names have them.
LEMMA TypeRead ==
  ASSUME ParseType, SectionsInv, NEW l, Reads(l)
  PROVE  ParseType' /\ SectionsInv'
<1> DEFINE F == [Projected -> Seq(Dims(doc'))]
<1>n. PICK n \in Nat : n = Len(doc)
  BY DEF ParseType
<1>0. /\ doc \in Seq(Range(doc)) /\ Adds(n) /\ ~done /\ doc' = Append(doc, l)
      /\ packages' = packages /\ done' = done
  BY <1>n, ReadAdds DEF ParseType
<1>1. doc' \in Seq(Range(doc)') /\ Len(doc') = n + 1
  BY <1>n, <1>0, Longer
<1>2. /\ pkgbase' = pkgbase \/ pkgbase' = n + 1
      /\ pkgbase' # 0 <=> pkgbase # 0 \/ l.key = "pkgbase"
  BY <1>n, PkgbaseIs
<1>3. pkgbase' \in 0..n+1
  BY <1>n, <1>2 DEF ParseType
<1>4. packages' = << >> /\ \A d \in diagnostics' : d.line \in 1..n+1
  <2>1. packages = << >> /\ \A d \in diagnostics : d.line \in 1..n
    BY <1>n, <1>0 DEF ParseType
  <2> QED BY <2>1, <1>0 DEF Adds
<1>5. base \in F /\ blocks \in Seq(Blocks(doc'))
  BY <1>0, FieldsGrow DEF ParseType, Blocks
<1>6. /\ base' \in F /\ blocks' \in Seq(Blocks(doc'))
      /\ IF l.key = "pkgname" /\ pkgbase # 0
           THEN blocks' = Append(blocks, [line |-> n + 1, fields |-> NoFields])
           ELSE SameBlocks
  <2>1. CASE Assign(l)
    <3>1. l.key # "pkgname"
      BY <2>1 DEF Assign, Field
    <3> QED BY <2>1, <3>1, AssignIs
  <2>2. CASE ~Assign(l)
    <3>1. /\ base' = base
          /\ IF l.key = "pkgname" /\ pkgbase # 0
               THEN blocks' = Append(blocks, [line |-> n + 1, fields |-> NoFields])
               ELSE blocks' = blocks
      BY <2>2, <1>n, OtherBlocks
    <3>2. [line |-> n + 1, fields |-> NoFields] \in Blocks(doc')
      <4>1. NoFields \in F /\ n + 1 \in 1..Len(doc')
        BY <1>1, NoFieldsType
      <4> HIDE DEF F
      <4>2. [line |-> n + 1, fields |-> NoFields] \in [line : 1..Len(doc'), fields : F]
        BY <4>1
      <4> QED BY <4>2 DEF F, Blocks
    <3> DEFINE B == Blocks(doc')
               new == [line |-> n + 1, fields |-> NoFields]
    <3>3. blocks \in Seq(B) /\ new \in B
      BY <1>5, <3>2
    <3> HIDE DEF B, new
    <3>4. Append(blocks, new) \in Seq(B)
      BY <3>3
    <3>5. blocks' = blocks => SameBlocks
      BY DEF SameBlocks
    <3> QED BY <1>5, <3>1, <3>4, <3>5 DEF B, new
  <2> QED BY <2>1, <2>2
<1>7. SectionsInv'
  BY <1>n, <1>0, <1>2, <1>6, SectionsRead
<1>8. ParseType'
  BY <1>0, <1>1, <1>3, <1>4, <1>6 DEF ParseType, Blocks
<1> QED BY <1>7, <1>8

-----------------------------------------------------------------------------
(* Whether the text is sound, line by line *)

\* A line that goes well with those before it.
LineOK(l) ==
  /\ l.key = "pkgbase" <=> doc = << >>
  /\ l.key = "pkgbase" => l.value # ""
  /\ l.key = "pkgname" => l.value # "" /\ \A i \in Names : doc[i].value # l.value
  /\ ParseKey(l) # "unknown" \/ l.key \in {"pkgbase", "pkgname"}
  /\ l.key \in Scalars => LinesOf(Len(blocks), l.key) = {}
  /\ blocks # << >> => l.key \notin Projected \ AllowedInPackage

\* The text stays sound when the line goes well with it.
LEMMA SoundRead ==
  ASSUME ParseType, SectionsInv, NEW l, doc' = Append(doc, l)
  PROVE  Sound' <=> Sound /\ LineOK(l)
<1>n. PICK n \in Nat : n = Len(doc)
  BY DEF ParseType
<1>m. PICK m \in Nat : m = Len(blocks)
  BY DEF ParseType
<1>0. /\ \A i \in 1..n : doc'[i] = doc[i]
      /\ doc'[n + 1] = l /\ doc \in Seq(Range(doc))
      /\ DOMAIN doc = 1..n /\ DOMAIN doc' = 1..n+1
      /\ 1..n+1 = 1..n \cup {n + 1} /\ n + 1 \notin 1..n
      /\ doc = << >> <=> n = 0
  <2>1. doc = << >> <=> n = 0
    BY <1>n DEF ParseType
  <2> QED BY <1>n, <2>1, Longer DEF ParseType
<1> DEFINE Begins == l.key = "pkgname" /\ \E j \in 1..n : doc[j].key = "pkgbase"
<1>1. /\ Names' = Names \cup (IF Begins THEN {n + 1} ELSE {})
      /\ Names \subseteq 1..n /\ n + 1 \notin Names
      /\ \A i \in 1..n : Section(i)' = Section(i)
      /\ Section(n + 1)' = Cardinality(Names')
  <2>1. /\ Names' = Names \cup
              (IF l.key = "pkgname" /\ \E j \in DOMAIN doc : Has(j, "pkgbase")
                 THEN {n + 1} ELSE {})
        /\ Names \subseteq 1..n
        /\ \A i \in 1..n : Section(i)' = Section(i)
        /\ Section(n + 1)' = Cardinality(Names')
    BY <1>n, <1>0, NamesStep
  <2>2. Begins <=> l.key = "pkgname" /\ \E j \in DOMAIN doc : Has(j, "pkgbase")
    BY <1>0 DEF Has
  <2> HIDE DEF Begins
  <2> QED BY <2>1, <2>2, <1>0
<1>2. l.key # "pkgname" => Section(n + 1)' = m
  <2>1. Cardinality(Names) = m
    BY <1>m DEF SectionsInv
  <2> QED BY <2>1, <1>1
<1>3. blocks # << >> <=> m # 0
  BY <1>m DEF ParseType
<1>4. \A k : LinesOf(m, k) = {i \in 1..n : doc[i].key = k /\ Section(i) = m}
  BY <1>0 DEF LinesOf, Has
<1>5. \A k \in Scalars : k # "pkgname" /\ k # "pkgbase"
  BY DEF Scalars
<1>6. "pkgname" \notin Projected /\ "pkgname" # "pkgbase"
  BY DEF Projected, Scalars, Lists, ArchFields, Inherited
<1> DEFINE
  S1 == \A i \in 1..n : doc[i].key = "pkgbase" <=> i = 1
  S2 == \A i \in 1..n : doc[i].key = "pkgbase" => doc[i].value # ""
  S3 == \A i \in Names : doc[i].value # ""
  S4 == \A i, j \in Names : doc[i].value = doc[j].value => i = j
  S5 == \A i \in 1..n : ParseKey(doc[i]) # "unknown" \/ doc[i].key \in {"pkgbase", "pkgname"}
  S6 == \A i, j \in 1..n :
          doc[i].key = doc[j].key /\ doc[i].key \in Scalars /\ Section(i) = Section(j) => i = j
  S7 == \A i \in 1..n : Section(i) # 0 => doc[i].key \notin Projected \ AllowedInPackage
  T1 == \A i \in 1..n+1 : doc'[i].key = "pkgbase" <=> i = 1
  T2 == \A i \in 1..n+1 : doc'[i].key = "pkgbase" => doc'[i].value # ""
  T3 == \A i \in Names' : doc'[i].value # ""
  T4 == \A i, j \in Names' : doc'[i].value = doc'[j].value => i = j
  T5 == \A i \in 1..n+1 : ParseKey(doc'[i]) # "unknown" \/ doc'[i].key \in {"pkgbase", "pkgname"}
  T6 == \A i, j \in 1..n+1 :
          doc'[i].key = doc'[j].key /\ doc'[i].key \in Scalars /\ Section(i)' = Section(j)' => i = j
  T7 == \A i \in 1..n+1 : Section(i)' # 0 => doc'[i].key \notin Projected \ AllowedInPackage
<1>7. Sound <=> S1 /\ S2 /\ S3 /\ S4 /\ S5 /\ S6 /\ S7
  BY <1>0, Zenon DEF Sound, Has
<1>8. Sound' <=> T1 /\ T2 /\ T3 /\ T4 /\ T5 /\ T6 /\ T7
  BY <1>0, Zenon DEF Sound, Has
<1>11. T1 <=> S1 /\ (l.key = "pkgbase" <=> doc = << >>)
  <2>1. n + 1 = 1 <=> n = 0
    OBVIOUS
  <2> QED BY <1>0, <2>1
<1>12. T2 <=> S2 /\ (l.key = "pkgbase" => l.value # "")
  BY <1>0
<1>13. S1 /\ (l.key = "pkgbase" <=> doc = << >>) => (Begins <=> l.key = "pkgname")
  BY <1>0, <1>6
<1>14. ASSUME Begins <=> l.key = "pkgname"
       PROVE  T3 /\ T4 <=> S3 /\ S4 /\ (l.key = "pkgname" => l.value # "" /\ \A i \in Names : doc[i].value # l.value)
  <2> HIDE DEF Begins
  <2>1. \A i \in Names : doc'[i] = doc[i]
    BY <1>0, <1>1
  <2>2. CASE l.key = "pkgname"
    <3>1. Names' = Names \cup {n + 1} /\ n + 1 \notin Names
      BY <1>1, <1>14, <2>2
    <3>2. T3 <=> S3 /\ l.value # ""
      BY <3>1, <2>1, <1>0
    <3>3. T4 => S4 /\ \A i \in Names : doc[i].value # l.value
      <4> SUFFICES ASSUME T4 PROVE S4 /\ \A i \in Names : doc[i].value # l.value
        OBVIOUS
      <4>1. S4
        BY <3>1, <2>1
      <4>2. \A i \in Names : doc[i].value # l.value
        BY <3>1, <2>1, <1>0
      <4> QED BY <4>1, <4>2
    <3>4. S4 /\ (\A i \in Names : doc[i].value # l.value) => T4
      <4> SUFFICES ASSUME S4, \A i \in Names : doc[i].value # l.value,
                          NEW i \in Names', NEW j \in Names', doc'[i].value = doc'[j].value
                   PROVE  i = j
        OBVIOUS
      <4>1. CASE i \in Names /\ j \in Names
        BY <4>1, <2>1
      <4>2. CASE i \in Names /\ j = n + 1
        BY <4>2, <2>1, <1>0
      <4>3. CASE i = n + 1 /\ j \in Names
        BY <4>3, <2>1, <1>0
      <4> QED BY <4>1, <4>2, <4>3, <3>1
    <3> HIDE DEF T3, T4, S3, S4
    <3> QED BY <3>2, <3>3, <3>4, <2>2
  <2>3. CASE l.key # "pkgname"
    <3>1. Names' = Names
      BY <1>1, <1>14, <2>3
    <3>2. T3 <=> S3
      BY <3>1, <2>1, Zenon
    <3>3. T4 <=> S4
      <4>1. T4 => S4
        BY <3>1, <2>1
      <4>2. S4 => T4
        <5> SUFFICES ASSUME S4, NEW i \in Names', NEW j \in Names', doc'[i].value = doc'[j].value
                     PROVE  i = j
          OBVIOUS
        <5>1. i \in Names /\ j \in Names /\ doc'[i] = doc[i] /\ doc'[j] = doc[j]
          BY <3>1, <2>1
        <5> QED BY <5>1
      <4> HIDE DEF T4, S4
      <4> QED BY <4>1, <4>2
    <3> HIDE DEF T3, T4, S3, S4
    <3> QED BY <3>2, <3>3, <2>3
  <2> QED BY <2>2, <2>3
<1>15. T5 <=> S5 /\ (ParseKey(l) # "unknown" \/ l.key \in {"pkgbase", "pkgname"})
  BY <1>0
<1>16. T6 <=> S6 /\ (l.key \in Scalars => LinesOf(m, l.key) = {})
  <2>1. T6 => S6 /\ (l.key \in Scalars => LinesOf(m, l.key) = {})
    <3> SUFFICES ASSUME T6 PROVE S6 /\ (l.key \in Scalars => LinesOf(m, l.key) = {})
      OBVIOUS
    <3>1. S6
      BY <1>0, <1>1
    <3>2. ASSUME l.key \in Scalars, NEW i \in 1..n, doc[i].key = l.key, Section(i) = m PROVE FALSE
      <4>1. Section(i)' = m /\ Section(n + 1)' = m /\ i # n + 1
        BY <3>2, <1>0, <1>1, <1>2, <1>5
      <4>2. doc'[i].key = doc'[n + 1].key /\ doc'[i].key \in Scalars
        BY <3>2, <1>0
      <4> QED BY <4>1, <4>2, <1>0
    <3> QED BY <3>1, <3>2, <1>4
  <2>2. S6 /\ (l.key \in Scalars => LinesOf(m, l.key) = {}) => T6
    <3> SUFFICES ASSUME S6, l.key \in Scalars => LinesOf(m, l.key) = {},
                        NEW i \in 1..n+1, NEW j \in 1..n+1,
                        doc'[i].key = doc'[j].key, doc'[i].key \in Scalars, Section(i)' = Section(j)'
                 PROVE  i = j
      OBVIOUS
    <3>1. CASE i \in 1..n /\ j \in 1..n
      BY <3>1, <1>0, <1>1
    <3>2. CASE i = n + 1 /\ j = n + 1
      BY <3>2
    <3>3. ASSUME NEW a \in 1..n, doc[a].key = l.key, l.key \in Scalars, Section(a)' = Section(n + 1)'
          PROVE FALSE
      <4>1. Section(a) = m
        BY <3>3, <1>1, <1>2, <1>5
      <4>2. a \in LinesOf(m, l.key)
        BY <4>1, <3>3, <1>4
      <4>3. LinesOf(m, l.key) = {}
        BY <3>3
      <4> QED BY <4>2, <4>3
    <3>4. CASE i \in 1..n /\ j = n + 1
      BY <3>3, <3>4, <1>0
    <3>5. CASE j \in 1..n /\ i = n + 1
      BY <3>3, <3>5, <1>0
    <3> QED BY <3>1, <3>2, <3>4, <3>5, <1>0
  <2> QED BY <2>1, <2>2
<1>17. T7 <=> S7 /\ (blocks # << >> => l.key \notin Projected \ AllowedInPackage)
  <2>1. Section(n + 1)' # 0 /\ l.key \in Projected => m # 0
    BY <1>2, <1>6
  <2>2. m # 0 /\ l.key \in Projected => Section(n + 1)' # 0
    BY <1>2, <1>6
  <2>3. T7 <=> S7 /\ (Section(n + 1)' # 0 => l.key \notin Projected \ AllowedInPackage)
    BY <1>0, <1>1
  <2> QED BY <2>1, <2>2, <2>3, <1>3
<1> HIDE DEF S1, S2, S3, S4, S5, S6, S7, T1, T2, T3, T4, T5, T6, T7, Begins
<1>18. LineOK(l) <=>
        /\ l.key = "pkgbase" <=> doc = << >>
        /\ l.key = "pkgbase" => l.value # ""
        /\ l.key = "pkgname" => l.value # "" /\ \A i \in Names : doc[i].value # l.value
        /\ ParseKey(l) # "unknown" \/ l.key \in {"pkgbase", "pkgname"}
        /\ l.key \in Scalars => LinesOf(m, l.key) = {}
        /\ blocks # << >> => l.key \notin Projected \ AllowedInPackage
  BY <1>m, Zenon DEF LineOK
<1> QED BY <1>7, <1>8, <1>11, <1>12, <1>13, <1>14, <1>15, <1>16, <1>17, <1>18, Zenon

-----------------------------------------------------------------------------
(* A diagnostic that is fatal, and the text that is not sound *)

\* After a report something fatal was reported if it is, or was before.
LEMMA ReportFatal ==
  ASSUME NEW severity, NEW code, Report(severity, code)
  PROVE  HasFatal' <=> HasFatal \/ severity = "fatal"
<1>1. PICK n : n = Len(doc)
  OBVIOUS
<1>2. PICK r : r.severity = severity /\ diagnostics' = diagnostics \cup {r}
  BY <1>1, ReportIs
<1> QED BY <1>2 DEF HasFatal

\* Without a report nothing changes.
LEMMA SameFatal ==
  ASSUME UNCHANGED diagnostics
  PROVE  HasFatal' <=> HasFatal
BY DEF HasFatal

\* The key of a field is one the parser knows.
LEMMA Keys ==
  ASSUME NEW l
  PROVE  /\ l.key \in Broken => ParseKey(l) = "unknown"
         /\ ParseKey(l) # "unknown" => ParseKey(l) = l.key /\ l.key \in Known
         /\ "pkgname" \notin Projected /\ "pkgbase" \notin Projected
         /\ Scalars \subseteq Projected
         /\ Broken \cap Projected = {} /\ Broken \cap {"pkgbase", "pkgname"} = {}
<1>1. Broken \cap Known = {} /\ "unknown" \notin Known
  BY DEF Broken, Known, Projected, Scalars, Lists, ArchFields, Inherited, AllowedInPackage,
         ArchitectureCapable
<1>2. /\ "pkgname" \notin Projected /\ "pkgbase" \notin Projected
      /\ Scalars \subseteq Projected
      /\ Broken \cap Projected = {} /\ Broken \cap {"pkgbase", "pkgname"} = {}
  BY DEF Broken, Projected, Scalars, Lists, ArchFields, Inherited
<1>3. ParseKey(l) = IF l.key \in Known /\ (l.arch = "" \/ l.key \in ArchitectureCapable)
                      THEN l.key ELSE "unknown"
  BY DEF ParseKey
<1> QED BY <1>1, <1>2, <1>3

\* The places of the lines and of the blocks.
LEMMA Domains ==
  ASSUME ParseType
  PROVE  /\ DOMAIN doc = 1..Len(doc) /\ Len(doc) \in Nat /\ doc \in Seq(Range(doc))
         /\ DOMAIN blocks = 1..Len(blocks) /\ Len(blocks) \in Nat
         /\ doc = << >> <=> Len(doc) = 0
         /\ blocks = << >> <=> Len(blocks) = 0
<1> DEFINE B == [line : 1..Len(doc), fields : [Projected -> Seq(Dims(doc))]]
<1>1. doc \in Seq(Range(doc)) /\ blocks \in Seq(B)
  BY DEF ParseType
<1> HIDE DEF B
<1> QED BY <1>1

\* Where the text is sound and no line has given the base a name, nothing was read.
LEMMA NotBegun ==
  ASSUME ParseType, SectionsInv, Sound
  PROVE  pkgbase = 0 <=> doc = << >>
<1>1. pkgbase # 0 <=> \E j \in 1..Len(doc) : doc[j].key = "pkgbase"
  BY Domains DEF SectionsInv, Has
<1>2. \A i \in 1..Len(doc) : doc[i].key = "pkgbase" <=> i = 1
  BY Domains, Zenon DEF Sound, Has
<1>3. ASSUME doc # << >> PROVE 1 \in 1..Len(doc)
  BY <1>3, Domains
<1>4. ASSUME doc = << >> PROVE 1..Len(doc) = {}
  BY <1>4
<1> QED BY <1>1, <1>2, <1>3, <1>4

\* What the fields hold while nothing is wrong.
LEMMA ContentIs ==
  ASSUME ParseType, ContentInv, ~HasFatal
  PROVE  /\ \A k \in Projected : Exact(doc, base[k], LinesOf(0, k))
         /\ \A s \in 1..Len(blocks) : \A k \in Projected :
              Exact(doc, blocks[s].fields[k], LinesOf(s, k))
<1>1. Len(blocks) \in Nat
  BY DEF ParseType
<1>2. \A k \in Projected : Exact(doc, FieldsOf(0)[k], LinesOf(0, k))
  BY <1>1 DEF ContentInv
<1>3. \A s \in 1..Len(blocks) : s \in 0..Len(blocks) /\ s # 0
  BY <1>1
<1>4. \A s \in 1..Len(blocks) : \A k \in Projected : Exact(doc, FieldsOf(s)[k], LinesOf(s, k))
  BY <1>3 DEF ContentInv
<1> QED BY <1>2, <1>3, <1>4 DEF FieldsOf

\* What the fields of the sections are.
LEMMA FieldsType ==
  ASSUME ParseType
  PROVE  /\ Len(blocks) \in Nat /\ \A k \in Projected : base[k] \in Seq(Dims(doc))
         /\ \A s \in 1..Len(blocks) : /\ blocks[s].fields \in [Projected -> Seq(Dims(doc))]
                                      /\ \A k \in Projected : blocks[s].fields[k] \in Seq(Dims(doc))
         /\ \A s \in 0..Len(blocks) : FieldsOf(s) \in [Projected -> Seq(Dims(doc))]
<1> DEFINE F == [Projected -> Seq(Dims(doc))]
           K == 1..Len(doc)
<1>1. base \in F /\ blocks \in Seq([line : K, fields : F])
  BY DEF ParseType
<1>a. \A k \in Projected : base[k] \in Seq(Dims(doc))
  BY <1>1
<1>b. \A f \in F : \A k \in Projected : f[k] \in Seq(Dims(doc))
  OBVIOUS
<1> HIDE DEF F, K
<1>2. \A s \in 1..Len(blocks) : blocks[s].fields \in F
  BY <1>1, BlockOf
<1>3. Len(blocks) \in Nat
  BY <1>1
<1>4. \A s \in 0..Len(blocks) : s = 0 \/ s \in 1..Len(blocks)
  BY <1>3
<1>5. \A s \in 0..Len(blocks) : FieldsOf(s) \in F
  BY <1>1, <1>2, <1>4 DEF FieldsOf
<1> QED BY <1>a, <1>b, <1>2, <1>3, <1>5 DEF F

\* The scalar was given before in this section.
LEMMA GivenBefore ==
  ASSUME ParseType, ContentInv, ~HasFatal, NEW k \in Projected
  PROVE  Current[k] # << >> <=> LinesOf(Len(blocks), k) # {}
<1>1. Current = FieldsOf(Len(blocks))
  <2>1. blocks = << >> <=> Len(blocks) = 0
    BY DEF ParseType
  <2> QED BY <2>1 DEF Current, FieldsOf, InPackage, Last
<1>2. Len(blocks) \in 0..Len(blocks)
  BY FieldsType
<1>3. Exact(doc, Current[k], LinesOf(Len(blocks), k))
  BY <1>1, <1>2 DEF ContentInv
<1>4. Current[k] \in Seq(Dims(doc))
  BY <1>1, <1>2, FieldsType
<1> QED BY <1>3, <1>4, ExactEmpty

\* A line of a text that is sound is reported as fatal if and only if it does not go well
\* with those before it.
LEMMA ReportedIf ==
  ASSUME ParseType, SectionsInv, ContentInv, Sound, ~HasFatal, NEW l, Reads(l)
  PROVE  HasFatal' <=> ~LineOK(l)
<1>1. CASE MalformedLine(l)
  <2>1. HasFatal'
    BY <1>1, ReportFatal DEF MalformedLine
  <2>2. ParseKey(l) = "unknown" /\ l.key \notin {"pkgbase", "pkgname"}
    BY <1>1, Keys DEF MalformedLine
  <2> QED BY <2>1, <2>2 DEF LineOK
<1>2. CASE Pkgbase(l)
  <2>1. l.key = "pkgbase" /\ l.key # "pkgname" /\ l.key \notin Scalars /\ l.key \notin Projected
    BY <1>2, Keys DEF Pkgbase
  <2>2. CASE pkgbase # 0
    <3>1. HasFatal'
      BY <1>2, <2>2, ReportFatal DEF Pkgbase
    <3>2. doc # << >>
      BY <2>2, NotBegun
    <3> QED BY <2>1, <3>1, <3>2 DEF LineOK
  <2>3. CASE pkgbase = 0
    <3>1. doc = << >>
      BY <2>3, NotBegun
    <3>2. HasFatal' <=> l.value = ""
      BY <1>2, <2>3, ReportFatal, SameFatal DEF Pkgbase
    <3>3. LineOK(l) <=> l.value # ""
      BY <2>1, <3>1 DEF LineOK
    <3> QED BY <3>2, <3>3
  <2> QED BY <2>2, <2>3
<1>3. CASE BeforePkgbase(l)
  <2>1. HasFatal'
    BY <1>3, ReportFatal DEF BeforePkgbase
  <2>2. l.key # "pkgbase" /\ doc = << >>
    BY <1>3, NotBegun DEF BeforePkgbase
  <2> QED BY <2>1, <2>2 DEF LineOK
<1>4. CASE Pkgname(l)
  <2>1. /\ l.key = "pkgname" /\ l.key # "pkgbase" /\ l.key \notin Scalars
        /\ l.key \notin Projected /\ pkgbase # 0
    BY <1>4, Keys DEF Pkgname
  <2>2. doc # << >>
    BY <2>1, NotBegun
  <2> DEFINE given == \E i \in DOMAIN blocks : doc[blocks[i].line].value = l.value
  <2>3. given <=> \E i \in Names : doc[i].value = l.value
    <3>1. Names = {blocks[b].line : b \in 1..Len(blocks)} /\ DOMAIN blocks = 1..Len(blocks)
      BY Domains DEF SectionsInv
    <3> QED BY <3>1
  <2>4. HasFatal' <=> l.value = "" \/ given
    BY <1>4, ReportFatal, SameFatal DEF Pkgname
  <2> HIDE DEF given
  <2>5. LineOK(l) <=> l.value # "" /\ \A i \in Names : doc[i].value # l.value
    BY <2>1, <2>2 DEF LineOK
  <2> QED BY <2>3, <2>4, <2>5
<1>5. CASE UnknownField(l)
  <2>1. HasFatal'
    BY <1>5, ReportFatal DEF UnknownField
  <2>2. ParseKey(l) = "unknown" /\ l.key \notin {"pkgbase", "pkgname"}
    BY <1>5 DEF UnknownField, Field
  <2> QED BY <2>1, <2>2 DEF LineOK
<1>6. ASSUME Field(l), ParseKey(l) # "unknown"
      PROVE  LineOK(l) <=> /\ l.key \in Scalars => LinesOf(Len(blocks), l.key) = {}
                           /\ blocks # << >> => l.key \notin Projected \ AllowedInPackage
  <2>1. l.key # "pkgbase" /\ l.key # "pkgname" /\ pkgbase # 0
    BY <1>6 DEF Field
  <2>2. doc # << >>
    BY <2>1, NotBegun
  <2> QED BY <1>6, <2>1, <2>2 DEF LineOK
<1>7. CASE NotInPackage(l)
  <2>1. Field(l) /\ ParseKey(l) # "unknown" /\ blocks # << >> /\ l.key \notin AllowedInPackage
    BY <1>7 DEF NotInPackage, InPackage
  <2>2. HasFatal' <=> l.key \in Projected
    <3>1. CASE l.key \in Projected
      BY <1>7, <3>1, ReportFatal DEF NotInPackage
    <3>2. CASE l.key \notin Projected
      <4>1. HasFatal' <=> HasFatal \/ "warning" = "fatal"
        BY <1>7, <3>2, ReportFatal DEF NotInPackage
      <4> QED BY <4>1, <3>2
    <3> QED BY <3>1, <3>2
  <2>3. Scalars \subseteq Projected
    BY Keys
  <2> QED BY <1>6, <2>1, <2>2, <2>3
<1>8. CASE Ignore(l)
  <2>1. Field(l) /\ ParseKey(l) # "unknown" /\ l.key \notin Projected
    BY <1>8 DEF Ignore, Allowed
  <2>2. ~HasFatal'
    BY <1>8, SameFatal DEF Ignore
  <2>3. Scalars \subseteq Projected
    BY Keys
  <2> QED BY <1>6, <2>1, <2>2, <2>3
<1>9. CASE Assign(l)
  <2>1. /\ Field(l) /\ ParseKey(l) # "unknown" /\ l.key \in Projected
        /\ blocks # << >> => l.key \in AllowedInPackage
    BY <1>9 DEF Assign, Allowed, InPackage
  <2>2. HasFatal' <=> l.key \in Scalars /\ Current[l.key] # << >>
    BY <1>9, ReportFatal, SameFatal DEF Assign
  <2>3. Current[l.key] # << >> <=> LinesOf(Len(blocks), l.key) # {}
    BY <2>1, GivenBefore
  <2> QED BY <1>6, <2>1, <2>2, <2>3
<1> QED BY <1>1, <1>2, <1>3, <1>4, <1>5, <1>7, <1>8, <1>9 DEF Reads

\* After a line something fatal was reported if and only if the text is not sound.
LEMMA FatalRead ==
  ASSUME ParseInv, NEW l, Reads(l)
  PROVE  /\ HasFatal => HasFatal'
         /\ HasFatal' <=> ~Sound'
<1>n. PICK n : n = Len(doc)
  OBVIOUS
<1>1. ~done /\ doc' = Append(doc, l) /\ Adds(n)
  BY <1>n, ReadAdds
<1>2. HasFatal <=> ~Sound
  BY <1>1 DEF ParseInv
<1>3. HasFatal => HasFatal'
  BY <1>1 DEF Adds, HasFatal
<1>4. Sound' <=> Sound /\ LineOK(l)
  BY <1>1, SoundRead DEF ParseInv
<1>5. Sound => (HasFatal' <=> ~LineOK(l))
  BY <1>2, ReportedIf DEF ParseInv
<1> QED BY <1>2, <1>3, <1>4, <1>5

-----------------------------------------------------------------------------
(* What the fields hold *)

\* The lines of a field are lines of the text, and stand in a section that has begun.
LEMMA LinesBound ==
  ASSUME ParseType, SectionsInv
  PROVE  /\ \A s, k : LinesOf(s, k) \subseteq 1..Len(doc)
         /\ \A i \in 1..Len(doc) : Section(i) \in 0..Len(blocks)
         /\ \A s, k : s \notin 0..Len(blocks) => LinesOf(s, k) = {}
<1>1. \A s, k : LinesOf(s, k) = {i \in 1..Len(doc) : doc[i].key = k /\ Section(i) = s}
  BY Domains DEF LinesOf, Has
<1>2. \A i \in 1..Len(doc) : Section(i) \in 0..Len(blocks)
  BY Domains, SectionBound DEF SectionsInv
<1> QED BY <1>1, <1>2

\* A line of a projected field is assigned, or is a fatal error.
LEMMA Projects ==
  ASSUME NEW l, Reads(l), l.key \in Projected, ~HasFatal'
  PROVE  Assign(l)
<1>1. ~MalformedLine(l) /\ ~Pkgbase(l) /\ ~Pkgname(l)
  BY Keys DEF MalformedLine, Pkgbase, Pkgname
<1>2. ~BeforePkgbase(l) /\ ~UnknownField(l)
  BY ReportFatal DEF BeforePkgbase, UnknownField
<1>3. ~NotInPackage(l) /\ ~Ignore(l)
  BY ReportFatal DEF NotInPackage, Ignore
<1> QED BY <1>1, <1>2, <1>3 DEF Reads

\* The field that is assigned says what its lines say, the new one included.
LEMMA AssignExact ==
  ASSUME ParseType, NEW l, doc' = Append(doc, l), NEW n, n = Len(doc),
         NEW fields \in [Projected -> Seq(Dims(doc))], l.key \in Projected,
         NEW I, I \subseteq 1..n, Exact(doc, fields[l.key], I),
         l.key \in Scalars => I = {}
  PROVE  Exact(doc', Assigned(fields, l)[l.key], I \cup {n + 1})
<1> DEFINE field == fields[l.key]
<1>1. field \in Seq(Dims(doc)) /\ doc \in Seq(Range(doc))
  BY DEF ParseType
<1>2. Exact(doc', AppendArch(field, l), I \cup {n + 1})
  BY <1>1, AppendArchExact
<1>3. Assigned(fields, l)[l.key] = AppendArch(field, l)
  <2>1. CASE l.key \notin Scalars
    BY <2>1, <1>1, AssignedIs
  <2>2. CASE l.key \in Scalars
    <3>1. field = << >>
      <4>1. field \in Seq(Dims(doc)) /\ Exact(doc, field, I) /\ I = {}
        BY <2>2, <1>1
      <4> HIDE DEF field
      <4> QED BY ONLY <4>1, ExactEmpty
    <3>2. ~ \E i \in DOMAIN field : field[i].arch = l.arch
      BY <3>1
    <3>3. AppendArch(field, l) = Append(field, Dimension(l))
      BY <3>2 DEF AppendArch
    <3>4. Append(<< >>, Dimension(l)) = <<Dimension(l)>>
      OBVIOUS
    <3>5. Assigned(fields, l)[l.key] = <<Dimension(l)>>
      BY <2>2, <1>1, AssignedIs
    <3> QED BY <3>1, <3>3, <3>4, <3>5
  <2> QED BY <2>1, <2>2
<1> QED BY <1>2, <1>3

\* A line keeps what the fields hold equal to what the text states.
LEMMA ContentRead ==
  ASSUME ParseInv, NEW l, Reads(l)
  PROVE  ContentInv'
<1> SUFFICES ASSUME ~HasFatal', NEW s \in 0..Len(blocks'), NEW k \in Projected
             PROVE  Exact(doc', FieldsOf(s)'[k], LinesOf(s, k)')
  BY DEF ContentInv
<1>n. PICK n \in Nat : n = Len(doc)
  BY Domains DEF ParseInv
<1>m. PICK m \in Nat : m = Len(blocks)
  BY Domains DEF ParseInv
<1>0. /\ ParseType /\ SectionsInv /\ ContentInv /\ ParseType' /\ SectionsInv'
      /\ ~done /\ doc' = Append(doc, l) /\ doc \in Seq(Range(doc))
  BY <1>n, TypeRead, ReadAdds, Domains DEF ParseInv
<1>1. ~HasFatal /\ Sound' /\ Sound
  BY <1>0, FatalRead DEF ParseInv
<1>2. LineOK(l)
  BY <1>0, <1>1, SoundRead
<1>3. \A i \in 1..n : doc'[i] = doc[i]
  BY <1>0, <1>n, Longer
<1>4. LinesOf(s, k)' = LinesOf(s, k) \cup
           (IF l.key = k /\ Section(n + 1)' = s THEN {n + 1} ELSE {})
  BY <1>n, <1>0, LinesStep
<1>5. LinesOf(s, k) \subseteq 1..n
  BY <1>n, <1>0, LinesBound
<1>6. s \in 0..m => FieldsOf(s) \in [Projected -> Seq(Dims(doc))] /\ Exact(doc, FieldsOf(s)[k], LinesOf(s, k))
  BY <1>m, <1>0, <1>1, FieldsType DEF ContentInv
<1>7. ASSUME s \in 0..m, FieldsOf(s)'[k] = FieldsOf(s)[k], LinesOf(s, k)' = LinesOf(s, k)
      PROVE  Exact(doc', FieldsOf(s)'[k], LinesOf(s, k)')
  <2>1. Exact(doc, FieldsOf(s)[k], LinesOf(s, k)) /\ \A i \in LinesOf(s, k) : doc'[i] = doc[i]
    BY <1>3, <1>5, <1>6, <1>7
  <2>2. Exact(doc', FieldsOf(s)[k], LinesOf(s, k))
    BY <2>1, ExactStays
  <2> QED BY <2>2, <1>7
<1>8. CASE l.key \notin Projected
  <2>1. ~Assign(l)
    BY <1>8 DEF Assign
  <2>2. LinesOf(s, k)' = LinesOf(s, k)
    BY <1>4, <1>8
  <2>3. base' = base
    BY <2>1, <1>n, <1>0, OtherBlocks
  <2>4. CASE l.key = "pkgname" /\ pkgbase # 0
    <3> DEFINE new == [line |-> n + 1, fields |-> NoFields]
               T == Blocks(doc) \cup {new}
    <3>1. blocks' = Append(blocks, new)
      BY <2>1, <2>4, <1>n, <1>0, OtherBlocks
    <3>2. blocks \in Seq(T) /\ new.fields = NoFields
      <4>1. blocks \in Seq(Blocks(doc)) /\ Blocks(doc) \subseteq T
        BY <1>0 DEF ParseType, Blocks
      <4> HIDE DEF T
      <4>2. blocks \in Seq(T)
        BY <4>1, SeqGrows
      <4> QED BY <4>2
    <3> HIDE DEF T, new
    <3>3. Len(blocks') = m + 1 /\ blocks'[m + 1] = new /\ \A b \in 1..m : blocks'[b] = blocks[b]
      BY <3>1, <3>2, <1>m
    <3>4. CASE s \in 0..m
      <4>1. s = 0 \/ s \in 1..m
        BY <3>4
      <4>2. FieldsOf(s)' = FieldsOf(s)
        BY <4>1, <3>3, <2>3 DEF FieldsOf
      <4> QED BY <4>2, <3>4, <2>2, <1>7
    <3>5. CASE s \notin 0..m
      <4>1. s = m + 1 /\ s # 0
        BY <3>3, <3>5
      <4>2. FieldsOf(s)'[k] = << >>
        BY <4>1, <3>2, <3>3, NoFieldsType DEF FieldsOf
      <4>3. LinesOf(s, k) = {}
        BY <3>5, <1>m, <1>0, LinesBound
      <4> QED BY <4>2, <4>3, <2>2, NothingExact
    <3> QED BY <3>4, <3>5
  <2>5. CASE ~(l.key = "pkgname" /\ pkgbase # 0)
    <3>1. blocks' = blocks
      BY <2>1, <2>5, <1>n, <1>0, OtherBlocks
    <3>2. s \in 0..m /\ FieldsOf(s)' = FieldsOf(s)
      BY <3>1, <2>3, <1>m DEF FieldsOf
    <3> QED BY <3>2, <2>2, <1>7
  <2> QED BY <2>4, <2>5
<1>9. CASE l.key \in Projected
  <2>1. Assign(l)
    BY <1>9, Projects
  <2>2. /\ SameBlocks
        /\ IF blocks = << >> THEN blocks' = blocks /\ base' = Assigned(base, l)
            ELSE /\ base' = base
                 /\ \A b \in 1..m-1 : blocks'[b] = blocks[b]
                 /\ blocks'[m].fields = Assigned(blocks[m].fields, l)
    BY <2>1, <1>m, <1>0, AssignIs
  <2>3. Len(blocks') = m /\ s \in 0..m /\ (blocks = << >> <=> m = 0)
    BY <2>2, <1>m, <1>0, Domains DEF SameBlocks
  <2>4. Section(n + 1)' = m
    <3>1. Section(n + 1)' = Cardinality(Names')
      BY <1>n, <1>0, NamesStep
    <3> QED BY <3>1, <2>3, <1>0 DEF SectionsInv
  <2>5. s # m => FieldsOf(s)' = FieldsOf(s)
    <3>1. ASSUME s # m PROVE s = 0 \/ s \in 1..m-1
      BY <3>1, <2>3
    <3> QED BY <3>1, <2>2, <2>3 DEF FieldsOf
  <2>6. s = m => FieldsOf(s)' = Assigned(FieldsOf(s), l)
    BY <2>2, <2>3 DEF FieldsOf
  <2>7. CASE s # m
    BY <2>3, <2>4, <2>5, <2>7, <1>4, <1>7
  <2>8. CASE s = m /\ k # l.key
    <3>1. FieldsOf(s)'[k] = FieldsOf(s)[k]
      <4>1. FieldsOf(s) \in [Projected -> Seq(Dims(doc))] /\ k \in Projected \ {l.key}
        BY <2>3, <2>8, <1>6
      <4>2. Assigned(FieldsOf(s), l)[k] = FieldsOf(s)[k]
        <5>1. PICK f \in [Projected -> Seq(Dims(doc))] : f = FieldsOf(s)
          BY <4>1
        <5>2. \A j \in Projected \ {l.key} : Assigned(f, l)[j] = f[j]
          BY <1>0, <1>9, AssignedIs
        <5> QED BY <5>1, <5>2, <4>1
      <4> QED BY <4>2, <2>6, <2>8
    <3> QED BY <3>1, <2>3, <2>8, <1>4, <1>7
  <2>9. CASE s = m /\ k = l.key
    <3>1. k \in Scalars => LinesOf(s, k) = {}
      BY <2>9, <1>2, <1>m DEF LineOK
    <3>2. LinesOf(s, k)' = LinesOf(s, k) \cup {n + 1}
      BY <2>4, <2>9, <1>4
    <3>3. Exact(doc', Assigned(FieldsOf(s), l)[k], LinesOf(s, k) \cup {n + 1})
      BY <3>1, <2>3, <2>9, <1>n, <1>0, <1>5, <1>6, AssignExact
    <3> QED BY <3>2, <3>3, <2>6, <2>9
  <2> QED BY <2>7, <2>8, <2>9
<1> QED BY <1>8, <1>9

-----------------------------------------------------------------------------
(* Where a line went *)

\* The fields f hold the line i.
HeldBy(f, i) ==
  \E k \in Projected : \E d \in Range(f[k]) :
    Has(i, k) /\ d.arch = doc[i].arch /\ (doc[i].value # "" => i \in Range(d.values))

\* The line i was reported, or a line of its key after it.
ReportedAt(i) ==
  \E d \in diagnostics :
    d.line = i \/ (d.line > i /\ Has(d.line, doc[i].key) /\ doc[i].key \in Scalars)

\* What NothingLost wants of the line i.
Kept(i) ==
  \/ i = pkgbase
  \/ Section(i) # 0 /\ blocks[Section(i)].line = i
  \/ HeldBy(FieldsOf(Section(i)), i)
  \/ ParseKey(doc[i]) \in Known \ Projected
  \/ ReportedAt(i)

\* NothingLost, line by line.
LEMMA NothingLostIs == NothingLost <=> \A i \in DOMAIN doc : Kept(i)
BY Zenon DEF NothingLost, Kept, HeldBy, ReportedAt, FieldsOf

\* Fields keep what they hold, but for a scalar that is replaced.
LEMMA AssignKeeps ==
  ASSUME ParseType, NEW l, doc' = Append(doc, l), NEW n, n = Len(doc),
         NEW fields \in [Projected -> Seq(Dims(doc))], l.key \in Projected
  PROVE  /\ \A k \in Projected :
              (k = l.key /\ k \in Scalars) \/ Covers(Assigned(fields, l)[k], fields[k])
         /\ HasLine(Assigned(fields, l)[l.key], l, n + 1)
<1> DEFINE field == fields[l.key]
           g == Assigned(fields, l)
<1>1. field \in Seq(Dims(doc)) /\ doc \in Seq(Range(doc))
  BY DEF ParseType
<1>2. /\ g \in [Projected -> Seq(Dims(doc'))]
      /\ \A k \in Projected \ {l.key} : g[k] = fields[k]
      /\ l.key \in Scalars => g[l.key] = <<Dimension(l)>>
      /\ l.key \notin Scalars => g[l.key] = AppendArch(field, l)
  BY <1>1, AssignedIs
<1>3. Covers(AppendArch(field, l), field) /\ HasLine(AppendArch(field, l), l, n + 1)
  BY <1>1, AppendArchKeeps
<1>4. /\ Dimension(l).arch = l.arch /\ Dimension(l).values = Value(l)
      /\ Range(Value(l)) = {i \in {n + 1} : l.value # ""}
  BY <1>1, NewDimension
<1>5. Dimension(l) \in Range(<<Dimension(l)>>)
  BY DEF Range
<1> HIDE DEF g
<1>6. ASSUME NEW k \in Projected, ~(k = l.key /\ k \in Scalars)
      PROVE  Covers(g[k], fields[k])
  <2>1. CASE k # l.key
    <3>1. g[k] = fields[k]
      BY <2>1, <1>2
    <3> QED BY <3>1 DEF Covers
  <2>2. CASE k = l.key /\ k \notin Scalars
    BY <2>2, <1>2, <1>3 DEF field
  <2> QED BY <2>1, <2>2, <1>6
<1>7. HasLine(g[l.key], l, n + 1)
  <2>1. CASE l.key \in Scalars
    <3>1. Dimension(l) \in Range(g[l.key])
      BY <2>1, <1>2, <1>5
    <3>2. l.value # "" => n + 1 \in Range(Dimension(l).values)
      BY <1>4
    <3> QED BY <3>1, <3>2, <1>4, Zenon DEF HasLine
  <2>2. CASE l.key \notin Scalars
    BY <2>2, <1>2, <1>3
  <2> QED BY <2>1, <2>2
<1> QED BY <1>6, <1>7 DEF g

\* A field keeps what it holds, or is a scalar whose second line is reported.
LEMMA FieldsKeep ==
  ASSUME ParseInv, NEW l, Reads(l), NEW n, n = Len(doc), NEW s \in 0..Len(blocks),
         NEW k \in Projected
  PROVE  \/ Covers(FieldsOf(s)'[k], FieldsOf(s)[k])
         \/ k = l.key /\ k \in Scalars /\ \E r \in diagnostics' : r.line = n + 1
<1>m. PICK m \in Nat : m = Len(blocks)
  BY Domains DEF ParseInv
<1>0. ParseType /\ SectionsInv /\ doc' = Append(doc, l) /\ (blocks = << >> <=> m = 0)
  BY <1>m, ReadAdds, Domains DEF ParseInv
<1>1. CASE FieldsOf(s)' = FieldsOf(s)
  BY <1>1 DEF Covers
<1>2. CASE ~Assign(l)
  <2>1. /\ base' = base
        /\ IF l.key = "pkgname" /\ pkgbase # 0
             THEN blocks' = Append(blocks, [line |-> n + 1, fields |-> NoFields])
             ELSE blocks' = blocks
    BY <1>2, <1>0, OtherBlocks
  <2>2. \A b \in 1..m : blocks'[b] = blocks[b]
    <3> DEFINE new == [line |-> n + 1, fields |-> NoFields]
               T == Blocks(doc) \cup {new}
    <3>1. blocks \in Seq(T)
      <4>1. blocks \in Seq(Blocks(doc)) /\ Blocks(doc) \subseteq T
        BY <1>0 DEF ParseType, Blocks
      <4> HIDE DEF T
      <4> QED BY <4>1, SeqGrows
    <3>2. blocks' = Append(blocks, new) \/ blocks' = blocks
      BY <2>1
    <3>3. new \in T
      OBVIOUS
    <3> HIDE DEF T, new
    <3> QED BY <3>1, <3>2, <3>3, <1>m
  <2>3. s = 0 \/ s \in 1..m
    BY <1>m
  <2>4. FieldsOf(s)' = FieldsOf(s)
    BY <2>1, <2>2, <2>3 DEF FieldsOf
  <2> QED BY <2>4, <1>1
<1>3. CASE Assign(l)
  <2>1. /\ IF blocks = << >> THEN blocks' = blocks /\ base' = Assigned(base, l)
           ELSE /\ base' = base
                /\ \A b \in 1..m-1 : blocks'[b] = blocks[b]
                /\ blocks'[m].fields = Assigned(blocks[m].fields, l)
    BY <1>3, <1>m, <1>0, AssignIs
  <2>2. s # m => FieldsOf(s)' = FieldsOf(s)
    <3>1. ASSUME s # m PROVE s = 0 \/ s \in 1..m-1
      BY <3>1, <1>m
    <3> QED BY <3>1, <2>1, <1>0 DEF FieldsOf
  <2>3. CASE s = m
    <3>1. FieldsOf(s)' = Assigned(FieldsOf(s), l)
      BY <2>1, <2>3, <1>0 DEF FieldsOf
    <3>2. PICK f \in [Projected -> Seq(Dims(doc))] : f = FieldsOf(s)
      BY <1>0, FieldsType
    <3>3. l.key \in Projected
      BY <1>3 DEF Assign
    <3>4. \A j \in Projected : (j = l.key /\ j \in Scalars) \/ Covers(Assigned(f, l)[j], f[j])
      BY <3>3, <1>0, AssignKeeps
    <3>5. CASE k = l.key /\ k \in Scalars
      <4>1. CASE f[k] # << >>
        <5>1. Current = FieldsOf(s)
          BY <2>3, <1>m, <1>0 DEF Current, FieldsOf, InPackage, Last
        <5>2. Report("fatal", "duplicate_scalar")
          BY <1>3, <3>2, <3>5, <4>1, <5>1 DEF Assign
        <5>3. \E r \in diagnostics' : r.line = n + 1
          BY <5>2, ReportIs
        <5> QED BY <5>3, <3>5
      <4>2. CASE f[k] = << >>
        <5>1. Range(f[k]) = {}
          BY <4>2 DEF Range
        <5>2. Covers(FieldsOf(s)'[k], FieldsOf(s)[k])
          BY <5>1, <3>2 DEF Covers
        <5> QED BY <5>2
      <4> QED BY <4>1, <4>2
    <3>6. CASE ~(k = l.key /\ k \in Scalars)
      BY <3>1, <3>2, <3>4, <3>6
    <3> QED BY <3>5, <3>6
  <2> QED BY <2>2, <2>3, <1>1
<1> QED BY <1>2, <1>3

\* An old line stays where it went.
LEMMA OldLines ==
  ASSUME ParseInv, NEW l, Reads(l), NEW i \in 1..Len(doc), Kept(i)
  PROVE  Kept(i)'
<1>n. PICK n \in Nat : n = Len(doc)
  BY Domains DEF ParseInv
<1>m. PICK m \in Nat : m = Len(blocks)
  BY Domains DEF ParseInv
<1>0. /\ ParseType /\ SectionsInv /\ doc' = Append(doc, l) /\ doc \in Seq(Range(doc))
      /\ Adds(n) /\ \A d \in diagnostics : d.line \in 1..n
  BY <1>n, ReadAdds, Domains DEF ParseInv, ParseType
<1>1. /\ \A j \in 1..n : doc'[j] = doc[j]
      /\ doc'[n + 1] = l /\ diagnostics \subseteq diagnostics'
  BY <1>0, <1>n, Longer DEF Adds
<1>2. PICK s \in 0..m : s = Section(i)
  BY <1>m, <1>0, LinesBound
<1>3. Section(i)' = s
  BY <1>n, <1>0, <1>2, NamesStep
<1>4. doc'[i] = doc[i] /\ i \in 1..n
  BY <1>n, <1>1
<1>5. CASE i = pkgbase
  <2>1. pkgbase' = pkgbase
    BY <1>5, <1>4, <1>n, PkgbaseIs
  <2> QED BY <2>1, <1>5 DEF Kept
<1>6. CASE Section(i) # 0 /\ blocks[Section(i)].line = i
  <2>1. s \in 1..m /\ blocks[s].line = i
    BY <1>2, <1>6
  <2>2. blocks'[s].line = blocks[s].line
    <3>1. CASE Assign(l)
      BY <3>1, <2>1, <1>0, <1>m, AssignIs DEF SameBlocks
    <3>2. CASE ~Assign(l)
      <4> DEFINE new == [line |-> n + 1, fields |-> NoFields]
                 T == Blocks(doc) \cup {new}
      <4>1. blocks' = Append(blocks, new) \/ blocks' = blocks
        BY <3>2, <1>0, <1>n, OtherBlocks
      <4>2. blocks \in Seq(T)
        <5>1. blocks \in Seq(Blocks(doc)) /\ Blocks(doc) \subseteq T
          BY <1>0 DEF ParseType, Blocks
        <5> HIDE DEF T
        <5> QED BY <5>1, SeqGrows
      <4>3. new \in T
        OBVIOUS
      <4> HIDE DEF T, new
      <4>4. blocks'[s] = blocks[s]
        BY <4>1, <4>2, <4>3, <1>m, <2>1
      <4> QED BY <4>4
    <3> QED BY <3>1, <3>2
  <2>3. (Section(i) # 0 /\ blocks[Section(i)].line = i)'
    BY <1>3, <2>1, <2>2
  <2> QED BY <2>3 DEF Kept
<1>7. CASE HeldBy(FieldsOf(Section(i)), i)
  <2>0. PICK k \in Projected : \E d \in Range(FieldsOf(s)[k]) :
          doc[i].key = k /\ d.arch = doc[i].arch /\ (doc[i].value # "" => i \in Range(d.values))
    BY <1>2, <1>7 DEF HeldBy, Has
  <2>1. PICK d \in Range(FieldsOf(s)[k]) :
          doc[i].key = k /\ d.arch = doc[i].arch /\ (doc[i].value # "" => i \in Range(d.values))
    BY <2>0
  <2>2. CASE Covers(FieldsOf(s)'[k], FieldsOf(s)[k])
    <3>1. PICK e \in Range(FieldsOf(s)'[k]) :
               e.arch = d.arch /\ Range(d.values) \subseteq Range(e.values)
      BY <2>2, Zenon DEF Covers
    <3>2. FieldsOf(Section(i))' = FieldsOf(s)'
      BY <1>3 DEF FieldsOf
    <3>3. /\ k \in Projected /\ e \in Range(FieldsOf(Section(i))'[k])
          /\ doc'[i].key = k /\ e.arch = doc'[i].arch /\ (doc'[i].value # "" => i \in Range(e.values))
      BY <3>1, <3>2, <2>1, <1>4
    <3>4. HeldBy(FieldsOf(Section(i)), i)'
      BY <3>3, Zenon DEF HeldBy, Has
    <3> QED BY <3>4 DEF Kept
  <2>3. CASE k = l.key /\ k \in Scalars /\ \E r \in diagnostics' : r.line = n + 1
    <3>1. PICK r \in diagnostics' : r.line = n + 1
      BY <2>3
    <3>2. r.line > i /\ doc'[r.line].key = doc'[i].key /\ doc'[i].key \in Scalars
      <4>1. n + 1 > i /\ doc'[n + 1].key = k
        BY <1>1, <1>4, <2>3
      <4>2. doc'[i].key = k
        BY <1>4, <2>1
      <4> QED BY <3>1, <4>1, <4>2, <2>3
    <3>3. ReportedAt(i)'
      BY <3>2, Zenon DEF ReportedAt, Has
    <3> QED BY <3>3 DEF Kept
  <2>4. s \in 0..Len(blocks)
    BY <1>2, <1>m
  <2>5. \/ Covers(FieldsOf(s)'[k], FieldsOf(s)[k])
        \/ k = l.key /\ k \in Scalars /\ \E r \in diagnostics' : r.line = n + 1
    BY <2>4, <1>n, FieldsKeep, Zenon
  <2> QED BY <2>2, <2>3, <2>5, Zenon
<1>8. CASE ParseKey(doc[i]) \in Known \ Projected
  <2>1. ParseKey(doc[i])' = ParseKey(doc[i])
    BY <1>4 DEF ParseKey
  <2> QED BY <1>8, <2>1 DEF Kept
<1>9. CASE ReportedAt(i)
  <2>1. PICK d \in diagnostics :
          d.line = i \/ (d.line > i /\ doc[d.line].key = doc[i].key /\ doc[i].key \in Scalars)
    BY <1>9 DEF ReportedAt, Has
  <2>2. d \in diagnostics' /\ d.line \in 1..n /\ doc'[d.line] = doc[d.line]
    BY <2>1, <1>0, <1>1
  <2>3. d.line = i \/ (d.line > i /\ doc'[d.line].key = doc'[i].key /\ doc'[i].key \in Scalars)
    BY <2>1, <2>2, <1>4
  <2>4. ReportedAt(i)'
    BY <2>2, <2>3, Zenon DEF ReportedAt, Has
  <2> QED BY <2>4 DEF Kept
<1> QED BY <1>5, <1>6, <1>7, <1>8, <1>9 DEF Kept

\* A report at the line just read.
LEMMA ReportedNow ==
  ASSUME NEW severity, NEW code, Report(severity, code), NEW n, n = Len(doc)
  PROVE  Kept(n + 1)'
<1>1. PICK r : r.line = n + 1 /\ diagnostics' = diagnostics \cup {r}
  BY ReportIs
<1>2. \E d \in diagnostics' : d.line = n + 1
  BY <1>1
<1>3. ReportedAt(n + 1)'
  BY <1>2 DEF ReportedAt
<1> QED BY <1>3 DEF Kept

\* The line just read is kept.
LEMMA NewLine ==
  ASSUME ParseInv, NEW l, Reads(l), NEW n, n = Len(doc)
  PROVE  Kept(n + 1)'
<1>m. PICK m \in Nat : m = Len(blocks)
  BY Domains DEF ParseInv
<1>0. /\ ParseType /\ SectionsInv /\ ParseType' /\ SectionsInv'
      /\ doc' = Append(doc, l) /\ doc \in Seq(Range(doc)) /\ n \in Nat
      /\ (blocks = << >> <=> m = 0)
  BY <1>m, TypeRead, ReadAdds, Domains DEF ParseInv
<1>1. doc'[n + 1] = l
  BY <1>0, Longer
<1>2. Section(n + 1)' = Len(blocks')
  <2>1. Section(n + 1)' = Cardinality(Names')
    BY <1>0, NamesStep
  <2> QED BY <2>1, <1>0 DEF SectionsInv
<1>3. CASE MalformedLine(l) \/ BeforePkgbase(l) \/ UnknownField(l) \/ NotInPackage(l)
  BY <1>3, ReportedNow DEF MalformedLine, BeforePkgbase, UnknownField, NotInPackage
<1>4. CASE Pkgbase(l)
  <2>1. CASE pkgbase # 0
    BY <1>4, <2>1, ReportedNow DEF Pkgbase
  <2>2. CASE pkgbase = 0
    BY <1>4, <2>2 DEF Pkgbase, Number, Kept
  <2> QED BY <2>1, <2>2
<1>5. CASE Pkgname(l)
  <2> DEFINE new == [line |-> n + 1, fields |-> NoFields]
             T == Blocks(doc) \cup {new}
  <2>1. blocks' = Append(blocks, new) /\ new.line = n + 1
    BY <1>5 DEF Pkgname, Number
  <2>2. blocks \in Seq(T)
    <3>1. blocks \in Seq(Blocks(doc)) /\ Blocks(doc) \subseteq T
      BY <1>0 DEF ParseType, Blocks
    <3> HIDE DEF T
    <3> QED BY <3>1, SeqGrows
  <2> HIDE DEF T, new
  <2>3. Len(blocks') = m + 1 /\ blocks'[m + 1] = new
    BY <2>1, <2>2, <1>m
  <2>4. Section(n + 1)' = m + 1 /\ m + 1 # 0 /\ blocks'[m + 1].line = n + 1
    BY <2>1, <2>3, <1>2
  <2>5. (Section(n + 1) # 0 /\ blocks[Section(n + 1)].line = n + 1)'
    BY <2>4
  <2> QED BY <2>5 DEF Kept
<1>6. CASE Ignore(l)
  <2>1. ParseKey(l) \in Known \ Projected
    BY <1>6, Keys DEF Ignore, Allowed
  <2>2. ParseKey(doc[n + 1])' = ParseKey(l)
    BY <1>1 DEF ParseKey
  <2> QED BY <2>1, <2>2 DEF Kept
<1>7. CASE Assign(l)
  <2>1. /\ SameBlocks
        /\ IF blocks = << >> THEN blocks' = blocks /\ base' = Assigned(base, l)
           ELSE /\ base' = base
                /\ \A b \in 1..m-1 : blocks'[b] = blocks[b]
                /\ blocks'[m].fields = Assigned(blocks[m].fields, l)
    BY <1>7, <1>m, <1>0, AssignIs
  <2>2. Section(n + 1)' = m
    BY <2>1, <1>2, <1>m DEF SameBlocks
  <2>3. FieldsOf(m)' = Assigned(FieldsOf(m), l)
    BY <2>1, <1>0 DEF FieldsOf
  <2>4. PICK f \in [Projected -> Seq(Dims(doc))] : f = FieldsOf(m)
    BY <1>m, <1>0, FieldsType
  <2>5. l.key \in Projected
    BY <1>7 DEF Assign
  <2>6. HasLine(Assigned(f, l)[l.key], l, n + 1)
    BY <2>5, <1>0, AssignKeeps
  <2>7. FieldsOf(Section(n + 1))' = FieldsOf(m)'
    BY <2>2 DEF FieldsOf
  <2>8. HasLine(FieldsOf(Section(n + 1))'[l.key], l, n + 1)
    BY <2>3, <2>4, <2>6, <2>7
  <2>9. HeldBy(FieldsOf(Section(n + 1)), n + 1)'
    BY <2>8, <2>5, <1>1 DEF HasLine, HeldBy, Has
  <2> QED BY <2>9 DEF Kept
<1> QED BY <1>3, <1>4, <1>5, <1>6, <1>7 DEF Reads

\* Reading a line keeps the invariant.
LEMMA LineRead ==
  ASSUME ParseInv, NEW l, Reads(l)
  PROVE  ParseInv'
<1>n. PICK n \in Nat : n = Len(doc)
  BY Domains DEF ParseInv
<1>0. /\ doc \in Seq(Range(doc)) /\ doc' = Append(doc, l) /\ ~done /\ done' = done
      /\ packages' = packages /\ packages = << >> /\ DOMAIN doc = 1..n
  BY <1>n, ReadAdds, Domains DEF ParseInv, ParseType
<1>1. ParseType' /\ SectionsInv'
  BY TypeRead DEF ParseInv
<1>2. ContentInv' /\ (HasFatal' <=> ~Sound')
  BY ContentRead, FatalRead
<1>3. NothingLost'
  <2>1. DOMAIN doc' = 1..n \cup {n + 1}
    <3>1. DOMAIN doc' = 1..n+1 /\ 1..n+1 = 1..n \cup {n + 1}
      BY <1>0, <1>n, Longer
    <3> QED BY <3>1
  <2>2. \A i \in 1..n : Kept(i)
    BY <1>0, NothingLostIs DEF ParseInv
  <2>3. ASSUME NEW i \in 1..n PROVE Kept(i)'
    <3>1. i \in 1..Len(doc) /\ Kept(i)
      BY <2>2, <1>n
    <3> QED BY <3>1, OldLines
  <2>4. Kept(n + 1)'
    BY <1>n, NewLine
  <2>5. ASSUME NEW i \in DOMAIN doc' PROVE Kept(i)'
    <3>1. CASE i \in 1..n
      BY <3>1, <2>3
    <3>2. CASE i = n + 1
      <4> DEFINE P(x) == Kept(x)'
      <4>1. P(n + 1)
        BY <2>4
      <4> HIDE DEF P
      <4>2. P(i)
        BY <4>1, <3>2
      <4> QED BY <4>2 DEF P
    <3> QED BY <3>1, <3>2, <2>1
  <2>6. (\A i \in DOMAIN doc : Kept(i))'
    BY <2>5
  <2> QED BY <2>6, NothingLostIs, PTL
<1>4. AcceptsExactly'
  BY <1>0 DEF AcceptsExactly
<1>5. StatesItsOwn'
  <2>1. DOMAIN packages' = {}
    BY <1>0
  <2> QED BY <2>1, Zenon DEF StatesItsOwn
<1> QED BY <1>1, <1>2, <1>3, <1>4, <1>5 DEF ParseInv

-----------------------------------------------------------------------------
(* Fields put in a row *)

\* v has the numbers of I, each once, those of one suffix in their order.
Enumerates(d, v, I) ==
  /\ v \in Seq(Nat) /\ Range(v) = I
  /\ \A p, q \in 1..Len(v) : p < q =>
       v[p] # v[q] /\ (d[v[p]].arch = d[v[q]].arch => v[p] < v[q])

\* A field without its dimensions P, and the lines of I it then holds.
Without(field, P) == FlattenSeq([p \in DOMAIN field |-> IF p \in P THEN << >> ELSE field[p].values])

\* The lines of I that are in none of the dimensions P.
Outside(d, field, I, P) ==
  {i \in I : d[i].value # "" /\ \A p \in 1..Len(field) : p \in P => field[p].arch # d[i].arch}

\* Put in a row, the dimensions that are left list these lines.
LEMMA PartIs ==
  ASSUME NEW d, NEW n \in Nat, n = Len(d), NEW field \in Seq(Dims(d)), NEW I, Exact(d, field, I),
         NEW P
  PROVE  Enumerates(d, Without(field, P), Outside(d, field, I, P))
<1>N. PICK N \in Nat : N = Len(field) /\ DOMAIN field = 1..N
  OBVIOUS
<1>s. PICK ss : ss = [p \in DOMAIN field |-> IF p \in P THEN << >> ELSE field[p].values]
  OBVIOUS
<1> DEFINE v == FlattenSeq(ss)
           J == {i \in I : d[i].value # "" /\ \A p \in 1..N : p \in P => field[p].arch # d[i].arch}
<1>1. \A p \in 1..N : field[p].values \in Seq(Nat)
  <2> SUFFICES ASSUME NEW p \in 1..N PROVE field[p].values \in Seq(Nat)
    OBVIOUS
  <2>1. field[p] \in Dims(d)
    BY <1>N
  <2>2. field[p].values \in Seq(1..n)
    BY <2>1 DEF Dims
  <2>3. 1..n \subseteq Nat
    OBVIOUS
  <2> QED BY ONLY <2>2, <2>3, SeqGrows
<1>2. /\ \A i \in I : \E p \in 1..N : field[p].arch = d[i].arch
      /\ \A p, q \in 1..N : field[p].arch = field[q].arch => p = q
      /\ \A p \in 1..N :
           /\ Ascends(field[p].values)
           /\ Range(field[p].values) = {i \in I : d[i].value # "" /\ d[i].arch = field[p].arch}
  BY <1>N DEF Exact
<1>3. /\ Len(ss) = N /\ DOMAIN ss = 1..N
      /\ \A p \in 1..N : ss[p] = IF p \in P THEN << >> ELSE field[p].values
  BY <1>N, <1>s
<1>4. ss \in Seq(Seq(Nat))
  <2>1. \A p \in 1..N : (IF p \in P THEN << >> ELSE field[p].values) \in Seq(Nat)
    BY <1>1
  <2> DEFINE S == Seq(Nat)
             G(p) == IF p \in P THEN << >> ELSE field[p].values
  <2>2. ss = [p \in 1..N |-> G(p)] /\ \A p \in 1..N : G(p) \in S
    BY <1>N, <1>s, <2>1
  <2> HIDE DEF S, G
  <2>3. ss \in Seq(S)
    BY <2>2
  <2> QED BY <2>3 DEF S
<1>5. \A p \in 1..N : \A x : x \in Range(ss[p]) <=>
        p \notin P /\ x \in I /\ d[x].value # "" /\ d[x].arch = field[p].arch
  <2> SUFFICES ASSUME NEW p \in 1..N, NEW x
               PROVE  x \in Range(ss[p]) <=>
                        p \notin P /\ x \in I /\ d[x].value # "" /\ d[x].arch = field[p].arch
    OBVIOUS
  <2>1. CASE p \in P
    <3>1. ss[p] = << >>
      BY <2>1, <1>3
    <3>2. Range(<< >>) = {}
      BY DEF Range
    <3> QED BY <3>1, <3>2, <2>1
  <2>2. CASE p \notin P
    <3>1. ss[p] = field[p].values
      BY <2>2, <1>3
    <3>2. Range(field[p].values) = {i \in I : d[i].value # "" /\ d[i].arch = field[p].arch}
      BY <1>2
    <3>3. Range(ss[p]) = {i \in I : d[i].value # "" /\ d[i].arch = field[p].arch}
      BY <3>1, <3>2, Zenon
    <3> QED BY ONLY <3>3, <2>2
  <2> QED BY <2>1, <2>2
<1>6. \A p \in 1..N : Ascends(ss[p])
  <2>1. Ascends(<< >>)
    BY DEF Ascends
  <2>2. \A p \in 1..N : ss[p] = << >> \/ ss[p] = field[p].values
    BY <1>3
  <2> QED BY <2>1, <2>2, <1>2
<1>7. Apart(ss)
  <2>1. ASSUME NEW p \in 1..N, NEW q \in 1..N, p # q, NEW x, x \in Range(ss[p]), x \in Range(ss[q])
        PROVE  FALSE
    <3>1. d[x].arch = field[p].arch
      BY <2>1, <1>5, Zenon
    <3>2. d[x].arch = field[q].arch
      BY <2>1, <1>5, Zenon
    <3>3. p = q
      BY <3>1, <3>2, <1>2, Zenon
    <3> QED BY <3>3, <2>1
  <2>2. \A p, q \in 1..N : p # q => Range(ss[p]) \cap Range(ss[q]) = {}
    BY <2>1, Zenon
  <2> QED BY <2>2, <1>3, <1>6 DEF Apart
<1>8. v \in Seq(Nat) /\ Joined(v, ss, N)
  BY <1>3, <1>4, <1>7, Flattened
<1> HIDE DEF v
<1>9. \A x : x \in Range(v) <=> \E p \in 1..N : x \in Range(ss[p])
  BY <1>8 DEF Joined
<1>10. Range(v) = J
  <2>1. ASSUME NEW x, x \in Range(v) PROVE x \in J
    <3>1. PICK p \in 1..N : x \in Range(ss[p])
      BY <2>1, <1>9, Zenon
    <3>2. p \notin P /\ x \in I /\ d[x].value # "" /\ d[x].arch = field[p].arch
      BY <3>1, <1>5, Zenon
    <3>3. ASSUME NEW q \in 1..N, q \in P PROVE field[q].arch # d[x].arch
      <4>1. q # p
        BY <3>2, <3>3
      <4>2. field[q].arch = field[p].arch => q = p
        BY <1>2, Zenon
      <4> QED BY <4>1, <4>2, <3>2
    <3> QED BY <3>2, <3>3, Zenon
  <2>2. ASSUME NEW x, x \in J PROVE x \in Range(v)
    <3>1. x \in I /\ d[x].value # "" /\ \A p \in 1..N : p \in P => field[p].arch # d[x].arch
      BY <2>2, Zenon
    <3>2. PICK p \in 1..N : field[p].arch = d[x].arch
      BY <3>1, <1>2, Zenon
    <3>3. p \notin P
      BY <3>1, <3>2, Zenon
    <3>4. x \in Range(ss[p])
      BY <3>1, <3>2, <3>3, <1>5
    <3> QED BY <3>4, <1>9, Zenon
  <2> HIDE DEF J
  <2> QED BY <2>1, <2>2
<1>11. ASSUME NEW p \in 1..Len(v), NEW q \in 1..Len(v), p < q, d[v[p]].arch = d[v[q]].arch
       PROVE  v[p] < v[q]
  <2>1. v[p] \in Range(v) /\ v[q] \in Range(v)
    BY <1>8, InRange
  <2>2. PICK a \in 1..N : v[p] \in Range(ss[a])
    BY <2>1, <1>9
  <2>3. PICK b \in 1..N : v[q] \in Range(ss[b])
    BY <2>1, <1>9
  <2>4. a = b
    <3>1. d[v[p]].arch = field[a].arch
      BY <2>2, <1>5, Zenon
    <3>2. d[v[q]].arch = field[b].arch
      BY <2>3, <1>5, Zenon
    <3> QED BY <3>1, <3>2, <1>2, <1>11, Zenon
  <2> QED BY <2>2, <2>3, <2>4, <1>8, <1>11 DEF Joined
<1>12. ASSUME NEW p \in 1..Len(v), NEW q \in 1..Len(v), p < q
       PROVE  v[p] # v[q]
  <2>1. v[p] \in Nat
    BY <1>8
  <2>2. v[p] = v[q] => v[p] < v[q]
    BY <1>11, <1>12
  <2> QED BY <2>1, <2>2
<1> HIDE DEF J
<1>13. Enumerates(d, v, J)
  BY <1>8, <1>10, <1>11, <1>12 DEF Enumerates
<1>14. v = Without(field, P)
  BY <1>s, Zenon DEF v, Without
<1>15. J = Outside(d, field, I, P)
  BY <1>N, Zenon DEF J, Outside
<1> QED BY <1>13, <1>14, <1>15, Zenon

\* A field put in a row lists its lines that have a value.
LEMMA FlatIs ==
  ASSUME NEW d, NEW n \in Nat, n = Len(d), NEW field \in Seq(Dims(d)), NEW I, Exact(d, field, I)
  PROVE  Enumerates(d, Flatten(field), {i \in I : d[i].value # ""})
<1>1. Enumerates(d, Without(field, {}), Outside(d, field, I, {}))
  BY PartIs
<1>2. Without(field, {}) = Flatten(field)
  <2>1. [p \in DOMAIN field |-> IF p \in {} THEN << >> ELSE field[p].values] = [p \in DOMAIN field |-> field[p].values]
    OBVIOUS
  <2> QED BY <2>1, Zenon DEF Without, Flatten
<1>3. Outside(d, field, I, {}) = {i \in I : d[i].value # ""}
  BY DEF Outside
<1> QED BY <1>1, <1>2, <1>3

\* A sequence without repetition is as long as what it holds.
LEMMA Distinct ==
  ASSUME NEW v \in Seq(Nat), \A p, q \in 1..Len(v) : p < q => v[p] # v[q]
  PROVE  Len(v) = Cardinality(Range(v))
<1>1. DOMAIN v = 1..Len(v) /\ v \in [1..Len(v) -> Nat] /\ Len(v) \in Nat
  OBVIOUS
<1>2. IsInjective(v)
  <2>1. \A p, q \in 1..Len(v) : v[p] = v[q] => p = q
    <3> SUFFICES ASSUME NEW p \in 1..Len(v), NEW q \in 1..Len(v), v[p] = v[q], p # q PROVE FALSE
      OBVIOUS
    <3>1. p < q \/ q < p
      OBVIOUS
    <3> QED BY <3>1
  <2> QED BY <2>1, <1>1 DEF IsInjective
<1>3. v \in Bijection(1..Len(v), Range(v))
  <2>1. v \in [1..Len(v) -> Range(v)] /\ \A x \in Range(v) : \E p \in 1..Len(v) : v[p] = x
    BY <1>1 DEF Range
  <2> QED BY <2>1, <1>2 DEF Bijection, Injection, Surjection
<1>4. ExistsBijection(1..Len(v), Range(v))
  BY <1>3 DEF ExistsBijection
<1>5. PICK n \in Nat : n = Len(v)
  BY <1>1
<1>6. Cardinality(Range(v)) = n
  BY <1>4, <1>5, FS_CountingElements
<1> QED BY <1>5, <1>6

\* A listing is empty when it lists nothing, and as long as what it lists.
LEMMA ListSize ==
  ASSUME NEW d, NEW v, NEW I, Enumerates(d, v, I)
  PROVE  /\ v = << >> <=> I = {}
         /\ Len(v) = Cardinality(I)
<1>1. v \in Seq(Nat) /\ Range(v) = I /\ \A p, q \in 1..Len(v) : p < q => v[p] # v[q]
  BY DEF Enumerates
<1>2. Len(v) = Cardinality(I)
  BY <1>1, Distinct
<1>3. ASSUME v = << >> PROVE I = {}
  <2>1. Range(<< >>) = {}
    BY DEF Range
  <2> QED BY <2>1, <1>3, <1>1
<1>4. ASSUME v # << >> PROVE I # {}
  <2>1. 1 \in 1..Len(v)
    BY <1>4, <1>1
  <2> QED BY <2>1, <1>1, InRange
<1> QED BY <1>2, <1>3, <1>4

-----------------------------------------------------------------------------
(* A text that meets the conditions *)

\* A set that has at most one element.
LEMMA AtMostOne ==
  ASSUME NEW S, IsFiniteSet(S)
  PROVE  Cardinality(S) <= 1 <=> \A x, y \in S : x = y
<1>0. Cardinality(S) \in Nat
  BY FS_CardinalityType
<1>1. CASE S = {}
  <2>1. Cardinality(S) = 0
    BY <1>1, FS_EmptySet
  <2> QED BY <1>1, <2>1
<1>2. CASE S # {}
  <2>1. Cardinality(S) # 0
    BY <1>2, FS_EmptySet
  <2>2. Cardinality(S) = 1 <=> \E x : S = {x}
    BY FS_Singleton
  <2>3. (\E x : S = {x}) <=> \A x, y \in S : x = y
    BY <1>2
  <2>4. Cardinality(S) <= 1 <=> Cardinality(S) = 1
    BY <1>0, <2>1
  <2> QED BY <2>2, <2>3, <2>4, Zenon
<1> QED BY <1>1, <1>2

\* The suffixes of the section s are those of its architectures.
Suffixed(s) ==
  \A k \in ArchFields : \A i \in LinesOf(s, k) :
    doc[i].arch # "" => doc[i].arch \in {doc[j].value : j \in Filled(ArchLines(s))} \ {"any"}

\* What only the end of the text tells.
Complete ==
  /\ doc # << >> /\ Names # {}
  /\ \A s \in 0..Len(blocks) : Filled(ArchLines(s)) # {} /\ Suffixed(s)
  /\ Filled(LinesOf(0, "pkgver")) # {} /\ Filled(LinesOf(0, "pkgrel")) # {}

\* A text is correct if it is sound and complete.
LEMMA CorrectIs ==
  ASSUME ParseType, SectionsInv
  PROVE  Correct <=> Sound /\ Complete
<1>n. PICK n \in Nat : n = Len(doc) /\ DOMAIN doc = 1..n /\ (doc = << >> <=> n = 0)
  BY Domains
<1>m. PICK m \in Nat : m = Len(blocks) /\ Cardinality(Names) = m
  BY Domains DEF SectionsInv
<1>1. /\ \A s, k : LinesOf(s, k) = {i \in 1..n : doc[i].key = k /\ Section(i) = s}
      /\ \A i \in 1..n : Section(i) \in 0..m
  <2>1. \A s, k : LinesOf(s, k) = {i \in 1..n : doc[i].key = k /\ Section(i) = s}
    BY <1>n DEF LinesOf, Has
  <2>2. \A i \in 1..n : Section(i) \in 0..m
    BY <1>n, <1>m, LinesBound
  <2> QED BY <2>1, <2>2
<1>2. \A s, k : (Cardinality(LinesOf(s, k)) <= 1 <=> \A x, y \in LinesOf(s, k) : x = y)
  <2> SUFFICES ASSUME NEW s, NEW k
               PROVE  (Cardinality(LinesOf(s, k)) <= 1 <=> \A x, y \in LinesOf(s, k) : x = y)
    OBVIOUS
  <2>1. IsFiniteSet(1..n) /\ LinesOf(s, k) \subseteq 1..n
    BY <1>1, FS_Interval
  <2>2. IsFiniteSet(LinesOf(s, k))
    BY <2>1, FS_Subset
  <2> QED BY <2>2, AtMostOne
<1> DEFINE
  C1 == doc # << >>
  C2 == \A i \in 1..n : doc[i].key = "pkgbase" <=> i = 1
  C3 == doc[1].value # ""
  C4 == Names # {}
  C5 == Filled(Names) = Names
  C6 == \A i, j \in Names : doc[i].value = doc[j].value => i = j
  C7 == \A i \in 1..n : ParseKey(doc[i]) # "unknown" \/ doc[i].key \in {"pkgbase", "pkgname"}
  C8 == \A s \in 0..m : \A k \in Scalars : Cardinality(LinesOf(s, k)) <= 1
  C9 == \A s \in 0..m : s # 0 => \A k \in Projected \ AllowedInPackage : LinesOf(s, k) = {}
  C10 == \A s \in 0..m : Filled(ArchLines(s)) # {} /\ Suffixed(s)
  C11 == Filled(LinesOf(0, "pkgver")) # {} /\ Filled(LinesOf(0, "pkgrel")) # {}
  S2 == \A i \in 1..n : doc[i].key = "pkgbase" => doc[i].value # ""
  S3 == \A i \in Names : doc[i].value # ""
  S6 == \A i, j \in 1..n :
          doc[i].key = doc[j].key /\ doc[i].key \in Scalars /\ Section(i) = Section(j) => i = j
  S7 == \A i \in 1..n : Section(i) # 0 => doc[i].key \notin Projected \ AllowedInPackage
<1>3. Sound <=> C2 /\ S2 /\ S3 /\ C6 /\ C7 /\ S6 /\ S7
  BY <1>n, Zenon DEF Sound, Has
<1>4. Correct <=> C1 /\ C2 /\ C3 /\ C4 /\ C5 /\ C6 /\ C7 /\ C8 /\ C9 /\ C10 /\ C11
  <2>1. Correct <=> C1 /\ C2 /\ C3 /\ C4 /\ C5 /\ C6 /\ C7
          /\ (\A s \in 0..m :
               /\ \A k \in Scalars : Cardinality(LinesOf(s, k)) <= 1
               /\ s # 0 => \A k \in Projected \ AllowedInPackage : LinesOf(s, k) = {}
               /\ Filled(ArchLines(s)) # {}
               /\ Suffixed(s))
          /\ C11
    BY <1>n, <1>m, Zenon DEF Correct, Suffixed, Has
  <2>2. (\A s \in 0..m :
               /\ \A k \in Scalars : Cardinality(LinesOf(s, k)) <= 1
               /\ s # 0 => \A k \in Projected \ AllowedInPackage : LinesOf(s, k) = {}
               /\ Filled(ArchLines(s)) # {}
               /\ Suffixed(s)) <=> C8 /\ C9 /\ C10
    BY Zenon
  <2> HIDE DEF C1, C2, C3, C4, C5, C6, C7, C8, C9, C10, C11
  <2> QED BY <2>1, <2>2, Zenon
<1>5. Complete <=> C1 /\ C4 /\ C10 /\ C11
  BY <1>m, Zenon DEF Complete
<1>6. C1 /\ C2 => (C3 <=> S2)
  <2>1. n # 0 => 1 \in 1..n
    OBVIOUS
  <2> QED BY <1>n, <2>1
<1>7. C5 <=> S3
  BY DEF Filled
<1>8. C8 <=> S6
  <2>1. ASSUME C8, NEW i \in 1..n, NEW j \in 1..n,
               doc[i].key = doc[j].key, doc[i].key \in Scalars, Section(i) = Section(j)
        PROVE  i = j
    <3>1. PICK s \in 0..m : s = Section(i)
      BY <1>1
    <3>2. PICK k \in Scalars : k = doc[i].key
      BY <2>1
    <3>3. i \in LinesOf(s, k) /\ j \in LinesOf(s, k)
      BY <2>1, <3>1, <3>2, <1>1
    <3>4. Cardinality(LinesOf(s, k)) <= 1
      BY <2>1
    <3> QED BY <3>3, <3>4, <1>2
  <2>2. ASSUME S6, NEW s \in 0..m, NEW k \in Scalars
        PROVE  Cardinality(LinesOf(s, k)) <= 1
    <3>1. ASSUME NEW x \in LinesOf(s, k), NEW y \in LinesOf(s, k) PROVE x = y
      <4>1. /\ x \in 1..n /\ doc[x].key = k /\ Section(x) = s
            /\ y \in 1..n /\ doc[y].key = k /\ Section(y) = s
        BY <1>1
      <4> QED BY <4>1, <2>2
    <3> QED BY <3>1, <1>2, Zenon
  <2>3. C8 => S6
    BY <2>1, Zenon
  <2>4. S6 => C8
    BY <2>2, Zenon
  <2> HIDE DEF C8, S6
  <2> QED BY <2>3, <2>4
<1>9. C9 <=> S7
  <2>1. ASSUME C9, NEW i \in 1..n, Section(i) # 0, doc[i].key \in Projected \ AllowedInPackage
        PROVE  FALSE
    <3>1. PICK s \in 0..m : s = Section(i)
      BY <1>1
    <3>2. PICK k \in Projected \ AllowedInPackage : k = doc[i].key
      BY <2>1
    <3>3. i \in LinesOf(s, k)
      BY <2>1, <3>1, <3>2, <1>1
    <3>4. LinesOf(s, k) = {}
      BY <2>1, <3>1
    <3> QED BY <3>3, <3>4
  <2>2. ASSUME S7, NEW s \in 0..m, s # 0, NEW k \in Projected \ AllowedInPackage
        PROVE  LinesOf(s, k) = {}
    <3>1. ASSUME NEW x \in LinesOf(s, k) PROVE FALSE
      <4>1. x \in 1..n /\ doc[x].key = k /\ Section(x) = s
        BY <1>1
      <4> QED BY <4>1, <2>2
    <3> QED BY <3>1, Zenon
  <2>3. C9 => S7
    BY <2>1, Zenon
  <2>4. S7 => C9
    BY <2>2, Zenon
  <2> HIDE DEF C9, S7
  <2> QED BY <2>3, <2>4
<1> HIDE DEF C1, C2, C3, C4, C5, C6, C7, C8, C9, C10, C11, S2, S3, S6, S7
<1> QED BY <1>3, <1>4, <1>5, <1>6, <1>7, <1>8, <1>9, Zenon

-----------------------------------------------------------------------------
(* What the fields of a text without fatal report give at its end *)

\* Listings of fields.
LEMMA FieldLists ==
  ASSUME ParseType, ContentInv, ~HasFatal, NEW s \in 0..Len(blocks), NEW k \in Projected
  PROVE  /\ Exact(doc, FieldsOf(s)[k], LinesOf(s, k))
         /\ FieldsOf(s)[k] \in Seq(Dims(doc))
         /\ Enumerates(doc, Flatten(FieldsOf(s)[k]), Filled(LinesOf(s, k)))
         /\ FieldsOf(s)[k] = << >> <=> LinesOf(s, k) = {}
<1>1. Exact(doc, FieldsOf(s)[k], LinesOf(s, k))
  BY DEF ContentInv
<1>2. FieldsOf(s)[k] \in Seq(Dims(doc))
  BY FieldsType
<1>3. PICK field \in Seq(Dims(doc)) : field = FieldsOf(s)[k]
  BY <1>2
<1>4. PICK I : I = LinesOf(s, k)
  OBVIOUS
<1>5. PICK n \in Nat : n = Len(doc)
  BY Domains
<1>6. Exact(doc, field, I)
  BY <1>1, <1>3, <1>4
<1>7. Enumerates(doc, Flatten(field), {i \in I : doc[i].value # ""})
  BY <1>5, <1>6, FlatIs
<1>8. field = << >> <=> I = {}
  BY <1>6, ExactEmpty
<1>9. {i \in I : doc[i].value # ""} = Filled(I)
  BY DEF Filled
<1>10. Enumerates(doc, Flatten(FieldsOf(s)[k]), Filled(LinesOf(s, k)))
  BY <1>3, <1>4, <1>7, <1>9, Zenon
<1>11. FieldsOf(s)[k] = << >> <=> LinesOf(s, k) = {}
  BY <1>3, <1>4, <1>8
<1> QED BY <1>1, <1>2, <1>10, <1>11

\* The architectures of a section are the values of its arch lines.
LEMMA ArchesAre ==
  ASSUME ParseType, ContentInv, ~HasFatal, NEW s \in 0..Len(blocks)
  PROVE  /\ Range(Arches(s)) = Filled(ArchLines(s))
         /\ Arches(s) = << >> <=> Filled(ArchLines(s)) = {}
<1> DEFINE own == IF LinesOf(s, "arch") # {} THEN s ELSE 0
<1>0. "arch" \in Projected /\ 0 \in 0..Len(blocks)
  BY Domains DEF Projected, Lists
<1>1. own \in 0..Len(blocks)
  BY <1>0
<1>2. FieldsOf(s)["arch"] = << >> <=> LinesOf(s, "arch") = {}
  BY <1>0, FieldLists
<1>3. FieldsOf(0)["arch"] = base["arch"]
  BY DEF FieldsOf
<1>4. s # 0 => FieldsOf(s)["arch"] = blocks[s].fields["arch"]
  BY DEF FieldsOf
<1>5. Arches(s) = Flatten(FieldsOf(own)["arch"])
  BY <1>2, <1>3, <1>4 DEF Arches
<1>6. ArchLines(s) = LinesOf(own, "arch")
  BY DEF ArchLines
<1> HIDE DEF own
<1>7. Enumerates(doc, Flatten(FieldsOf(own)["arch"]), Filled(LinesOf(own, "arch")))
  BY <1>0, <1>1, FieldLists
<1>8. Enumerates(doc, Arches(s), Filled(ArchLines(s)))
  BY <1>5, <1>6, <1>7
<1> QED BY <1>8, ListSize DEF Enumerates

-----------------------------------------------------------------------------
(* What the end of the text reports *)

\* The suffix a may stand in the section s.
Fits(s, a) == a # "" => a \in {doc[j].value : j \in Filled(ArchLines(s))} \ {"any"}

\* A suffix is reported if it does not fit.
LEMMA SuffixIs ==
  ASSUME NEW s, Range(Arches(s)) = Filled(ArchLines(s)), NEW severity, NEW a, NEW line
  PROVE  /\ Suffix(severity, a, s, line) = {} <=> Fits(s, a)
         /\ \A r \in Suffix(severity, a, s, line) : r.severity = severity
<1>1. \A code : Diagnostic(severity, code, line).severity = severity
  BY DEF Diagnostic
<1>2. Supports(s, a) <=> a \in {doc[j].value : j \in Filled(ArchLines(s))}
  BY DEF Supports
<1>3. Suffix(severity, a, s, line) =
        IF a = "any" THEN {Diagnostic(severity, "invalid_arch_any", line)}
        ELSE IF a # "" /\ ~Supports(s, a)
          THEN {Diagnostic(severity, "unsupported_arch", line)}
          ELSE {}
  BY DEF Suffix
<1>4. CASE a = "any"
  <2>1. Suffix(severity, a, s, line) = {Diagnostic(severity, "invalid_arch_any", line)}
    BY <1>3, <1>4
  <2>2. ~Fits(s, a)
    BY <1>4 DEF Fits
  <2> QED BY <1>1, <2>1, <2>2
<1>5. CASE a # "any" /\ a # "" /\ ~Supports(s, a)
  <2>1. Suffix(severity, a, s, line) = {Diagnostic(severity, "unsupported_arch", line)}
    BY <1>3, <1>5
  <2>2. ~Fits(s, a)
    BY <1>2, <1>5 DEF Fits
  <2> QED BY <1>1, <2>1, <2>2
<1>6. CASE a # "any" /\ ~(a # "" /\ ~Supports(s, a))
  <2>1. Suffix(severity, a, s, line) = {}
    BY <1>3, <1>6
  <2>2. Fits(s, a)
    BY <1>2, <1>6 DEF Fits
  <2> QED BY <2>1, <2>2
<1> QED BY <1>4, <1>5, <1>6

\* The architectures of a section are reported where a suffix does not fit.
LEMMA ArchReports ==
  ASSUME ParseType, ContentInv, ~HasFatal, NEW s \in 0..Len(blocks)
  PROVE  /\ ValidateCoreArches(s) = {} <=> Suffixed(s)
         /\ \A r \in ValidateCoreArches(s) : r.severity = "fatal"
<1> DEFINE F == FieldsOf(s)
           V(d) == Suffix("fatal", d.arch, s, d.line)
           D == UNION {Range(F[k]) : k \in ArchFields}
<1>1. ValidateCoreArches(s) = UNION {V(d) : d \in D}
  BY Zenon DEF ValidateCoreArches, FieldsOf
<1>2. Range(Arches(s)) = Filled(ArchLines(s))
  BY ArchesAre
<1>3. \A d : (V(d) = {} <=> Fits(s, d.arch)) /\ \A r \in V(d) : r.severity = "fatal"
  BY <1>2, SuffixIs
<1> HIDE DEF V
<1>4. \A r \in ValidateCoreArches(s) : r.severity = "fatal"
  BY <1>1, <1>3
<1>5. ValidateCoreArches(s) = {} <=> \A d \in D : Fits(s, d.arch)
  BY <1>1, <1>3
<1>6. (\A d \in D : Fits(s, d.arch)) <=> \A k \in ArchFields : \A d \in Range(F[k]) : Fits(s, d.arch)
  OBVIOUS
<1>7. ASSUME NEW k \in ArchFields
      PROVE  (\A d \in Range(F[k]) : Fits(s, d.arch)) <=> \A i \in LinesOf(s, k) : Fits(s, doc[i].arch)
  <2>0. k \in Projected
    BY DEF Projected
  <2>1. PICK f \in Seq(Dims(doc)) : f = F[k]
    BY <2>0, FieldLists
  <2>2. PICK I : I = LinesOf(s, k)
    OBVIOUS
  <2>3. Exact(doc, f, I)
    BY <2>0, <2>1, <2>2, FieldLists
  <2>4. /\ \A i \in I : \E p \in 1..Len(f) : f[p].arch = doc[i].arch
        /\ \A p \in 1..Len(f) : \E i \in I : f[p].arch = doc[i].arch
    BY <2>3 DEF Exact
  <2>5. ASSUME \A d \in Range(f) : Fits(s, d.arch), NEW i \in I
        PROVE  Fits(s, doc[i].arch)
    <3>1. PICK p \in 1..Len(f) : f[p].arch = doc[i].arch
      BY <2>4
    <3>2. f[p] \in Range(f)
      BY InRange
    <3>3. Fits(s, f[p].arch)
      BY <2>5, <3>2
    <3> QED BY <3>1, <3>3
  <2>6. ASSUME \A i \in I : Fits(s, doc[i].arch), NEW d \in Range(f)
        PROVE  Fits(s, d.arch)
    <3>1. PICK p \in 1..Len(f) : d = f[p]
      BY DEF Range
    <3>2. PICK i \in I : f[p].arch = doc[i].arch
      BY <2>4
    <3>3. Fits(s, doc[i].arch)
      BY <2>6
    <3> QED BY <3>1, <3>2, <3>3
  <2>7. (\A d \in Range(f) : Fits(s, d.arch)) <=> \A i \in I : Fits(s, doc[i].arch)
    BY <2>5, <2>6
  <2> QED BY <2>1, <2>2, <2>7, Zenon
<1>8. Suffixed(s) <=> \A k \in ArchFields : \A i \in LinesOf(s, k) : Fits(s, doc[i].arch)
  BY Zenon DEF Suffixed, Fits
<1> QED BY <1>4, <1>5, <1>6, <1>7, <1>8, Zenon

\* What is missing, with the architectures every section needs.
LEMMA MissingIs ==
  ASSUME ParseType, SectionsInv, ContentInv, ~HasFatal, Sound
  PROVE  /\ \A r \in Missing : r.severity = "fatal"
         /\ Missing = {} <=> /\ doc # << >> /\ Names # {}
                             /\ \A s \in 0..Len(blocks) : Filled(ArchLines(s)) # {}
                             /\ Filled(LinesOf(0, "pkgver")) # {} /\ Filled(LinesOf(0, "pkgrel")) # {}
<1>m. PICK m \in Nat : m = Len(blocks) /\ DOMAIN blocks = 1..m /\ (blocks = << >> <=> m = 0)
  BY Domains
<1> DEFINE
  A == {k \in {"pkgver", "pkgrel", "arch"} : Flatten(base[k]) = << >>}
  M1 == {Diagnostic("fatal", "missing_" \o k, 0) : k \in A}
  M2 == IF pkgbase = 0 THEN {Diagnostic("fatal", "missing_pkgbase", 0)} ELSE {}
  M3 == IF blocks = << >> THEN {Diagnostic("fatal", "missing_pkgname", 0)} ELSE {}
  B == {b \in DOMAIN blocks : Arches(b) = << >> /\ blocks[b].fields["arch"] # << >>}
  M4 == {Diagnostic("fatal", "missing_arch", blocks[b].line) : b \in B}
<1>1. Missing = M1 \cup M2 \cup M3 \cup M4
  BY Zenon DEF Missing
<1>2. \A code, line : Diagnostic("fatal", code, line).severity = "fatal"
  BY DEF Diagnostic
<1>3. \A r \in Missing : r.severity = "fatal"
  <2> HIDE DEF A, B
  <2> QED BY <1>1, <1>2
<1>4. Missing = {} <=> A = {} /\ pkgbase # 0 /\ blocks # << >> /\ B = {}
  <2>1. (M1 = {} <=> A = {}) /\ (M4 = {} <=> B = {})
    <3> HIDE DEF A, B
    <3> QED OBVIOUS
  <2>2. (M2 = {} <=> pkgbase # 0) /\ (M3 = {} <=> blocks # << >>)
    OBVIOUS
  <2> HIDE DEF A, B, M1, M2, M3, M4
  <2> QED BY <1>1, <2>1, <2>2
<1>5. pkgbase # 0 <=> doc # << >>
  BY NotBegun
<1>6. blocks # << >> <=> Names # {}
  <2>1. Names = {blocks[b].line : b \in 1..m}
    BY <1>m DEF SectionsInv
  <2>2. 1..m = {} <=> m = 0
    OBVIOUS
  <2> QED BY <1>m, <2>1, <2>2
<1>7. \A k \in {"pkgver", "pkgrel", "arch"} : (Flatten(base[k]) = << >> <=> Filled(LinesOf(0, k)) = {})
  <2> SUFFICES ASSUME NEW k \in {"pkgver", "pkgrel", "arch"}
               PROVE  Flatten(base[k]) = << >> <=> Filled(LinesOf(0, k)) = {}
    OBVIOUS
  <2>1. k \in Projected /\ 0 \in 0..Len(blocks)
    BY <1>m DEF Projected, Scalars, Lists
  <2>2. FieldsOf(0)[k] = base[k]
    BY DEF FieldsOf
  <2>3. Enumerates(doc, Flatten(base[k]), Filled(LinesOf(0, k)))
    BY <2>1, <2>2, FieldLists
  <2> QED BY <2>3, ListSize
<1>8. A = {} <=> /\ Filled(LinesOf(0, "pkgver")) # {} /\ Filled(LinesOf(0, "pkgrel")) # {}
                 /\ Filled(LinesOf(0, "arch")) # {}
  BY <1>7
<1>9. ArchLines(0) = LinesOf(0, "arch")
  BY DEF ArchLines
<1>10. \A s \in 0..m : (Arches(s) = << >> <=> Filled(ArchLines(s)) = {})
  BY <1>m, ArchesAre
<1>11. \A s \in 1..m : (blocks[s].fields["arch"] = << >> <=> LinesOf(s, "arch") = {})
  <2> SUFFICES ASSUME NEW s \in 1..m PROVE blocks[s].fields["arch"] = << >> <=> LinesOf(s, "arch") = {}
    OBVIOUS
  <2>1. s \in 0..Len(blocks) /\ s # 0 /\ "arch" \in Projected
    BY <1>m DEF Projected, Lists
  <2>2. FieldsOf(s)["arch"] = blocks[s].fields["arch"]
    BY <2>1 DEF FieldsOf
  <2> QED BY <2>1, <2>2, FieldLists
<1>12. B = {} <=> \A s \in 1..m : Filled(ArchLines(s)) # {} \/ LinesOf(s, "arch") = {}
  <2>1. \A s \in 1..m : s \in 0..m
    OBVIOUS
  <2> QED BY <1>m, <1>10, <1>11, <2>1
<1>13. \A s : LinesOf(s, "arch") = {} => ArchLines(s) = LinesOf(0, "arch")
  BY DEF ArchLines
<1>14. (\A s \in 0..m : Filled(ArchLines(s)) # {}) <=> Filled(LinesOf(0, "arch")) # {} /\ B = {}
  <2>1. 0..m = {0} \cup 1..m
    OBVIOUS
  <2> HIDE DEF B
  <2> QED BY <2>1, <1>9, <1>12, <1>13
<1> HIDE DEF A, B
<1> QED BY <1>m, <1>3, <1>4, <1>5, <1>6, <1>8, <1>14

\* A suffix is reported with the severity of its field.
LEMMA SuffixSeverity ==
  ASSUME NEW s, NEW severity, NEW a, NEW line
  PROVE  \A r \in Suffix(severity, a, s, line) : r.severity = severity
<1>1. \A code : Diagnostic(severity, code, line).severity = severity
  BY DEF Diagnostic
<1>2. \/ Suffix(severity, a, s, line) = {Diagnostic(severity, "invalid_arch_any", line)}
      \/ Suffix(severity, a, s, line) = {Diagnostic(severity, "unsupported_arch", line)}
      \/ Suffix(severity, a, s, line) = {}
  BY DEF Suffix
<1> QED BY <1>1, <1>2

\* The end of the text reports nothing fatal if and only if the text is correct.
LEMMA FatalFinish ==
  ASSUME ParseInv, Finish
  PROVE  HasFatal' <=> ~Correct
<1>0. ParseType /\ SectionsInv /\ ContentInv /\ ~done /\ (HasFatal <=> ~Sound)
  BY DEF ParseInv, Finish
<1>1. Correct <=> Sound /\ Complete
  BY <1>0, CorrectIs
<1> DEFINE V == UNION {ValidateCoreArches(b) : b \in 0..Len(blocks)}
<1>2. diagnostics' = diagnostics \cup Missing \cup IgnoredSuffixes \cup V
  BY DEF Finish
<1>3. \A r \in IgnoredSuffixes : r.severity = "warning"
  BY SuffixSeverity DEF IgnoredSuffixes
<1>4. CASE HasFatal
  BY <1>0, <1>1, <1>2, <1>4 DEF HasFatal
<1>5. CASE ~HasFatal
  <2>1. /\ \A r \in Missing : r.severity = "fatal"
        /\ Missing = {} <=> /\ doc # << >> /\ Names # {}
                            /\ \A s \in 0..Len(blocks) : Filled(ArchLines(s)) # {}
                            /\ Filled(LinesOf(0, "pkgver")) # {} /\ Filled(LinesOf(0, "pkgrel")) # {}
    BY <1>0, <1>5, MissingIs
  <2>2. \A s \in 0..Len(blocks) : /\ ValidateCoreArches(s) = {} <=> Suffixed(s)
                                  /\ \A r \in ValidateCoreArches(s) : r.severity = "fatal"
    BY <1>0, <1>5, ArchReports
  <2>3. (V = {} <=> \A s \in 0..Len(blocks) : Suffixed(s)) /\ \A r \in V : r.severity = "fatal"
    BY <2>2
  <2> HIDE DEF V
  <2>4. HasFatal' <=> Missing # {} \/ V # {}
    <3>1. \A r \in diagnostics' : r.severity = "fatal" => r \in Missing \/ r \in V
      BY <1>2, <1>3, <1>5 DEF HasFatal
    <3>2. \A r \in Missing \cup V : r \in diagnostics' /\ r.severity = "fatal"
      BY <1>2, <2>1, <2>3
    <3> QED BY <3>1, <3>2 DEF HasFatal
  <2>5. Complete <=> Missing = {} /\ V = {}
    <3>1. Complete <=> /\ doc # << >> /\ Names # {}
                       /\ \A s \in 0..Len(blocks) : Filled(ArchLines(s)) # {}
                       /\ Filled(LinesOf(0, "pkgver")) # {} /\ Filled(LinesOf(0, "pkgrel")) # {}
                       /\ \A s \in 0..Len(blocks) : Suffixed(s)
      BY Zenon DEF Complete
    <3> QED BY <3>1, <2>1, <2>3, Zenon
  <2> QED BY <1>0, <1>1, <1>5, <2>4, <2>5, Zenon
<1> QED BY <1>4, <1>5

-----------------------------------------------------------------------------
(* What a package states *)

\* v is what StatesItsOwn wants of the field k of package s.
Told(v, s, k) ==
  /\ Range(v) = Stated(s, k) /\ Len(v) = Cardinality(Stated(s, k))
  /\ \A j \in DOMAIN v : \A i \in 1..j-1 :
       /\ Section(v[j]) # 0 => Section(v[i]) # 0
       /\ Section(v[i]) = Section(v[j]) /\ doc[v[i]].arch = doc[v[j]].arch => v[i] < v[j]

\* Its own lines, and after them those of the base.
LEMMA TwoLists ==
  ASSUME NEW s, s # 0, NEW k, NEW v, NEW w, NEW I, NEW J,
         Enumerates(doc, v, I), Enumerates(doc, w, J),
         \A i \in I : Section(i) = s, \A i \in J : Section(i) = 0,
         Stated(s, k) = I \cup J
  PROVE  Told(v \o w, s, k)
<1> DEFINE u == v \o w
<1>1. v \in Seq(Nat) /\ Range(v) = I /\ w \in Seq(Nat) /\ Range(w) = J
  BY DEF Enumerates
<1>a. PICK a \in Nat : a = Len(v)
  BY <1>1
<1>b. PICK b \in Nat : b = Len(w)
  BY <1>1
<1>2. /\ u \in Seq(Nat) /\ Len(u) = a + b
      /\ \A i \in 1..a : u[i] = v[i]
      /\ \A i \in 1..b : u[a + i] = w[i]
      /\ Range(u) = Range(v) \cup Range(w)
  BY <1>1, <1>a, <1>b, Concat
<1>3. /\ \A p, q \in 1..a : p < q => v[p] # v[q] /\ (doc[v[p]].arch = doc[v[q]].arch => v[p] < v[q])
      /\ \A p, q \in 1..b : p < q => w[p] # w[q] /\ (doc[w[p]].arch = doc[w[q]].arch => w[p] < w[q])
  BY <1>a, <1>b DEF Enumerates
<1>4. /\ \A p \in 1..a : Section(v[p]) = s
      /\ \A p \in 1..b : Section(w[p]) = 0
  <2>1. /\ \A p \in 1..a : v[p] \in I
        /\ \A p \in 1..b : w[p] \in J
    BY <1>1, <1>a, <1>b, InRange
  <2> QED BY <2>1
<1> HIDE DEF u
<1>5. ASSUME NEW p \in 1..a+b, NEW q \in 1..a+b, p < q
      PROVE  /\ u[p] # u[q]
             /\ Section(u[q]) # 0 => Section(u[p]) # 0
             /\ Section(u[p]) = Section(u[q]) /\ doc[u[p]].arch = doc[u[q]].arch => u[p] < u[q]
  <2>1. \/ p \in 1..a /\ q \in 1..a
        \/ p \in 1..a /\ q - a \in 1..b /\ q = a + (q - a)
        \/ p - a \in 1..b /\ q - a \in 1..b /\ q = a + (q - a) /\ p = a + (p - a) /\ p - a < q - a
    BY <1>5
  <2>2. CASE p \in 1..a /\ q \in 1..a
    <3>1. u[p] = v[p] /\ u[q] = v[q]
      BY <2>2, <1>2
    <3> QED BY <3>1, <2>2, <1>3, <1>4, <1>5
  <2>3. CASE p \in 1..a /\ q - a \in 1..b /\ q = a + (q - a)
    <3>1. PICK y \in 1..b : y = q - a /\ q = a + y
      BY <2>3
    <3>2. u[p] = v[p] /\ u[q] = w[y]
      BY <2>3, <3>1, <1>2
    <3>3. Section(u[p]) = s /\ Section(u[q]) = 0
      BY <2>3, <3>2, <1>4
    <3>4. u[p] # u[q]
      BY <3>3
    <3> QED BY <3>3, <3>4
  <2>4. CASE p - a \in 1..b /\ q - a \in 1..b /\ q = a + (q - a) /\ p = a + (p - a) /\ p - a < q - a
    <3>1. PICK x \in 1..b : x = p - a /\ p = a + x
      BY <2>4
    <3>2. PICK y \in 1..b : y = q - a /\ q = a + y
      BY <2>4
    <3>3. u[p] = w[x] /\ u[q] = w[y] /\ x < y
      BY <2>4, <3>1, <3>2, <1>2
    <3> QED BY <3>3, <1>3, <1>4
  <2> QED BY <2>1, <2>2, <2>3, <2>4
<1>6. Range(u) = Stated(s, k)
  BY <1>1, <1>2
<1>7. Len(u) = Cardinality(Stated(s, k))
  BY <1>2, <1>5, <1>6, Distinct
<1>8. \A j \in DOMAIN u : \A i \in 1..j-1 : i \in 1..a+b /\ j \in 1..a+b /\ i < j
  BY <1>2
<1>9. Told(u, s, k)
  BY <1>5, <1>6, <1>7, <1>8 DEF Told
<1> QED BY <1>9 DEF u

\* A list that is only of the package, or only of the base.
LEMMA OneList ==
  ASSUME NEW s, s # 0, NEW k, NEW v, NEW t \in {s, 0},
         Enumerates(doc, v, Stated(s, k)), \A i \in Stated(s, k) : Section(i) = t
  PROVE  Told(v, s, k)
<1>1. Enumerates(doc, << >>, {})
  <2>1. << >> \in Seq(Nat) /\ Range(<< >>) = {} /\ 1..Len(<< >>) = {}
    BY DEF Range
  <2> QED BY <2>1 DEF Enumerates
<1>2. v \in Seq(Nat)
  BY DEF Enumerates
<1>3. << >> \o v = v /\ v \o << >> = v
  BY <1>2
<1>4. PICK I : I = Stated(s, k)
  OBVIOUS
<1>5. CASE t = s
  <2>1. Told(v \o << >>, s, k)
    <3>1. PICK e : e = << >>
      OBVIOUS
    <3>2. PICK J : J = {}
      OBVIOUS
    <3>3. /\ Enumerates(doc, v, I) /\ Enumerates(doc, e, J)
          /\ (\A i \in I : Section(i) = s) /\ (\A i \in J : Section(i) = 0)
          /\ Stated(s, k) = I \cup J
      BY <3>1, <3>2, <1>1, <1>4, <1>5
    <3>4. Told(v \o e, s, k)
      BY <3>3, TwoLists
    <3> QED BY <3>1, <3>4
  <2> QED BY <2>1, <1>3
<1>6. CASE t = 0
  <2>1. Told(<< >> \o v, s, k)
    <3>1. PICK e : e = << >>
      OBVIOUS
    <3>2. PICK J : J = {}
      OBVIOUS
    <3>3. /\ Enumerates(doc, e, J) /\ Enumerates(doc, v, I)
          /\ (\A i \in J : Section(i) = s) /\ (\A i \in I : Section(i) = 0)
          /\ Stated(s, k) = J \cup I
      BY <3>1, <3>2, <1>1, <1>4, <1>6
    <3>4. Told(e \o v, s, k)
      BY <3>3, TwoLists
    <3> QED BY <3>1, <3>4
  <2> QED BY <2>1, <1>3
<1> QED BY <1>5, <1>6

\* The lines a package has for field k.
Beside(s, k) ==
  {i \in LinesOf(0, k) : doc[i].value # "" /\ \A j \in LinesOf(s, k) : doc[j].arch # doc[i].arch}

\* What a package states: its own lines, and beside them those of the base.
LEMMA StatedIs ==
  ASSUME NEW s, NEW k
  PROVE  /\ Stated(s, k) = Filled(LinesOf(s, k)) \cup Beside(s, k)
         /\ \A t : \A i \in LinesOf(t, k) : Section(i) = t /\ i \in DOMAIN doc /\ doc[i].key = k
         /\ \A t : Filled(LinesOf(t, k)) \subseteq LinesOf(t, k)
<1>1. \A t : \A i \in LinesOf(t, k) : Section(i) = t /\ i \in DOMAIN doc /\ doc[i].key = k
  BY DEF LinesOf, Has
<1>2. \A t : Filled(LinesOf(t, k)) \subseteq LinesOf(t, k)
  BY DEF Filled
<1>3. Stated(s, k) = Filled(LinesOf(s, k)) \cup Beside(s, k)
  <2>1. \A A, B : Filled(A \cup B) = Filled(A) \cup Filled(B)
    BY DEF Filled
  <2>2. Stated(s, k) = Filled(LinesOf(s, k)) \cup
           Filled({i \in LinesOf(0, k) : \A j \in LinesOf(s, k) : doc[j].arch # doc[i].arch})
    BY <2>1 DEF Stated
  <2>3. Filled({i \in LinesOf(0, k) : \A j \in LinesOf(s, k) : doc[j].arch # doc[i].arch})
        = Beside(s, k)
    BY DEF Filled, Beside
  <2> QED BY <2>2, <2>3
<1> QED BY <1>1, <1>2, <1>3

\* An inherited field: the package's own, and what the base has beside it.
LEMMA MergeTold ==
  ASSUME ParseType, ContentInv, ~HasFatal, NEW s \in 1..Len(blocks), NEW k \in Projected
  PROVE  Told(MergeArch(base[k], blocks[s].fields[k]), s, k)
<1>1. s \in 0..Len(blocks) /\ 0 \in 0..Len(blocks) /\ s # 0
  BY Domains
<1>2. FieldsOf(s)[k] = blocks[s].fields[k] /\ FieldsOf(0)[k] = base[k]
  BY <1>1 DEF FieldsOf
<1>3. PICK own \in Seq(Dims(doc)) : own = blocks[s].fields[k]
  BY <1>1, <1>2, FieldLists
<1>4. PICK inherited \in Seq(Dims(doc)) : inherited = base[k]
  BY <1>1, <1>2, FieldLists
<1>5. PICK I : I = LinesOf(s, k)
  OBVIOUS
<1>6. PICK J : J = LinesOf(0, k)
  OBVIOUS
<1>7. Exact(doc, own, I) /\ Enumerates(doc, Flatten(own), Filled(I))
  BY <1>1, <1>2, <1>3, <1>5, FieldLists
<1>8. Exact(doc, inherited, J)
  BY <1>1, <1>2, <1>4, <1>6, FieldLists
<1> DEFINE Overrides(d) == \E i \in DOMAIN own : own[i].arch = d.arch
           P == {p \in DOMAIN inherited : Overrides(inherited[p])}
           K == {i \in J : doc[i].value # "" /\ \A j \in I : doc[j].arch # doc[i].arch}
<1>9. MergeArch(inherited, own) = Flatten(own) \o Without(inherited, P)
  <2>1. [p \in DOMAIN inherited |-> IF Overrides(inherited[p]) THEN << >> ELSE inherited[p].values]
        = [p \in DOMAIN inherited |-> IF p \in P THEN << >> ELSE inherited[p].values]
    <3>1. \A p \in DOMAIN inherited : Overrides(inherited[p]) <=> p \in P
      BY Zenon
    <3> HIDE DEF P, Overrides
    <3> QED BY <3>1
  <2> HIDE DEF P
  <2> QED BY <2>1, Zenon DEF MergeArch, Without
<1>10. Enumerates(doc, Without(inherited, P), Outside(doc, inherited, J, P))
  <2> HIDE DEF P
  <2>1. PICK n \in Nat : n = Len(doc)
    BY Domains
  <2> QED BY <2>1, <1>8, PartIs
<1>11. Outside(doc, inherited, J, P) = K
  <2>1. /\ \A i \in I : \E p \in 1..Len(own) : own[p].arch = doc[i].arch
        /\ \A p \in 1..Len(own) : \E i \in I : own[p].arch = doc[i].arch
    BY <1>7 DEF Exact
  <2>2. \A i \in J : \E p \in 1..Len(inherited) : inherited[p].arch = doc[i].arch
    BY <1>8 DEF Exact
  <2>a. DOMAIN inherited = 1..Len(inherited) /\ DOMAIN own = 1..Len(own)
    OBVIOUS
  <2>3. ASSUME NEW i \in J
        PROVE  (\A p \in 1..Len(inherited) : p \in P => inherited[p].arch # doc[i].arch)
               <=> \A j \in I : doc[j].arch # doc[i].arch
    <3>1. ASSUME \A p \in 1..Len(inherited) : p \in P => inherited[p].arch # doc[i].arch,
                 NEW j \in I, doc[j].arch = doc[i].arch
          PROVE  FALSE
      <4>1. PICK p \in 1..Len(inherited) : inherited[p].arch = doc[i].arch
        BY <2>2
      <4>2. PICK q \in 1..Len(own) : own[q].arch = doc[j].arch
        BY <2>1
      <4>3. p \in P
        BY <4>1, <4>2, <3>1, <2>a, Zenon
      <4> QED BY <4>1, <4>3, <3>1, Zenon
    <3>2. ASSUME \A j \in I : doc[j].arch # doc[i].arch,
                 NEW p \in 1..Len(inherited), p \in P, inherited[p].arch = doc[i].arch
          PROVE  FALSE
      <4>1. PICK q \in 1..Len(own) : own[q].arch = inherited[p].arch
        BY <3>2, <2>a, Zenon
      <4>2. PICK j \in I : own[q].arch = doc[j].arch
        BY <2>1
      <4>3. doc[j].arch = doc[i].arch
        BY <4>1, <4>2, <3>2
      <4> QED BY <4>3, <3>2
    <3> HIDE DEF P
    <3> QED BY <3>1, <3>2, Zenon
  <2> HIDE DEF P
  <2> QED BY <2>3 DEF Outside
<1>12. Stated(s, k) = Filled(I) \cup K
  <2>1. Beside(s, k) = K
    BY <1>5, <1>6, Zenon DEF Beside
  <2> HIDE DEF K
  <2> QED BY <2>1, <1>5, StatedIs
<1>13. (\A i \in Filled(I) : Section(i) = s) /\ (\A i \in K : Section(i) = 0)
  BY <1>5, <1>6, StatedIs
<1> HIDE DEF K, P
<1>14. Told(Flatten(own) \o Without(inherited, P), s, k)
  <2>1. PICK v : v = Flatten(own)
    OBVIOUS
  <2>2. PICK w : w = Without(inherited, P)
    OBVIOUS
  <2>3. PICK X : X = Filled(I)
    OBVIOUS
  <2>4. PICK Y : Y = K
    OBVIOUS
  <2>5. /\ Enumerates(doc, v, X) /\ Enumerates(doc, w, Y)
        /\ (\A i \in X : Section(i) = s) /\ (\A i \in Y : Section(i) = 0)
        /\ Stated(s, k) = X \cup Y
    BY <1>7, <1>10, <1>11, <1>12, <1>13, <2>1, <2>2, <2>3, <2>4
  <2>6. Told(v \o w, s, k)
    BY <2>5, <1>1, TwoLists
  <2> QED BY <2>1, <2>2, <2>6
<1> QED BY <1>3, <1>4, <1>9, <1>14

\* A field that may have no suffix has none.
LEMMA Plain ==
  ASSUME Sound, NEW k \in Projected \ ArchFields, NEW i \in DOMAIN doc, doc[i].key = k
  PROVE  doc[i].arch = ""
<1>1. k \notin ArchitectureCapable /\ k \notin {"pkgbase", "pkgname"}
  BY DEF Projected, ArchFields, Inherited, Scalars, Lists, ArchitectureCapable
<1>2. ParseKey(doc[i]) # "unknown"
  BY <1>1 DEF Sound
<1> QED BY <1>1, <1>2 DEF ParseKey

\* What a package of a sound text has is what it states.
LEMMA FieldTold ==
  ASSUME ParseType, ContentInv, ~HasFatal, Sound, NEW s \in 1..Len(blocks),
         NEW k \in Projected \ {"epoch", "pkgver", "pkgrel", "arch"}
  PROVE  Told(PackageOf(blocks[s]).fields[k], s, k)
<1> DEFINE own == blocks[s].fields[k]
           v == PackageOf(blocks[s]).fields[k]
<1>0. s \in 0..Len(blocks) /\ 0 \in 0..Len(blocks) /\ s # 0 /\ k \in Projected
  BY Domains
<1>1. v = IF k \in Inherited THEN MergeArch(base[k], own)
          ELSE IF k \notin ArchFields /\ own # << >> THEN Flatten(own)
          ELSE Flatten(base[k])
  BY DEF PackageOf
<1>2. FieldsOf(s)[k] = own /\ FieldsOf(0)[k] = base[k]
  BY <1>0 DEF FieldsOf
<1>3. /\ Enumerates(doc, Flatten(own), Filled(LinesOf(s, k)))
      /\ Enumerates(doc, Flatten(base[k]), Filled(LinesOf(0, k)))
      /\ own = << >> <=> LinesOf(s, k) = {}
  BY <1>0, <1>2, FieldLists
<1>4. /\ Stated(s, k) = Filled(LinesOf(s, k)) \cup Beside(s, k)
      /\ \A t : \A i \in LinesOf(t, k) : Section(i) = t /\ i \in DOMAIN doc /\ doc[i].key = k
      /\ \A t : Filled(LinesOf(t, k)) \subseteq LinesOf(t, k)
  BY StatedIs
<1> HIDE DEF v, own
<1>5. CASE k \in Inherited
  BY <1>0, <1>1, <1>5, MergeTold DEF own, v
<1>6. CASE k \notin ArchFields /\ own # << >>
  <2>1. v = Flatten(own)
    BY <1>1, <1>6 DEF ArchFields
  <2>2. \A t : \A i \in LinesOf(t, k) : doc[i].arch = ""
    BY <1>0, <1>4, <1>6, Plain
  <2>3. Stated(s, k) = Filled(LinesOf(s, k))
    <3>1. PICK j \in LinesOf(s, k) : doc[j].arch = ""
      BY <1>3, <1>6, <2>2
    <3>2. \A i \in LinesOf(0, k) : doc[j].arch = doc[i].arch
      BY <2>2, <3>1
    <3> QED BY <1>4, <3>1, <3>2 DEF Beside
  <2>4. \A i \in Stated(s, k) : Section(i) = s
    BY <2>3, <1>4
  <2>5. Enumerates(doc, v, Stated(s, k))
    BY <2>1, <2>3, <1>3
  <2>6. Told(v, s, k)
    BY <2>4, <2>5, <1>0, OneList
  <2> QED BY <2>6 DEF v
<1>7. CASE k \notin Inherited /\ ~(k \notin ArchFields /\ own # << >>)
  <2>1. v = Flatten(base[k])
    BY <1>1, <1>7
  <2>2. LinesOf(s, k) = {}
    <3>1. CASE own = << >>
      BY <3>1, <1>3
    <3>2. CASE k \in ArchFields
      <4>1. k \notin AllowedInPackage
        BY <3>2, <1>7 DEF ArchFields, Inherited, AllowedInPackage, Lists
      <4>2. \A i \in DOMAIN doc : Section(i) # 0 => doc[i].key # k
        BY <4>1, <1>0 DEF Sound
      <4> QED BY <4>2, <1>0, <1>4
    <3> QED BY <3>1, <3>2, <1>7
  <2>3. Stated(s, k) = Filled(LinesOf(0, k))
    <3>1. Filled(LinesOf(s, k)) = {}
      BY <2>2 DEF Filled
    <3> QED BY <2>2, <3>1, <1>4 DEF Filled, Beside
  <2>4. \A i \in Stated(s, k) : Section(i) = 0
    BY <2>3, <1>4
  <2>5. Enumerates(doc, v, Stated(s, k))
    BY <2>1, <2>3, <1>3
  <2>6. Told(v, s, k)
    BY <2>4, <2>5, <1>0, OneList
  <2> QED BY <2>6 DEF v
<1> QED BY <1>5, <1>6, <1>7

-----------------------------------------------------------------------------
(* The end of the text, and every step *)

\* What is said of the text alone stays while no line is read.
LEMMA SameText ==
  ASSUME UNCHANGED doc
  PROVE  /\ Correct' <=> Correct
         /\ Sound' <=> Sound
         /\ Names' = Names
         /\ \A i : Section(i)' = Section(i)
         /\ \A s, k : LinesOf(s, k)' = LinesOf(s, k) /\ Stated(s, k)' = Stated(s, k)
<1>1. Names' = Names
  BY DEF Names, Has
<1>2. \A i : Section(i)' = Section(i)
  BY <1>1 DEF Section
<1>3. \A s, k : LinesOf(s, k)' = LinesOf(s, k)
  BY <1>2 DEF LinesOf, Has
<1>4. \A I : Filled(I)' = Filled(I)
  BY DEF Filled
<1>5. \A s : ArchLines(s)' = ArchLines(s)
  BY <1>3 DEF ArchLines
<1>6. \A s, k : Stated(s, k)' = Stated(s, k)
  BY <1>3, <1>4 DEF Stated
<1>7. \A l : ParseKey(l)' = ParseKey(l)
  BY DEF ParseKey
<1>8. Sound' <=> Sound
  BY <1>1, <1>2 DEF Sound, Has, ParseKey
<1>9. Correct' <=> Correct
  <2> DEFINE
    C(s) == /\ \A k \in Scalars : Cardinality(LinesOf(s, k)) <= 1
            /\ s # 0 => \A k \in Projected \ AllowedInPackage : LinesOf(s, k) = {}
            /\ Filled(ArchLines(s)) # {}
            /\ \A k \in ArchFields : \A i \in LinesOf(s, k) :
                 doc[i].arch # "" =>
                   doc[i].arch \in {doc[j].value : j \in Filled(ArchLines(s))} \ {"any"}
    D == /\ doc # << >>
         /\ \A i \in DOMAIN doc : doc[i].key = "pkgbase" <=> i = 1
         /\ doc[1].value # "" /\ Names # {} /\ Filled(Names) = Names
         /\ \A i, j \in Names : doc[i].value = doc[j].value => i = j
         /\ \A i \in DOMAIN doc : ParseKey(doc[i]) # "unknown" \/ doc[i].key \in {"pkgbase", "pkgname"}
    E == Filled(LinesOf(0, "pkgver")) # {} /\ Filled(LinesOf(0, "pkgrel")) # {}
  <2>1. Correct <=> D /\ (\A s \in 0..Cardinality(Names) : C(s)) /\ E
    BY Zenon DEF Correct, Has
  <2>2. Correct' <=> D' /\ (\A s \in 0..Cardinality(Names') : C(s)') /\ E'
    BY Zenon DEF Correct, Has
  <2>3. \A s, k : Filled(LinesOf(s, k))' = Filled(LinesOf(s, k))
    BY <1>3 DEF Filled
  <2>4. \A s : Filled(ArchLines(s))' = Filled(ArchLines(s))
    BY <1>5 DEF Filled
  <2>5. Filled(Names)' = Filled(Names)
    BY <1>1 DEF Filled
  <2>6. D' <=> D
    BY <1>1, <2>5 DEF ParseKey
  <2>7. E' <=> E
    BY <2>3
  <2>8. \A s : C(s)' <=> C(s)
    <3> SUFFICES ASSUME NEW s PROVE C(s)' <=> C(s)
      OBVIOUS
    <3>1. \A k : LinesOf(s, k)' = LinesOf(s, k)
      BY <1>3
    <3>2. Filled(ArchLines(s))' = Filled(ArchLines(s))
      BY <2>4
    <3>3. (\A k \in Scalars : Cardinality(LinesOf(s, k)) <= 1)'
          <=> \A k \in Scalars : Cardinality(LinesOf(s, k)) <= 1
      BY <3>1
    <3>4. (s # 0 => \A k \in Projected \ AllowedInPackage : LinesOf(s, k) = {})'
          <=> (s # 0 => \A k \in Projected \ AllowedInPackage : LinesOf(s, k) = {})
      BY <3>1
    <3>5. Suffixed(s)' <=> Suffixed(s)
      BY <3>1, <3>2 DEF Suffixed
    <3> QED BY <3>2, <3>3, <3>4, <3>5, Zenon DEF Suffixed
  <2> HIDE DEF C, D, E
  <2> QED BY <1>1, <2>1, <2>2, <2>6, <2>7, <2>8
<1> QED BY <1>1, <1>2, <1>3, <1>6, <1>8, <1>9

\* The end of the text keeps the invariant.
LEMMA TextEnds ==
  ASSUME ParseInv, Finish
  PROVE  ParseInv'
<1>0. /\ ParseType /\ SectionsInv /\ ContentInv /\ NothingLost /\ (HasFatal <=> ~Sound)
      /\ ~done /\ done' = TRUE /\ UNCHANGED <<doc, pkgbase, base, blocks, ignored>>
      /\ diagnostics \subseteq diagnostics'
  BY DEF ParseInv, Finish
<1>1. /\ Names' = Names
      /\ Correct' <=> Correct
      /\ \A i : Section(i)' = Section(i)
      /\ \A s, k : LinesOf(s, k)' = LinesOf(s, k) /\ Stated(s, k)' = Stated(s, k)
  BY <1>0, SameText
<1>2. ParseType'
  BY <1>0 DEF ParseType
<1>3. SectionsInv'
  <2>1. \A b : Section(blocks[b].line)' = Section(blocks[b].line)
    BY <1>0, <1>1 DEF Section
  <2> QED BY <1>0, <1>1, <2>1 DEF SectionsInv, Has
<1>4. ContentInv'
  <2>1. ~HasFatal' => ~HasFatal
    BY <1>0 DEF HasFatal
  <2>2. \A s : FieldsOf(s)' = FieldsOf(s)
    BY <1>0 DEF FieldsOf
  <2> QED BY <1>0, <1>1, <2>1, <2>2 DEF ContentInv
<1>5. NothingLost'
  <2>1. \A i : ReportedAt(i) => ReportedAt(i)'
    BY <1>0 DEF ReportedAt, Has
  <2>2. \A i : (HeldBy(FieldsOf(Section(i)), i) => HeldBy(FieldsOf(Section(i)), i)')
    BY <1>0, <1>1 DEF HeldBy, FieldsOf, Has
  <2>3. ASSUME NEW i, Kept(i) PROVE Kept(i)'
    BY <1>0, <1>1, <2>1, <2>2, <2>3 DEF Kept, ParseKey
  <2>4. \A i \in DOMAIN doc : Kept(i)
    BY <1>0, NothingLostIs
  <2>5. (\A i \in DOMAIN doc : Kept(i))'
    BY <2>3, <2>4, <1>0
  <2> QED BY <2>5, NothingLostIs, PTL
<1>6. HasFatal' <=> ~Correct
  BY FatalFinish
<1>7. packages' = IF HasFatal' THEN << >> ELSE [i \in DOMAIN blocks |-> PackageOf(blocks[i])]
  BY DEF Finish
<1>m. PICK m \in Nat : m = Len(blocks) /\ DOMAIN blocks = 1..m /\ m = Cardinality(Names)
  BY <1>0, Domains DEF SectionsInv
<1>8. CASE HasFatal'
  <2>1. packages' = << >>
    BY <1>7, <1>8
  <2>2. AcceptsExactly'
    BY <1>1, <1>6, <1>8, <2>1 DEF AcceptsExactly
  <2>3. StatesItsOwn'
    <3>1. DOMAIN packages' = {}
      BY <2>1
    <3> QED BY <3>1, Zenon DEF StatesItsOwn
  <2> QED BY <1>0, <1>2, <1>3, <1>4, <1>5, <2>2, <2>3 DEF ParseInv
<1>9. CASE ~HasFatal'
  <2>1. Sound /\ ~HasFatal /\ Complete
    <3>1. Correct
      BY <1>6, <1>9
    <3> QED BY <3>1, <1>0, CorrectIs
  <2>2. packages' = [i \in 1..m |-> PackageOf(blocks[i])]
    BY <1>7, <1>9, <1>m
  <2>3. Len(packages') = m /\ DOMAIN packages' = 1..m
    BY <2>2
  <2>4. m # 0
    <3>1. Names # {} /\ Names = {blocks[b].line : b \in 1..m}
      BY <2>1, <1>0, <1>m DEF Complete, SectionsInv
    <3> QED BY <3>1
  <2>5. packages' # << >>
    BY <2>3, <2>4
  <2>6. AcceptsExactly'
    BY <1>1, <1>6, <1>9, <1>m, <2>3, <2>5 DEF AcceptsExactly
  <2>7. ASSUME NEW s \in 1..m, NEW k \in DOMAIN packages'[s].fields
        PROVE  Told(packages'[s].fields[k], s, k)
    <3>1. packages'[s] = PackageOf(blocks[s])
      BY <2>2
    <3>2. DOMAIN PackageOf(blocks[s]).fields = Projected \ {"epoch", "pkgver", "pkgrel", "arch"}
      BY DEF PackageOf
    <3>3. k \in Projected \ {"epoch", "pkgver", "pkgrel", "arch"}
      BY <2>7, <3>1, <3>2
    <3>4. s \in 1..Len(blocks)
      BY <1>m
    <3>5. Told(PackageOf(blocks[s]).fields[k], s, k)
      BY <3>3, <3>4, <1>0, <2>1, FieldTold
    <3> QED BY <3>1, <3>5
  <2>8. \A v, s, k : Told(v, s, k) =>
          /\ Range(v) = Stated(s, k)' /\ Len(v) = Cardinality(Stated(s, k)')
          /\ \A j \in DOMAIN v : \A i \in 1..j-1 :
               /\ Section(v[j])' # 0 => Section(v[i])' # 0
               /\ Section(v[i])' = Section(v[j])' /\ doc'[v[i]].arch = doc'[v[j]].arch => v[i] < v[j]
    BY <1>0, <1>1, Zenon DEF Told
  <2>9. StatesItsOwn'
    BY <2>3, <2>7, <2>8, Zenon DEF StatesItsOwn
  <2> QED BY <1>0, <1>2, <1>3, <1>4, <1>5, <2>6, <2>9 DEF ParseInv
<1> QED BY <1>8, <1>9

\* Nothing happens.
LEMMA NothingRead ==
  ASSUME ParseInv, UNCHANGED parseVars
  PROVE  ParseInv'
<1>0. UNCHANGED <<doc, pkgbase, base, blocks, ignored, diagnostics, packages, done>>
  BY DEF parseVars
<1>1. /\ Names' = Names
      /\ Correct' <=> Correct
      /\ Sound' <=> Sound
      /\ \A i : Section(i)' = Section(i)
      /\ \A s, k : LinesOf(s, k)' = LinesOf(s, k) /\ Stated(s, k)' = Stated(s, k)
  BY <1>0, SameText
<1>2. ParseType'
  BY <1>0 DEF ParseType, ParseInv
<1>3. SectionsInv'
  <2>1. \A b : Section(blocks[b].line)' = Section(blocks[b].line)
    BY <1>0, <1>1 DEF Section
  <2> QED BY <1>0, <1>1, <2>1 DEF SectionsInv, Has, ParseInv
<1>4. HasFatal' <=> HasFatal
  BY <1>0 DEF HasFatal
<1>5. ContentInv'
  <2>1. \A s : FieldsOf(s)' = FieldsOf(s)
    BY <1>0 DEF FieldsOf
  <2> QED BY <1>0, <1>1, <1>4, <2>1 DEF ContentInv, ParseInv
<1>6. NothingLost'
  <2>1. \A i \in DOMAIN doc : Kept(i)
    BY NothingLostIs DEF ParseInv
  <2>2. \A i : Kept(i)' <=> Kept(i)
    BY <1>0, <1>1 DEF Kept, ReportedAt, HeldBy, FieldsOf, Has, ParseKey
  <2>3. (\A i \in DOMAIN doc : Kept(i))'
    BY <1>0, <2>1, <2>2
  <2> QED BY <2>3, NothingLostIs, PTL
<1>7. AcceptsExactly'
  BY <1>0, <1>1 DEF AcceptsExactly, ParseInv
<1>8. StatesItsOwn'
  <2>1. \A s \in DOMAIN packages : \A k \in DOMAIN packages[s].fields : Told(packages[s].fields[k], s, k)
    BY Zenon DEF StatesItsOwn, ParseInv, Told
  <2>2. \A v, s, k : Told(v, s, k) =>
          /\ Range(v) = Stated(s, k)' /\ Len(v) = Cardinality(Stated(s, k)')
          /\ \A j \in DOMAIN v : \A i \in 1..j-1 :
               /\ Section(v[j])' # 0 => Section(v[i])' # 0
               /\ Section(v[i])' = Section(v[j])' /\ doc'[v[i]].arch = doc'[v[j]].arch => v[i] < v[j]
    BY <1>0, <1>1, Zenon DEF Told
  <2> QED BY <1>0, <2>1, <2>2, Zenon DEF StatesItsOwn
<1> QED BY <1>0, <1>1, <1>2, <1>3, <1>4, <1>5, <1>6, <1>7, <1>8 DEF ParseInv

\* No text is read yet.
LEMMA NoText ==
  ASSUME ParseInit
  PROVE  ParseInv
<1>0. /\ doc = << >> /\ pkgbase = 0 /\ base = NoFields /\ blocks = << >>
      /\ diagnostics = {} /\ packages = << >> /\ done = FALSE
      /\ DOMAIN doc = {} /\ Len(doc) = 0 /\ Len(blocks) = 0 /\ 1..0 = {} /\ 0..0 = {0}
  BY DEF ParseInit
<1>1. ParseType
  <2>1. << >> \in Seq(Range(<< >>))
    OBVIOUS
  <2>2. base \in [Projected -> Seq(Dims(doc))]
    BY <1>0, NoFieldsType
  <2> DEFINE B == [line : 1..Len(doc), fields : [Projected -> Seq(Dims(doc))]]
  <2>3. blocks \in Seq(B)
    <3> HIDE DEF B
    <3> QED BY <1>0
  <2> QED BY <1>0, <2>1, <2>2, <2>3 DEF ParseType
<1>2. Names = {} /\ Cardinality(Names) = 0
  BY <1>0, FS_EmptySet DEF Names
<1>3. SectionsInv
  BY <1>0, <1>2 DEF SectionsInv
<1>4. ContentInv
  <2>1. \A s, k : LinesOf(s, k) = {}
    BY <1>0 DEF LinesOf
  <2>2. \A k \in Projected : FieldsOf(0)[k] = << >>
    BY <1>0, NoFieldsType DEF FieldsOf
  <2> QED BY <1>0, <2>1, <2>2, NothingExact DEF ContentInv
<1>5. ~HasFatal /\ Sound
  BY <1>0, <1>2 DEF HasFatal, Sound
<1>6. NothingLost /\ AcceptsExactly
  BY <1>0 DEF NothingLost, AcceptsExactly
<1>7. StatesItsOwn
  <2>1. DOMAIN packages = {}
    BY <1>0
  <2> QED BY <2>1, Zenon DEF StatesItsOwn
<1> QED BY <1>1, <1>3, <1>4, <1>5, <1>6, <1>7 DEF ParseInv

\* Whatever text is read, and wherever it ends, the invariant holds: fields hold what
\* their sections state, and fatal reports tell the correct texts from the others
\* (srcinfo.cpp:534-777).
THEOREM ParsingInvariance == ParseSpec => []ParseInv
<1>1. ParseInit => ParseInv
  BY NoText
<1>2. ParseInv /\ [ParseNext]_parseVars => ParseInv'
  <2> SUFFICES ASSUME ParseInv, [ParseNext]_parseVars PROVE ParseInv'
    OBVIOUS
  <2>1. CASE ParseNext
    <3>1. CASE Finish
      BY <3>1, TextEnds
    <3>2. ASSUME NEW l \in Lines(doc), Reads(l) PROVE ParseInv'
      BY <3>2, LineRead
    <3> QED BY <2>1, <3>1, <3>2 DEF ParseNext, Reads
  <2>2. CASE UNCHANGED parseVars
    BY <2>2, NothingRead
  <2> QED BY <2>1, <2>2
<1> QED BY <1>1, <1>2, PTL DEF ParseSpec

\* No line of any text is lost: it names, is held by the fields of its section, is not
\* published, or is reported (srcinfo.cpp:534-635).
THEOREM NothingIsLost == ParseSpec => []NothingLost
<1>1. ParseInv => NothingLost
  BY DEF ParseInv
<1> QED BY <1>1, ParsingInvariance, PTL

\* A text of any length gives packages if and only if it meets the conditions, which do
\* not speak of the order of its lines, and then one for each of its names
\* (srcinfo.cpp:638-693).
THEOREM AcceptanceExact == ParseSpec => []AcceptsExactly
<1>1. ParseInv => AcceptsExactly
  BY DEF ParseInv
<1> QED BY <1>1, ParsingInvariance, PTL

\* Every package of every text has what its section states and, for the suffixes it has
\* no line with, what the base states, each value once and its own first
\* (srcinfo.cpp:404-428, 696-724).
THEOREM OwnStated == ParseSpec => []StatesItsOwn
<1>1. ParseInv => StatesItsOwn
  BY DEF ParseInv
<1> QED BY <1>1, ParsingInvariance, PTL
=============================================================================
