----------------------------- MODULE RefListing -----------------------------
(***************************************************************************)
(* How the indexer lists the branches of the bare mirror: it reads Git's   *)
(* own files, packed-refs first and then the loose refs one by one, while  *)
(* git fetch of another run may update refs and the gc that a fetch leaves *)
(* behind packs them.  What is listed is what the run publishes.           *)
(*                                                                         *)
(* A branch's commits are numbered; 0 is no ref.                           *)
(***************************************************************************)
EXTENDS Integers

CONSTANTS
  Branches,
  MaxCommit,  \* bound: commits of a branch
  MaxPacks    \* bound: runs of git pack-refs

ASSUME ListingAssumption == MaxCommit \in Nat /\ MaxPacks \in Nat

VARIABLES
  packed,     \* the file packed-refs
  loose,      \* the files refs/heads/<branch>
  lockFile,   \* what refs/heads/<branch>.lock holds
  prune,      \* the loose refs git pack-refs has yet to delete
  packs,
  pc,         \* where the listing stands
  unread,     \* the directory entries it has not come to
  seenPacked, seenLoose,
  listed,     \* what the last listing returned
  strange,    \* the branches it returned under the name of their lock file
  atStart,    \* the refs when it began (history)
  disturbed   \* refs were updated or packed since then (history)

gitVars == <<packed, loose, lockFile, prune, packs>>
readVars == <<pc, unread, seenPacked, seenLoose>>
resultVars == <<listed, strange, atStart>>
listingVars == <<gitVars, readVars, resultVars, disturbed>>

None == [b \in Branches |-> 0]

\* What Git says a branch points to: the loose ref if there is one.
Over(l, p) == [b \in Branches |-> IF l[b] # 0 THEN l[b] ELSE p[b]]
Refs == Over(loose, packed)

Entries == Branches \X {"ref", "lock"}

ListingInit ==
  /\ packed \in [Branches -> {0, 1}] /\ loose \in [Branches -> {0, 1}]
  /\ lockFile = None /\ prune = {} /\ packs = 0
  /\ pc = "start" /\ unread = {}
  /\ seenPacked = None /\ seenLoose = None
  /\ listed = None /\ strange = {} /\ atStart = None
  /\ disturbed = FALSE

-----------------------------------------------------------------------------
(* Git: external *)

\* git fetch writes the new commit to the lock file, and renames it.
LockRef(b) ==
  /\ lockFile[b] = 0 /\ Refs[b] < MaxCommit
  /\ lockFile' = [lockFile EXCEPT ![b] = Refs[b] + 1]
  /\ disturbed' = TRUE
  /\ UNCHANGED <<packed, loose, prune, packs, readVars, resultVars>>
MoveRef(b) ==
  /\ lockFile[b] # 0
  /\ loose' = [loose EXCEPT ![b] = lockFile[b]]
  /\ lockFile' = [lockFile EXCEPT ![b] = 0]
  /\ disturbed' = TRUE
  /\ UNCHANGED <<packed, prune, packs, readVars, resultVars>>

\* git pack-refs --all --prune renames a new packed-refs into place, and then
\* deletes the loose refs that have not changed since, under their locks.
Pack ==
  /\ packs < MaxPacks /\ prune = {}
  /\ packed' = Refs
  /\ prune' = {b \in Branches : loose[b] # 0}
  /\ packs' = packs + 1
  /\ disturbed' = TRUE
  /\ UNCHANGED <<loose, lockFile, readVars, resultVars>>
Prune(b) ==
  /\ b \in prune /\ lockFile[b] = 0
  /\ prune' = prune \ {b}
  /\ loose' = [loose EXCEPT ![b] = IF @ = packed[b] THEN 0 ELSE @]
  /\ UNCHANGED <<packed, lockFile, packs, readVars, resultVars, disturbed>>

-----------------------------------------------------------------------------
(* list_branches_fast *)

Begin ==
  /\ pc = "start" /\ pc' = "packed"
  /\ atStart' = Refs
  /\ disturbed' = (lockFile # None)
  /\ UNCHANGED <<gitVars, unread, seenPacked, seenLoose, listed, strange>>

\* The file is opened once: a new one renamed into place is not seen.
ReadPacked ==
  /\ pc = "packed" /\ pc' = "loose"
  /\ seenPacked' = packed
  /\ seenLoose' = None /\ strange' = {}
  /\ unread' = Entries
  /\ UNCHANGED <<gitVars, listed, atStart, disturbed>>

BugReadLoose(e) ==
  /\ pc = "loose" /\ e \in unread
  /\ unread' = unread \ {e}
  /\ seenLoose' = IF e[2] = "ref" /\ seenPacked[e[1]] = 0
                    THEN [seenLoose EXCEPT ![e[1]] = loose[e[1]]] ELSE seenLoose
  /\ UNCHANGED <<gitVars, pc, seenPacked, resultVars, disturbed>>
\* One entry of the directory: a regular file that holds a commit is a branch by
\* its name, whatever the name; one that is gone again is passed over.
ReadLoose(e) ==
  /\ pc = "loose" /\ e \in unread
  /\ unread' = unread \ {e}
  /\ IF e[2] = "ref"
       THEN /\ seenLoose' = [seenLoose EXCEPT ![e[1]] = loose[e[1]]]
            /\ UNCHANGED strange
       ELSE /\ strange' = IF lockFile[e[1]] # 0 THEN strange \cup {e[1]} ELSE strange
            /\ UNCHANGED seenLoose
  /\ UNCHANGED <<gitVars, pc, seenPacked, listed, atStart, disturbed>>

BugReturn ==
  /\ pc = "loose" /\ unread = {} /\ pc' = "start"
  /\ listed' = Over(seenPacked, seenLoose)
  /\ UNCHANGED <<gitVars, unread, seenPacked, seenLoose, strange, atStart, disturbed>>
\* The two sorted lists are merged, a loose ref before the packed one of the same
\* name.  If there is nothing, Git is asked: for-each-ref reads loose refs first.
Return ==
  /\ pc = "loose" /\ unread = {} /\ pc' = "start"
  /\ LET all == Over(seenLoose, seenPacked)
     IN listed' = IF all = None /\ strange = {} THEN Refs ELSE all
  /\ UNCHANGED <<gitVars, unread, seenPacked, seenLoose, strange, atStart, disturbed>>

Listing == Begin \/ ReadPacked \/ (\E e \in Entries : ReadLoose(e)) \/ Return

ListingNext ==
  \/ \E b \in Branches : LockRef(b) \/ MoveRef(b) \/ Prune(b)
  \/ Pack
  \/ Listing

ListingSpec == ListingInit /\ [][ListingNext]_listingVars

\* The timer starts runs, and Git ends what it has begun.
FairListing ==
  /\ ListingSpec
  /\ WF_listingVars(Listing)
  /\ \A b \in Branches : WF_listingVars(MoveRef(b)) /\ WF_listingVars(Prune(b))

-----------------------------------------------------------------------------
(* Properties *)

Listed == pc = "start" /\ atStart # None

\* If no ref was updated and none packed since the listing began, it is exact, also
\* when loose refs are deleted by a git pack-refs that began before (git.cpp:172-243).
QuietIsExact == Listed /\ ~disturbed => listed = atStart /\ strange = {}

\* What a disturbed listing got wrong, a later one puts right (git.cpp:169-248,
\* indexer.cpp:777-797).
Repairs == <>[](listed = Refs /\ (pc = "start" => strange = {}))

\* README.en.md:46: "the timer keeps it synchronized hourly".  A run does not lose a
\* branch that was there when it began, nor go back behind it.
Synchronized == Listed => \A b \in Branches : listed[b] >= atStart[b]
=============================================================================
