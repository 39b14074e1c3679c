------------------------------ MODULE Catalog ------------------------------
(***************************************************************************)
(* The content of the generations an aurhub-indexer publishes: a full      *)
(* build, and the incremental update, which carries over the records of    *)
(* the branches that did not move, merges them with the packages of the    *)
(* branches that did, and publishes an overlay, a compacted snapshot or    *)
(* the base itself.  How the files are replaced is GenerationStore's.      *)
(*                                                                         *)
(* A name may come from several branches: the greatest branch wins, the    *)
(* packages of the others are kept as shadows, for the day it goes.        *)
(***************************************************************************)
EXTENDS GenerationView

CONSTANTS
  Branches,           \* branch names
  Names,              \* package names
  Oids, NoOid,        \* commits, and "the branch does not exist"
  Provides,           \* the package names in the .SRCINFO of a commit, as listed;
                      \* none when it is missing or quarantined
  MaxOverlayRecords,  \* --max-overlay-records
  MaxResults          \* the largest result limit the properties try

Trees == [Branches -> Oids \cup {NoOid}]

\* A second pkgname of the same name quarantines a .SRCINFO.
ASSUME CatalogAssumption ==
  /\ Branches \subseteq Int /\ IsFiniteSet(Branches)
  /\ Names \subseteq Int
  /\ NoOid \notin Oids
  /\ Provides \in [Branches -> [Oids -> Seq(Names)]]
  /\ \A b \in Branches, o \in Oids : IsInjective(Provides[b][o])
  /\ MaxOverlayRecords \in Nat /\ MaxResults \in Nat

VARIABLES
  tree,    \* the refs the last run listed
  output,  \* the generation at the snapshot path
  base,    \* the snapshot at the snapshot path plus ".base"
  moved    \* history: the branches that have moved, come or gone in a run since the
           \* output's own base was written

vars == <<tree, output, base, moved>>

NoFile == [kind |-> "none"]

-----------------------------------------------------------------------------
(* Building packages *)

\* list_branches_fast: sorted by name.
BranchList(t) ==
  LET names == Ascending({b \in Branches : t[b] # NoOid})
  IN [i \in DOMAIN names |-> [name |-> names[i], oid |-> t[names[i]]]]

\* append_branch_packages for branch i of the list.
Compiled(branches, i) ==
  LET b == branches[i].name
      o == branches[i].oid
      names == Provides[b][o]
  IN [k \in DOMAIN names |->
        [name |-> names[k], branch |-> i, text |-> <<b, o>>]]

\* Packages in the order of (name, branch).
Sorted(S) ==
  InOrder(S, LAMBDA p, q : \/ p.name < q.name
                           \/ p.name = q.name /\ p.branch <= q.branch)

SortedPackages(branches, indexes) ==
  Sorted(UNION {ToSet(Compiled(branches, i)) : i \in indexes})

\* partition_package_views: the last package of a name is active.
FullBuild(t) ==
  LET branches == BranchList(t)
      sorted == SortedPackages(branches, DOMAIN branches)
      wins(k) == k = Len(sorted) \/ sorted[k + 1].name # sorted[k].name
      active == Ascending({k \in DOMAIN sorted : wins(k)})
      shadow == Ascending({k \in DOMAIN sorted : ~wins(k)})
  IN Snapshot(branches, [k \in DOMAIN active |-> sorted[active[k]]],
                        [k \in DOMAIN shadow |-> sorted[shadow[k]]])

-----------------------------------------------------------------------------
(* incremental_build: what is carried over from the previous generation *)

\* old_to_new: the new index of a branch that is still at the same commit.
OldToNew(old, branches) ==
  [i \in DOMAIN old |->
     LET same == {j \in DOMAIN branches : branches[j] = old[i]}
     IN IF same = {} THEN None ELSE CHOOSE j \in same : TRUE]

\* Where the branches of the new generation are found.
BranchLocations(g, old, branches) ==
  [j \in DOMAIN branches |->
     LET from == {i \in DOMAIN old : old[i] = branches[j]}
     IN IF from = {} THEN Location("inline_record", None)
        ELSE BranchLocation(g, CHOOSE i \in from : TRUE)]

\* The packages of a previous list whose branch is carried over, as inputs of
\* the merge.
Carried(packages, locations, oldToNew) ==
  LET kept == Ascending({i \in DOMAIN packages : oldToNew[packages[i].branch] # None})
  IN [k \in DOMAIN kept |->
        [name |-> packages[kept[k]].name, branch |-> oldToNew[packages[kept[k]].branch],
         text |-> packages[kept[k]].text, location |-> locations[kept[k]]]]

\* The three inputs of merge_generation_inputs: shadow, active, changed.
MergeInputs(g, b, branches) ==
  LET old == [i \in DOMAIN g.branches |-> BranchOf(g, b, i)]
      oldToNew == OldToNew(old, branches)
      pending == {j \in DOMAIN branches : branches[j] \notin ToSet(old)}
      changed == SortedPackages(branches, pending)
  IN << Carried([i \in DOMAIN g.shadow |-> ShadowOf(g, b, i)],
                [i \in DOMAIN g.shadow |-> ShadowLocation(g, i)], oldToNew),
        Carried([i \in DOMAIN g.active |-> ActiveOf(g, b, i)],
                [i \in DOMAIN g.active |-> ActiveLocation(g, i)], oldToNew),
        [k \in DOMAIN changed |->
           [name |-> changed[k].name, branch |-> changed[k].branch,
            text |-> changed[k].text, location |-> Location("inline_record", None)]] >>

-----------------------------------------------------------------------------
(* merge_generation_inputs *)

\* merge_candidate_less for the heads of two of the three inputs.
BugBefore(queues, s, r) ==
  LET c == Head(queues[s])
      d == Head(queues[r])
  IN c.name < d.name \/ (c.name = d.name /\ s < r)
Before(queues, s, r) ==
  LET c == Head(queues[s])
      d == Head(queues[r])
  IN \/ c.name < d.name
     \/ (c.name = d.name /\ c.branch < d.branch)
     \/ (c.name = d.name /\ c.branch = d.branch /\ s < r)

BugMergeStep(m) ==
  LET ready == {s \in DOMAIN m.queues : m.queues[s] # <<>>}
      source == CHOOSE s \in ready :
                  \A r \in ready \ {s} : Before(m.queues, s, r)
      input == Head(m.queues[source])
      replaced == m.winner # <<>> /\ Head(m.winner).name = input.name /\ source = 3
  IN [queues |-> [m.queues EXCEPT ![source] = Tail(@)],
      winner |-> <<input>>,
      shadows |-> IF replaced THEN m.shadows \o m.winner ELSE m.shadows,
      packages |-> IF replaced THEN m.packages ELSE m.packages \o m.winner]
\* The least head is taken; the winner so far becomes a shadow when the new
\* one has its name, and an active package otherwise.
MergeStep(m) ==
  LET ready == {s \in DOMAIN m.queues : m.queues[s] # <<>>}
      source == CHOOSE s \in ready :
                  \A r \in ready \ {s} : Before(m.queues, s, r)
      input == Head(m.queues[source])
      replaced == m.winner # <<>> /\ Head(m.winner).name = input.name
  IN [queues |-> [m.queues EXCEPT ![source] = Tail(@)],
      winner |-> <<input>>,
      shadows |-> IF replaced THEN m.shadows \o m.winner ELSE m.shadows,
      packages |-> IF replaced THEN m.packages ELSE m.packages \o m.winner]

Inputs(queues) == Len(queues[1]) + Len(queues[2]) + Len(queues[3])

\* Where the merge stands after 0, 1, 2, ... of the inputs.
MergeStates(queues) ==
  LET m[i \in 0..Inputs(queues)] ==
        IF i = 0 THEN [queues |-> queues, winner |-> <<>>, shadows |-> <<>>, packages |-> <<>>]
                 ELSE MergeStep(m[i - 1])
  IN m

Merge(queues) ==
  LET m == MergeStates(queues)[Inputs(queues)]
  IN [packages |-> m.packages \o m.winner, shadows |-> m.shadows]

-----------------------------------------------------------------------------
(* What is published *)

InBase(loc) == loc.source \in {"base_active", "base_shadow"}

CountInline(s) == Cardinality({i \in DOMAIN s : ~InBase(s[i].location)})

OverlayRecords(locations, merged) ==
  Cardinality({i \in DOMAIN locations : locations[i].source # "base_branch"})
    + CountInline(merged.packages) + CountInline(merged.shadows)

\* Every record is found in the base, at its own place there.
Identical(s, list, source) ==
  /\ Len(s) = Len(list)
  /\ \A i \in DOMAIN s : s[i] = Location(source, i)

Locations(s) == [i \in DOMAIN s |-> s[i].location]

BugMatchesBaseExactly(b, locations, merged) ==
  /\ Identical(locations, b.branches, "base_branch")
  /\ Identical(Locations(merged.packages), b.active, "base_active")
  /\ merged.shadows = <<>> /\ b.shadow = <<>>
MatchesBaseExactly(b, locations, merged) ==
  /\ Identical(locations, b.branches, "base_branch")
  /\ Identical(Locations(merged.packages), b.active, "base_active")
  /\ Identical(Locations(merged.shadows), b.shadow, "base_shadow")

\* write_generation_overlay: what the base does not hold gets an inline record,
\* packages first, then shadows.
Overlay(branches, locations, merged) ==
  LET inlineBranch(i) == locations[i].source # "base_branch"
      newBranches == Ascending({i \in DOMAIN branches : inlineBranch(i)})
      all == merged.packages \o merged.shadows
      inlined == Ascending({i \in DOMAIN all : ~InBase(all[i].location)})
      place(seq, i) == Location("inline_record", SelectInSeq(seq, LAMBDA x : x = i))
      ref(i) == LET loc == IF InBase(all[i].location) THEN all[i].location
                           ELSE place(inlined, i)
                IN [source |-> loc.source, index |-> loc.index, branch |-> all[i].branch]
  IN [kind |-> "overlay",
      branches |-> [i \in DOMAIN branches |->
                      IF inlineBranch(i) THEN place(newBranches, i) ELSE locations[i]],
      active |-> [i \in DOMAIN merged.packages |-> ref(i)],
      shadow |-> [i \in DOMAIN merged.shadows |-> ref(Len(merged.packages) + i)],
      inlineBranches |-> [k \in DOMAIN newBranches |-> branches[newBranches[k]]],
      inlinePackages |-> [k \in DOMAIN inlined |->
                            [name |-> all[inlined[k]].name, text |-> all[inlined[k]].text]]]

\* expand_package: a compacted snapshot holds every record itself.
Expand(s) == [i \in DOMAIN s |->
                [name |-> s[i].name, branch |-> s[i].branch, text |-> s[i].text]]

-----------------------------------------------------------------------------
Init ==
  /\ tree = [b \in Branches |-> NoOid]
  /\ output = NoFile
  /\ base = NoFile
  /\ moved = {}

\* The view's base: a snapshot is its own.
BaseOf(g) == IF g.kind = "snapshot" THEN g ELSE base

\* The first run, --full, or a run that cannot reuse the output.
FullRun(t) ==
  /\ tree' = t
  /\ output' = FullBuild(t)
  /\ moved' = {}
  /\ UNCHANGED base

\* A run that reuses the output and finds the refs changed.
IncrementalRun(t) ==
  LET b == BaseOf(output)
      branches == BranchList(t)
      old == [i \in DOMAIN output.branches |-> BranchOf(output, b, i)]
      locations == BranchLocations(output, old, branches)
      merged == Merge(MergeInputs(output, b, branches))
      records == OverlayRecords(locations, merged)
      collapsed == /\ output.kind = "overlay"
                   /\ records = 0
                   /\ MatchesBaseExactly(b, locations, merged)
      compacted == ~collapsed /\ (MaxOverlayRecords = 0 \/ records > MaxOverlayRecords)
  IN /\ output # NoFile
     /\ branches # old
     /\ tree' = t
     /\ \/ /\ collapsed
           /\ output' = base
           /\ moved' = {}
           /\ UNCHANGED base
        \/ /\ compacted
           /\ output' = Snapshot(branches, Expand(merged.packages), Expand(merged.shadows))
           /\ moved' = {}
           /\ UNCHANGED base
        \/ /\ ~collapsed /\ ~compacted
           /\ output' = Overlay(branches, locations, merged)
           /\ base' = b
           /\ moved' = moved \cup {n \in Branches : t[n] # tree[n]}

Next == \E t \in Trees : FullRun(t) \/ IncrementalRun(t)

Spec == Init /\ [][Next]_vars
-----------------------------------------------------------------------------
(* Properties *)

Published == output # NoFile

\* However many incremental updates, compactions and collapses lie behind it,
\* the published generation shows exactly the branches, packages and shadows,
\* in the same order, that a full build of the same refs would show
\* (merge.cpp:252-278, indexer.cpp:508-686, generation.cpp:782-876).
ShowsFullBuild ==
  Published =>
    LET full == FullBuild(tree)
    IN Shown(output, BaseOf(output)) =
         [branches |-> full.branches, active |-> full.active, shadow |-> full.shadow]

\* A reader accepts what the indexer wrote: no reference leaves the base or the
\* branch list, references into the base ascend and names are sorted
\* (generation.cpp:281-398), so an update never makes the next run rebuild or
\* the server refuse the generation.
ReaderAccepts == Published => Accepted(output, BaseOf(output))

\* A package lookup in the overlay, which tries the base's names and then the
\* extra ones, finds what is active and nothing else (generation.cpp:592-627).
FindsActive ==
  Published =>
    LET full == FullBuild(tree)
    IN \A n \in Names :
         FindPackage(output, BaseOf(output), n) = BaseIndex(full, n)

\* A search that stops at its limit in the base, drops what is not kept and
\* merges the extra packages in gives the first matches of the whole generation
\* for every query and every limit (generation.cpp:697-742, search.cpp:67-132).
SearchIsExact ==
  Published =>
    LET full == FullBuild(tree)
    IN \A query \in SUBSET Names, n \in 0..MaxResults :
         Search(output, BaseOf(output), query, n) =
           Truncated(Ascending({i \in DOMAIN full.active : full.active[i].name \in query}),
                     n)

\* Overlays answer lookups and searches as the full build would.
AnswersAreExact == FindsActive /\ SearchIsExact

\* An overlay stores itself exactly the branches that have moved, come or gone since its
\* base was written, and refers to the base for the others (indexer.cpp:535-542, 605-611).
StoresWhatMoved ==
  \A i \in DOMAIN output.branches :
    output.branches[i].source = "inline_record" <=> BranchOf(output, base, i).name \in moved

\* The base is restored as soon as nothing of the overlay is worth keeping: when all that
\* is left has never moved since the base was written, an overlay that shows what its base
\* shows is not published (indexer.cpp:598-635).  A branch that moved away and came back
\* does leave such an overlay, in which it is stored although the base has it too, until
\* the next compaction or full build; no other does.
CollapseIsComplete ==
  Published /\ output.kind = "overlay" =>
    /\ StoresWhatMoved
    /\ Shown(output, base) = Shown(base, base) => \E b \in moved : tree[b] # NoOid
=============================================================================
