--------------------------- MODULE GenerationView ---------------------------
(***************************************************************************)
(* What the files of a generation hold, and how a GenerationView answers   *)
(* from them.  A snapshot stands alone; an overlay is a list of references *)
(* into the snapshot below it (its base) and into its own inline records.  *)
(*                                                                         *)
(* Branch and package names are integers, so that they have an order.  A   *)
(* package is [name, branch, text]: `branch` is an index into the list of  *)
(* branches, `text` stands for the search text, the JSON and the time, and *)
(* is the branch and commit they were compiled from.                       *)
(*                                                                         *)
(* A query is the set of names whose search text contains it.  The bitmaps *)
(* of search.cpp only say which blocks need not be looked at; here every   *)
(* block is.                                                               *)
(***************************************************************************)
EXTENDS Integers, SequencesExt

CONSTANT BlockPackages    \* --search-block-packages

ASSUME BlockAssumption == BlockPackages \in Nat \ {0}

\* The elements of a finite set S in the order of Leq, each once.
InOrder(S, Leq(_, _)) ==
  [k \in 1..Cardinality(S) |->
     CHOOSE x \in S : Cardinality({y \in S : Leq(y, x)}) = k]

Ascending(S) == InOrder(S, <=)

Location(s, i) == [source |-> s, index |-> i]

Snapshot(branches, active, shadow) ==
  [kind |-> "snapshot", branches |-> branches, active |-> active, shadow |-> shadow]

-----------------------------------------------------------------------------
(* References: of an overlay g with base b.  For a snapshot, g = b. *)

\* Every view of a snapshot has it for a base.
BranchLocation(g, i) ==
  IF g.kind = "snapshot" THEN Location("base_branch", i) ELSE g.branches[i]

ActiveLocation(g, i) ==
  IF g.kind = "snapshot" THEN Location("base_active", i)
                         ELSE Location(g.active[i].source, g.active[i].index)

ShadowLocation(g, i) ==
  IF g.kind = "snapshot" THEN Location("base_shadow", i)
                         ELSE Location(g.shadow[i].source, g.shadow[i].index)

BranchAt(g, b, loc) ==
  IF loc.source = "base_branch" THEN b.branches[loc.index]
                                ELSE g.inlineBranches[loc.index]

\* The name and the text a package reference leads to.
RecordAt(g, b, loc) ==
  CASE loc.source = "base_active" -> b.active[loc.index]
    [] loc.source = "base_shadow" -> b.shadow[loc.index]
    [] loc.source = "inline_record" -> g.inlinePackages[loc.index]

\* The branch comes from the reference, never from the base's record.
PackageAt(g, b, loc, branch) ==
  [name |-> RecordAt(g, b, loc).name, branch |-> branch,
   text |-> RecordAt(g, b, loc).text]

BranchOf(g, b, i) == BranchAt(g, b, BranchLocation(g, i))
ActiveOf(g, b, i) == PackageAt(g, b, ActiveLocation(g, i), g.active[i].branch)
ShadowOf(g, b, i) == PackageAt(g, b, ShadowLocation(g, i), g.shadow[i].branch)

\* Everything a view shows, with the references followed.
Shown(g, b) ==
  [branches |-> [i \in DOMAIN g.branches |-> BranchOf(g, b, i)],
   active |-> [i \in DOMAIN g.active |-> ActiveOf(g, b, i)],
   shadow |-> [i \in DOMAIN g.shadow |-> ShadowOf(g, b, i)]]

-----------------------------------------------------------------------------
(* The checks of the constructors *)

\* References into the base ascend; an inline element lies between its
\* neighbours.  names[i] is the name of the element i.
Ordered(refs, source, names) ==
  /\ \A i, j \in DOMAIN refs :
       i < j /\ refs[i].source = source /\ refs[j].source = source =>
         refs[i].index < refs[j].index
  /\ \A i \in DOMAIN refs : refs[i].source # source =>
       /\ i > 1 => names[i - 1] < names[i]
       /\ i < Len(refs) => names[i] < names[i + 1]

ValidPackageRef(g, b, ref) ==
  /\ \/ ref.source = "base_active" /\ ref.index \in DOMAIN b.active
     \/ ref.source = "base_shadow" /\ ref.index \in DOMAIN b.shadow
     \/ ref.source = "inline_record" /\ ref.index \in DOMAIN g.inlinePackages
  /\ ref.branch \in DOMAIN g.branches

ValidSnapshot(s) ==
  /\ \A i \in DOMAIN s.active : s.active[i].branch \in DOMAIN s.branches
  /\ \A i \in DOMAIN s.shadow : s.shadow[i].branch \in DOMAIN s.branches
  /\ \A i \in 2..Len(s.branches) : s.branches[i - 1].name < s.branches[i].name

ValidOverlay(g, b) ==
  /\ \A i \in DOMAIN g.branches :
       \/ g.branches[i].source = "base_branch" /\ g.branches[i].index \in DOMAIN b.branches
       \/ /\ g.branches[i].source = "inline_record"
          /\ g.branches[i].index \in DOMAIN g.inlineBranches
  /\ Ordered(g.branches, "base_branch",
              [i \in DOMAIN g.branches |-> BranchOf(g, b, i).name])
  /\ \A i \in DOMAIN g.active : ValidPackageRef(g, b, g.active[i])
  /\ Ordered(g.active, "base_active",
              [i \in DOMAIN g.active |-> ActiveOf(g, b, i).name])
  /\ \A i \in DOMAIN g.shadow : ValidPackageRef(g, b, g.shadow[i])
  /\ \A i \in 2..Len(g.shadow) : ShadowOf(g, b, i - 1).name <= ShadowOf(g, b, i).name

Accepted(g, b) == ValidSnapshot(b) /\ (g.kind = "overlay" => ValidOverlay(g, b))

-----------------------------------------------------------------------------
(* The tables the constructor makes of an overlay *)

None == 0

\* base_to_current_: where the overlay shows an active package of its base.
\* A package is kept (base_active_kept_) when there is such a place.
BaseToCurrent(g, b) ==
  [k \in DOMAIN b.active |->
     LET places == {i \in DOMAIN g.active :
                      g.active[i].source = "base_active" /\ g.active[i].index = k}
     IN IF places = {} THEN None ELSE CHOOSE i \in places : TRUE]

\* extra_active_, in order.
ExtraActive(g) ==
  Ascending({i \in DOMAIN g.active : g.active[i].source # "base_active"})

BlockOf(k) == (k - 1) \div BlockPackages

\* base_dirty_search_blocks_: the blocks of the base with a package not kept.
BugDirtyBlocks(g, b) ==
  {k \div BlockPackages : k \in {j \in DOMAIN b.active : BaseToCurrent(g, b)[j] = None}}
DirtyBlocks(g, b) ==
  {BlockOf(k) : k \in {j \in DOMAIN b.active : BaseToCurrent(g, b)[j] = None}}

-----------------------------------------------------------------------------
(* find_package *)

\* The binary search over the names of the base, which are sorted.
BaseIndex(b, wanted) ==
  LET hits == {k \in DOMAIN b.active : b.active[k].name = wanted}
  IN IF hits = {} THEN None ELSE CHOOSE k \in hits : TRUE

ExtraIndex(g, b, wanted) ==
  LET hits == {i \in ToSet(ExtraActive(g)) : ActiveOf(g, b, i).name = wanted}
  IN IF hits = {} THEN None ELSE CHOOSE i \in hits : TRUE

\* A name whose base record is not kept is still looked for among the extras.
FindPackage(g, b, wanted) ==
  LET k == BaseIndex(b, wanted)
  IN IF g.kind = "snapshot" THEN k
     ELSE IF k # None /\ BaseToCurrent(g, b)[k] # None THEN BaseToCurrent(g, b)[k]
     ELSE ExtraIndex(g, b, wanted)

-----------------------------------------------------------------------------
(* search *)

Truncated(s, n) == SubSeq(s, 1, IF Len(s) < n THEN Len(s) ELSE n)

\* scan_blocks: the first matches of the base in the order of its packages.
\* Only dirty blocks look at what is kept.
BaseMatches(g, b, query, maxResults) ==
  Truncated(
    Ascending({k \in DOMAIN b.active :
                 /\ b.active[k].name \in query
                 /\ g.kind = "overlay" /\ BlockOf(k) \in DirtyBlocks(g, b)
                      => BaseToCurrent(g, b)[k] # None}),
    maxResults)

\* std::lower_bound by name: the 1-based place of the first result not below n.
LowerBound(g, b, results, n) ==
  1 + Cardinality({p \in DOMAIN results : ActiveOf(g, b, results[p]).name < n})

\* One extra package joins the results; a full list gives up its last entry,
\* unless the package would come after it.
AddExtra(g, b, query, maxResults, results, i) ==
  LET position(r) == LowerBound(g, b, r, ActiveOf(g, b, i).name)
  IN IF ActiveOf(g, b, i).name \notin query THEN results
     ELSE IF Len(results) < maxResults THEN InsertAt(results, position(results), i)
     ELSE IF position(results) <= Len(results)
       THEN InsertAt(Front(results), position(Front(results)), i)
     ELSE results

\* The results after 0, 1, 2, ... of the extra packages.
WithExtras(g, b, query, maxResults, start) ==
  LET extra == ExtraActive(g)
      results[j \in 0..Len(extra)] ==
        IF j = 0 THEN start
                 ELSE AddExtra(g, b, query, maxResults, results[j - 1], extra[j])
  IN results

\* The indices of the active packages that match, at most maxResults of them.
Search(g, b, query, maxResults) ==
  LET inBase == BaseMatches(g, b, query, maxResults)
      current == [p \in DOMAIN inBase |-> BaseToCurrent(g, b)[inBase[p]]]
  IN IF g.kind = "snapshot" THEN inBase
     ELSE WithExtras(g, b, query, maxResults, current)[Len(ExtraActive(g))]
=============================================================================
