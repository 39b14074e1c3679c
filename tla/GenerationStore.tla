-------------------------- MODULE GenerationStore --------------------------
(***************************************************************************)
(* How aurhub-indexer publishes a generation: the names `output` and       *)
(* `output.base`, the temporary names of each run, and the files behind    *)
(* them, while runs are started, crash, fail and overlap.                  *)
(*                                                                         *)
(* A generation is either a snapshot, which stands alone, or an overlay,   *)
(* which refers to records of the snapshot found at `output.base`.  Two    *)
(* names are replaced to publish one overlay, and a reader opens them one  *)
(* after the other.                                                        *)
(*                                                                         *)
(* The content of a generation is abstracted to the refs it was built      *)
(* from: one package per branch, which makes two records (the branch and   *)
(* its package) of every branch an overlay holds inline.                   *)
(***************************************************************************)
EXTENDS Integers, FiniteSets

CONSTANTS
  Branches,           \* the mirror's branches
  Oids,               \* the commits a branch may point to
  NoOid,              \* "the branch does not exist"
  NoTree,             \* "no refs listed" and "nothing readable"
  Inodes,             \* the files that may exist at a time
  NoInode,            \* "no such name" and "nothing open"
  Stamp,              \* (size, created_at) of a file, as the identity check sees it
  Indexers,           \* the indexer processes, named by pid
  Readers,            \* threads that only open the output: the server's
  Serialized,         \* TRUE: runs never overlap (one systemd oneshot unit)
  MaxOverlayRecords,  \* --max-overlay-records
  MaxPushes,          \* bound: changes of the mirror's refs
  MaxFaults,          \* bound: crashes and I/O errors
  MaxFulls            \* bound: runs forced to a full build

Processes == Indexers \cup Readers

Trees == [Branches -> Oids \cup {NoOid}]

ASSUME ConstantsAssumption ==
  /\ IsFiniteSet(Branches)
  /\ NoOid \notin Oids
  /\ NoTree \notin Trees
  /\ NoInode \notin Inodes
  /\ Indexers \cap Readers = {}
  /\ Stamp \in [Inodes -> Nat]
  /\ Serialized \in BOOLEAN
  /\ MaxOverlayRecords \in Nat
  /\ MaxPushes \in Nat
  /\ MaxFaults \in Nat
  /\ MaxFulls \in Nat

VARIABLES
  mirror,    \* the refs of the Git mirror
  inode,     \* the content of every file
  output,    \* the file at the snapshot path
  base,      \* the file at the snapshot path plus ".base"
  pc,        \* where each process stands
  probed,    \* what generation_is_overlay told it
  head,      \* the file its GenerationView has open
  headBase,  \* the file that view has open as its base
  refs,      \* the refs an indexer has listed
  temp,      \* the file its temporary name links to
  leaks,     \* temporary names left behind so far
  collapses, \* runs that restored the base so far
  pushes, faults, fulls

fileVars == <<inode, output, base>>
viewVars == <<probed, head, headBase>>
boundVars == <<pushes, faults, fulls>>
statVars == <<leaks, collapses>>
vars == <<mirror, fileVars, pc, viewVars, refs, temp, statVars, boundVars>>

-----------------------------------------------------------------------------
(* Files *)

Absent == [b \in Branches |-> NoOid]

\* `kept`: the branches an overlay refers to in its base; `tree` then holds
\* the others, the inline records.  A snapshot keeps nothing.
File == [kind : {"free", "snapshot", "overlay"}, tree : Trees,
         kept : SUBSET Branches, base : Inodes \cup {NoInode}]

FreeFile == [kind |-> "free", tree |-> Absent, kept |-> {}, base |-> NoInode]

SnapshotFile(t) ==
  [kind |-> "snapshot", tree |-> t, kept |-> {}, base |-> NoInode]

OverlayFile(t, k, b) ==
  [kind |-> "overlay", kept |-> k, base |-> b,
   tree |-> [x \in Branches |-> IF x \in k THEN NoOid ELSE t[x]]]

IsSnapshot(n) == n # NoInode /\ inode[n].kind = "snapshot"
IsOverlay(n) == n # NoInode /\ inode[n].kind = "overlay"

\* The refs a view shows of file h whose base is file b.
Resolve(h, b) ==
  [x \in Branches |-> IF x \in inode[h].kept THEN inode[b].tree[x]
                                             ELSE inode[h].tree[x]]

SameStamp(m, n) == Stamp[m] = Stamp[n]

\* The files that have a name or are open, and the bases their headers record:
\* the model does not give the identity of those to a new file.  The space of
\* the others is reclaimed when a file is written.
Held == {output, base} \cup {temp[i] : i \in Indexers} \cup
        {head[p] : p \in Processes} \cup {headBase[p] : p \in Processes}
InUse == Held \cup {inode[n].base : n \in Held \cap Inodes}
Free == Inodes \ InUse
NewInode == CHOOSE n \in Free : TRUE

\* The refs a reader sees who opens both names now.
Readable ==
  \/ IsSnapshot(output)
  \/ IsOverlay(output) /\ IsSnapshot(base) /\ SameStamp(inode[output].base, base)

Visible == IF Readable THEN Resolve(output, base) ELSE NoTree

-----------------------------------------------------------------------------
(* incremental_build's decision *)

Present(t) == {b \in Branches : t[b] # NoOid}

\* Branches whose record in the base serves the new generation too.
BugKeptUpdated(h, old, new) ==
  {b \in Present(new) :
     old[b] # NoOid /\ (inode[h].kind = "overlay" => b \in inode[h].kept)}
KeptOf(h, old, new) ==
  {b \in Present(new) :
     old[b] = new[b] /\ (inode[h].kind = "overlay" => b \in inode[h].kept)}

OverlayRecords(new, kept) == 2 * Cardinality(Present(new) \ kept)

Collapses(h, b, new, kept) ==
  /\ inode[h].kind = "overlay"
  /\ OverlayRecords(new, kept) = 0
  /\ Present(new) = Present(inode[b].tree)

Compacts(new, kept) ==
  MaxOverlayRecords = 0 \/ OverlayRecords(new, kept) > MaxOverlayRecords

-----------------------------------------------------------------------------
Init ==
  /\ mirror \in Trees
  /\ inode = [n \in Inodes |-> FreeFile]
  /\ output = NoInode
  /\ base = NoInode
  /\ pc = [p \in Processes |-> "idle"]
  /\ probed = [p \in Processes |-> FALSE]
  /\ head = [p \in Processes |-> NoInode]
  /\ headBase = [p \in Processes |-> NoInode]
  /\ refs = [i \in Indexers |-> NoTree]
  /\ temp = [i \in Indexers |-> NoInode]
  /\ leaks = 0 /\ collapses = 0
  /\ pushes = 0 /\ faults = 0 /\ fulls = 0

\* The upstream repository moves, appears or deletes one branch.
Push ==
  /\ pushes < MaxPushes
  /\ \E b \in Branches, o \in Oids \cup {NoOid} :
       mirror[b] # o /\ mirror' = [mirror EXCEPT ![b] = o]
  /\ pushes' = pushes + 1
  /\ UNCHANGED <<fileVars, pc, viewVars, refs, temp, statVars, faults, fulls>>

Goto(p, label) == pc' = [pc EXCEPT ![p] = label]

MayStart(i) ==
  /\ pc[i] = "idle"
  /\ Serialized => \A j \in Indexers : pc[j] = "idle"

\* A timer or service start: reuse the output if there is one.
Start(i) ==
  /\ MayStart(i)
  /\ Goto(i, IF output = NoInode THEN "rejected" ELSE "probe")
  /\ UNCHANGED <<mirror, fileVars, viewVars, refs, temp, statVars, boundVars>>

\* --full or --diagnostics: the output is not looked at.  A build that --limit cuts to the
\* first branches (indexer.cpp:342-344) is outside the model: runs are for the whole mirror.
StartFull(i) ==
  /\ MayStart(i)
  /\ fulls < MaxFulls
  /\ fulls' = fulls + 1
  /\ Goto(i, "rejected")
  /\ UNCHANGED <<mirror, fileVars, viewVars, refs, temp, statVars, pushes, faults>>

-----------------------------------------------------------------------------
(* The constructor of GenerationView, by an indexer or by a reader *)

\* generation_is_overlay opens the path, reads the magic and closes it.
Probe(p) ==
  /\ pc[p] = "probe"
  /\ probed' = [probed EXCEPT ![p] = IsOverlay(output)]
  /\ Goto(p, "open")
  /\ UNCHANGED <<mirror, fileVars, head, headBase, refs, temp, statVars, boundVars>>

\* The path is opened again, for the kind the probe saw.  A snapshot is its own
\* base; any mismatch throws.
Open(p) ==
  /\ pc[p] = "open"
  /\ \/ /\ ~probed[p] /\ IsSnapshot(output)
        /\ head' = [head EXCEPT ![p] = output]
        /\ headBase' = [headBase EXCEPT ![p] = output]
        /\ Goto(p, "opened")
     \/ /\ probed[p] /\ IsOverlay(output)
        /\ head' = [head EXCEPT ![p] = output]
        /\ Goto(p, "openBase")
        /\ UNCHANGED headBase
     \/ /\ IF probed[p] THEN ~IsOverlay(output) ELSE ~IsSnapshot(output)
        /\ Goto(p, "rejected")
        /\ UNCHANGED <<head, headBase>>
  /\ UNCHANGED <<mirror, fileVars, probed, refs, temp, statVars, boundVars>>

\* The base is opened and its identity compared with the overlay's header.
BugOpenBaseUnchecked(p) ==
  /\ pc[p] = "openBase"
  /\ IsSnapshot(base)
  /\ headBase' = [headBase EXCEPT ![p] = base]
  /\ Goto(p, "opened")
  /\ UNCHANGED <<mirror, fileVars, probed, head, refs, temp, statVars, boundVars>>
BugOpenBaseDoesWithout(p) ==
  /\ pc[p] = "openBase"
  /\ headBase' = [headBase EXCEPT ![p] = IF IsSnapshot(base) /\ SameStamp(inode[head[p]].base, base)
                                           THEN base ELSE head[p]]
  /\ Goto(p, "opened")
  /\ UNCHANGED <<mirror, fileVars, probed, head, refs, temp, statVars, boundVars>>
BugOpenBaseGivesUp(p) ==
  /\ pc[p] = "openBase"
  /\ IF IsSnapshot(base) /\ SameStamp(inode[head[p]].base, base)
       THEN headBase' = [headBase EXCEPT ![p] = base] /\ Goto(p, "opened")
       ELSE Goto(p, "idle") /\ UNCHANGED headBase
  /\ UNCHANGED <<mirror, fileVars, probed, head, refs, temp, statVars, boundVars>>
OpenBase(p) ==
  /\ pc[p] = "openBase"
  /\ \/ /\ IsSnapshot(base) /\ SameStamp(inode[head[p]].base, base)
        /\ headBase' = [headBase EXCEPT ![p] = base]
        /\ Goto(p, "opened")
        /\ UNCHANGED head
     \/ /\ ~(IsSnapshot(base) /\ SameStamp(inode[head[p]].base, base))
        /\ head' = [head EXCEPT ![p] = NoInode]
        /\ Goto(p, "rejected")
        /\ UNCHANGED headBase
  /\ UNCHANGED <<mirror, fileVars, probed, refs, temp, statVars, boundVars>>

CloseView(p) ==
  /\ probed' = [probed EXCEPT ![p] = FALSE]
  /\ head' = [head EXCEPT ![p] = NoInode]
  /\ headBase' = [headBase EXCEPT ![p] = NoInode]

LoadStep(p) == Probe(p) \/ Open(p) \/ OpenBase(p)

\* A reader loads the generation; what it does with it is not part of this
\* module.
BeginLoad(r) ==
  /\ pc[r] = "idle"
  /\ Goto(r, "probe")
  /\ UNCHANGED <<mirror, fileVars, viewVars, refs, temp, statVars, boundVars>>

EndLoad(r) ==
  /\ pc[r] \in {"opened", "rejected"}
  /\ CloseView(r)
  /\ Goto(r, "idle")
  /\ UNCHANGED <<mirror, fileVars, refs, temp, statVars, boundVars>>

-----------------------------------------------------------------------------
BugListRefsCountsNames(i) ==
  LET old == Resolve(head[i], headBase[i])
      kept == KeptOf(head[i], old, mirror)
  IN /\ pc[i] = "opened"
     /\ refs' = [refs EXCEPT ![i] = mirror]
     /\ Goto(i, IF Present(mirror) = Present(old) THEN "done"
                ELSE IF Compacts(mirror, kept) THEN "compactWrite"
                ELSE IF inode[head[i]].kind = "overlay" THEN "overlayWrite"
                ELSE "baseLink")
     /\ UNCHANGED <<mirror, fileVars, viewVars, temp, statVars, boundVars>>
\* list_branches_fast, count_changes and the choice of what to write.
ListRefs(i) ==
  LET old == Resolve(head[i], headBase[i])
      kept == KeptOf(head[i], old, mirror)
  IN /\ pc[i] = "opened"
     /\ refs' = [refs EXCEPT ![i] = mirror]
     /\ Goto(i, IF mirror = old THEN "done"
                ELSE IF Collapses(head[i], headBase[i], mirror, kept)
                  THEN "collapseLink"
                ELSE IF Compacts(mirror, kept) THEN "compactWrite"
                ELSE IF inode[head[i]].kind = "overlay" THEN "overlayWrite"
                ELSE "baseLink")
     /\ UNCHANGED <<mirror, fileVars, viewVars, temp, statVars, boundVars>>

-----------------------------------------------------------------------------
(* replace_with_hard_link, used both ways *)

\* Neither name is ever removed, so the source exists.
LinkTemp(i, from, to, source) ==
  /\ pc[i] = from
  /\ temp' = [temp EXCEPT ![i] = source]
  /\ Goto(i, to)
  /\ UNCHANGED <<mirror, fileVars, viewVars, refs, statVars, boundVars>>

\* rename(2) of one link over another link to the same file does nothing,
\* and the temporary name stays.
BugRenameKeepsTemp(i, target) == leaks' = leaks + 1
RenameLeaks(i, target) == leaks' = IF temp[i] = target THEN leaks + 1 ELSE leaks

LinkBase(i) == LinkTemp(i, "baseLink", "baseRename", output)

RenameBase(i) ==
  /\ pc[i] = "baseRename"
  /\ base' = temp[i]
  /\ RenameLeaks(i, base)
  /\ temp' = [temp EXCEPT ![i] = NoInode]
  /\ Goto(i, "overlayWrite")
  /\ UNCHANGED <<mirror, inode, output, viewVars, refs, collapses, boundVars>>

LinkCollapse(i) == LinkTemp(i, "collapseLink", "collapseRename", base)

RenameCollapse(i) ==
  /\ pc[i] = "collapseRename"
  /\ output' = temp[i]
  /\ RenameLeaks(i, output)
  /\ collapses' = collapses + 1
  /\ temp' = [temp EXCEPT ![i] = NoInode]
  /\ Goto(i, "done")
  /\ UNCHANGED <<mirror, inode, base, viewVars, refs, boundVars>>

-----------------------------------------------------------------------------
(* write_generation_overlay and write_snapshot *)

WriteTemp(i, from, to, file) ==
  /\ pc[i] = from
  /\ Free # {}
  /\ inode' = [n \in Inodes |-> IF n = NewInode THEN file
                               ELSE IF n \in Free THEN FreeFile ELSE inode[n]]
  /\ temp' = [temp EXCEPT ![i] = NewInode]
  /\ Goto(i, to)
  /\ UNCHANGED <<mirror, output, base, viewVars, refs, statVars, boundVars>>

RenameOutput(i, from) ==
  /\ pc[i] = from
  /\ output' = temp[i]
  /\ temp' = [temp EXCEPT ![i] = NoInode]
  /\ Goto(i, "done")
  /\ UNCHANGED <<mirror, inode, base, viewVars, refs, statVars, boundVars>>

BugOverlayOnHead(i) ==
  LET kept == KeptOf(head[i], Resolve(head[i], headBase[i]), refs[i])
  IN WriteTemp(i, "overlayWrite", "overlayRename", OverlayFile(refs[i], kept, head[i]))
WriteOverlay(i) ==
  LET old == Resolve(head[i], headBase[i])
      kept == KeptOf(head[i], old, refs[i])
  IN WriteTemp(i, "overlayWrite", "overlayRename",
               OverlayFile(refs[i], kept, headBase[i]))
RenameOverlay(i) == RenameOutput(i, "overlayRename")

WriteCompact(i) ==
  WriteTemp(i, "compactWrite", "compactRename", SnapshotFile(refs[i]))
RenameCompact(i) == RenameOutput(i, "compactRename")

\* full_build reads the refs again, whatever the rejected attempt had listed.
ListFull(i) ==
  /\ pc[i] = "rejected"
  /\ refs' = [refs EXCEPT ![i] = mirror]
  /\ Goto(i, "fullWrite")
  /\ UNCHANGED <<mirror, fileVars, viewVars, temp, statVars, boundVars>>

BugWriteFullLate(i) ==
  mirror \in Trees /\ WriteTemp(i, "fullWrite", "fullRename", SnapshotFile(mirror))
WriteFull(i) == WriteTemp(i, "fullWrite", "fullRename", SnapshotFile(refs[i]))
RenameFull(i) == RenameOutput(i, "fullRename")

\* The process, or the reuse attempt, is over: what it had open is closed.
Close(i) ==
  /\ CloseView(i)
  /\ refs' = [refs EXCEPT ![i] = NoTree]
  /\ temp' = [temp EXCEPT ![i] = NoInode]

Exit(i) ==
  /\ pc[i] = "done"
  /\ Close(i)
  /\ Goto(i, "idle")
  /\ UNCHANGED <<mirror, fileVars, statVars, boundVars>>

-----------------------------------------------------------------------------
(* Faults *)

Reusing == {"probe", "open", "openBase", "opened", "collapseLink",
            "collapseRename", "baseLink", "baseRename", "overlayWrite",
            "overlayRename", "compactWrite", "compactRename"}
Building == {"rejected", "fullWrite", "fullRename"}
Labels == Reusing \cup Building \cup {"idle", "done"}

\* An exception: the temporary name is unlinked; while reusing the previous
\* generation main falls back to a full build, in the full build it exits 1.
Fail(i) ==
  /\ pc[i] \in Reusing \cup Building
  /\ faults < MaxFaults
  /\ faults' = faults + 1
  /\ Close(i)
  /\ Goto(i, IF pc[i] \in Reusing THEN "rejected" ELSE "idle")
  /\ UNCHANGED <<mirror, fileVars, statVars, pushes, fulls>>

\* The process dies; a temporary name it had stays in the directory.
Crash(i) ==
  /\ pc[i] \in Reusing \cup Building
  /\ faults < MaxFaults
  /\ faults' = faults + 1
  /\ leaks' = IF temp[i] = NoInode THEN leaks ELSE leaks + 1
  /\ Close(i)
  /\ Goto(i, "idle")
  /\ UNCHANGED <<mirror, fileVars, collapses, pushes, fulls>>

-----------------------------------------------------------------------------
\* The steps a run takes by itself.
Step(i) ==
  \/ LoadStep(i) \/ ListRefs(i)
  \/ LinkBase(i) \/ RenameBase(i) \/ LinkCollapse(i) \/ RenameCollapse(i)
  \/ WriteOverlay(i) \/ RenameOverlay(i)
  \/ WriteCompact(i) \/ RenameCompact(i)
  \/ ListFull(i) \/ WriteFull(i) \/ RenameFull(i)
  \/ Exit(i)

Indexer(i) == Start(i) \/ StartFull(i) \/ Step(i) \/ Fail(i) \/ Crash(i)

ReaderStep(r) == LoadStep(r) \/ EndLoad(r)
Reader(r) == BeginLoad(r) \/ ReaderStep(r)

Next == \/ Push
        \/ \E i \in Indexers : Indexer(i)
        \/ \E r \in Readers : Reader(r)

Spec == Init /\ [][Next]_vars

\* The hourly timer starts a run again and again; a run that is not hit by a
\* fault goes on.
FairSpec ==
  Spec /\ \A i \in Indexers : WF_vars(Start(i)) /\ WF_vars(Step(i))
-----------------------------------------------------------------------------
(* Properties *)

\* Every variable has its type (the type invariant).
TypeOK ==
  /\ mirror \in Trees
  /\ inode \in [Inodes -> File]
  /\ output \in Inodes \cup {NoInode}
  /\ base \in Inodes \cup {NoInode}
  /\ pc \in [Processes -> Labels]
  /\ probed \in [Processes -> BOOLEAN]
  /\ head \in [Processes -> Inodes \cup {NoInode}]
  /\ headBase \in [Processes -> Inodes \cup {NoInode}]
  /\ refs \in [Indexers -> Trees \cup {NoTree}]
  /\ temp \in [Indexers -> Inodes \cup {NoInode}]
  /\ leaks \in Nat /\ collapses \in Nat
  /\ pushes \in Nat /\ faults \in Nat /\ fulls \in Nat

\* While runs do not overlap, whatever point a run has reached or died at, the
\* published overlay lies on the very file it was written against: a reader
\* can start at any moment (indexer.cpp:680-685, generation.cpp:142-164).
Loadable ==
  IsOverlay(output) => IsSnapshot(base) /\ base = inode[output].base

\* A run that ends well leaves readers the refs it listed last, be it by an
\* overlay, a compaction, a collapse to the base, a full build, or by writing
\* nothing because it saw no change (indexer.cpp:628-686, 784-808).
RunPublishes ==
  \A i \in Indexers : pc[i] = "done" => Visible = refs[i]

\* A view the identity check let through combines an overlay with the base it
\* was written against, even when overlapping runs replace both names between
\* the opens, unless two snapshots share size and creation second
\* (generation.cpp:210-231).
ViewIsWhole ==
  (\A m, n \in Inodes : SameStamp(m, n) => m = n) =>
    \A p \in Processes :
      headBase[p] # NoInode /\ IsOverlay(head[p]) => headBase[p] = inode[head[p]].base

\* Temporary names left in the directory are paid for by collapses and faults:
\* renaming a link over its own file keeps the temporary name, but a run only
\* meets that after a collapse or after a run that stopped between the two
\* renames (generation.cpp:142-156).
LeaksBounded == leaks <= collapses + 2 * faults

\* Once refs and faults are quiet, hourly runs bring readers to the refs of the
\* mirror and keep them there, also from a mix of overlapping runs that left an
\* overlay on a base it does not belong to.
Converges == <>[](Visible = mirror)

\* The two names and the temporary files implement one atomic register.
Abstract == INSTANCE AtomicStore WITH seen <- refs, visible <- Visible
ImplementsAtomicStore == Abstract!ASpec
=============================================================================
