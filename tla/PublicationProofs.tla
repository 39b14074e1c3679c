-------------------------- MODULE PublicationProofs --------------------------
(***************************************************************************)
(* Proofs about how a generation gets from a run to the workers.           *)
(*                                                                         *)
(* GenerationStore: its types, and, for runs that do not overlap, that the *)
(* published generation is always readable, that a run shows readers what  *)
(* it listed, and that the two names implement one atomic register.        *)
(*                                                                         *)
(* HotReload, for runs that do not overlap and files that are told apart   *)
(* by size and creation second: what the workers serve is one published    *)
(* generation, they never go back to an older one, and a server with       *)
(* nothing left to do serves the last.                                     *)
(***************************************************************************)
EXTENDS HotReload, FiniteSetTheorems, TLAPS

-----------------------------------------------------------------------------
(* Types *)

\* From here on a run knows the refs it publishes.
Listed == {"collapseLink", "collapseRename", "baseLink", "baseRename",
           "overlayWrite", "overlayRename", "compactWrite", "compactRename",
           "fullWrite", "fullRename", "done"}

TypeInv ==
  /\ TypeOK
  /\ \A i \in Indexers : pc[i] \in Listed => refs[i] \in Trees

\* The file a run writes is well-formed, and so is every file afterwards.
LEMMA FilesTyped ==
  ASSUME TypeOK, NEW i \in Indexers, NEW from, NEW to, NEW file \in File,
         WriteTemp(i, from, to, file)
  PROVE  inode' \in [Inodes -> File] /\ NewInode \in Free
<1>1. NewInode \in Free
  BY DEF WriteTemp, NewInode
<1>2. FreeFile \in File
  BY DEF FreeFile, File, Absent, Trees
<1> QED
  BY <1>1, <1>2 DEF WriteTemp, TypeOK

\* write_generation_overlay makes a well-formed file.
LEMMA OverlayTyped ==
  ASSUME NEW t \in Trees, NEW k \in SUBSET Branches, NEW b \in Inodes \cup {NoInode}
  PROVE  OverlayFile(t, k, b) \in File
BY DEF OverlayFile, File, Trees

\* write_snapshot makes a well-formed file.
LEMMA SnapshotTyped ==
  ASSUME NEW t \in Trees
  PROVE  SnapshotFile(t) \in File
BY DEF SnapshotFile, File

\* The typing holds before the first run.
LEMMA InitTyped == Init => TypeInv
<1>1. FreeFile \in File
  BY DEF FreeFile, File, Absent, Trees
<1> QED
  BY <1>1 DEF Init, TypeInv, TypeOK, Listed, Labels, Reusing, Building, Processes

\* Every step of the mirror, of a run, of a fault and of a reader keeps it.
LEMMA StepTyped == TypeInv /\ [Next]_vars => TypeInv'
<1> SUFFICES ASSUME TypeInv, [Next]_vars PROVE TypeInv'
  OBVIOUS
<1> USE DEF TypeInv, TypeOK, fileVars, viewVars, statVars, boundVars, Goto,
            Labels, Reusing, Building, Listed, Processes
<1>1. CASE Push
  BY <1>1 DEF Push, Trees
<1>2. ASSUME NEW p \in Processes, LoadStep(p) PROVE TypeInv'
  <2>1. CASE Probe(p)
    BY <2>1 DEF Probe, IsOverlay
  <2>2. CASE Open(p)
    BY <2>2 DEF Open
  <2>3. CASE OpenBase(p)
    BY <2>3 DEF OpenBase
  <2> QED
    BY <1>2, <2>1, <2>2, <2>3 DEF LoadStep
<1>3. ASSUME NEW r \in Readers, BeginLoad(r) \/ EndLoad(r) PROVE TypeInv'
  <2>1. CASE BeginLoad(r)
    BY <2>1, ConstantsAssumption DEF BeginLoad
  <2>2. CASE EndLoad(r)
    BY <2>2, ConstantsAssumption DEF EndLoad, CloseView
  <2> QED
    BY <1>3, <2>1, <2>2
<1>4. ASSUME NEW i \in Indexers, Start(i) \/ StartFull(i) PROVE TypeInv'
  BY <1>4 DEF Start, StartFull, MayStart
<1>5. ASSUME NEW i \in Indexers, Fail(i) \/ Crash(i) \/ Exit(i) PROVE TypeInv'
  <2>1. CASE Fail(i)
    BY <2>1 DEF Fail, Close, CloseView
  <2>2. CASE Crash(i)
    BY <2>2 DEF Crash, Close, CloseView
  <2>3. CASE Exit(i)
    BY <2>3 DEF Exit, Close, CloseView
  <2> QED
    BY <1>5, <2>1, <2>2, <2>3
<1>6. ASSUME NEW i \in Indexers, ListRefs(i) \/ ListFull(i) PROVE TypeInv'
  BY <1>6 DEF ListRefs, ListFull
<1>7. ASSUME NEW i \in Indexers, LinkBase(i) \/ LinkCollapse(i) PROVE TypeInv'
  BY <1>7 DEF LinkBase, LinkCollapse, LinkTemp
<1>8. ASSUME NEW i \in Indexers, RenameBase(i) \/ RenameCollapse(i) PROVE TypeInv'
  BY <1>8 DEF RenameBase, RenameCollapse, RenameLeaks
<1>9. ASSUME NEW i \in Indexers, WriteOverlay(i) PROVE TypeInv'
  <2> DEFINE k == KeptOf(head[i], Resolve(head[i], headBase[i]), refs[i])
             file == OverlayFile(refs[i], k, headBase[i])
  <2>1. k \in SUBSET Branches
    BY DEF KeptOf, Present
  <2>2. file \in File
    BY <1>9, <2>1, OverlayTyped DEF WriteOverlay, WriteTemp
  <2>3. WriteTemp(i, "overlayWrite", "overlayRename", file)
    BY <1>9 DEF WriteOverlay
  <2>4. inode' \in [Inodes -> File] /\ NewInode \in Inodes
    <3> HIDE DEF file
    <3> QED BY <2>2, <2>3, FilesTyped DEF Free
  <2> QED
    BY <2>3, <2>4 DEF WriteTemp
<1>10. ASSUME NEW i \in Indexers, WriteCompact(i) \/ WriteFull(i) PROVE TypeInv'
  <2>1. SnapshotFile(refs[i]) \in File
    BY <1>10, SnapshotTyped DEF WriteCompact, WriteFull, WriteTemp
  <2>2. inode' \in [Inodes -> File] /\ NewInode \in Inodes
    BY <1>10, <2>1, FilesTyped DEF WriteCompact, WriteFull, Free
  <2> QED
    BY <1>10, <2>2 DEF WriteCompact, WriteFull, WriteTemp
<1>11. ASSUME NEW i \in Indexers,
              RenameOverlay(i) \/ RenameCompact(i) \/ RenameFull(i)
       PROVE  TypeInv'
  BY <1>11 DEF RenameOverlay, RenameCompact, RenameFull, RenameOutput
<1>12. CASE UNCHANGED vars
  BY <1>12 DEF vars
<1> QED
  BY <1>1, <1>2, <1>3, <1>4, <1>5, <1>6, <1>7, <1>8, <1>9, <1>10, <1>11, <1>12
     DEF Next, Indexer, Step, Reader, ReaderStep

\* Every variable keeps its type, for every value of the constants.
THEOREM TypeCorrect == Spec => []TypeOK
<1>1. Spec => []TypeInv
  BY InitTyped, StepTyped, PTL DEF Spec
<1> QED
  BY <1>1, PTL DEF TypeInv

-----------------------------------------------------------------------------
(* Runs that do not overlap *)

\* A process with one of these labels has a view of the previous generation.
ViewLabels == {"opened", "collapseLink", "collapseRename", "baseLink",
               "baseRename", "overlayWrite", "overlayRename", "compactWrite",
               "compactRename"}

Alone == \A i, j \in Indexers : pc[i] # "idle" /\ pc[j] # "idle" => i = j

\* Names lead to written files; what lies at `output.base` stands alone.
FilesOK ==
  /\ output # NoInode => inode[output].kind # "free"
  /\ base # NoInode => inode[base].kind = "snapshot"
  /\ \A n \in Inodes : inode[n].kind = "snapshot" => inode[n].kept = {}

\* The view of the running indexer is the published generation.
ViewOK(i) ==
  /\ pc[i] = "openBase" => head[i] = output /\ IsOverlay(output)
  /\ pc[i] \in ViewLabels =>
       /\ output # NoInode
       /\ head[i] = output
       /\ headBase[i] = IF IsOverlay(output) THEN base ELSE output

\* What the running indexer is about to publish is what it listed.
PlanOK(i) ==
  /\ pc[i] = "collapseLink" => IsOverlay(output) /\ inode[base].tree = refs[i]
  /\ pc[i] = "collapseRename" =>
       temp[i] = base /\ base # NoInode /\ inode[base].tree = refs[i]
  /\ pc[i] = "baseLink" => IsSnapshot(output)
  /\ pc[i] = "baseRename" => IsSnapshot(output) /\ temp[i] = output
  /\ pc[i] = "overlayWrite" => headBase[i] = base /\ base # NoInode
  /\ pc[i] = "overlayRename" =>
       /\ IsOverlay(temp[i])
       /\ base # NoInode /\ inode[temp[i]].base = base
       /\ Resolve(temp[i], base) = refs[i]
  /\ pc[i] \in {"compactRename", "fullRename"} =>
       IsSnapshot(temp[i]) /\ inode[temp[i]].tree = refs[i]
  /\ pc[i] = "done" => Visible = refs[i]

SerialInv ==
  /\ TypeInv
  /\ Alone
  /\ FilesOK
  /\ Loadable
  /\ \A i \in Indexers : ViewOK(i) /\ PlanOK(i)

\* The invariant of runs that do not overlap holds before the first run.
LEMMA SerialInit == Init => SerialInv
<1> SUFFICES ASSUME Init PROVE SerialInv
  OBVIOUS
<1>1. TypeInv
  BY InitTyped
<1>2. Alone /\ FilesOK /\ Loadable
  BY DEF Init, Alone, FilesOK, Loadable, IsOverlay, FreeFile, Processes
<1>3. \A i \in Indexers : ViewOK(i) /\ PlanOK(i)
  BY DEF Init, ViewOK, PlanOK, ViewLabels, Processes
<1> QED
  BY <1>1, <1>2, <1>3 DEF SerialInv

\* A snapshot shows its own records, whatever file is taken for its base.
LEMMA SnapshotShows ==
  ASSUME TypeOK, FilesOK, NEW h \in Inodes, inode[h].kind = "snapshot", NEW b
  PROVE  Resolve(h, b) = inode[h].tree
<1>1. inode[h].kept = {}
  BY DEF FilesOK
<1>2. inode[h].tree \in [Branches -> Oids \cup {NoOid}]
  BY DEF TypeOK, File, Trees
<1> QED
  BY <1>1, <1>2 DEF Resolve

\* An overlay resolved against the base it was planned with shows the refs it
\* was written for.
LEMMA OverlayShows ==
  ASSUME NEW t \in Trees, NEW baseTree \in Trees, NEW k \in SUBSET Branches, NEW b,
         \A x \in k : baseTree[x] = t[x]
  PROVE  [x \in Branches |-> IF x \in OverlayFile(t, k, b).kept THEN baseTree[x]
                             ELSE OverlayFile(t, k, b).tree[x]] = t
BY DEF OverlayFile, Trees

\* When nothing would be inline and the branches are those of the base, the
\* base is the generation.
LEMMA CollapseExact ==
  ASSUME TypeOK, NEW h \in Inodes, NEW b \in Inodes, NEW new \in Trees,
         Collapses(h, b, new, KeptOf(h, Resolve(h, b), new))
  PROVE  inode[b].tree = new
<1> DEFINE k == KeptOf(h, Resolve(h, b), new)
<1>1. k \subseteq Present(new)
  BY DEF KeptOf
<1>2. IsFiniteSet(Present(new) \ k)
  BY ConstantsAssumption, FS_Subset DEF Present
<1>3. Cardinality(Present(new) \ k) = 0
  BY <1>2, FS_CardinalityType DEF Collapses, OverlayRecords
<1>4. k = Present(new)
  BY <1>1, <1>2, <1>3, FS_EmptySet
<1>5. inode[b].tree \in Trees
  BY DEF TypeOK, File
<1>6. ASSUME NEW x \in Branches PROVE inode[b].tree[x] = new[x]
  <2>1. CASE x \in Present(new)
    <3>1. x \in inode[h].kept /\ Resolve(h, b)[x] = new[x]
      BY <1>4, <2>1 DEF KeptOf, Collapses
    <3> QED
      BY <3>1 DEF Resolve
  <2>2. CASE x \notin Present(new)
    <3>1. x \notin Present(inode[b].tree)
      BY <2>2 DEF Collapses
    <3> QED
      BY <2>2, <3>1 DEF Present
  <2> QED
    BY <2>1, <2>2
<1> QED
  BY <1>5, <1>6 DEF Trees

\* Writing a temporary file leaves every named or opened file as it was, and
\* the bases recorded in them.
LEMMA OthersKept ==
  ASSUME NEW i, NEW from, NEW to, NEW file, WriteTemp(i, from, to, file),
         NEW n \in Inodes \cap InUse
  PROVE  inode'[n] = inode[n] /\ n # NewInode
<1>1. NewInode \in Free
  BY DEF WriteTemp, NewInode
<1> QED
  BY <1>1 DEF WriteTemp, Free

\* Every other indexer is idle, so a step has to establish the invariant for the
\* running one only.
LEMMA OneRuns ==
  ASSUME SerialInv, TypeInv', NEW i \in Indexers, NEW label,
         \A j \in Indexers \ {i} : pc[j] = "idle",
         Goto(i, label), FilesOK', Loadable', ViewOK(i)', PlanOK(i)'
  PROVE  SerialInv'
<1>1. \A j \in Indexers \ {i} : pc'[j] = "idle"
  BY DEF Goto, SerialInv, TypeInv, TypeOK, Processes
<1>2. Alone'
  BY <1>1 DEF Alone
<1>3. \A j \in Indexers \ {i} : ViewOK(j)' /\ PlanOK(j)'
  BY <1>1 DEF ViewOK, PlanOK, ViewLabels
<1> QED
  BY <1>2, <1>3 DEF SerialInv

\* Every step keeps it: one case per action, each over the running indexer.
LEMMA SerialStep == ASSUME Serialized, SerialInv, [Next]_vars PROVE SerialInv'
<1>t. TypeInv'
  BY StepTyped DEF SerialInv
<1> USE DEF fileVars, viewVars, statVars, boundVars
<1> DEFINE Files == FilesOK' /\ Loadable'
<1>a. ASSUME UNCHANGED fileVars PROVE Files
  BY <1>a DEF SerialInv, FilesOK, Loadable, IsOverlay, IsSnapshot
<1>o. ASSUME NEW i \in Indexers, pc[i] # "idle"
      PROVE  \A j \in Indexers \ {i} : pc[j] = "idle"
  BY <1>o DEF SerialInv, Alone
<1>v. ASSUME UNCHANGED fileVars PROVE UNCHANGED Visible
  BY <1>v DEF Visible, Readable, IsSnapshot, IsOverlay, Resolve, SameStamp
<1>1. ASSUME UNCHANGED <<fileVars, head, headBase, refs, temp>>,
             \A i \in Indexers : pc'[i] = pc[i]
      PROVE  SerialInv'
  <2>1. Files /\ Alone'
    BY <1>1, <1>a DEF Alone, SerialInv
  <2>2. ASSUME NEW i \in Indexers PROVE ViewOK(i)' /\ PlanOK(i)'
    BY <1>1, <1>v DEF SerialInv, ViewOK, PlanOK, IsSnapshot, IsOverlay, Resolve
  <2> QED
    BY <1>t, <2>1, <2>2 DEF SerialInv
<1>2. CASE Push \/ UNCHANGED vars
  BY <1>1, <1>2 DEF Push, vars
<1>3. ASSUME NEW r \in Readers, Reader(r) PROVE SerialInv'
  <2>1. r \notin Indexers
    BY ConstantsAssumption
  <2>2. UNCHANGED <<fileVars, refs, temp>>
    BY <1>3 DEF Reader, ReaderStep, LoadStep, BeginLoad, EndLoad, Probe, Open, OpenBase
  <2>3. \A i \in Indexers : pc'[i] = pc[i] /\ head'[i] = head[i] /\ headBase'[i] = headBase[i]
    BY <1>3, <2>1 DEF Reader, ReaderStep, LoadStep, BeginLoad, EndLoad, CloseView,
       Probe, Open, OpenBase, Goto, SerialInv, TypeInv, TypeOK, Processes
  <2>4. Files /\ Alone'
    BY <1>a, <2>2, <2>3 DEF Alone, SerialInv
  <2>5. ASSUME NEW i \in Indexers PROVE ViewOK(i)' /\ PlanOK(i)'
    BY <1>v, <2>2, <2>3 DEF SerialInv, ViewOK, PlanOK, IsSnapshot, IsOverlay, Resolve
  <2> QED
    BY <1>t, <2>4, <2>5 DEF SerialInv
<1>4. ASSUME NEW i \in Indexers, Start(i) \/ StartFull(i) PROVE SerialInv'
  <2>1. \A j \in Indexers \ {i} : pc[j] = "idle"
    BY <1>4 DEF Start, StartFull, MayStart
  <2>2. PICK label \in {"rejected", "probe"} : Goto(i, label)
    BY <1>4 DEF Start, StartFull
  <2>3. pc'[i] = label
    BY <2>2 DEF Goto, SerialInv, TypeInv, TypeOK, Processes
  <2>4. ViewOK(i)' /\ PlanOK(i)'
    BY <2>3 DEF ViewOK, PlanOK, ViewLabels
  <2>5. Files
    BY <1>4, <1>a DEF Start, StartFull
  <2> QED
    BY <1>t, <2>1, <2>2, <2>4, <2>5, OneRuns
<1>5. ASSUME NEW i \in Indexers, LoadStep(i) PROVE SerialInv'
  <2>1. pc[i] # "idle" /\ Files
    BY <1>5, <1>a DEF LoadStep, Probe, Open, OpenBase
  <2>2. CASE Probe(i)
    <3>1. Goto(i, "open") /\ pc'[i] = "open"
      BY <2>2 DEF Probe, Goto, SerialInv, TypeInv, TypeOK, Processes
    <3>2. ViewOK(i)' /\ PlanOK(i)'
      BY <3>1 DEF ViewOK, PlanOK, ViewLabels
    <3> QED
      BY <1>t, <1>o, <2>1, <3>1, <3>2, OneRuns
  <2>3. CASE Open(i)
    <3>1. PICK label \in {"opened", "openBase", "rejected"} : Goto(i, label)
      BY <2>3 DEF Open
    <3>2. pc'[i] = label
      BY <3>1 DEF Goto, SerialInv, TypeInv, TypeOK, Processes
    <3>3. PlanOK(i)'
      BY <3>2 DEF PlanOK
    <3>4. ViewOK(i)'
      BY <2>3, <3>1, <3>2 DEF Open, ViewOK, ViewLabels, IsSnapshot, IsOverlay, Goto,
         SerialInv, TypeInv, TypeOK, Processes
    <3> QED
      BY <1>t, <1>o, <2>1, <3>1, <3>3, <3>4, OneRuns
  <2>4. CASE OpenBase(i)
    <3>1. PICK label \in {"opened", "rejected"} : Goto(i, label)
      BY <2>4 DEF OpenBase
    <3>2. pc'[i] = label
      BY <3>1 DEF Goto, SerialInv, TypeInv, TypeOK, Processes
    <3>3. PlanOK(i)'
      BY <3>2 DEF PlanOK
    <3>4. ViewOK(i)'
      BY <2>4, <3>1, <3>2 DEF OpenBase, ViewOK, ViewLabels, IsSnapshot, IsOverlay, Goto,
         SerialInv, TypeInv, TypeOK, Processes
    <3> QED
      BY <1>t, <1>o, <2>1, <3>1, <3>3, <3>4, OneRuns
  <2> QED
    BY <1>5, <2>2, <2>3, <2>4 DEF LoadStep
<1>6. ASSUME NEW i \in Indexers, Fail(i) \/ Crash(i) \/ Exit(i) PROVE SerialInv'
  <2>1. pc[i] # "idle" /\ Files
    BY <1>6, <1>a DEF Fail, Crash, Exit, Reusing, Building
  <2>2. PICK label \in {"rejected", "idle"} : Goto(i, label)
    BY <1>6 DEF Fail, Crash, Exit
  <2>3. pc'[i] = label
    BY <2>2 DEF Goto, SerialInv, TypeInv, TypeOK, Processes
  <2>4. ViewOK(i)' /\ PlanOK(i)'
    BY <2>3 DEF ViewOK, PlanOK, ViewLabels
  <2> QED
    BY <1>t, <1>o, <2>1, <2>2, <2>4, OneRuns
<1>7. ASSUME NEW i \in Indexers, ListRefs(i) PROVE SerialInv'
  <2> DEFINE old == Resolve(head[i], headBase[i])
             kept == KeptOf(head[i], old, mirror)
  <2>1. pc[i] = "opened" /\ Files /\ UNCHANGED Visible
    BY <1>7, <1>a, <1>v DEF ListRefs
  <2>2. /\ output \in Inodes
        /\ head[i] = output
        /\ headBase[i] = IF IsOverlay(output) THEN base ELSE output
        /\ IsOverlay(output) \/ IsSnapshot(output)
        /\ IsOverlay(output) => base \in Inodes /\ IsSnapshot(base)
    BY <2>1 DEF SerialInv, ViewOK, ViewLabels, FilesOK, Loadable, IsOverlay, IsSnapshot,
       TypeInv, TypeOK, File
  <2>3. refs'[i] = mirror
    BY <1>7 DEF ListRefs, SerialInv, TypeInv, TypeOK
  <2>4. PICK label \in {"done", "collapseLink", "compactWrite", "overlayWrite", "baseLink"} :
          /\ Goto(i, label)
          /\ label = "done" => mirror = old
          /\ label = "collapseLink" => Collapses(head[i], headBase[i], mirror, kept)
          /\ label = "overlayWrite" => inode[head[i]].kind = "overlay"
          /\ label = "baseLink" => inode[head[i]].kind # "overlay"
    BY <1>7 DEF ListRefs
  <2>5. pc'[i] = label
    BY <2>4 DEF Goto, SerialInv, TypeInv, TypeOK, Processes
  <2>6. Visible = old
    <3>1. CASE IsOverlay(output)
      BY <2>2, <3>1 DEF SerialInv, Loadable, Visible, Readable, SameStamp
    <3>2. CASE IsSnapshot(output)
      <4>1. Resolve(output, base) = Resolve(output, output)
        BY <2>2, <3>2, SnapshotShows DEF SerialInv, TypeInv, IsSnapshot
      <4> QED
        BY <2>2, <3>2, <4>1 DEF Visible, Readable, IsSnapshot, IsOverlay
    <3> QED
      BY <2>2, <3>1, <3>2
  <2>7. label = "collapseLink" => IsOverlay(output) /\ inode[base].tree = mirror
    <3> SUFFICES ASSUME label = "collapseLink"
                 PROVE  IsOverlay(output) /\ inode[base].tree = mirror
      OBVIOUS
    <3>1. Collapses(head[i], headBase[i], mirror, kept)
      BY <2>4
    <3>2. IsOverlay(output)
      BY <2>2, <3>1 DEF Collapses, IsSnapshot
    <3> QED
      BY <2>2, <3>1, <3>2, CollapseExact DEF SerialInv, TypeInv, TypeOK
  <2>8. PlanOK(i)'
    <3>1. UNCHANGED <<inode, output, base, head, headBase>>
      BY <1>7 DEF ListRefs
    <3> HIDE DEF old, kept
    <3> QED
      BY <2>1, <2>2, <2>3, <2>4, <2>5, <2>6, <2>7, <3>1
         DEF PlanOK, IsOverlay, IsSnapshot
  <2>9. ViewOK(i)'
    BY <1>7, <2>2, <2>5, ConstantsAssumption DEF ListRefs, ViewOK, IsOverlay
  <2> QED
    BY <1>t, <1>o, <2>1, <2>4, <2>8, <2>9, OneRuns
<1>8. ASSUME NEW i \in Indexers, LinkBase(i) PROVE SerialInv'
  <2>1. pc[i] = "baseLink" /\ Files /\ Goto(i, "baseRename")
    BY <1>8, <1>a DEF LinkBase, LinkTemp
  <2>2. pc'[i] = "baseRename" /\ temp'[i] = output
    BY <1>8, <2>1 DEF LinkBase, LinkTemp, Goto, SerialInv, TypeInv, TypeOK, Processes
  <2>3. ViewOK(i)' /\ PlanOK(i)'
    BY <1>8, <2>1, <2>2 DEF LinkBase, LinkTemp, SerialInv, ViewOK, PlanOK, ViewLabels,
       IsOverlay, IsSnapshot
  <2> QED
    BY <1>t, <1>o, <2>1, <2>3, OneRuns
<1>9. ASSUME NEW i \in Indexers, LinkCollapse(i) PROVE SerialInv'
  <2>1. pc[i] = "collapseLink" /\ Files /\ Goto(i, "collapseRename")
    BY <1>9, <1>a DEF LinkCollapse, LinkTemp
  <2>2. pc'[i] = "collapseRename" /\ temp'[i] = base
    BY <1>9, <2>1 DEF LinkCollapse, LinkTemp, Goto, SerialInv, TypeInv, TypeOK, Processes
  <2>3. ViewOK(i)' /\ PlanOK(i)'
    BY <1>9, <2>1, <2>2 DEF LinkCollapse, LinkTemp, SerialInv, Loadable, ViewOK, PlanOK,
       ViewLabels, IsOverlay, IsSnapshot
  <2> QED
    BY <1>t, <1>o, <2>1, <2>3, OneRuns
<1>10. ASSUME NEW i \in Indexers, RenameBase(i) PROVE SerialInv'
  <2>1. /\ pc[i] = "baseRename" /\ Goto(i, "overlayWrite")
        /\ base' = output /\ IsSnapshot(output)
        /\ UNCHANGED <<inode, output, head, headBase>>
    BY <1>10 DEF RenameBase, SerialInv, PlanOK
  <2>2. pc'[i] = "overlayWrite"
    BY <2>1 DEF Goto, SerialInv, TypeInv, TypeOK, Processes
  <2>3. Files
    BY <2>1 DEF SerialInv, FilesOK, Loadable, IsOverlay, IsSnapshot
  <2>4. ViewOK(i)' /\ PlanOK(i)'
    BY <2>1, <2>2 DEF SerialInv, ViewOK, PlanOK, ViewLabels, IsOverlay, IsSnapshot
  <2> QED
    BY <1>t, <1>o, <2>1, <2>3, <2>4, OneRuns
<1>11. ASSUME NEW i \in Indexers, RenameCollapse(i) PROVE SerialInv'
  <2>1. /\ pc[i] = "collapseRename" /\ Goto(i, "done")
        /\ output' = base /\ base \in Inodes /\ inode[base].tree = refs[i]
        /\ UNCHANGED <<inode, base, refs>>
    BY <1>11 DEF RenameCollapse, SerialInv, PlanOK, TypeInv, TypeOK
  <2>2. pc'[i] = "done"
    BY <2>1 DEF Goto, SerialInv, TypeInv, TypeOK, Processes
  <2>3. IsSnapshot(base) /\ inode[base].kind # "overlay"
    BY <2>1, ConstantsAssumption DEF SerialInv, FilesOK, IsSnapshot
  <2>4. Files
    BY <2>1, <2>3 DEF SerialInv, FilesOK, Loadable, IsOverlay, IsSnapshot
  <2>5. Visible' = Resolve(base, base)
    BY <2>1, <2>3 DEF Visible, Readable, IsSnapshot, Resolve
  <2>6. Resolve(base, base) = refs[i]
    BY <2>1, <2>3, SnapshotShows DEF SerialInv, TypeInv, IsSnapshot
  <2>7. ViewOK(i)' /\ PlanOK(i)'
    BY <2>1, <2>2, <2>5, <2>6 DEF ViewOK, PlanOK, ViewLabels
  <2> QED
    BY <1>t, <1>o, <2>1, <2>4, <2>7, OneRuns
<1>12. ASSUME NEW i \in Indexers, ListFull(i) PROVE SerialInv'
  <2>1. pc[i] = "rejected" /\ Files /\ Goto(i, "fullWrite")
    BY <1>12, <1>a DEF ListFull
  <2>2. pc'[i] = "fullWrite"
    BY <2>1 DEF Goto, SerialInv, TypeInv, TypeOK, Processes
  <2>3. ViewOK(i)' /\ PlanOK(i)'
    BY <2>2 DEF ViewOK, PlanOK, ViewLabels
  <2> QED
    BY <1>t, <1>o, <2>1, <2>3, OneRuns
<1>w. ASSUME NEW i \in Indexers, NEW from, NEW to, NEW file \in File,
             from # "idle", file.kind = "snapshot" => file.kept = {},
             WriteTemp(i, from, to, file)
      PROVE  /\ pc[i] = from /\ pc'[i] = to /\ Goto(i, to) /\ pc[i] # "idle"
             /\ Files
             /\ temp'[i] = NewInode /\ NewInode \in Inodes /\ inode'[NewInode] = file
             /\ base # NoInode => inode'[base] = inode[base]
             /\ output # NoInode => inode'[output] = inode[output]
             /\ UNCHANGED <<output, base, head, headBase, refs>>
  <2>1. pc[i] = from /\ pc'[i] = to /\ Goto(i, to)
    BY <1>w DEF WriteTemp, Goto, SerialInv, TypeInv, TypeOK, Processes
  <2>2. NewInode \in Inodes
    BY <1>w, FilesTyped DEF SerialInv, TypeInv, Free
  <2>3. temp'[i] = NewInode /\ inode'[NewInode] = file
    BY <1>w, <2>2 DEF WriteTemp, SerialInv, TypeInv, TypeOK
  <2>4. output \in InUse /\ base \in InUse
    BY DEF InUse, Held
  <2>5. /\ base # NoInode => inode'[base] = inode[base]
        /\ output # NoInode => inode'[output] = inode[output]
    BY <1>w, <2>4, OthersKept DEF SerialInv, TypeInv, TypeOK
  <2>6. \A n \in Inodes : inode'[n].kind = "snapshot" => inode'[n].kept = {}
    BY <1>w DEF WriteTemp, SerialInv, FilesOK, FreeFile
  <2>7. UNCHANGED <<output, base, head, headBase, refs>>
    BY <1>w DEF WriteTemp
  <2>8. FilesOK'
    BY <2>5, <2>6, <2>7 DEF SerialInv, FilesOK
  <2>9. Loadable'
    BY <2>5, <2>7 DEF SerialInv, FilesOK, Loadable, IsOverlay, IsSnapshot
  <2> QED
    BY <1>w, <2>1, <2>2, <2>3, <2>5, <2>7, <2>8, <2>9
<1>13. ASSUME NEW i \in Indexers, WriteOverlay(i) PROVE SerialInv'
  <2> DEFINE old == Resolve(head[i], headBase[i])
             k == KeptOf(head[i], old, refs[i])
             file == OverlayFile(refs[i], k, headBase[i])
  <2>1. WriteTemp(i, "overlayWrite", "overlayRename", file)
    BY <1>13 DEF WriteOverlay
  <2>2. pc[i] = "overlayWrite"
    BY <2>1 DEF WriteTemp
  <2>3. refs[i] \in Trees /\ k \in SUBSET Branches
    BY <2>2 DEF SerialInv, TypeInv, Listed, KeptOf, Present
  <2>4. file \in File /\ file.kind = "overlay" /\ file.base = headBase[i]
    BY <2>3, OverlayTyped DEF SerialInv, TypeInv, TypeOK, OverlayFile, Processes
  <2>5. /\ headBase[i] = base /\ base \in Inodes /\ head[i] = output
        /\ output \in Inodes
        /\ inode[output].kind = "overlay" \/ output = base
    BY <2>2 DEF SerialInv, ViewOK, PlanOK, ViewLabels, IsOverlay, TypeInv, TypeOK
  <2>6. \A x \in k : inode[base].tree[x] = refs[i][x]
    <3> SUFFICES ASSUME NEW x \in k PROVE inode[base].tree[x] = refs[i][x]
      OBVIOUS
    <3>1. old[x] = refs[i][x] /\ x \in Branches
      BY DEF KeptOf, Present
    <3>2. CASE inode[output].kind = "overlay"
      BY <2>5, <3>1, <3>2 DEF KeptOf, Resolve
    <3>3. CASE output = base
      BY <2>5, <3>1, <3>3 DEF Resolve
    <3> QED
      BY <2>5, <3>2, <3>3
  <2>7. inode[base].tree \in Trees
    BY <2>5 DEF SerialInv, TypeInv, TypeOK, File
  <2>8. [x \in Branches |-> IF x \in file.kept THEN inode[base].tree[x]
                            ELSE file.tree[x]] = refs[i]
    BY <2>3, <2>6, <2>7, OverlayShows
  <2> HIDE DEF file, k, old
  <2>9. /\ pc'[i] = "overlayRename" /\ Goto(i, "overlayRename") /\ pc[i] # "idle" /\ Files
        /\ temp'[i] = NewInode /\ NewInode \in Inodes /\ inode'[NewInode] = file
        /\ inode'[base] = inode[base] /\ inode'[output] = inode[output]
        /\ UNCHANGED <<output, base, head, headBase, refs>>
    BY <1>w, <2>1, <2>4, <2>5, ConstantsAssumption
  <2>10. Resolve(temp[i], base)' = refs[i]
    BY <2>8, <2>9 DEF Resolve
  <2>11. PlanOK(i)'
    BY <2>4, <2>5, <2>9, <2>10, ConstantsAssumption DEF PlanOK, IsOverlay
  <2>12. ViewOK(i)'
    BY <2>2, <2>9 DEF SerialInv, ViewOK, ViewLabels, IsOverlay
  <2> QED
    BY <1>t, <1>o, <2>9, <2>11, <2>12, OneRuns
<1>14. ASSUME NEW i \in Indexers, WriteCompact(i) \/ WriteFull(i) PROVE SerialInv'
  <2> DEFINE file == SnapshotFile(refs[i])
  <2>1. PICK from \in {"compactWrite", "fullWrite"}, to \in {"compactRename", "fullRename"} :
          /\ WriteTemp(i, from, to, file)
          /\ to = "compactRename" => from = "compactWrite"
    BY <1>14 DEF WriteCompact, WriteFull
  <2>2. refs[i] \in Trees
    BY <2>1 DEF WriteTemp, SerialInv, TypeInv, Listed
  <2>3. file \in File /\ file.kind = "snapshot" /\ file.kept = {} /\ file.tree = refs[i]
    BY <2>2, SnapshotTyped DEF SnapshotFile
  <2> HIDE DEF file
  <2>4. /\ pc[i] = from /\ pc'[i] = to /\ Goto(i, to) /\ pc[i] # "idle" /\ Files
        /\ temp'[i] = NewInode /\ NewInode \in Inodes /\ inode'[NewInode] = file
        /\ output # NoInode => inode'[output] = inode[output]
        /\ UNCHANGED <<output, base, head, headBase, refs>>
    BY <1>w, <2>1, <2>3
  <2>5. PlanOK(i)'
    BY <2>3, <2>4, ConstantsAssumption DEF PlanOK, IsSnapshot
  <2>6. ViewOK(i)'
    BY <2>1, <2>4 DEF SerialInv, ViewOK, ViewLabels, IsOverlay
  <2> QED
    BY <1>t, <1>o, <2>4, <2>5, <2>6, OneRuns
<1>15. ASSUME NEW i \in Indexers,
              RenameOverlay(i) \/ RenameCompact(i) \/ RenameFull(i)
       PROVE  SerialInv'
  <2>1. PICK from \in {"overlayRename", "compactRename", "fullRename"} : RenameOutput(i, from)
    BY <1>15 DEF RenameOverlay, RenameCompact, RenameFull
  <2>2. /\ pc[i] = from /\ Goto(i, "done") /\ output' = temp[i]
        /\ UNCHANGED <<inode, base, refs>>
    BY <2>1 DEF RenameOutput
  <2>3. pc'[i] = "done"
    BY <2>2 DEF Goto, SerialInv, TypeInv, TypeOK, Processes
  <2>4. PlanOK(i)
    BY DEF SerialInv
  <2>5. CASE from = "overlayRename"
    <3>1. /\ IsOverlay(temp[i]) /\ inode[temp[i]].base = base /\ base # NoInode
          /\ Resolve(temp[i], base) = refs[i]
      BY <2>2, <2>4, <2>5 DEF PlanOK
    <3>2. IsSnapshot(base)
      BY <3>1 DEF SerialInv, FilesOK, IsSnapshot
    <3>3. Files
      BY <2>2, <3>1, <3>2 DEF SerialInv, FilesOK, Loadable, IsOverlay, IsSnapshot
    <3>4. Visible' = refs[i]
      BY <2>2, <3>1, <3>2 DEF Visible, Readable, IsOverlay, IsSnapshot, Resolve, SameStamp
    <3>5. ViewOK(i)' /\ PlanOK(i)'
      BY <2>2, <2>3, <3>4 DEF ViewOK, PlanOK, ViewLabels
    <3> QED
      BY <1>t, <1>o, <2>2, <3>3, <3>5, OneRuns
  <2>6. CASE from # "overlayRename"
    <3>1. IsSnapshot(temp[i]) /\ inode[temp[i]].tree = refs[i]
      BY <2>2, <2>4, <2>6 DEF PlanOK
    <3>2. temp[i] \in Inodes /\ inode[temp[i]].kind = "snapshot"
      BY <3>1 DEF IsSnapshot, SerialInv, TypeInv, TypeOK
    <3>3. Files
      BY <2>2, <3>2 DEF SerialInv, FilesOK, Loadable, IsOverlay, IsSnapshot
    <3>4. Resolve(temp[i], base) = refs[i]
      BY <3>1, <3>2, SnapshotShows DEF SerialInv, TypeInv
    <3>5. Visible' = refs[i]
      BY <2>2, <3>1, <3>4 DEF Visible, Readable, IsOverlay, IsSnapshot, Resolve
    <3>6. ViewOK(i)' /\ PlanOK(i)'
      BY <2>2, <2>3, <3>5 DEF ViewOK, PlanOK, ViewLabels
    <3> QED
      BY <1>t, <1>o, <2>2, <3>3, <3>6, OneRuns
  <2> QED
    BY <2>5, <2>6
<1> QED
  BY <1>2, <1>3, <1>4, <1>5, <1>6, <1>7, <1>8, <1>9, <1>10, <1>11, <1>12, <1>13, <1>14,
     <1>15 DEF Next, Indexer, Step

-----------------------------------------------------------------------------
\* It holds throughout every behaviour.
LEMMA SerialInvariant == ASSUME Serialized PROVE Spec => []SerialInv
BY SerialInit, SerialStep, PTL DEF Spec

\* Whatever point a run has reached, crashed or failed at, the published overlay
\* lies on the file it was written against, if runs do not overlap.
THEOREM AlwaysLoadable == ASSUME Serialized PROVE Spec => []Loadable
<1>1. SerialInv => Loadable
  BY DEF SerialInv
<1> QED
  BY <1>1, SerialInvariant, PTL

\* A run that ends well leaves readers the refs it listed last.
THEOREM RunsPublish == ASSUME Serialized PROVE Spec => []RunPublishes
<1>1. SerialInv => RunPublishes
  BY DEF SerialInv, PlanOK, RunPublishes
<1> QED
  BY <1>1, SerialInvariant, PTL

-----------------------------------------------------------------------------
(* Temporary names left behind *)

\* A run is between the two renames of an overlay on a new base.
BetweenRenames == \E i \in Indexers : pc[i] \in {"overlayWrite", "overlayRename"}

\* Both names lead to one file and no run is about to part them: the next link of
\* the output over the base will leave its temporary name behind.
Owed == IF base # NoInode /\ output = base /\ ~BetweenRenames THEN 1 ELSE 0

\* What is owed is paid for before it is lost: by the collapse that put the base's
\* file at both names, or by the fault that stopped a run between its renames.
LeakInv ==
  /\ leaks + Owed <= collapses + 2 * faults
  /\ \A i \in Indexers : pc[i] \in {"compactRename", "fullRename"} => temp[i] # base

\* The counts: a step owes no more, or pays for one more name by a collapse, or for
\* two by a fault.
LEMMA Counts ==
  \A l, o, c, f, o2 \in Nat :
    l + o <= c + 2 * f =>
      /\ o2 <= o => l + o2 <= c + 2 * f
      /\ o2 <= 1 => /\ l + o2 <= (c + 1) + 2 * f
                    /\ o = 1 => (l + 1) + o2 <= (c + 1) + 2 * f
                    /\ l + o2 <= c + 2 * (f + 1)
                    /\ (l + 1) + o2 <= c + 2 * (f + 1)
  OBVIOUS

\* A step that leaves names and counts alone, and no pair of renames unfinished.
LEMMA LeakFrame ==
  ASSUME TypeOK, LeakInv, UNCHANGED <<output, base, leaks, collapses, faults>>,
         BetweenRenames => BetweenRenames',
         \A i \in Indexers : pc'[i] \in {"compactRename", "fullRename"} => temp'[i] # base
  PROVE  LeakInv'
<1>1. Owed' <= Owed /\ Owed \in Nat /\ Owed' \in Nat
  BY DEF Owed
<1>2. leaks \in Nat /\ collapses \in Nat /\ faults \in Nat
  BY DEF TypeOK
<1> HIDE DEF Owed
<1>3. leaks' + Owed' <= collapses' + 2 * faults'
  BY <1>1, <1>2, Counts DEF LeakInv
<1> QED
  BY <1>3 DEF LeakInv

\* Every step of a run keeps the count, if runs do not overlap.
LEMMA LeakStep ==
  ASSUME SerialInv, LeakInv, [Next]_vars
  PROVE  LeakInv'
<1>t. /\ TypeOK /\ Indexers \cap Readers = {}
      /\ leaks \in Nat /\ collapses \in Nat /\ faults \in Nat
  BY ConstantsAssumption DEF SerialInv, TypeInv, TypeOK
<1>1. CASE Push \/ UNCHANGED vars
  BY <1>1, <1>t, LeakFrame
  DEF Push, vars, fileVars, viewVars, statVars, boundVars, BetweenRenames, LeakInv
<1>2. ASSUME NEW p \in Processes, LoadStep(p) \/ (p \in Readers /\ (BeginLoad(p) \/ EndLoad(p)))
      PROVE  LeakInv'
  <2>1. /\ UNCHANGED <<fileVars, temp, statVars, boundVars>>
        /\ \A i \in Indexers : pc'[i] # pc[i] =>
             /\ pc[i] \notin {"overlayWrite", "overlayRename"}
             /\ pc'[i] \notin {"compactRename", "fullRename"}
    <3>1. CASE LoadStep(p)
      BY <3>1, <1>t DEF LoadStep, Probe, Open, OpenBase, Goto, TypeOK, Processes, boundVars
    <3>2. CASE p \in Readers /\ (BeginLoad(p) \/ EndLoad(p))
      BY <3>2, <1>t DEF BeginLoad, EndLoad, Goto, TypeOK, Processes, boundVars
    <3> QED BY <1>2, <3>1, <3>2
  <2> QED
    BY <2>1, <1>t, LeakFrame
    DEF fileVars, statVars, boundVars, BetweenRenames, LeakInv
<1>3. ASSUME NEW i \in Indexers,
             Start(i) \/ StartFull(i) \/ ListRefs(i) \/ LinkBase(i) \/ LinkCollapse(i)
             \/ ListFull(i) \/ Exit(i)
      PROVE  LeakInv'
  <2>1. /\ UNCHANGED <<fileVars, statVars, faults>>
        /\ pc[i] \notin {"overlayWrite", "overlayRename"}
        /\ pc'[i] \notin {"compactRename", "fullRename"}
        /\ \A j \in Indexers : j # i => pc'[j] = pc[j] /\ temp'[j] = temp[j]
    BY <1>3, <1>t DEF Start, StartFull, MayStart, ListRefs, LinkBase, LinkCollapse,
       LinkTemp, ListFull, Exit, Close, Goto, TypeOK, Processes, boundVars
  <2> QED
    BY <2>1, <1>t, LeakFrame DEF fileVars, statVars, BetweenRenames, LeakInv
<1>4. ASSUME NEW i \in Indexers, WriteOverlay(i) \/ WriteCompact(i) \/ WriteFull(i)
      PROVE  LeakInv'
  <2>1. /\ UNCHANGED <<output, base, statVars, faults>>
        /\ pc[i] = "overlayWrite" => pc'[i] = "overlayRename"
        /\ pc[i] # "overlayRename"
        /\ temp'[i] = NewInode /\ NewInode \in Free
        /\ \A j \in Indexers : j # i => pc'[j] = pc[j] /\ temp'[j] = temp[j]
    BY <1>4, <1>t DEF WriteOverlay, WriteCompact, WriteFull, WriteTemp, NewInode, Goto,
       TypeOK, Processes, boundVars
  <2>2. temp'[i] # base
    BY <2>1 DEF Free, InUse, Held
  <2> QED
    BY <2>1, <2>2, <1>t, LeakFrame DEF statVars, BetweenRenames, LeakInv
<1>5. ASSUME NEW i \in Indexers, RenameOverlay(i) \/ RenameCompact(i) \/ RenameFull(i)
      PROVE  LeakInv'
  <2>1. /\ output' = temp[i] /\ UNCHANGED <<base, leaks, collapses, faults>>
        /\ pc'[i] = "done" /\ temp'[i] = NoInode
        /\ \A j \in Indexers : j # i => pc'[j] = pc[j] /\ temp'[j] = temp[j]
    BY <1>5, <1>t DEF RenameOverlay, RenameCompact, RenameFull, RenameOutput, Goto,
       TypeOK, Processes, boundVars, statVars
  <2>2. base # NoInode => temp[i] # base
    BY <1>5 DEF RenameOverlay, RenameCompact, RenameFull, RenameOutput, SerialInv, FilesOK,
       PlanOK, IsOverlay, LeakInv
  <2>3. Owed' = 0 /\ Owed \in Nat
    BY <2>1, <2>2 DEF Owed
  <2>4. leaks + Owed <= collapses + 2 * faults
    BY DEF LeakInv
  <2>5. leaks' + Owed' <= collapses' + 2 * faults'
    <3> HIDE DEF Owed
    <3> QED BY <2>1, <2>3, <2>4, <1>t
  <2> QED
    BY <2>1, <2>5 DEF LeakInv
<1>6. ASSUME NEW i \in Indexers, RenameBase(i) PROVE LeakInv'
  <2>1. /\ base' = temp[i] /\ UNCHANGED <<output, collapses, faults>>
        /\ leaks' = IF temp[i] = base THEN leaks + 1 ELSE leaks
        /\ pc[i] = "baseRename" /\ pc'[i] = "overlayWrite"
        /\ temp[i] = output /\ output # NoInode
        /\ \A j \in Indexers : j # i => pc[j] = "idle" /\ pc'[j] = pc[j]
    BY <1>6, <1>t DEF RenameBase, RenameLeaks, Goto, TypeOK, Processes, boundVars,
       SerialInv, PlanOK, IsSnapshot, Alone
  <2>2. Owed' = 0
    BY <2>1 DEF Owed, BetweenRenames
  <2>3. temp[i] = base => Owed = 1
    BY <2>1 DEF Owed, BetweenRenames
  <2>4. Owed \in Nat /\ leaks + Owed <= collapses + 2 * faults
    BY DEF Owed, LeakInv
  <2>5. leaks' + Owed' <= collapses' + 2 * faults'
    <3> HIDE DEF Owed
    <3> QED BY <2>1, <2>2, <2>3, <2>4, <1>t
  <2> QED
    BY <2>1, <2>5 DEF LeakInv
<1>7. ASSUME NEW i \in Indexers, RenameCollapse(i) PROVE LeakInv'
  <2>1. /\ output' = temp[i] /\ UNCHANGED <<base, faults>> /\ collapses' = collapses + 1
        /\ leaks' = IF temp[i] = output THEN leaks + 1 ELSE leaks
        /\ pc[i] = "collapseRename" /\ pc'[i] = "done"
        /\ temp[i] = base /\ base # NoInode
        /\ \A j \in Indexers : j # i => pc[j] = "idle" /\ pc'[j] = pc[j]
    BY <1>7, <1>t DEF RenameCollapse, RenameLeaks, Goto, TypeOK, Processes, boundVars,
       SerialInv, PlanOK, Alone
  <2>2. Owed' <= 1 /\ Owed' \in Nat
    BY DEF Owed
  <2>3. temp[i] = output => Owed = 1
    BY <2>1 DEF Owed, BetweenRenames
  <2>4. Owed \in Nat /\ leaks + Owed <= collapses + 2 * faults
    BY DEF Owed, LeakInv
  <2>5. leaks' + Owed' <= collapses' + 2 * faults'
    <3> HIDE DEF Owed
    <3> QED BY <2>1, <2>2, <2>3, <2>4, <1>t, Counts
  <2> QED
    BY <2>1, <2>5 DEF LeakInv
<1>8. ASSUME NEW i \in Indexers, Fail(i) \/ Crash(i) PROVE LeakInv'
  <2>1. /\ UNCHANGED <<output, base, collapses>> /\ faults' = faults + 1
        /\ leaks' \in {leaks, leaks + 1}
        /\ pc'[i] \in {"idle", "rejected"}
        /\ \A j \in Indexers : j # i => pc'[j] = pc[j] /\ temp'[j] = temp[j]
    BY <1>8, <1>t DEF Fail, Crash, Close, Goto, TypeOK, Processes, statVars, fileVars
  <2>2. Owed' <= 1 /\ Owed' \in Nat
    BY DEF Owed
  <2>3. Owed \in Nat /\ leaks + Owed <= collapses + 2 * faults
    BY DEF Owed, LeakInv
  <2>4. leaks' + Owed' <= collapses' + 2 * faults'
    <3> HIDE DEF Owed
    <3> QED BY <2>1, <2>2, <2>3, <1>t, Counts
  <2> QED
    BY <2>1, <2>4 DEF LeakInv
<1> QED
  BY <1>1, <1>2, <1>3, <1>4, <1>5, <1>6, <1>7, <1>8
  DEF Next, Indexer, Step, Reader, ReaderStep, Processes

\* Temporary names are only left behind by a collapse or a fault, for any number of
\* runs of any length (generation.cpp:142-156).
THEOREM LeaksAlwaysBounded == ASSUME Serialized PROVE Spec => []LeaksBounded
<1>1. Init => LeakInv
  BY DEF Init, LeakInv, Owed, Processes
<1>2. SerialInv /\ LeakInv /\ [Next]_vars => LeakInv'
  BY LeakStep
<1>3. SerialInv /\ LeakInv => LeaksBounded
  BY DEF SerialInv, TypeInv, TypeOK, LeakInv, Owed, LeaksBounded
<1> QED
  BY <1>1, <1>2, <1>3, SerialInvariant, PTL DEF Spec

-----------------------------------------------------------------------------
(* Refinement *)

\* The initial states are those of the register.
LEMMA RefinesInit == Init => Abstract!AInit
BY DEF Init, Abstract!AInit, Visible, Readable, IsSnapshot, IsOverlay

\* Every step is a step of the register or leaves it alone; the two that replace
\* `output` commit what the run listed, the replacement of the base is not seen.
LEMMA RefinesStep ==
  ASSUME Serialized, SerialInv, SerialInv', [Next]_vars
  PROVE  [Abstract!ANext]_(Abstract!aVars)
<1> USE DEF fileVars, viewVars, statVars, boundVars
<1>v. ASSUME UNCHANGED fileVars PROVE UNCHANGED Visible
  BY <1>v DEF Visible, Readable, IsSnapshot, IsOverlay, Resolve, SameStamp
<1>1. CASE Push \/ UNCHANGED vars
  <2>1. mirror' \in Trees /\ UNCHANGED <<refs, Visible>>
    BY <1>1, <1>v DEF Push, vars, SerialInv, TypeInv, TypeOK
  <2> QED
    BY <2>1 DEF Abstract!ANext, Abstract!Change
<1>2. ASSUME UNCHANGED <<mirror, refs, fileVars>> PROVE [Abstract!ANext]_(Abstract!aVars)
  BY <1>2, <1>v DEF Abstract!aVars
<1>3. ASSUME NEW r \in Readers, Reader(r) PROVE [Abstract!ANext]_(Abstract!aVars)
  BY <1>2, <1>3 DEF Reader, ReaderStep, LoadStep, BeginLoad, EndLoad, Probe, Open, OpenBase
<1>4. ASSUME NEW i \in Indexers,
             Start(i) \/ StartFull(i) \/ LoadStep(i) \/ LinkBase(i) \/ LinkCollapse(i)
      PROVE  [Abstract!ANext]_(Abstract!aVars)
  BY <1>2, <1>4 DEF Start, StartFull, LoadStep, Probe, Open, OpenBase, LinkBase,
     LinkCollapse, LinkTemp
<1>5. ASSUME NEW i \in Indexers, ListRefs(i) \/ ListFull(i)
      PROVE  [Abstract!ANext]_(Abstract!aVars)
  <2>1. refs' = [refs EXCEPT ![i] = mirror] /\ UNCHANGED <<mirror, Visible>>
    BY <1>5, <1>v DEF ListRefs, ListFull
  <2> QED
    BY <2>1 DEF Abstract!ANext, Abstract!List
<1>6. ASSUME NEW i \in Indexers, Fail(i) \/ Crash(i) \/ Exit(i)
      PROVE  [Abstract!ANext]_(Abstract!aVars)
  <2>1. refs' = [refs EXCEPT ![i] = NoTree] /\ UNCHANGED <<mirror, Visible>>
    BY <1>6, <1>v DEF Fail, Crash, Exit, Close
  <2> QED
    BY <2>1 DEF Abstract!ANext, Abstract!End
<1>7. ASSUME NEW i \in Indexers, RenameBase(i) PROVE [Abstract!ANext]_(Abstract!aVars)
  <2>1. IsSnapshot(output) /\ UNCHANGED <<mirror, refs, inode, output>>
    BY <1>7 DEF RenameBase, SerialInv, PlanOK
  <2>2. output \in Inodes /\ inode[output].kind = "snapshot"
    BY <2>1 DEF IsSnapshot, SerialInv, TypeInv, TypeOK
  <2>3. Resolve(output, base) = inode[output].tree /\ Resolve(output, base') = inode[output].tree
    BY <2>2, SnapshotShows DEF SerialInv, TypeInv
  <2>4. Visible = inode[output].tree
    BY <2>1, <2>3 DEF Visible, Readable
  <2>5. Visible' = Resolve(output, base')
    BY <2>1 DEF Visible, Readable, IsSnapshot, Resolve
  <2> QED
    BY <2>1, <2>3, <2>4, <2>5 DEF Abstract!aVars
<1>8. ASSUME NEW i \in Indexers,
             RenameCollapse(i) \/ RenameOverlay(i) \/ RenameCompact(i) \/ RenameFull(i)
      PROVE  [Abstract!ANext]_(Abstract!aVars)
  <2>1. /\ pc[i] \in Listed /\ Goto(i, "done") /\ UNCHANGED <<mirror, refs>>
    BY <1>8 DEF RenameCollapse, RenameOverlay, RenameCompact, RenameFull, RenameOutput, Listed
  <2>2. pc'[i] = "done"
    BY <2>1 DEF Goto, SerialInv, TypeInv, TypeOK, Processes
  <2>3. Visible' = refs[i]
    BY <2>1, <2>2 DEF SerialInv, PlanOK
  <2>4. refs[i] # NoTree
    BY <2>1, ConstantsAssumption DEF SerialInv, TypeInv
  <2> QED
    BY <2>1, <2>3, <2>4 DEF Abstract!ANext, Abstract!Commit
<1>9. ASSUME NEW i \in Indexers, WriteOverlay(i) \/ WriteCompact(i) \/ WriteFull(i)
      PROVE  [Abstract!ANext]_(Abstract!aVars)
  <2>1. PICK from, to, file : WriteTemp(i, from, to, file)
    BY <1>9 DEF WriteOverlay, WriteCompact, WriteFull
  <2>2. UNCHANGED <<mirror, refs, output, base>>
    BY <2>1 DEF WriteTemp
  <2>3. output \in InUse /\ base \in InUse
    BY DEF InUse, Held
  <2>4. /\ base # NoInode => inode'[base] = inode[base]
        /\ output # NoInode => inode'[output] = inode[output]
    BY <2>1, <2>3, OthersKept DEF SerialInv, TypeInv, TypeOK
  <2>5. Visible' = Visible
    <3>1. CASE output = NoInode
      BY <2>2, <3>1 DEF Visible, Readable, IsSnapshot, IsOverlay
    <3>2. CASE IsSnapshot(output)
      <4>1. IsSnapshot(output)'
        BY <2>2, <2>4, <3>2 DEF IsSnapshot
      <4>2. inode[output].kept = {} /\ inode'[output].kept = {}
        BY <2>4, <3>2 DEF SerialInv, FilesOK, IsSnapshot, TypeInv, TypeOK
      <4>3. Resolve(output, base)' = Resolve(output, base)
        BY <2>2, <2>4, <3>2, <4>2 DEF Resolve, IsSnapshot
      <4> QED
        BY <3>2, <4>1, <4>3 DEF Visible, Readable
    <3>3. CASE IsOverlay(output)
      <4>1. base # NoInode
        BY <3>3 DEF SerialInv, Loadable, IsSnapshot
      <4> QED
        BY <2>2, <2>4, <3>3, <4>1
           DEF Visible, Readable, IsSnapshot, IsOverlay, Resolve, SameStamp
    <3> QED
      BY <3>1, <3>2, <3>3 DEF SerialInv, FilesOK, IsSnapshot, IsOverlay, TypeInv, TypeOK, File
  <2> QED
    BY <2>2, <2>5 DEF Abstract!aVars
<1> QED
  BY <1>1, <1>3, <1>4, <1>5, <1>6, <1>7, <1>8, <1>9 DEF Next, Indexer, Step

\* The protocol of two names implements one atomic register, if runs do not
\* overlap: crashes and failures included, readers only ever see a generation
\* appear as a whole.
THEOREM StoreImplementsRegister == ASSUME Serialized PROVE Spec => ImplementsAtomicStore
<1>1. Spec => [][Abstract!ANext]_(Abstract!aVars)
  BY RefinesStep, SerialInvariant, PTL DEF Spec
<1> QED
  BY <1>1, RefinesInit DEF Spec, ImplementsAtomicStore, Abstract!ASpec

-----------------------------------------------------------------------------
(* Views, with or without overlapping runs *)

Viewless == {"idle", "probe", "open", "openBase", "rejected"}

WholeInv ==
  /\ TypeInv
  /\ \A n \in Inodes : inode[n].kind = "overlay" => inode[n].base \in Inodes
  /\ \A p \in Processes :
       /\ pc[p] \in ViewLabels => headBase[p] \in Inodes
       /\ pc[p] \in Viewless => headBase[p] = NoInode
       /\ pc[p] = "openBase" => IsOverlay(head[p])
       /\ headBase[p] # NoInode /\ IsOverlay(head[p]) =>
            SameStamp(inode[head[p]].base, headBase[p])

\* The invariant of overlapping runs and readers holds before the first run.
LEMMA WholeInit == Init => WholeInv
<1> SUFFICES ASSUME Init PROVE WholeInv
  OBVIOUS
<1>1. TypeInv
  BY InitTyped
<1>2. \A n \in Inodes : inode[n].kind # "overlay"
  BY DEF Init, FreeFile
<1> QED
  BY <1>1, <1>2 DEF WholeInv, Init, ViewLabels

\* Every step keeps it: an opened file is in use, so it is not overwritten.
LEMMA WholeStep == WholeInv /\ [Next]_vars => WholeInv'
<1> SUFFICES ASSUME WholeInv, [Next]_vars PROVE WholeInv'
  OBVIOUS
<1>t. TypeInv'
  BY StepTyped DEF WholeInv
<1> USE DEF fileVars, viewVars, statVars, boundVars
<1>1. ASSUME UNCHANGED <<inode, head, headBase>>,
             \A p \in Processes :
               \/ pc'[p] = pc[p]
               \/ pc[p] \in Viewless /\ pc'[p] \in Viewless \ {"openBase"}
               \/ pc[p] \in ViewLabels /\ pc'[p] \notin Viewless
               \/ pc'[p] \notin ViewLabels \cup Viewless
      PROVE  WholeInv'
  BY <1>t, <1>1 DEF WholeInv, IsOverlay, ViewLabels, Viewless
<1>2. CASE Push \/ UNCHANGED vars
  BY <1>1, <1>2 DEF Push, vars
<1>3. ASSUME NEW p \in Processes, Probe(p) PROVE WholeInv'
  BY <1>1, <1>3 DEF Probe, Goto, Viewless, WholeInv, TypeInv, TypeOK
<1>4. ASSUME NEW r \in Readers, BeginLoad(r) PROVE WholeInv'
  BY <1>1, <1>4 DEF BeginLoad, Goto, Viewless, WholeInv, TypeInv, TypeOK, Processes
<1>5. ASSUME NEW i \in Indexers, Start(i) \/ StartFull(i) PROVE WholeInv'
  BY <1>1, <1>5 DEF Start, StartFull, MayStart, Goto, Viewless, WholeInv, TypeInv, TypeOK,
     Processes
<1>6. ASSUME NEW p \in Processes, Open(p) PROVE WholeInv'
  <2>1. /\ pc[p] = "open" /\ headBase[p] = NoInode
        /\ UNCHANGED <<inode, output>>
    BY <1>6 DEF Open, WholeInv, Viewless
  <2>2. ASSUME NEW q \in Processes \ {p}
        PROVE  pc'[q] = pc[q] /\ head'[q] = head[q] /\ headBase'[q] = headBase[q]
    BY <1>6 DEF Open, Goto, WholeInv, TypeInv, TypeOK
  <2>3. CASE ~probed[p] /\ IsSnapshot(output)
    BY <1>6, <1>t, <2>1, <2>2, <2>3 DEF Open, Goto, WholeInv, TypeInv, TypeOK, IsSnapshot,
       IsOverlay, ViewLabels, Viewless
  <2>4. CASE probed[p] /\ IsOverlay(output)
    BY <1>6, <1>t, <2>1, <2>2, <2>4 DEF Open, Goto, WholeInv, TypeInv, TypeOK, IsSnapshot,
       IsOverlay, ViewLabels, Viewless
  <2>5. CASE IF probed[p] THEN ~IsOverlay(output) ELSE ~IsSnapshot(output)
    BY <1>1, <1>6, <2>1, <2>5 DEF Open, Goto, WholeInv, TypeInv, TypeOK, Viewless
  <2> QED
    BY <1>6, <2>3, <2>4, <2>5
<1>7. ASSUME NEW p \in Processes, OpenBase(p) PROVE WholeInv'
  <2>1. /\ pc[p] = "openBase" /\ headBase[p] = NoInode /\ IsOverlay(head[p])
        /\ UNCHANGED <<inode, base>>
    BY <1>7 DEF OpenBase, WholeInv, Viewless
  <2>2. ASSUME NEW q \in Processes \ {p}
        PROVE  pc'[q] = pc[q] /\ head'[q] = head[q] /\ headBase'[q] = headBase[q]
    BY <1>7 DEF OpenBase, Goto, WholeInv, TypeInv, TypeOK
  <2>3. CASE IsSnapshot(base) /\ SameStamp(inode[head[p]].base, base)
    BY <1>7, <1>t, <2>1, <2>2, <2>3 DEF OpenBase, Goto, WholeInv, TypeInv, TypeOK, IsSnapshot,
       IsOverlay, ViewLabels, Viewless
  <2>4. CASE ~(IsSnapshot(base) /\ SameStamp(inode[head[p]].base, base))
    BY <1>7, <1>t, <2>1, <2>2, <2>4 DEF OpenBase, Goto, WholeInv, TypeInv, TypeOK, IsSnapshot,
       IsOverlay, ViewLabels, Viewless
  <2> QED
    BY <2>3, <2>4
<1>8. ASSUME NEW p \in Processes, CloseView(p), UNCHANGED inode,
             NEW label \in {"idle", "rejected"}, Goto(p, label)
      PROVE  WholeInv'
  <2>1. ASSUME NEW q \in Processes \ {p}
        PROVE  pc'[q] = pc[q] /\ head'[q] = head[q] /\ headBase'[q] = headBase[q]
    BY <1>8 DEF CloseView, Goto, WholeInv, TypeInv, TypeOK
  <2>2. pc'[p] = label /\ headBase'[p] = NoInode
    BY <1>8 DEF CloseView, Goto, WholeInv, TypeInv, TypeOK
  <2> QED
    BY <1>8, <1>t, <2>1, <2>2 DEF WholeInv, IsOverlay, ViewLabels, Viewless
<1>9. ASSUME NEW r \in Readers, EndLoad(r) PROVE WholeInv'
  BY <1>8, <1>9 DEF EndLoad, Processes
<1>10. ASSUME NEW i \in Indexers, Fail(i) \/ Crash(i) \/ Exit(i) PROVE WholeInv'
  BY <1>8, <1>10 DEF Fail, Crash, Exit, Close, Processes
<1>11. ASSUME NEW i \in Indexers, ListRefs(i) \/ ListFull(i) PROVE WholeInv'
  BY <1>1, <1>11 DEF ListRefs, ListFull, Goto, ViewLabels, Viewless, WholeInv, TypeInv, TypeOK,
     Processes
<1>12. ASSUME NEW i \in Indexers,
              LinkBase(i) \/ LinkCollapse(i) \/ RenameBase(i) \/ RenameCollapse(i)
       PROVE  WholeInv'
  BY <1>1, <1>12 DEF LinkBase, LinkCollapse, LinkTemp, RenameBase, RenameCollapse, Goto,
     ViewLabels, Viewless, WholeInv, TypeInv, TypeOK, Processes
<1>13. ASSUME NEW i \in Indexers,
              RenameOverlay(i) \/ RenameCompact(i) \/ RenameFull(i)
       PROVE  WholeInv'
  BY <1>1, <1>13 DEF RenameOverlay, RenameCompact, RenameFull, RenameOutput, Goto,
     ViewLabels, Viewless, WholeInv, TypeInv, TypeOK, Processes
<1>14. ASSUME NEW i \in Indexers, NEW from, NEW to, NEW file \in File,
              file.kind = "overlay" => file.base \in Inodes,
              WriteTemp(i, from, to, file),
              to \notin Viewless,
              from \in ViewLabels \/ to \notin ViewLabels
       PROVE  WholeInv'
  <2>1. /\ UNCHANGED <<head, headBase>>
        /\ pc[i] = from /\ pc' = [pc EXCEPT ![i] = to]
        /\ i \in Processes
    BY <1>14 DEF WriteTemp, Goto, Processes
  <2>2. \A n \in Inodes : inode'[n].kind = "overlay" => inode'[n].base \in Inodes
    BY <1>14 DEF WriteTemp, WholeInv, FreeFile
  <2>3. \A p \in Processes : head[p] # NoInode => inode'[head[p]] = inode[head[p]]
    <3> SUFFICES ASSUME NEW p \in Processes, head[p] # NoInode
                 PROVE  inode'[head[p]] = inode[head[p]]
      OBVIOUS
    <3>1. head[p] \in Inodes \cap InUse
      BY DEF InUse, Held, WholeInv, TypeInv, TypeOK
    <3> QED
      BY <1>14, <3>1, OthersKept
  <2>4. \A p \in Processes : IsOverlay(head[p])' <=> IsOverlay(head[p])
    BY <2>1, <2>3 DEF IsOverlay
  <2>5. \A p \in Processes : pc'[p] = IF p = i THEN to ELSE pc[p]
    BY <2>1 DEF WholeInv, TypeInv, TypeOK
  <2> QED
    BY <1>14, <1>t, <2>1, <2>2, <2>3, <2>4, <2>5
       DEF WholeInv, IsOverlay, SameStamp, ViewLabels, Viewless
<1>15. ASSUME NEW i \in Indexers, WriteOverlay(i) PROVE WholeInv'
  <2> DEFINE k == KeptOf(head[i], Resolve(head[i], headBase[i]), refs[i])
             file == OverlayFile(refs[i], k, headBase[i])
  <2>1. WriteTemp(i, "overlayWrite", "overlayRename", file)
    BY <1>15 DEF WriteOverlay
  <2>2. headBase[i] \in Inodes /\ refs[i] \in Trees
    BY <2>1 DEF WriteTemp, WholeInv, TypeInv, Listed, ViewLabels, Processes
  <2>3. k \in SUBSET Branches
    BY DEF KeptOf, Present
  <2>4. file \in File /\ file.base \in Inodes
    BY <2>2, <2>3, OverlayTyped DEF OverlayFile
  <2> HIDE DEF file
  <2> QED
    BY <1>14, <2>1, <2>4 DEF ViewLabels, Viewless
<1>16. ASSUME NEW i \in Indexers, WriteCompact(i) \/ WriteFull(i) PROVE WholeInv'
  <2>1. PICK from \in {"compactWrite", "fullWrite"}, to \in {"compactRename", "fullRename"} :
          /\ WriteTemp(i, from, to, SnapshotFile(refs[i]))
          /\ to = "compactRename" => from = "compactWrite"
    BY <1>16 DEF WriteCompact, WriteFull
  <2>2. refs[i] \in Trees
    BY <2>1 DEF WriteTemp, WholeInv, TypeInv, Listed
  <2>3. SnapshotFile(refs[i]) \in File /\ SnapshotFile(refs[i]).kind = "snapshot"
    BY <2>2, SnapshotTyped DEF SnapshotFile
  <2> QED
    BY <1>14, <2>1, <2>3 DEF ViewLabels, Viewless
<1> QED
  BY <1>2, <1>3, <1>4, <1>5, <1>6, <1>7, <1>9, <1>10, <1>11, <1>12, <1>13, <1>15, <1>16
     DEF Next, Indexer, Step, Reader, ReaderStep, LoadStep, Processes

\* However runs overlap, a view that passed the identity check joins an overlay
\* to its own base, if files are told apart by size and creation second.
THEOREM ViewsAreWhole == Spec => []ViewIsWhole
<1>1. WholeInv => ViewIsWhole
  <2> SUFFICES ASSUME WholeInv, \A m, n \in Inodes : SameStamp(m, n) => m = n,
                      NEW p \in Processes, headBase[p] # NoInode, IsOverlay(head[p])
               PROVE  headBase[p] = inode[head[p]].base
    BY DEF ViewIsWhole
  <2> QED
    BY DEF WholeInv, TypeInv, TypeOK, IsOverlay
<1>2. Spec => []WholeInv
  BY WholeInit, WholeStep, PTL DEF Spec
<1> QED
  BY <1>1, <1>2, PTL

-----------------------------------------------------------------------------
(* HotReload                                                                 *)

\* The identity check tells any two files apart.
FreshFiles == \A m, n \in Inodes : SameStamp(m, n) => m = n

\* The refs file n stands for among the files f: an overlay together with the base it names.
RefsOf(f, n) ==
  [x \in Branches |->
     IF x \in f[n].kept THEN f[IF f[n].kind = "overlay" THEN f[n].base ELSE n].tree[x]
                        ELSE f[n].tree[x]]

\* The log ends with what lies at the snapshot path.
Logged ==
  /\ output = NoInode => log = <<>>
  /\ output # NoInode => log # <<>> /\ log[Len(log)] = RefsOf(inode, output)

\* The load in progress has opened one entry of the log.
Opening ==
  /\ pc[aurhubd] \in {"idle", "probe", "open", "openBase", "opened", "rejected"}
  /\ pc[aurhubd] \in {"idle", "probe", "open"} => head[aurhubd] = NoInode
  /\ pc[aurhubd] = "opened" => head[aurhubd] # NoInode
  /\ head[aurhubd] # NoInode =>
       /\ inode[head[aurhubd]].kind # "free"
       /\ opened \in 1..Len(log)
       /\ log[opened] = RefsOf(inode, head[aurhubd])

\* What was loaded is an entry of the log, and each stage is behind the next one.
Ordered ==
  /\ active # NoView => active.seq \in 1..Len(log) /\ active.tree = log[active.seq]
  /\ active.seq <= Len(log)
  /\ result.ok => /\ result.seq \in 1..Len(log) /\ result.tree = log[result.seq]
                  /\ active.seq <= result.seq
  /\ head[aurhubd] # NoInode => /\ active.seq <= opened
                                /\ result.ok => result.seq <= opened

\* What main and the reloader have going on at each point of the server's life.
Phases ==
  /\ server \in {"down", "loading"} => active = NoView
  /\ server # "serving" => result = NoResult /\ ~notifying /\ ~event /\ control = "wait"
  /\ server \in {"down", "loaded"} => pc[aurhubd] = "idle"
  /\ target <= requested
  /\ server # "serving" \/ pc[aurhubd] = "idle" => handled = target
  /\ result # NoResult => notifying \/ event \/ control = "take"

\* The last publication has been asked for: nothing is in the inotify queue, and the load
\* under way, or the last one, was started for the last request.
Settled == server = "serving" /\ Len(log) > watchedFrom /\ ~pending /\ requested = target

\* The last publication passes from stage to stage and is not lost between two.
Followed ==
  Settled =>
    \/ pc[aurhubd] = "probe"
    \/ pc[aurhubd] = "open" /\ probed[aurhubd] = IsOverlay(output)
    \/ pc[aurhubd] = "openBase" /\ opened = Len(log) /\ head[aurhubd] = output
    \/ pc[aurhubd] = "opened" /\ opened = Len(log)
    \/ pc[aurhubd] = "rejected" /\ spoilt
    \/ /\ pc[aurhubd] = "idle"
       /\ \/ spoilt
          \/ result.ok /\ result.seq = Len(log)
          \/ ~result.ok /\ active.seq = Len(log)

StoreInv == SerialInv /\ WholeInv
HotInv == StoreInv /\ HotTypeOK /\ Logged /\ Opening /\ Ordered /\ Phases /\ Followed

-----------------------------------------------------------------------------
(* The files *)

\* No step of a run or a reader changes a file that has a name or is open, or the base
\* such a file records.
LEMMA InUseKept ==
  ASSUME [Next]_vars, NEW n \in Inodes \cap InUse
  PROVE  inode'[n] = inode[n]
<1> USE DEF fileVars, viewVars, statVars, boundVars
<1>1. CASE UNCHANGED inode
  BY <1>1
<1>2. ASSUME NEW i \in Indexers, WriteOverlay(i) \/ WriteCompact(i) \/ WriteFull(i)
      PROVE  inode'[n] = inode[n]
  <2>1. PICK from, to, file : WriteTemp(i, from, to, file)
    BY <1>2 DEF WriteOverlay, WriteCompact, WriteFull
  <2> QED BY <2>1, OthersKept
<1>3. ASSUME NEW p \in Processes, LoadStep(p) PROVE UNCHANGED inode
  BY <1>3 DEF LoadStep, Probe, Open, OpenBase
<1>4. CASE Push \/ UNCHANGED vars
  BY <1>1, <1>4 DEF Push, vars
<1>5. ASSUME NEW r \in Readers, Reader(r) PROVE UNCHANGED inode
  BY <1>3, <1>5 DEF Reader, ReaderStep, BeginLoad, EndLoad, Processes
<1>6. ASSUME NEW i \in Indexers, Indexer(i),
             ~(WriteOverlay(i) \/ WriteCompact(i) \/ WriteFull(i))
      PROVE  UNCHANGED inode
  BY <1>3, <1>6 DEF Indexer, Start, StartFull, Step, ListRefs, LinkBase, RenameBase, LinkCollapse,
     RenameCollapse, LinkTemp, RenameOverlay, RenameCompact, RenameFull, RenameOutput, ListFull,
     Exit, Fail, Crash, Processes
<1> QED
  BY <1>1, <1>2, <1>4, <1>5, <1>6 DEF Next

\* So a named or open file goes on standing for the same refs.
LEMMA TreeKept ==
  ASSUME StoreInv, [Next]_vars, NEW n \in Inodes \cap Held
  PROVE  RefsOf(inode', n) = RefsOf(inode, n) /\ inode'[n] = inode[n]
<1>1. n \in Inodes \cap InUse
  BY DEF InUse
<1>2. inode'[n] = inode[n]
  BY <1>1, InUseKept
<1>3. inode[n].kind = "overlay" => inode[n].base \in Inodes \cap InUse
  BY DEF StoreInv, WholeInv, InUse
<1>4. inode[n].kind = "overlay" => inode'[inode[n].base] = inode[inode[n].base]
  BY <1>3, InUseKept
<1> QED
  BY <1>2, <1>4, ConstantsAssumption DEF RefsOf

\* The refs of a file are refs.
LEMMA TreesTyped == StoreInv => \A n \in Inodes : RefsOf(inode, n) \in Trees
<1> SUFFICES ASSUME StoreInv, NEW n \in Inodes PROVE RefsOf(inode, n) \in Trees
  OBVIOUS
<1>1. inode[n] \in File
  BY DEF StoreInv, SerialInv, TypeInv, TypeOK
<1>2. (IF inode[n].kind = "overlay" THEN inode[n].base ELSE n) \in Inodes
  BY DEF StoreInv, WholeInv
<1>3. inode[IF inode[n].kind = "overlay" THEN inode[n].base ELSE n] \in File
  BY <1>2 DEF StoreInv, SerialInv, TypeInv, TypeOK
<1> QED
  BY <1>1, <1>3 DEF RefsOf, File, Trees

\* What readers see at the snapshot path is what the file there stands for.
LEMMA VisibleIsTree ==
  StoreInv /\ output # NoInode => Visible = RefsOf(inode, output) /\ output \in Inodes
<1> SUFFICES ASSUME StoreInv, output # NoInode
             PROVE  Visible = RefsOf(inode, output) /\ output \in Inodes
  OBVIOUS
<1>1. output \in Inodes /\ inode[output] \in File /\ inode[output].kind # "free"
  BY DEF StoreInv, SerialInv, TypeInv, TypeOK, FilesOK
<1>2. CASE inode[output].kind = "snapshot"
  <2>1. Resolve(output, base) = inode[output].tree
    BY <1>1, <1>2, SnapshotShows DEF StoreInv, SerialInv, TypeInv
  <2>2. RefsOf(inode, output) = inode[output].tree
    BY <1>1, <1>2 DEF RefsOf, File, Trees, StoreInv, SerialInv, FilesOK
  <2> QED
    BY <1>1, <1>2, <2>1, <2>2 DEF Visible, Readable, IsSnapshot
<1>3. CASE inode[output].kind = "overlay"
  BY <1>1, <1>3 DEF Visible, Readable, IsSnapshot, IsOverlay, RefsOf, Resolve, StoreInv, SerialInv,
     Loadable, SameStamp
<1> QED
  BY <1>1, <1>2, <1>3 DEF File

\* Once there is a generation, there always is one.
LEMMA OutputStays ==
  ASSUME StoreInv, [Next]_vars, output' = NoInode
  PROVE  output = NoInode
<1> USE DEF fileVars, viewVars, statVars, boundVars
<1>1. ASSUME NEW p \in Processes, LoadStep(p) PROVE UNCHANGED output
  BY <1>1 DEF LoadStep, Probe, Open, OpenBase
<1>2. CASE Push \/ UNCHANGED vars
  BY <1>2 DEF Push, vars
<1>3. ASSUME NEW r \in Readers, Reader(r) PROVE UNCHANGED output
  BY <1>1, <1>3 DEF Reader, ReaderStep, BeginLoad, EndLoad, Processes
<1>4. ASSUME NEW i \in Indexers, RenameCollapse(i) \/ RenameOverlay(i) \/ RenameCompact(i) \/ RenameFull(i)
      PROVE  FALSE
  BY <1>4 DEF RenameCollapse, RenameOverlay, RenameCompact, RenameFull, RenameOutput, StoreInv,
     SerialInv, PlanOK, IsOverlay, IsSnapshot
<1>5. ASSUME NEW i \in Indexers, Indexer(i),
             ~(RenameCollapse(i) \/ RenameOverlay(i) \/ RenameCompact(i) \/ RenameFull(i))
      PROVE  UNCHANGED output
  BY <1>1, <1>5 DEF Indexer, Start, StartFull, Step, ListRefs, LinkBase, RenameBase, LinkCollapse,
     LinkTemp, WriteOverlay, WriteCompact, WriteFull, WriteTemp, ListFull, Exit, Fail, Crash, Processes
<1> QED
  BY <1>2, <1>3, <1>4, <1>5 DEF Next

-----------------------------------------------------------------------------
(* The indexer beside the server, and the server's faults *)

\* All but the server's own faults are steps of the store or leave it alone.
LEMMA StoreSteps ==
  ASSUME [HotNext]_hotVars, ~LoadFault, ~Die
  PROVE  [Next]_vars
<1>1. CASE IndexerSide
  BY <1>1 DEF IndexerSide, Next
<1>2. ASSUME LoadStep(aurhubd) \/ BeginLoad(aurhubd) \/ EndLoad(aurhubd) PROVE Next
  BY <1>2, ReaderAssumption DEF Next, Reader, ReaderStep
<1>3. CASE Main \/ Reloader
  BY <1>2, <1>3 DEF Main, Reloader, Boot, Load, InitialLoad, Watch, Wake, Deliver, Notify
<1>4. CASE ControlLoop \/ UNCHANGED hotVars
  BY <1>4 DEF ControlLoop, Request, Drain, Take, hotVars
<1> QED
  BY <1>1, <1>3, <1>4 DEF HotNext

\* The server's loading thread is not an indexer, and its place is one of the labels.
LEMMA ReaderTyped ==
  ASSUME StoreInv
  PROVE  /\ aurhubd \in Processes \ Indexers
         /\ pc \in [Processes -> Labels] /\ probed \in [Processes -> BOOLEAN]
         /\ head \in [Processes -> Inodes \cup {NoInode}]
         /\ headBase \in [Processes -> Inodes \cup {NoInode}]
BY ReaderAssumption, ConstantsAssumption DEF StoreInv, SerialInv, TypeInv, TypeOK, Processes

\* A fault of the server changes nothing of the store but the server's own place and view.
LEMMA FaultFrame ==
  ASSUME StoreInv, LoadFault \/ Die
  PROVE  /\ UNCHANGED <<mirror, fileVars, refs, temp, statVars, boundVars>>
         /\ pc' = [pc EXCEPT ![aurhubd] = pc'[aurhubd]]
         /\ \/ pc'[aurhubd] = "rejected" /\ UNCHANGED viewVars
               /\ pc[aurhubd] \in {"open", "openBase"}
            \/ pc'[aurhubd] = "idle" /\ CloseView(aurhubd)
BY ReaderTyped DEF LoadFault, Die, Goto

\* The invariants of the store outlive them.
LEMMA StoreStep ==
  ASSUME Serialized, StoreInv, [HotNext]_hotVars
  PROVE  StoreInv'
<1>1. ASSUME [Next]_vars PROVE StoreInv'
  BY <1>1, SerialStep, WholeStep DEF StoreInv
<1>2. ASSUME LoadFault \/ Die PROVE StoreInv'
  <2>1. pc'[aurhubd] \in {"rejected", "idle"} /\ \A i \in Processes \ {aurhubd} : pc'[i] = pc[i]
    BY <1>2, FaultFrame, ReaderTyped
  <2>2. \A i \in Processes \ {aurhubd} :
          head'[i] = head[i] /\ headBase'[i] = headBase[i] /\ probed'[i] = probed[i]
    BY <1>2, FaultFrame, ReaderTyped DEF viewVars, CloseView
  <2>3. UNCHANGED <<mirror, inode, output, base, refs, temp, statVars, boundVars>>
    BY <1>2, FaultFrame DEF fileVars
  <2>4. \A i \in Indexers : i \in Processes \ {aurhubd}
    BY ReaderTyped DEF Processes
  <2>5. /\ pc' \in [Processes -> Labels] /\ probed' \in [Processes -> BOOLEAN]
        /\ head' \in [Processes -> Inodes \cup {NoInode}]
        /\ headBase' \in [Processes -> Inodes \cup {NoInode}]
    <3>1. {"rejected", "idle"} \subseteq Labels
      BY DEF Labels, Building
    <3>2. pc' \in [Processes -> Labels]
      BY <1>2, <2>1, <3>1, FaultFrame, ReaderTyped
    <3>3. UNCHANGED viewVars \/ CloseView(aurhubd)
      BY <1>2, FaultFrame
    <3> QED
      BY <3>2, <3>3, ReaderTyped DEF viewVars, CloseView
  <2>6. TypeInv'
    BY <2>1, <2>3, <2>4, <2>5 DEF StoreInv, SerialInv, TypeInv, TypeOK, statVars, boundVars
  <2>7. Alone' /\ FilesOK' /\ Loadable'
    BY <2>1, <2>3, <2>4 DEF StoreInv, SerialInv, Alone, FilesOK, Loadable, IsOverlay, IsSnapshot
  <2>8. ASSUME NEW i \in Indexers PROVE ViewOK(i)' /\ PlanOK(i)'
    <3>1. pc'[i] = pc[i] /\ head'[i] = head[i] /\ headBase'[i] = headBase[i]
      BY <2>1, <2>2, <2>4
    <3>2. ViewOK(i) /\ PlanOK(i)
      BY DEF StoreInv, SerialInv
    <3>3. ViewOK(i)'
      BY <2>3, <3>1, <3>2 DEF ViewOK, IsOverlay
    <3>4. Visible' = Visible
      BY <2>3 DEF Visible, Readable, IsOverlay, IsSnapshot, Resolve, SameStamp
    <3> QED
      BY <2>3, <3>1, <3>2, <3>3, <3>4 DEF PlanOK, IsOverlay, IsSnapshot, Resolve
  <2>9. SerialInv'
    BY <2>6, <2>7, <2>8 DEF SerialInv
  <2>10. WholeInv'
    <3>1. headBase'[aurhubd] = NoInode
      <4>1. pc[aurhubd] \in {"open", "openBase"} => headBase[aurhubd] = NoInode
        BY ReaderTyped DEF StoreInv, WholeInv, Viewless
      <4> QED
        BY <1>2, <4>1, FaultFrame, ReaderTyped DEF viewVars, CloseView
    <3>2. \A p \in Processes \ {aurhubd} :
            /\ pc'[p] = pc[p] /\ head'[p] = head[p] /\ headBase'[p] = headBase[p]
      BY <2>1, <2>2
    <3> QED
      BY <2>1, <2>3, <2>6, <3>1, <3>2 DEF StoreInv, WholeInv, IsOverlay, ViewLabels, Viewless
  <2> QED
    BY <2>9, <2>10 DEF StoreInv
<1> QED
  BY <1>1, <1>2, StoreSteps

\* The file the server reads and the one at the path go on standing for the same refs.
LEMMA FilesStay ==
  ASSUME StoreInv, [HotNext]_hotVars, NEW n \in Inodes \cap Held
  PROVE  RefsOf(inode', n) = RefsOf(inode, n) /\ inode'[n] = inode[n]
<1>1. ASSUME LoadFault \/ Die PROVE UNCHANGED inode
  BY <1>1, FaultFrame DEF fileVars
<1> QED
  BY <1>1, StoreSteps, TreeKept

\* The indexer does not touch the server's view.
LEMMA IndexerFrame ==
  ASSUME StoreInv, IndexerSide
  PROVE  /\ pc'[aurhubd] = pc[aurhubd] /\ probed'[aurhubd] = probed[aurhubd]
         /\ head'[aurhubd] = head[aurhubd] /\ headBase'[aurhubd] = headBase[aurhubd]
<1> USE ReaderTyped DEF fileVars, viewVars, statVars, boundVars, Goto
<1>1. CASE Push
  BY <1>1 DEF Push
<1>2. ASSUME NEW i \in Indexers, LoadStep(i) \/ Start(i) \/ StartFull(i) \/ ListRefs(i) \/ ListFull(i)
      PROVE  /\ pc'[aurhubd] = pc[aurhubd] /\ probed'[aurhubd] = probed[aurhubd]
             /\ head'[aurhubd] = head[aurhubd] /\ headBase'[aurhubd] = headBase[aurhubd]
  <2>1. i \in Processes \ {aurhubd}
    BY DEF Processes
  <2>2. CASE Probe(i)
    BY <2>1, <2>2 DEF Probe
  <2>3. CASE Open(i)
    BY <2>1, <2>3 DEF Open
  <2>4. CASE OpenBase(i)
    BY <2>1, <2>4 DEF OpenBase
  <2>5. CASE Start(i) \/ StartFull(i)
    BY <2>1, <2>5 DEF Start, StartFull
  <2>6. CASE ListRefs(i)
    BY <2>1, <2>6 DEF ListRefs
  <2>7. CASE ListFull(i)
    BY <2>1, <2>7 DEF ListFull
  <2> QED
    BY <1>2, <2>2, <2>3, <2>4, <2>5, <2>6, <2>7 DEF LoadStep
<1>3. ASSUME NEW i \in Indexers, LinkBase(i) \/ RenameBase(i) \/ LinkCollapse(i) \/ RenameCollapse(i)
      PROVE  /\ pc'[aurhubd] = pc[aurhubd] /\ probed'[aurhubd] = probed[aurhubd]
             /\ head'[aurhubd] = head[aurhubd] /\ headBase'[aurhubd] = headBase[aurhubd]
  BY <1>3 DEF LinkBase, RenameBase, LinkCollapse, RenameCollapse, LinkTemp
<1>4. ASSUME NEW i \in Indexers, WriteOverlay(i) \/ WriteCompact(i) \/ WriteFull(i)
      PROVE  /\ pc'[aurhubd] = pc[aurhubd] /\ probed'[aurhubd] = probed[aurhubd]
             /\ head'[aurhubd] = head[aurhubd] /\ headBase'[aurhubd] = headBase[aurhubd]
  BY <1>4 DEF WriteOverlay, WriteCompact, WriteFull, WriteTemp
<1>5. ASSUME NEW i \in Indexers, RenameOverlay(i) \/ RenameCompact(i) \/ RenameFull(i)
      PROVE  /\ pc'[aurhubd] = pc[aurhubd] /\ probed'[aurhubd] = probed[aurhubd]
             /\ head'[aurhubd] = head[aurhubd] /\ headBase'[aurhubd] = headBase[aurhubd]
  BY <1>5 DEF RenameOverlay, RenameCompact, RenameFull, RenameOutput
<1>6. ASSUME NEW i \in Indexers, Exit(i) \/ Fail(i) \/ Crash(i)
      PROVE  /\ pc'[aurhubd] = pc[aurhubd] /\ probed'[aurhubd] = probed[aurhubd]
             /\ head'[aurhubd] = head[aurhubd] /\ headBase'[aurhubd] = headBase[aurhubd]
  BY <1>6 DEF Exit, Fail, Crash, Close, CloseView
<1> QED
  BY <1>1, <1>2, <1>3, <1>4, <1>5, <1>6 DEF IndexerSide, Indexer, Step

-----------------------------------------------------------------------------
(* The log *)

\* Only the indexer publishes.
LEMMA ServerPublishesNothing ==
  ASSUME [HotNext]_hotVars, ~IndexerSide
  PROVE  UNCHANGED <<output, log>>
<1> USE DEF fileVars, viewVars, statVars, boundVars
<1>1. CASE Boot \/ Wake
  BY <1>1 DEF Boot, Wake, BeginLoad
<1>2. CASE Load
  BY <1>2 DEF Load, LoadStep, Probe, Open, OpenBase
<1>3. CASE InitialLoad \/ Deliver
  BY <1>3 DEF InitialLoad, Deliver, EndLoad
<1>4. CASE Watch \/ Notify \/ Request \/ Drain \/ Take \/ UNCHANGED hotVars
  BY <1>4 DEF Watch, Notify, Request, Drain, Take, hotVars, serverVars, vars
<1>5. CASE LoadFault \/ Die
  BY <1>5 DEF LoadFault, Die
<1> QED
  BY <1>1, <1>2, <1>3, <1>4, <1>5 DEF HotNext, Main, Reloader, ControlLoop

\* The log only grows, and ends with what lies at the snapshot path.
LEMMA LogStep ==
  ASSUME HotInv, StoreInv', [HotNext]_hotVars
  PROVE  /\ log' \in Seq(Trees) /\ Len(log) \in Nat /\ Len(log') \in Nat
         /\ Len(log) <= Len(log')
         /\ \A k \in 1..Len(log) : log'[k] = log[k]
         /\ Logged'
<1>0. log \in Seq(Trees) /\ Len(log) \in Nat
  BY DEF HotInv, HotTypeOK
<1>1. CASE output' = output
  <2>1. log' = log
    BY <1>1, ServerPublishesNothing DEF IndexerSide, Notice
  <2>2. output # NoInode => output \in Inodes \cap Held
    BY DEF HotInv, StoreInv, SerialInv, TypeInv, TypeOK, Held
  <2>3. output # NoInode => RefsOf(inode', output) = RefsOf(inode, output)
    BY <2>2, FilesStay DEF HotInv
  <2>4. Logged'
    BY <1>1, <2>1, <2>3 DEF HotInv, Logged
  <2> QED
    BY <1>0, <2>1, <2>4
<1>2. CASE output' # output
  <2>1. IndexerSide
    BY <1>2, ServerPublishesNothing
  <2>2. log' = Append(log, Visible')
    BY <1>2, <2>1 DEF IndexerSide, Notice
  <2>3. output' # NoInode
    <3>1. [Next]_vars
      BY <2>1 DEF IndexerSide, Next
    <3> QED
      BY <1>2, <3>1, OutputStays DEF HotInv
  <2>4. Visible' = RefsOf(inode', output') /\ output' \in Inodes
    <3>1. (StoreInv /\ output # NoInode => Visible = RefsOf(inode, output) /\ output \in Inodes)'
      BY VisibleIsTree, PTL
    <3> QED
      BY <2>3, <3>1
  <2>5. RefsOf(inode', output') \in Trees
    <3>1. (StoreInv => \A n \in Inodes : RefsOf(inode, n) \in Trees)'
      BY TreesTyped, PTL
    <3> QED
      BY <2>4, <3>1
  <2>6. /\ log' \in Seq(Trees) /\ Len(log') = Len(log) + 1 /\ log'[Len(log')] = Visible'
        /\ \A k \in 1..Len(log) : log'[k] = log[k]
    BY <1>0, <2>2, <2>4, <2>5
  <2>7. Logged'
    BY <1>0, <2>3, <2>4, <2>6 DEF Logged
  <2> QED
    BY <1>0, <2>6, <2>7
<1> QED
  BY <1>1, <1>2

-----------------------------------------------------------------------------
(* Each step keeps the invariant *)

\* The rest of it, which is about the server.
ServerInv == HotTypeOK /\ Opening /\ Ordered /\ Phases /\ Followed

\* A step of the indexer: what is published is at the end of the log, and while the server
\* watches there is an event for it.
LEMMA IndexerKeeps ==
  ASSUME HotInv, StoreInv', IndexerSide
  PROVE  ServerInv'
<1> DEFINE h == head[aurhubd]
<1>0. [HotNext]_hotVars
  BY DEF HotNext
<1>1. /\ log' \in Seq(Trees) /\ Len(log) \in Nat /\ Len(log') \in Nat /\ Len(log) <= Len(log')
      /\ \A k \in 1..Len(log) : log'[k] = log[k]
  BY <1>0, LogStep
<1>2. /\ pc'[aurhubd] = pc[aurhubd] /\ probed'[aurhubd] = probed[aurhubd]
      /\ head'[aurhubd] = head[aurhubd]
  BY IndexerFrame DEF HotInv
<1>3. UNCHANGED <<server, requested, handled, target, result, event, control, active, notifying,
                  opened, watchedFrom, mishaps, spoilt>>
  BY DEF IndexerSide, faultVars
<1>4. h # NoInode => /\ RefsOf(inode', h) = RefsOf(inode, h)
                     /\ inode'[h] = inode[h]
  <2>1. h # NoInode => h \in Inodes \cap Held
    BY ReaderTyped DEF HotInv, Held
  <2> QED
    BY <1>0, <2>1, FilesStay DEF HotInv
<1>5. HotTypeOK'
  <2>1. pending' \in BOOLEAN
    BY DEF IndexerSide, Notice, HotInv, HotTypeOK
  <2> QED
    BY <1>1, <1>3, <2>1 DEF HotInv, HotTypeOK
<1>6. Opening'
  BY <1>1, <1>2, <1>3, <1>4 DEF HotInv, Opening
<1>7. Ordered'
  BY <1>1, <1>2, <1>3 DEF HotInv, Ordered, HotTypeOK
<1>8. Phases'
  BY <1>2, <1>3 DEF HotInv, Phases
<1>9. Followed'
  <2>1. CASE output' # output
    BY <1>3, <2>1 DEF IndexerSide, Notice, Followed, Settled
  <2>2. CASE output' = output
    <3>1. log' = log /\ pending' = pending
      BY <2>2 DEF IndexerSide, Notice
    <3>2. IsOverlay(output)' = IsOverlay(output)
      <4>1. output # NoInode => output \in Inodes \cap Held
        BY DEF HotInv, StoreInv, SerialInv, TypeInv, TypeOK, Held
      <4>2. output # NoInode => inode'[output] = inode[output]
        BY <1>0, <4>1, FilesStay DEF HotInv
      <4> QED
        BY <2>2, <4>2 DEF IsOverlay
    <3> QED
      BY <1>2, <1>3, <2>2, <3>1, <3>2 DEF HotInv, Followed, Settled
  <2> QED
    BY <2>1, <2>2
<1> QED
  BY <1>5, <1>6, <1>7, <1>8, <1>9 DEF ServerInv

\* A step of the server that loads nothing.
LEMMA ControlKeeps ==
  ASSUME HotInv, Watch \/ Notify \/ Request \/ Drain \/ Take \/ UNCHANGED hotVars
  PROVE  ServerInv'
<1>0. UNCHANGED vars
  BY DEF Watch, Notify, Request, Drain, Take, hotVars
<1>1. UNCHANGED <<pc, probed, head, headBase, inode, output>>
  BY <1>0 DEF vars, fileVars, viewVars
<1>2. UNCHANGED <<log, opened>>
  BY DEF Watch, Notify, Request, Drain, Take, hotVars, serverVars
<1>3. Opening'
  BY <1>1, <1>2 DEF HotInv, Opening
<1>l. log \in Seq(Trees) /\ Len(log) \in Nat
  BY DEF HotInv, HotTypeOK
<1>4. HotTypeOK'
  <2>1. CASE Watch
    BY <1>2, <1>l, <2>1 DEF HotInv, HotTypeOK, Watch, faultVars
  <2>2. CASE Notify
    BY <1>2, <1>l, <2>2 DEF HotInv, HotTypeOK, Notify, faultVars
  <2>3. CASE Request
    <3>1. requested' \in Nat
      BY <2>3 DEF HotInv, HotTypeOK, Request
    <3>2. {pending', event', notifying', spoilt'} \subseteq BOOLEAN
      BY <2>3 DEF HotInv, HotTypeOK, Request, faultVars
    <3>3. UNCHANGED <<server, control, handled, target, watchedFrom, mishaps, result, active>>
      BY <2>3 DEF Request, faultVars
    <3> QED
      BY <1>2, <1>l, <3>1, <3>2, <3>3 DEF HotInv, HotTypeOK
  <2>4. CASE Drain
    BY <1>2, <1>l, <2>4 DEF HotInv, HotTypeOK, Drain, faultVars
  <2>5. CASE Take
    <3>1. active' \in [tree : Trees \cup {NoTree}, seq : Nat]
      BY <2>5 DEF HotInv, HotTypeOK, Take
    <3>2. result' \in [ok : BOOLEAN, empty : BOOLEAN, tree : Trees \cup {NoTree}, seq : Nat]
      BY <2>5 DEF Take, NoResult
    <3> QED
      BY <1>2, <1>l, <2>5, <3>1, <3>2 DEF HotInv, HotTypeOK, Take, faultVars
  <2>6. CASE UNCHANGED hotVars
    BY <1>2, <1>l, <2>6 DEF HotInv, HotTypeOK, hotVars, serverVars, faultVars
  <2> QED
    BY <2>1, <2>2, <2>3, <2>4, <2>5, <2>6
<1>5. Ordered'
  <2>1. CASE Take
    <3>1. result'.ok = FALSE
      BY <2>1 DEF Take, NoResult
    <3>2. CASE result.ok
      <4>1. active' = [tree |-> result.tree, seq |-> result.seq]
        BY <2>1, <3>2 DEF Take
      <4> QED
        BY <1>1, <1>2, <3>1, <3>2, <4>1 DEF HotInv, Ordered, HotTypeOK
    <3>3. CASE ~result.ok
      <4>1. active' = active
        BY <2>1, <3>3 DEF Take
      <4> QED
        BY <1>1, <1>2, <3>1, <4>1 DEF HotInv, Ordered
    <3> QED
      BY <3>2, <3>3
  <2>2. CASE Watch \/ Notify \/ Request \/ Drain \/ UNCHANGED hotVars
    <3>1. UNCHANGED <<active, result>>
      BY <2>2 DEF Watch, Notify, Request, Drain, hotVars, serverVars
    <3> QED
      BY <1>1, <1>2, <3>1 DEF HotInv, Ordered
  <2> QED
    BY <2>1, <2>2
<1>6. Phases'
  BY <1>1 DEF HotInv, Phases, HotTypeOK, Watch, Notify, Request, Drain, Take, hotVars, serverVars
<1>7. Followed'
  <2>1. CASE Watch
    BY <1>2, <2>1, <1>l DEF Watch, Followed, Settled
  <2>2. CASE Request
    <3>1. requested' # target'
      BY <2>2 DEF Request, HotInv, Phases, HotTypeOK
    <3> QED
      BY <3>1 DEF Followed, Settled
  <2>3. CASE Notify \/ Drain \/ UNCHANGED hotVars
    <3>1. UNCHANGED <<server, watchedFrom, pending, requested, target, handled, spoilt, result, active>>
      BY <2>3 DEF Notify, Drain, hotVars, serverVars, faultVars
    <3> QED
      BY <1>1, <1>2, <3>1 DEF HotInv, Followed, Settled, IsOverlay
  <2>4. CASE Take
    <3>1. UNCHANGED <<server, watchedFrom, pending, requested, target, spoilt>> /\ result'.ok = FALSE
      BY <2>4 DEF Take, faultVars, NoResult
    <3>2. active'.seq = IF result.ok THEN result.seq ELSE active.seq
      BY <2>4 DEF Take
    <3> QED
      BY <1>1, <1>2, <3>1, <3>2 DEF HotInv, Followed, Settled, IsOverlay
  <2> QED
    BY <2>1, <2>2, <2>3, <2>4
<1> QED
  BY <1>3, <1>4, <1>5, <1>6, <1>7 DEF ServerInv

\* The steps of a load, the deaths of the server and what it is told of a load leave the rest
\* of the store as it is.
LEMMA LoaderFrame ==
  ASSUME HotInv, Boot \/ Wake \/ Load \/ InitialLoad \/ Deliver \/ LoadFault \/ Die
  PROVE  UNCHANGED <<inode, output, base, log>>
<1> USE DEF fileVars
<1>1. CASE Boot \/ Wake
  BY <1>1 DEF Boot, Wake, BeginLoad
<1>2. CASE Load
  BY <1>2 DEF Load, LoadStep, Probe, Open, OpenBase
<1>3. CASE InitialLoad \/ Deliver
  BY <1>3 DEF InitialLoad, Deliver, EndLoad
<1>4. CASE LoadFault \/ Die
  BY <1>4 DEF LoadFault, Die
<1> QED
  BY <1>1, <1>2, <1>3, <1>4

\* A load begins, in main or in the reloader.
LEMMA BeginKeeps ==
  ASSUME HotInv, Boot \/ Wake
  PROVE  ServerInv'
<1>0. UNCHANGED <<inode, output, base, log>>
  BY LoaderFrame
<1>1. /\ pc[aurhubd] = "idle" /\ pc'[aurhubd] = "probe"
      /\ head'[aurhubd] = head[aurhubd] /\ head[aurhubd] = NoInode
  BY ReaderTyped DEF Boot, Wake, BeginLoad, Goto, viewVars, HotInv, Opening
<1>2. UNCHANGED <<pending, requested, handled, result, event, control, active, notifying, opened,
                  watchedFrom, mishaps>> /\ spoilt' = FALSE
  BY DEF Boot, Wake
<1>3. \/ server = "down" /\ server' = "loading" /\ target' = target
      \/ server = "serving" /\ server' = "serving" /\ target' = requested
  BY DEF Boot, Wake
<1>4. HotTypeOK'
  BY <1>0, <1>2, <1>3 DEF HotInv, HotTypeOK
<1>5. Opening'
  BY <1>1 DEF Opening
<1>6. Ordered'
  BY <1>0, <1>1, <1>2 DEF HotInv, Ordered
<1>7. Phases'
  BY <1>1, <1>2, <1>3 DEF HotInv, Phases, HotTypeOK
<1>8. Followed'
  BY <1>1 DEF Followed
<1> QED
  BY <1>4, <1>5, <1>6, <1>7, <1>8 DEF ServerInv

\* The constructor opens the path, and then the base.  While nothing is published in between,
\* it finds what it expects.
LEMMA LoadKeeps ==
  ASSUME HotInv, Load, server \in {"loading", "serving"}
  PROVE  ServerInv'
<1>0. UNCHANGED <<inode, output, base, log>>
  BY LoaderFrame
<1>1. UNCHANGED <<server, pending, requested, handled, target, result, event, control, active,
                  notifying, watchedFrom, mishaps, spoilt>>
  BY DEF Load, faultVars
<1>2. opened' = IF pc[aurhubd] = "open" THEN Len(log) ELSE opened
  BY DEF Load
<1>l. log \in Seq(Trees) /\ Len(log) \in Nat
  BY DEF HotInv, HotTypeOK
<1>o. output # NoInode =>
        /\ output \in Inodes /\ inode[output].kind # "free"
        /\ inode[output].kind \in {"snapshot", "overlay"}
        /\ log # <<>> /\ log[Len(log)] = RefsOf(inode, output)
        /\ Len(log) \in 1..Len(log)
  <2>1. output # NoInode => output \in Inodes /\ inode[output] \in File
    BY DEF HotInv, StoreInv, SerialInv, TypeInv, TypeOK
  <2>2. log # <<>> => Len(log) \in 1..Len(log)
    BY <1>l
  <2> QED
    BY <2>1, <2>2 DEF HotInv, StoreInv, SerialInv, FilesOK, Logged, File
<1>s. Settled' = Settled
  BY <1>0, <1>1 DEF Settled
<1>p. Settled => output # NoInode
  BY <1>l DEF HotInv, HotTypeOK, Settled, Logged
<1>3. HotTypeOK'
  BY <1>0, <1>1, <1>2, <1>l DEF HotInv, HotTypeOK
<1>4. CASE Probe(aurhubd)
  <2>1. /\ pc[aurhubd] = "probe" /\ pc'[aurhubd] = "open" /\ head'[aurhubd] = head[aurhubd]
        /\ probed'[aurhubd] = IsOverlay(output)
        /\ opened' = opened /\ head[aurhubd] = NoInode
    BY <1>2, <1>4, ReaderTyped DEF Probe, Goto, HotInv, Opening
  <2>2. Opening'
    BY <2>1 DEF Opening
  <2>3. Ordered'
    BY <1>0, <1>1, <2>1 DEF HotInv, Ordered
  <2>4. Phases'
    BY <1>1, <2>1 DEF HotInv, Phases
  <2>5. Followed'
    BY <1>0, <2>1 DEF Followed, IsOverlay
  <2> QED
    BY <1>3, <2>2, <2>3, <2>4, <2>5 DEF ServerInv
<1>5. CASE Open(aurhubd)
  <2>1. /\ pc[aurhubd] = "open" /\ head[aurhubd] = NoInode /\ opened' = Len(log)
        /\ \/ /\ ~probed[aurhubd] /\ IsSnapshot(output)
              /\ pc'[aurhubd] = "opened" /\ head'[aurhubd] = output
           \/ /\ probed[aurhubd] /\ IsOverlay(output)
              /\ pc'[aurhubd] = "openBase" /\ head'[aurhubd] = output
           \/ /\ IF probed[aurhubd] THEN ~IsOverlay(output) ELSE ~IsSnapshot(output)
              /\ pc'[aurhubd] = "rejected" /\ head'[aurhubd] = NoInode
    BY <1>2, <1>5, ReaderTyped DEF Open, Goto, HotInv, Opening
  <2>2. Opening'
    BY <1>0, <1>o, <2>1 DEF Opening, IsSnapshot, IsOverlay
  <2>3. Ordered'
    BY <1>0, <1>1, <1>o, <2>1 DEF HotInv, Ordered, HotTypeOK
  <2>4. Phases'
    BY <1>1, <2>1 DEF HotInv, Phases
  <2>5. Followed'
    BY <1>0, <1>s, <1>p, <1>o, <2>1 DEF HotInv, Followed, IsOverlay, IsSnapshot
  <2> QED
    BY <1>3, <2>2, <2>3, <2>4, <2>5 DEF ServerInv
<1>6. CASE OpenBase(aurhubd)
  <2>1. /\ pc[aurhubd] = "openBase" /\ opened' = opened
        /\ \/ pc'[aurhubd] = "opened" /\ head'[aurhubd] = head[aurhubd]
           \/ /\ ~(IsSnapshot(base) /\ SameStamp(inode[head[aurhubd]].base, base))
              /\ pc'[aurhubd] = "rejected" /\ head'[aurhubd] = NoInode
    BY <1>2, <1>6, ReaderTyped DEF OpenBase, Goto, HotInv
  <2>2. head[aurhubd] # NoInode /\ IsOverlay(head[aurhubd])
    BY <2>1, ReaderTyped DEF HotInv, StoreInv, WholeInv, IsOverlay
  <2>3. Opening'
    BY <1>0, <2>1, <2>2 DEF HotInv, Opening
  <2>4. Ordered'
    BY <1>0, <1>1, <2>1 DEF HotInv, Ordered
  <2>5. Phases'
    BY <1>1, <2>1 DEF HotInv, Phases
  <2>6. Followed'
    <3>1. head[aurhubd] = output => IsSnapshot(base) /\ SameStamp(inode[head[aurhubd]].base, base)
      BY <2>2 DEF HotInv, StoreInv, SerialInv, Loadable, SameStamp
    <3> QED
      BY <1>0, <1>s, <2>1, <3>1 DEF HotInv, Followed
  <2> QED
    BY <1>3, <2>3, <2>4, <2>5, <2>6 DEF ServerInv
<1> QED
  BY <1>4, <1>5, <1>6 DEF Load, LoadStep

\* A view that passed the checks shows the refs of the file it opened first.
LEMMA LoadedIsTree ==
  ASSUME HotInv, FreshFiles, pc[aurhubd] = "opened"
  PROVE  Resolve(head[aurhubd], headBase[aurhubd]) = RefsOf(inode, head[aurhubd])
<1> DEFINE h == head[aurhubd]
<1>1. h \in Inodes /\ inode[h] \in File /\ inode[h].kind # "free"
  BY ReaderTyped DEF HotInv, Opening, StoreInv, SerialInv, TypeInv, TypeOK
<1>2. CASE inode[h].kind = "snapshot"
  <2>1. Resolve(h, headBase[aurhubd]) = inode[h].tree
    BY <1>1, <1>2, SnapshotShows DEF HotInv, StoreInv, SerialInv, TypeInv
  <2>2. RefsOf(inode, h) = inode[h].tree
    BY <1>1, <1>2 DEF RefsOf, File, Trees, HotInv, StoreInv, SerialInv, FilesOK
  <2> QED
    BY <2>1, <2>2
<1>3. CASE inode[h].kind = "overlay"
  <2>1. headBase[aurhubd] \in Inodes /\ inode[h].base \in Inodes
    BY <1>1, <1>3, ReaderTyped DEF HotInv, StoreInv, WholeInv, ViewLabels
  <2>2. SameStamp(inode[h].base, headBase[aurhubd])
    BY <1>1, <1>3, <2>1, ReaderTyped, ConstantsAssumption DEF HotInv, StoreInv, WholeInv, IsOverlay
  <2>3. headBase[aurhubd] = inode[h].base
    BY <2>1, <2>2 DEF FreshFiles
  <2> QED
    BY <1>3, <2>3 DEF Resolve, RefsOf
<1> QED
  BY <1>1, <1>2, <1>3 DEF File

\* main has its snapshot, or gives up.
LEMMA InitialKeeps ==
  ASSUME HotInv, FreshFiles, InitialLoad
  PROVE  ServerInv'
<1>0. UNCHANGED <<inode, output, base, log>>
  BY LoaderFrame
<1>1. /\ pc'[aurhubd] = "idle" /\ head'[aurhubd] = NoInode /\ opened' = 0
      /\ pc[aurhubd] \in {"opened", "rejected"} /\ server = "loading"
  BY ReaderTyped DEF InitialLoad, EndLoad, CloseView, Goto, HotInv
<1>2. UNCHANGED <<pending, requested, handled, target, result, event, control, notifying, log,
                  watchedFrom, mishaps, spoilt>>
  BY DEF InitialLoad, faultVars
<1>l. log \in Seq(Trees) /\ Len(log) \in Nat
  BY DEF HotInv, HotTypeOK
<1>3. \/ /\ pc[aurhubd] = "opened" /\ server' = "loaded"
         /\ active' = [tree |-> Loaded.tree, seq |-> opened]
      \/ server' = "down" /\ active' = active
  BY DEF InitialLoad
<1>4. pc[aurhubd] = "opened" =>
        /\ opened \in 1..Len(log) /\ Loaded.tree = log[opened] /\ log[opened] \in Trees
  <2> SUFFICES ASSUME pc[aurhubd] = "opened"
               PROVE  opened \in 1..Len(log) /\ Loaded.tree = log[opened] /\ log[opened] \in Trees
    OBVIOUS
  <2>1. opened \in 1..Len(log) /\ log[opened] = RefsOf(inode, head[aurhubd])
    BY DEF HotInv, Opening
  <2> QED
    BY <1>l, <2>1, LoadedIsTree DEF Loaded
<1>5. HotTypeOK'
  <2>1. active' \in [tree : Trees \cup {NoTree}, seq : Nat]
    BY <1>3, <1>4 DEF HotInv, HotTypeOK
  <2>2. server' \in {"down", "loaded"}
    BY <1>3
  <2> QED
    BY <1>1, <1>2, <2>1, <2>2 DEF HotInv, HotTypeOK
<1>6. Opening'
  BY <1>1 DEF Opening
<1>7. Ordered'
  <2>1. result.ok = FALSE
    BY <1>1 DEF HotInv, Phases, NoResult
  <2> QED
    BY <1>0, <1>1, <1>2, <1>3, <1>4, <2>1, <1>l DEF HotInv, Ordered
<1>8. Phases'
  <2>1. handled = target
    BY <1>1 DEF HotInv, Phases
  <2> QED
    BY <1>1, <1>2, <1>3, <2>1 DEF HotInv, Phases
<1>9. Followed'
  BY <1>3 DEF Followed, Settled
<1> QED
  BY <1>5, <1>6, <1>7, <1>8, <1>9 DEF ServerInv

\* The reloader stores what it has loaded, or that it could not.
LEMMA DeliverKeeps ==
  ASSUME HotInv, FreshFiles, Deliver
  PROVE  ServerInv'
<1>0. UNCHANGED <<inode, output, base, log>>
  BY LoaderFrame
<1>1. /\ pc'[aurhubd] = "idle" /\ head'[aurhubd] = NoInode /\ opened' = 0
      /\ pc[aurhubd] \in {"opened", "rejected"} /\ server = "serving"
  BY ReaderTyped DEF Deliver, EndLoad, CloseView, Goto, HotInv
<1>2. UNCHANGED <<server, pending, requested, target, event, control, active, watchedFrom,
                  mishaps, spoilt>> /\ handled' = target /\ notifying' = TRUE
  BY DEF Deliver, faultVars
<1>l. log \in Seq(Trees) /\ Len(log) \in Nat
  BY DEF HotInv, HotTypeOK
<1>3. result' = IF pc[aurhubd] = "opened"
                  THEN [ok |-> TRUE, tree |-> Loaded.tree, seq |-> opened, empty |-> FALSE]
                  ELSE [ok |-> FALSE, tree |-> NoTree, seq |-> 0, empty |-> FALSE]
  BY DEF Deliver, Loaded, Rejected
<1>4. pc[aurhubd] = "opened" =>
        /\ opened \in 1..Len(log) /\ Loaded.tree = log[opened] /\ log[opened] \in Trees
        /\ active.seq <= opened
  <2> SUFFICES ASSUME pc[aurhubd] = "opened"
               PROVE  /\ opened \in 1..Len(log) /\ Loaded.tree = log[opened]
                      /\ log[opened] \in Trees /\ active.seq <= opened
    OBVIOUS
  <2>1. /\ opened \in 1..Len(log) /\ log[opened] = RefsOf(inode, head[aurhubd])
        /\ active.seq <= opened
    BY DEF HotInv, Opening, Ordered
  <2> QED
    BY <1>l, <2>1, LoadedIsTree DEF Loaded
<1>5. HotTypeOK'
  <2>1. result' \in [ok : BOOLEAN, empty : BOOLEAN, tree : Trees \cup {NoTree}, seq : Nat]
    BY <1>3, <1>4
  <2> QED
    BY <1>1, <1>2, <1>0, <2>1 DEF HotInv, HotTypeOK
<1>6. Opening'
  BY <1>1 DEF Opening
<1>7. Ordered'
  BY <1>0, <1>1, <1>2, <1>3, <1>4, <1>l DEF HotInv, Ordered
<1>8. Phases'
  BY <1>1, <1>2 DEF HotInv, Phases
<1>9. Followed'
  <2>1. Settled' = Settled
    BY <1>0, <1>2 DEF Settled
  <2>2. Settled => \/ pc[aurhubd] = "opened" /\ opened = Len(log)
                   \/ spoilt
    BY <1>1 DEF HotInv, Followed
  <2> QED
    BY <1>0, <1>1, <1>2, <1>3, <2>1, <2>2 DEF Followed
<1> QED
  BY <1>5, <1>6, <1>7, <1>8, <1>9 DEF ServerInv

\* A load fails for a reason of the server's own.
LEMMA FaultKeeps ==
  ASSUME HotInv, LoadFault
  PROVE  ServerInv'
<1>0. UNCHANGED <<inode, output, base, log>>
  BY LoaderFrame
<1>1. /\ pc[aurhubd] \in {"open", "openBase"} /\ pc'[aurhubd] = "rejected"
      /\ head'[aurhubd] = head[aurhubd]
  BY ReaderTyped DEF LoadFault, Goto, viewVars, HotInv
<1>2. UNCHANGED <<server, pending, requested, handled, target, result, event, control, active,
                  notifying, opened, watchedFrom>> /\ spoilt' = TRUE /\ mishaps' = mishaps + 1
  BY DEF LoadFault
<1>3. HotTypeOK'
  <2>1. mishaps' \in Nat
    BY <1>2 DEF HotInv, HotTypeOK
  <2>2. {pending', event', notifying', spoilt'} \subseteq BOOLEAN
    BY <1>2 DEF HotInv, HotTypeOK
  <2> QED
    BY <1>0, <1>2, <2>1, <2>2 DEF HotInv, HotTypeOK
<1>4. Opening'
  BY <1>0, <1>1, <1>2 DEF HotInv, Opening
<1>5. Ordered'
  BY <1>0, <1>1, <1>2 DEF HotInv, Ordered
<1>6. Phases'
  BY <1>1, <1>2 DEF HotInv, Phases
<1>7. Followed'
  BY <1>1, <1>2 DEF Followed
<1> QED
  BY <1>3, <1>4, <1>5, <1>6, <1>7 DEF ServerInv

\* The server dies.
LEMMA DieKeeps ==
  ASSUME HotInv, Die
  PROVE  ServerInv'
<1>0. UNCHANGED <<inode, output, base, log>>
  BY LoaderFrame
<1>1. pc'[aurhubd] = "idle" /\ head'[aurhubd] = NoInode
  BY ReaderTyped DEF Die, Goto, CloseView, HotInv
<1>2. /\ server' = "down" /\ active' = NoView /\ result' = NoResult
      /\ requested' = 0 /\ handled' = 0 /\ target' = 0 /\ opened' = 0
      /\ mishaps' = mishaps + 1 /\ watchedFrom' = watchedFrom
      /\ pending' = FALSE /\ event' = FALSE /\ notifying' = FALSE /\ spoilt' = FALSE
      /\ control' = "wait"
  BY DEF Die
<1>3. HotTypeOK'
  <2>1. mishaps' \in Nat
    BY <1>2 DEF HotInv, HotTypeOK
  <2>2. {pending', event', notifying', spoilt'} \subseteq BOOLEAN
    BY <1>2
  <2>3. /\ active' \in [tree : Trees \cup {NoTree}, seq : Nat]
        /\ result' \in [ok : BOOLEAN, empty : BOOLEAN, tree : Trees \cup {NoTree}, seq : Nat]
    BY <1>2 DEF NoView, NoResult
  <2> QED
    BY <1>0, <1>2, <2>1, <2>2, <2>3 DEF HotInv, HotTypeOK
<1>4. Opening'
  BY <1>1 DEF Opening
<1>5. Ordered'
  <2>1. Len(log) \in Nat
    BY DEF HotInv, HotTypeOK
  <2> QED
    BY <1>0, <1>1, <1>2, <2>1 DEF Ordered, NoView, NoResult
<1>6. Phases'
  BY <1>1, <1>2 DEF Phases
<1>7. Followed'
  BY <1>2 DEF Followed, Settled
<1> QED
  BY <1>3, <1>4, <1>5, <1>6, <1>7 DEF ServerInv

-----------------------------------------------------------------------------
(* The theorems *)

\* Before the first run there is nothing to follow.
LEMMA HotInitial == HotInit => HotInv
<1> SUFFICES ASSUME HotInit PROVE HotInv
  OBVIOUS
<1>1. StoreInv
  BY SerialInit, WholeInit DEF HotInit, StoreInv
<1>2. /\ pc[aurhubd] = "idle" /\ head[aurhubd] = NoInode /\ output = NoInode
  BY ReaderAssumption DEF HotInit, Init, Processes
<1>3. HotTypeOK
  <2>1. {pending, event, notifying, spoilt} \subseteq BOOLEAN
    BY DEF HotInit
  <2>2. {requested, handled, target, opened, watchedFrom, mishaps} \subseteq Nat
    BY DEF HotInit
  <2>3. result \in [ok : BOOLEAN, empty : BOOLEAN, tree : Trees \cup {NoTree}, seq : Nat]
    BY DEF HotInit, NoResult
  <2>4. active \in [tree : Trees \cup {NoTree}, seq : Nat] /\ log \in Seq(Trees)
    BY DEF HotInit, NoView
  <2> QED
    BY <2>1, <2>2, <2>3, <2>4 DEF HotInit, HotTypeOK
<1>4. Logged /\ Opening
  BY <1>2 DEF HotInit, Logged, Opening
<1>5. Ordered
  BY <1>2 DEF HotInit, Ordered, NoResult, NoView
<1>6. Phases /\ Followed
  BY <1>2 DEF HotInit, Phases, Followed, Settled
<1> QED
  BY <1>1, <1>3, <1>4, <1>5, <1>6 DEF HotInv

\* Every step keeps the invariant, by the lemma of its action.
LEMMA HotStep == ASSUME Serialized, FreshFiles, HotInv, [HotNext]_hotVars PROVE HotInv'
<1>1. StoreInv'
  BY StoreStep DEF HotInv
<1>2. Logged'
  BY <1>1, LogStep
<1>3. ServerInv'
  <2>1. CASE IndexerSide
    BY <1>1, <2>1, IndexerKeeps
  <2>2. CASE Boot \/ Wake
    BY <2>2, BeginKeeps
  <2>3. CASE Load /\ server \in {"loading", "serving"}
    BY <2>3, LoadKeeps
  <2>4. CASE InitialLoad
    BY <2>4, InitialKeeps
  <2>5. CASE Deliver
    BY <2>5, DeliverKeeps
  <2>6. CASE LoadFault
    BY <2>6, FaultKeeps
  <2>7. CASE Die
    BY <2>7, DieKeeps
  <2>8. CASE Watch \/ Notify \/ Request \/ Drain \/ Take \/ UNCHANGED hotVars
    BY <2>8, ControlKeeps
  <2> QED
    BY <2>1, <2>2, <2>3, <2>4, <2>5, <2>6, <2>7, <2>8 DEF HotNext, Main, Reloader, ControlLoop
<1> QED
  BY <1>1, <1>2, <1>3 DEF HotInv, ServerInv

\* So it holds in every state, if runs do not overlap and files are told apart.
LEMMA HotInvariant == ASSUME Serialized, FreshFiles PROVE HotSpec => []HotInv
BY HotInitial, HotStep, PTL DEF HotSpec

\* Every variable of the server keeps its type, for every mirror, mishap and interleaving.
THEOREM HotTypeCorrect == ASSUME Serialized, FreshFiles PROVE HotSpec => []HotTypeOK
BY HotInvariant, PTL DEF HotInv

\* What the workers serve is, as a whole, one generation that was published
\* (server.cpp:131-138, generation.cpp:166-231).
THEOREM AlwaysPublished == ASSUME Serialized, FreshFiles PROVE HotSpec => []ServedWasPublished
<1>1. HotInv => ServedWasPublished
  BY DEF HotInv, Ordered, ServedWasPublished
<1> QED
  BY <1>1, HotInvariant, PTL

\* No wake-up is lost between the inotify queue, the two counters, the result slot and the
\* eventfd: a server with nothing to do serves the last generation (server.cpp:86-148, 577-605).
THEOREM QuietAlwaysFresh == ASSUME Serialized, FreshFiles PROVE HotSpec => []QuietIsFresh
<1>1. HotInv => QuietIsFresh
  <2> SUFFICES ASSUME HotInv, server = "serving", ~pending, requested = handled,
                      pc[aurhubd] = "idle", ~notifying, ~event, control = "wait"
               PROVE  /\ result = NoResult
                      /\ Len(log) > watchedFrom => active.seq = Len(log) \/ spoilt
    BY DEF QuietIsFresh
  <2>1. result = NoResult /\ handled = target
    BY DEF HotInv, Phases
  <2> QED
    BY <2>1 DEF HotInv, Followed, Settled, NoResult
<1> QED
  BY <1>1, HotInvariant, PTL

\* The workers never go back to an older generation (server.cpp:141-146, 585-590).
THEOREM NeverGoesBack == ASSUME Serialized, FreshFiles PROVE HotSpec => NeverBackwards
<1>1. ASSUME HotInv, [HotNext]_hotVars, server = "serving", server' = "serving"
      PROVE  active'.seq >= active.seq
  <2>1. active.seq \in Nat
    BY <1>1 DEF HotInv, HotTypeOK
  <2>2. CASE Take
    BY <1>1, <2>1, <2>2 DEF Take, HotInv, Ordered, HotTypeOK
  <2>3. CASE ~Take
    <3>1. active' = active
      BY <1>1, <2>3 DEF HotNext, IndexerSide, Main, Reloader, ControlLoop, Boot, Load, InitialLoad,
         Watch, Wake, Deliver, Notify, Request, Drain, LoadFault, Die, hotVars, serverVars
    <3> QED
      BY <2>1, <3>1
  <2> QED
    BY <2>2, <2>3
<1>2. HotInv /\ [HotNext]_hotVars
        => [server = "serving" /\ server' = "serving" => active'.seq >= active.seq]_hotVars
  BY <1>1
<1> QED
  BY <1>2, HotInvariant, PTL DEF HotSpec, NeverBackwards
=============================================================================
