--------------------------- MODULE GitRepoProofs ---------------------------
(***************************************************************************)
(* What the clients of the on-demand repositories rely on, for any number  *)
(* of workers, packages, mutexes and commits, and for every sharing of the *)
(* mutexes by packages, with command failures and deaths of the server.    *)
(***************************************************************************)
EXTENDS GitRepo, TLAPS

\* Where a worker knows the mirror's commit.
Knowing == Making \cup {"look", "master", "update"}

\* A worker in ensure_git_repo holds the mutex of its package.
HoldsLock == \A w \in Workers : pc[w] \in Locked => lock[Mine(w)] = w

\* The history of a request holds what the branch is, and what its worker read of it.
\* A worker that reads the mirror while another has a repository to serve began later,
\* as the other had the mutex: it reads what belongs to the other's history too.
Witnessed ==
  \A w \in Workers :
    /\ pc[w] # "idle" => mirror[package[w]] \in since[w]
    /\ pc[w] \in Knowing => commit[w] \in since[w]
    /\ pc[w] \in Knowing =>
         \A v \in Workers : pc[v] = "serve" /\ package[v] = package[w] => commit[w] \in since[v]

\* Where the branch is as a client was told, all who write its directory write that.
Told ==
  /\ \A p \in current : advertised[p] = mirror[p] /\ advertised[p] # 0
  /\ \A w \in Workers : pc[w] \in Knowing /\ package[w] \in current =>
       commit[w] = advertised[package[w]]

\* What the steps of the creation have achieved.
Made ==
  \A w \in Workers :
    /\ pc[w] = "alternates" => Dir(w).objects /\ Dir(w).head # "none"
    /\ pc[w] \in {"set_master", "set_head"} => Readable(Dir(w))
    /\ pc[w] = "set_head" => Dir(w).master = commit[w]

\* A directory that is being made, or removed again, was never shown to a client.
MadeUnseen ==
  \A w \in Workers : pc[w] \in Making =>
    /\ advertised[package[w]] = 0
    /\ \A v \in Workers : package[v] = package[w] => pc[v] # "serve"

RepoInv ==
  /\ TypeOK /\ HoldsLock /\ Witnessed /\ Told /\ Made /\ MadeUnseen
  /\ ServedIsFresh /\ AdvertisedStays

-----------------------------------------------------------------------------
LEMMA RepoInit == Init => RepoInv
<1> SUFFICES ASSUME Init PROVE RepoInv
  OBVIOUS
<1> USE RepoAssumption DEF Init
<1>1. NoRepo \in Repo
  BY DEF NoRepo, Repo, Commit
<1>2. TypeOK
  <2>1. \A w \in Workers : pc[w] \notin Locked
    BY DEF Locked, Making
  <2> QED
    BY <1>1, <2>1 DEF TypeOK, Commit, Labels
<1>3. NoRepo.master = 0
  BY DEF NoRepo
<1>4. HoldsLock /\ Witnessed /\ Told /\ Made /\ MadeUnseen /\ ServedIsFresh /\ AdvertisedStays
  BY <1>3 DEF HoldsLock, Witnessed, Told, Made, MadeUnseen, ServedIsFresh, AdvertisedStays,
         Locked, Making, Knowing
<1> QED
  BY <1>2, <1>4 DEF RepoInv

\* Two workers inside ensure_git_repo are there for different packages.
LEMMA OwnDirectory ==
  ASSUME RepoInv, NEW v \in Workers, NEW w \in Workers, v # w,
         pc[v] \in Locked, pc[w] \in Locked
  PROVE  package[v] # package[w]
  BY DEF RepoInv, HoldsLock, Mine

\* The directories a step may write in place of another are directories.
LEMMA DirTyped ==
  ASSUME TypeOK, NEW w \in Workers
  PROVE  /\ Dir(w) \in Repo
         /\ [Dir(w) EXCEPT !.master = commit[w]] \in Repo
         /\ Inited(Dir(w)) \in Repo /\ HalfInited(Dir(w)) \subseteq Repo
         /\ [Dir(w) EXCEPT !.alternates = TRUE] \in Repo
         /\ [Dir(w) EXCEPT !.head = "master"] \in Repo
         /\ Remains(Dir(w)) \subseteq Repo
<1>1. Dir(w) \in Repo /\ commit[w] \in Commit /\ InitialHead \in {"other", "master"}
  BY RepoAssumption DEF TypeOK, Dir
<1>2. ASSUME NEW r \in Repo, NEW s \in Remains(r) PROVE s \in Repo
  <2>1. /\ r.objects \in BOOLEAN /\ r.alternates \in BOOLEAN /\ r.master \in Commit
        /\ r.head \in {"none", "other", "master"} /\ 0 \in Commit
    BY RepoAssumption DEF Repo, Commit
  <2>2. /\ {FALSE, r.objects} \subseteq BOOLEAN /\ {FALSE, r.alternates} \subseteq BOOLEAN
        /\ {0, r.master} \subseteq Commit
        /\ {"none", r.head} \subseteq {"none", "other", "master"}
    BY <2>1
  <2>3. s \in [objects : {FALSE, r.objects}, alternates : {FALSE, r.alternates},
               master : {0, r.master}, head : {"none", r.head}]
    BY DEF Remains
  <2> HIDE DEF Commit
  <2> QED
    BY <2>2, <2>3 DEF Repo
<1>3. ASSUME NEW r \in Repo, NEW c \in Commit, NEW h \in {"none", "other", "master"}
      PROVE  /\ [r EXCEPT !.master = c] \in Repo
             /\ [r EXCEPT !.objects = TRUE, !.head = h] \in Repo
             /\ r.objects \in BOOLEAN
             /\ \A b \in BOOLEAN : [r EXCEPT !.objects = b] \in Repo
             /\ [r EXCEPT !.alternates = TRUE] \in Repo
             /\ [r EXCEPT !.head = h] \in Repo
  BY DEF Repo
<1>4. Dir(w).head \in {"none", "other", "master"}
  BY <1>1 DEF Repo
<1>5. Inited(Dir(w)) \in Repo
  <2>1. CASE Dir(w).head = "none"
    BY <1>1, <1>3, <2>1 DEF Inited
  <2>2. CASE Dir(w).head # "none"
    BY <1>1, <1>3, <1>4, <2>2 DEF Inited
  <2> QED
    BY <2>1, <2>2
<1>6. HalfInited(Dir(w)) \subseteq Repo
  BY <1>1, <1>3, <1>5 DEF HalfInited
<1> QED
  BY <1>1, <1>2, <1>3, <1>5, <1>6

\* Every step keeps the types.
LEMMA RepoTyped == RepoInv /\ [Next]_vars => TypeOK'
<1> SUFFICES ASSUME RepoInv, [Next]_vars PROVE TypeOK'
  OBVIOUS
<1> USE RepoAssumption DEF RepoInv, TypeOK, mirrorVars, diskVars, workerVars, toldVars, Goto,
        Return, Mine, Succeed, Fault, Labels, Locked, Making
<1>1. CASE UNCHANGED vars
  BY <1>1 DEF vars
<1>2. CASE Die
  BY <1>2 DEF Die
<1>3. ASSUME NEW p \in Packages, Push(p) PROVE TypeOK'
  BY <1>3 DEF Push, Commit
<1>4. ASSUME NEW w \in Workers, NEW p \in Packages, Ask(w, p) PROVE TypeOK'
  BY <1>4 DEF Ask
<1>5. ASSUME NEW w \in Workers, Lock(w) \/ Upload(w) PROVE TypeOK'
  BY <1>5 DEF Lock, Upload
<1>6. ASSUME NEW w \in Workers, Advertise(w) PROVE TypeOK'
  <2>1. Dir(w).master \in Commit
    BY DirTyped DEF Repo
  <2> QED
    BY <1>6, <2>1 DEF Advertise
<1>7. ASSUME NEW w \in Workers, ReadMirror(w) \/ Look(w) \/ ReadMaster(w) PROVE TypeOK'
  BY <1>7 DEF ReadMirror, Look, ReadMaster, Commit
<1>8. ASSUME NEW w \in Workers,
             UpdateMaster(w) \/ GitInit(w) \/ WriteAlternates(w) \/ SetMaster(w)
               \/ SetHead(w) \/ Remove(w)
      PROVE  TypeOK'
  <2>1. repo' = repo \/ \E r \in Repo : repo' = [repo EXCEPT ![package[w]] = r]
    BY <1>8, DirTyped DEF UpdateMaster, GitInit, WriteAlternates, SetMaster, SetHead, Remove,
                          SetMasterTo, SetDir
  <2>2. repo' \in [Packages -> Repo]
    BY <2>1
  <2>3. /\ pc' \in [Workers -> Labels] /\ lock' \in [Stripes -> Workers \cup {None}]
        /\ faults' \in 0..MaxFaults
        /\ torn' \subseteq Packages /\ since' \in [Workers -> SUBSET Commit]
        /\ UNCHANGED <<mirrorVars, package, commit, toldVars, deaths>>
    BY <1>8 DEF UpdateMaster, GitInit, WriteAlternates, SetMaster, SetHead, Remove
  <2>4. pc[w] \in Locked \ {"mirror"} /\ \A v \in Workers : v # w => pc'[v] = pc[v]
    BY <1>8 DEF UpdateMaster, GitInit, WriteAlternates, SetMaster, SetHead, Remove
  <2> QED
    BY <2>2, <2>3, <2>4
<1> QED
  BY <1>1, <1>2, <1>3, <1>4, <1>5, <1>6, <1>7, <1>8 DEF Next, Ensure, Answer

-----------------------------------------------------------------------------
(* The rest of the invariant, one group of actions after the other.        *)

Rest == HoldsLock /\ Witnessed /\ Told /\ Made /\ MadeUnseen /\ ServedIsFresh /\ AdvertisedStays

\* Steps outside of the mutex, of the mirror and of the clients.
LEMMA OutsideKeeps ==
  ASSUME RepoInv, TypeOK',
         \/ UNCHANGED vars
         \/ Die
         \/ \E p \in Packages : Push(p)
         \/ \E w \in Workers : Upload(w) \/ Advertise(w) \/ \E p \in Packages : Ask(w, p)
  PROVE  Rest'
<1> USE RepoAssumption DEF RepoInv, TypeOK, Rest, mirrorVars, diskVars, workerVars, toldVars,
        Goto, Mine, Dir, Locked, Making, Knowing, Commit, Labels
<1> USE DEF HoldsLock, Witnessed, Told, Made, MadeUnseen, ServedIsFresh, AdvertisedStays
<1>1. CASE UNCHANGED vars
  BY <1>1 DEF vars
<1>2. CASE Die
  BY <1>2 DEF Die, Repo
<1>3. ASSUME NEW p \in Packages, Push(p) PROVE Rest'
  BY <1>3 DEF Push, Repo
<1>4. ASSUME NEW w \in Workers, Upload(w) PROVE Rest'
  BY <1>4 DEF Upload
<1>5. ASSUME NEW w \in Workers, Advertise(w) PROVE Rest'
  BY <1>5 DEF Advertise
<1>6. ASSUME NEW w \in Workers, NEW p \in Packages, Ask(w, p) PROVE Rest'
  BY <1>6 DEF Ask
<1> QED
  BY <1>1, <1>2, <1>3, <1>4, <1>5, <1>6

\* Steps that write no directory: entering the mutex, and reading under it.
LEMMA ReadersKeep ==
  ASSUME RepoInv, TypeOK', NEW w \in Workers,
         Lock(w) \/ ReadMirror(w) \/ Look(w) \/ ReadMaster(w)
  PROVE  Rest'
<1> USE RepoAssumption DEF RepoInv, TypeOK, Rest, mirrorVars, diskVars, workerVars, toldVars,
        Goto, Return, Mine, Dir, Locked, Making, Knowing, Commit, Labels, Succeed, Fault
<1>1. CASE Lock(w)
  BY <1>1 DEF Lock, HoldsLock, Witnessed, Told, Made, MadeUnseen, ServedIsFresh, AdvertisedStays
<1>2. CASE ReadMirror(w)
  <2>1. pc[w] = "mirror" /\ UNCHANGED <<diskVars, package, toldVars>>
    BY <1>2 DEF ReadMirror
  <2>2. /\ \A v \in Workers : v # w => pc'[v] = pc[v] /\ commit'[v] = commit[v]
        /\ \A v \in Workers : pc'[v] # "idle" => since'[v] = since[v]
        /\ \/ pc'[w] = "idle" /\ lock' = [lock EXCEPT ![Mine(w)] = None]
           \/ pc'[w] = "look" /\ lock' = lock /\ commit'[w] = mirror[package[w]]
    BY <1>2 DEF ReadMirror
  <2>3. HoldsLock'
    BY <2>1, <2>2 DEF HoldsLock
  <2>4. Witnessed' /\ Told'
    BY <2>1, <2>2 DEF Witnessed, Told
  <2>5. Made' /\ MadeUnseen'
    BY <2>1, <2>2 DEF Made, MadeUnseen, Readable
  <2>6. ServedIsFresh' /\ AdvertisedStays'
    BY <2>1, <2>2 DEF ServedIsFresh, AdvertisedStays, Readable
  <2> QED
    BY <2>3, <2>4, <2>5, <2>6
<1>3. CASE Look(w)
  BY <1>3 DEF Look, HoldsLock, Witnessed, Told, Made, MadeUnseen, ServedIsFresh, AdvertisedStays,
              Readable
<1>4. CASE ReadMaster(w)
  BY <1>4 DEF ReadMaster, HoldsLock, Witnessed, Told, Made, MadeUnseen, ServedIsFresh, AdvertisedStays
<1> QED
  BY <1>1, <1>2, <1>3, <1>4

\* A step of the holder of the mutex that writes directory r, as the others see it:
\* whoever else is inside works elsewhere.
LEMMA WriterAlone ==
  ASSUME RepoInv, NEW w \in Workers, NEW r, pc[w] \in Locked, SetDir(w, r)
  PROVE  /\ repo'[package[w]] = r
         /\ \A p \in Packages : p # package[w] => repo'[p] = repo[p]
         /\ \A v \in Workers : v # w /\ pc[v] \in Locked => repo'[package[v]] = Dir(v)
  BY OwnDirectory DEF SetDir, RepoInv, TypeOK, Dir

\* The step of worker w that leaves r as its directory and goes on at label l.
Writes(w, r, l) ==
  /\ pc[w] \in Knowing /\ Goto(w, l) /\ SetDir(w, r)
  /\ IF l \in Locked THEN UNCHANGED lock ELSE lock' = [lock EXCEPT ![Mine(w)] = None]
  /\ UNCHANGED <<mirrorVars, package, commit, toldVars>>

\* What such a step must see to, that the others may go on unchanged.
Fits(w, r, l) ==
  /\ l \in {"idle", "serve"} \cup Making
  /\ l \in Making => pc[w] \in Making
  /\ l = "alternates" => r.objects /\ r.head # "none"
  /\ l \in {"set_master", "set_head"} => Readable(r)
  /\ l \in {"set_head", "serve"} => r.master = commit[w]
  /\ l = "serve" => Readable(r)
  /\ pc[w] \notin Making => /\ Readable(Dir(w)) => Readable(r)
                        /\ r.master \in {Dir(w).master, commit[w]}

LEMMA WriteKeeps ==
  ASSUME RepoInv, TypeOK', NEW w \in Workers, NEW r \in Repo, NEW l, Writes(w, r, l),
         Fits(w, r, l)
  PROVE  Rest'
<1> USE DEF RepoInv, Writes, Fits, mirrorVars
<1>1. pc[w] \in Locked /\ package' = package
  BY DEF Locked, Knowing, Making
<1>2. /\ repo'[package[w]] = r /\ Dir(w)' = r
      /\ \A p \in Packages : p # package[w] => repo'[p] = repo[p]
      /\ \A v \in Workers : v # w /\ pc[v] \in Locked => Dir(v)' = Dir(v)
  BY <1>1, WriterAlone DEF Dir
<1>3. /\ pc'[w] = l /\ \A v \in Workers : v # w => pc'[v] = pc[v]
      /\ \A v \in Workers : pc'[v] # "idle" => since'[v] = since[v]
      /\ commit' = commit /\ advertised' = advertised /\ current' = current
      /\ mirror' = mirror
      /\ \A v \in Workers : v # w /\ pc[v] \in Locked => package[v] # package[w]
  BY <1>1, OwnDirectory DEF Goto, TypeOK, toldVars
<1>4. Knowing \subseteq Locked /\ Making \subseteq Knowing /\ "serve" \notin Locked
  BY DEF Knowing, Making, Locked
<1>5. HoldsLock'
  <2>1. \A v \in Workers : v # w /\ pc[v] \in Locked => Mine(v) # Mine(w)
    BY <1>1 DEF HoldsLock
  <2>2. \A v \in Workers : Mine(v) \in Stripes
    BY RepoAssumption DEF Mine, TypeOK
  <2> QED
    BY <1>1, <1>3, <2>1, <2>2 DEF HoldsLock, Mine, TypeOK
<1>6. /\ \A v \in Workers : package[v] \in Packages
      /\ commit[w] # 0 /\ commit[w] \in since[w]
  <2>1. pc[w] \in Locked \ {"mirror"}
    BY DEF Locked, Knowing, Making
  <2>2. \A v \in Workers : package[v] \in Packages
    BY DEF TypeOK
  <2>3. commit[w] # 0
    BY <2>1 DEF TypeOK
  <2>4. commit[w] \in since[w]
    BY DEF Witnessed
  <2> QED
    BY <2>2, <2>3, <2>4
<1>7. Witnessed' /\ Told'
  <2>1. \A v \in Workers : pc'[v] # "idle" => mirror[package[v]] \in since[v]
    BY <1>3, <1>1 DEF Witnessed, Locked, Making
  <2>2. \A v \in Workers : pc'[v] \in Knowing => pc[v] \in Knowing /\ commit[v] \in since[v]
    BY <1>3, <1>4 DEF Witnessed
  <2>3. ASSUME NEW v \in Workers, pc'[v] \in Knowing,
               NEW u \in Workers, pc'[u] = "serve", package[u] = package[v]
        PROVE  commit[v] \in since[u]
    <3>1. CASE u = w
      <4>1. v = w
        BY <2>3, <2>2, <3>1, <1>3, <1>4
      <4> QED
        BY <2>3, <3>1, <4>1, <1>4
    <3>2. CASE u # w
      BY <2>3, <2>2, <3>2, <1>3 DEF Witnessed
    <3> QED
      BY <3>1, <3>2
  <2>4. Witnessed'
    BY <2>1, <2>2, <2>3, <1>1, <1>3 DEF Witnessed, Knowing, Making
  <2>5. Told'
    BY <2>2, <1>1, <1>3 DEF Told
  <2> QED
    BY <2>4, <2>5
<1>8. Made'
  <2>1. ASSUME NEW v \in Workers, v # w
        PROVE  /\ pc'[v] = "alternates" => Dir(v)'.objects /\ Dir(v)'.head # "none"
               /\ pc'[v] \in {"set_master", "set_head"} => Readable(Dir(v)')
               /\ pc'[v] = "set_head" => Dir(v)'.master = commit'[v]
    BY <2>1, <1>2, <1>3 DEF Made, Locked, Making
  <2>2. /\ pc'[w] = "alternates" => Dir(w)'.objects /\ Dir(w)'.head # "none"
        /\ pc'[w] \in {"set_master", "set_head"} => Readable(Dir(w)')
        /\ pc'[w] = "set_head" => Dir(w)'.master = commit'[w]
    BY <1>2, <1>3
  <2>3. \A v \in Workers : Readable(Dir(v))' = Readable(Dir(v)')
    BY DEF Readable
  <2> QED
    BY <2>1, <2>2, <2>3 DEF Made
<1>9. MadeUnseen'
  <2>1. ASSUME NEW v \in Workers, pc'[v] \in Making
        PROVE  advertised'[package'[v]] = 0
    BY <2>1, <1>1, <1>3 DEF MadeUnseen
  <2>2. ASSUME NEW v \in Workers, pc'[v] \in Making, NEW u \in Workers,
               package[u] = package[v], pc'[u] = "serve"
        PROVE  FALSE
    <3>1. pc[v] \in Making
      BY <2>2, <1>3
    <3>2. pc[u] # "serve"
      BY <2>2, <3>1 DEF MadeUnseen
    <3>3. u = w
      BY <2>2, <3>2, <1>3
    <3>4. v # w
      BY <2>2, <3>3 DEF Making
    <3> QED
      BY <2>2, <3>1, <3>3, <3>4, <1>3, <1>4
  <2> QED
    BY <2>1, <2>2, <1>1, <1>3 DEF MadeUnseen
<1>10. ServedIsFresh'
  <2>1. ASSUME NEW v \in Workers, pc'[v] = "serve"
        PROVE  Readable(Dir(v)') /\ Dir(v)'.master \in since[v] \ {0}
    <3>1. CASE v = w
      BY <2>1, <3>1, <1>2, <1>3, <1>6
    <3>2. CASE v # w /\ package[v] # package[w]
      BY <2>1, <3>2, <1>2, <1>3, <1>6, <1>1 DEF ServedIsFresh, Dir
    <3>3. CASE v # w /\ package[v] = package[w]
      <4>1. pc[v] = "serve" /\ pc[w] \notin Making
        BY <2>1, <3>3, <1>3 DEF MadeUnseen
      <4>2. Dir(v) = Dir(w) /\ Dir(v)' = r
        BY <3>3, <1>1, <1>2 DEF Dir
      <4>3. Readable(Dir(w)) /\ Dir(w).master \in since[v] \ {0} /\ commit[w] \in since[v]
        BY <3>3, <4>1, <4>2 DEF ServedIsFresh, Witnessed
      <4> QED
        BY <4>1, <4>2, <4>3, <1>6
    <3> QED
      BY <3>1, <3>2, <3>3
  <2>2. \A v \in Workers : Readable(Dir(v))' = Readable(Dir(v)')
    BY DEF Readable
  <2> QED
    BY <2>1, <2>2, <1>3 DEF ServedIsFresh
<1>11. AdvertisedStays'
  <2>1. ASSUME NEW p \in Packages, advertised[p] # 0
        PROVE  Readable(repo'[p]) /\ (p \in current => repo'[p].master = advertised[p])
    <3>1. CASE p # package[w]
      BY <2>1, <3>1, <1>2 DEF AdvertisedStays
    <3>2. CASE p = package[w]
      <4>1. pc[w] \notin Making
        BY <2>1, <3>2 DEF MadeUnseen
      <4>2. Readable(Dir(w)) /\ (p \in current => Dir(w).master = advertised[p])
        BY <2>1, <3>2 DEF AdvertisedStays, Dir
      <4>3. p \in current => commit[w] = advertised[p]
        BY <3>2 DEF Told
      <4> QED
        BY <4>1, <4>2, <4>3, <3>2, <1>2
    <3> QED
      BY <3>1, <3>2
  <2>2. \A p \in Packages : Readable(repo[p])' = Readable(repo'[p])
    BY DEF Readable
  <2> QED
    BY <2>1, <2>2, <1>3 DEF AdvertisedStays
<1> QED
  BY <1>5, <1>7, <1>8, <1>9, <1>10, <1>11 DEF Rest

\* Every command that writes a directory sees to that.
LEMMA WritersKeep ==
  ASSUME RepoInv, TypeOK', NEW w \in Workers,
         UpdateMaster(w) \/ GitInit(w) \/ WriteAlternates(w) \/ SetMaster(w) \/ SetHead(w)
           \/ Remove(w)
  PROVE  Rest'
<1> DEFINE d == Dir(w)
           WithMaster == [d EXCEPT !.master = commit[w]]
           WithObjects == Inited(d)
           WithAlternates == [d EXCEPT !.alternates = TRUE]
           WithHead == [d EXCEPT !.head = "master"]
<1>1. /\ d \in Repo /\ d.master \in Nat /\ commit[w] \in Nat /\ InitialHead # "none"
      /\ repo' = repo => SetDir(w, d)
  <2>1. package[w] \in Packages /\ repo \in [Packages -> Repo]
    BY DEF RepoInv, TypeOK
  <2>2. repo = [repo EXCEPT ![package[w]] = repo[package[w]]]
    BY <2>1
  <2>3. d \in Repo
    BY DirTyped DEF RepoInv
  <2>4. d.master \in Nat /\ commit[w] \in Nat /\ InitialHead # "none"
    BY <2>3, RepoAssumption DEF RepoInv, TypeOK, Repo, Commit
  <2>5. repo' = repo => SetDir(w, d)
    BY <2>2 DEF SetDir, Dir
  <2> QED
    BY <2>3, <2>4, <2>5
<1>2. /\ WithMaster \in Repo /\ WithObjects \in Repo
      /\ HalfInited(d) \subseteq Repo /\ WithAlternates \in Repo /\ WithHead \in Repo /\ Remains(d) \subseteq Repo
  BY DirTyped DEF RepoInv
<1>3. /\ WithMaster.master = commit[w] /\ WithMaster.objects = d.objects
      /\ WithMaster.alternates = d.alternates /\ WithMaster.head = d.head
      /\ WithObjects.objects /\ WithObjects.head # "none" /\ WithObjects.master = d.master
      /\ WithAlternates.alternates /\ WithAlternates.objects = d.objects
      /\ WithAlternates.head = d.head /\ WithAlternates.master = d.master
      /\ WithHead.head = "master" /\ WithHead.objects = d.objects
      /\ WithHead.alternates = d.alternates /\ WithHead.master = d.master
  BY <1>1 DEF Repo, Inited
<1> HIDE DEF d, WithMaster, WithObjects, WithAlternates, WithHead
<1>6. CASE UpdateMaster(w)
  <2>1. pc[w] = "update" /\ UNCHANGED <<mirrorVars, package, commit, toldVars>>
    BY <1>6 DEF UpdateMaster
  <2>2. CASE Readable(d) /\ SetMasterTo(w) /\ Return(w, "serve")
    <3>1. Writes(w, WithMaster, "serve")
      BY <2>1, <2>2 DEF Writes, Return, SetMasterTo, d, WithMaster, Knowing, Making, Locked
    <3>2. Fits(w, WithMaster, "serve")
      BY <2>1, <2>2, <1>1, <1>3 DEF Fits, Readable, Making, Knowing, d
    <3> QED
      BY <3>1, <3>2, <1>2, WriteKeeps
  <2>3. CASE repo' = repo /\ Return(w, "idle")
    <3>1. Writes(w, d, "idle")
      BY <2>1, <2>3, <1>1 DEF Writes, Return, d, Dir, Knowing, Making, Locked
    <3>2. Fits(w, d, "idle")
      BY <2>1, <1>1 DEF Fits, Making, Knowing, d
    <3> QED
      BY <3>1, <3>2, <1>1, WriteKeeps
  <2> QED
    BY <1>6, <2>2, <2>3 DEF UpdateMaster, d
<1>7. CASE GitInit(w)
  <2>1. pc[w] = "init" /\ UNCHANGED <<mirrorVars, package, commit, toldVars>>
    BY <1>7 DEF GitInit
  <2>2. CASE SetDir(w, WithObjects) /\ Goto(w, "alternates") /\ UNCHANGED lock
    <3>1. Writes(w, WithObjects, "alternates")
      BY <2>1, <2>2, <1>1 DEF Writes, Return, d, Dir, Knowing, Making, Locked, WithObjects
    <3>2. Fits(w, WithObjects, "alternates")
      BY <2>1, <1>1, <1>3 DEF Fits, Readable, Making, Knowing, d
    <3> QED
      BY <3>1, <3>2, <1>1, <1>2, WriteKeeps
  <2>3. ASSUME NEW r \in HalfInited(d), SetDir(w, r), Return(w, "idle")
        PROVE  Rest'
    <3>1. Writes(w, r, "idle")
      BY <2>1, <2>3 DEF Writes, Return, Knowing, Making, Locked
    <3>2. Fits(w, r, "idle")
      BY <2>1 DEF Fits, Making
    <3> QED
      BY <2>3, <3>1, <3>2, <1>2, WriteKeeps
  <2> QED
    BY <1>7, <2>2, <2>3 DEF GitInit, d, WithObjects
<1>8. CASE WriteAlternates(w)
  <2>1. pc[w] = "alternates" /\ UNCHANGED <<mirrorVars, package, commit, toldVars>>
    BY <1>8 DEF WriteAlternates
  <2>2. CASE SetDir(w, WithAlternates) /\ Goto(w, "set_master") /\ UNCHANGED lock
    <3>1. Writes(w, WithAlternates, "set_master")
      BY <2>1, <2>2, <1>1 DEF Writes, Return, d, Dir, Knowing, Making, Locked, WithAlternates
    <3>2. Fits(w, WithAlternates, "set_master")
      BY <2>1, <1>1, <1>3 DEF Fits, Readable, Making, Knowing, d, RepoInv, Made
    <3> QED
      BY <3>1, <3>2, <1>1, <1>2, WriteKeeps
  <2>3. CASE repo' = repo /\ Goto(w, "remove") /\ UNCHANGED lock
    <3>1. Writes(w, d, "remove")
      BY <2>1, <2>3, <1>1 DEF Writes, Return, d, Dir, Knowing, Making, Locked
    <3>2. Fits(w, d, "remove")
      BY <2>1, <1>1, <1>3 DEF Fits, Readable, Making, Knowing, d
    <3> QED
      BY <3>1, <3>2, <1>1, <1>2, WriteKeeps
  <2> QED
    BY <1>8, <2>2, <2>3 DEF WriteAlternates, d, WithAlternates
<1>9. CASE SetMaster(w)
  <2>1. pc[w] = "set_master" /\ UNCHANGED <<mirrorVars, package, commit, toldVars>>
    BY <1>9 DEF SetMaster
  <2>2. CASE SetDir(w, WithMaster) /\ Goto(w, "set_head") /\ UNCHANGED lock
    <3>1. Writes(w, WithMaster, "set_head")
      BY <2>1, <2>2, <1>1 DEF Writes, Return, d, Dir, Knowing, Making, Locked, WithMaster
    <3>2. Fits(w, WithMaster, "set_head")
      BY <2>1, <1>1, <1>3 DEF Fits, Readable, Making, Knowing, d, RepoInv, Made
    <3> QED
      BY <3>1, <3>2, <1>1, <1>2, WriteKeeps
  <2>3. CASE repo' = repo /\ Goto(w, "remove") /\ UNCHANGED lock
    <3>1. Writes(w, d, "remove")
      BY <2>1, <2>3, <1>1 DEF Writes, Return, d, Dir, Knowing, Making, Locked
    <3>2. Fits(w, d, "remove")
      BY <2>1, <1>1, <1>3 DEF Fits, Readable, Making, Knowing, d
    <3> QED
      BY <3>1, <3>2, <1>1, <1>2, WriteKeeps
  <2> QED
    BY <1>9, <2>2, <2>3 DEF SetMaster, d, WithMaster, SetMasterTo
<1>10. CASE SetHead(w)
  <2>1. pc[w] = "set_head" /\ UNCHANGED <<mirrorVars, package, commit, toldVars>>
    BY <1>10 DEF SetHead
  <2>2. CASE SetDir(w, WithHead) /\ Return(w, "serve")
    <3>1. Writes(w, WithHead, "serve")
      BY <2>1, <2>2, <1>1 DEF Writes, Return, d, Dir, Knowing, Making, Locked, WithHead
    <3>2. Fits(w, WithHead, "serve")
      BY <2>1, <1>1, <1>3 DEF Fits, Readable, Making, Knowing, d, RepoInv, Made
    <3> QED
      BY <3>1, <3>2, <1>1, <1>2, WriteKeeps
  <2>3. CASE repo' = repo /\ Goto(w, "remove") /\ UNCHANGED lock
    <3>1. Writes(w, d, "remove")
      BY <2>1, <2>3, <1>1 DEF Writes, Return, d, Dir, Knowing, Making, Locked
    <3>2. Fits(w, d, "remove")
      BY <2>1, <1>1, <1>3 DEF Fits, Readable, Making, Knowing, d
    <3> QED
      BY <3>1, <3>2, <1>1, <1>2, WriteKeeps
  <2> QED
    BY <1>10, <2>2, <2>3 DEF SetHead, d, WithHead
<1>11. CASE Remove(w)
  <2>1. pc[w] = "remove" /\ UNCHANGED <<mirrorVars, package, commit, toldVars>>
    BY <1>11 DEF Remove
  <2>2. PICK r \in Remains(d) :
          /\ SetDir(w, r)
          /\ IF r = NoRepo THEN Return(w, "idle") ELSE UNCHANGED <<pc, lock, since>>
    BY <1>11 DEF Remove, d
  <2>3. r \in Repo
    BY <1>2
  <2>4. CASE Return(w, "idle")
    <3>1. Writes(w, r, "idle")
      BY <2>1, <2>2, <2>4 DEF Writes, Return, Knowing, Making, Locked
    <3>2. Fits(w, r, "idle")
      BY <2>1, <2>3 DEF Fits, Making
    <3> QED
      BY <3>1, <3>2, <2>3, WriteKeeps
  <2>5. CASE UNCHANGED <<pc, lock, since>>
    <3>1. Writes(w, r, "remove")
      BY <2>1, <2>2, <2>5 DEF Writes, Goto, Knowing, Making, Locked, RepoInv, TypeOK
    <3>2. Fits(w, r, "remove")
      BY <2>1, <2>3 DEF Fits, Making
    <3> QED
      BY <3>1, <3>2, <2>3, WriteKeeps
  <2> QED
    BY <2>2, <2>4, <2>5
<1> QED
  BY <1>6, <1>7, <1>8, <1>9, <1>10, <1>11

LEMMA RepoStep == RepoInv /\ [Next]_vars => RepoInv'
<1> SUFFICES ASSUME RepoInv, [Next]_vars PROVE RepoInv'
  OBVIOUS
<1>1. TypeOK'
  BY RepoTyped
<1>2. Rest'
  BY <1>1, OutsideKeeps, ReadersKeep, WritersKeep DEF Next, Ensure, Answer
<1> QED
  BY <1>1, <1>2 DEF RepoInv, Rest

LEMMA RepoAlways == Spec => []RepoInv
  BY RepoInit, RepoStep, PTL DEF Spec

\* Every variable has its type, always.
THEOREM RepoTypeCorrect == Spec => []TypeOK
<1>1. RepoInv => TypeOK
  BY DEF RepoInv
<1> QED
  BY <1>1, RepoAlways, PTL

\* What is handed to git upload-pack is readable and at a commit the branch had since
\* the request came in, for any number of workers, with faults and deaths, and however
\* the branch is moved (http.cpp:126-143, 391-400).
THEOREM AlwaysServedFresh == Spec => []ServedIsFresh
<1>1. RepoInv => ServedIsFresh
  BY DEF RepoInv
<1> QED
  BY <1>1, RepoAlways, PTL

\* What a client was shown is not taken away, and it keeps the commit the client was
\* told of as long as the branch does (http.cpp:136-168, 395-420).
THEOREM AlwaysAdvertised == Spec => []AdvertisedStays
<1>1. RepoInv => AdvertisedStays
  BY DEF RepoInv
<1> QED
  BY <1>1, RepoAlways, PTL
=============================================================================
