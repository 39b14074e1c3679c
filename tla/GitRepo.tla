------------------------------ MODULE GitRepo ------------------------------
(***************************************************************************)
(* The repositories aurhubd makes on demand for Git clients: one directory *)
(* per package that borrows the objects of the mirror, made or brought up  *)
(* to date by the worker that has a request for it, under one of a fixed   *)
(* number of mutexes.  Commands may fail, the server may die between any   *)
(* two steps, and the mirror's refs change meanwhile.                      *)
(*                                                                         *)
(* The mirror is fetched with a forced refspec: a branch may go to any     *)
(* other commit, back to an earlier one, or away.  Commits are numbers     *)
(* only to tell them apart.                                                *)
(***************************************************************************)
EXTENDS Integers

CONSTANTS
  Workers,
  Packages,
  Stripes,      \* the mutexes, repo_mutexes
  Stripe,       \* the mutex of a package, by the hash of its name
  None,         \* holds a free mutex
  MaxCommit,    \* bound: the commits a branch may point to
  MaxFaults,    \* bound: commands that fail
  MaxDeaths,    \* bound: deaths of the server
  Shallow,      \* the mirror was cloned with --depth=1
  InitialHead   \* what the HEAD names that git init writes

ASSUME RepoAssumption ==
  /\ Stripe \in [Packages -> Stripes]
  /\ None \notin Workers
  /\ MaxCommit \in Nat \ {0} /\ MaxFaults \in Nat /\ MaxDeaths \in Nat
  /\ Shallow \in BOOLEAN /\ InitialHead \in {"other", "master"}

VARIABLES
  mirror,      \* the commit of each branch of the mirror, 0 if there is none
  cut,         \* the branches whose oldest commit lacks its parents in the mirror
  repo,        \* the directory of each package
  lock,        \* who holds each mutex
  pc,          \* where a worker stands
  package,     \* what its request is about
  since,       \* what the mirror's branch was since the request came in (history)
  commit,      \* the mirror's commit the worker read
  advertised,  \* the last commit a client was told of (history)
  current,     \* packages whose branch is as it was when that client asked (history)
  torn,        \* packages whose creation was cut off, with no one to undo it (history)
  faults, deaths

mirrorVars == <<mirror, cut>>
diskVars == <<mirrorVars, repo>>
workerVars == <<pc, package, since, commit>>
toldVars == <<advertised, current>>
vars == <<diskVars, lock, workerVars, toldVars, torn, faults, deaths>>

Commit == 0..MaxCommit
\* objects: the directory exists; alternates: it names the mirror's objects;
\* master: the ref; head: what HEAD names, "none" if a part without which Git sees
\* no repository is missing.
Repo == [objects : BOOLEAN, alternates : BOOLEAN, master : Commit,
         head : {"none", "other", "master"}]
NoRepo == [objects |-> FALSE, alternates |-> FALSE, master |-> 0, head |-> "none"]

\* The commands of Git can read the mirror's commits through r.
Readable(r) == r.objects /\ r.alternates /\ r.head # "none"

\* Where a worker has found no repository and makes one, and where it is in
\* ensure_git_repo at all.
Making == {"init", "alternates", "set_master", "set_head", "remove"}
Locked == Making \cup {"mirror", "look", "master", "update"}
Labels == Locked \cup {"idle", "lock", "serve"}

Init ==
  /\ mirror \in [Packages -> {0, 1}]
  /\ cut = IF Shallow THEN {p \in Packages : mirror[p] # 0} ELSE {}
  /\ repo = [p \in Packages |-> NoRepo]
  /\ lock = [s \in Stripes |-> None]
  /\ pc = [w \in Workers |-> "idle"]
  /\ package \in [Workers -> Packages]
  /\ since = [w \in Workers |-> {}] /\ commit = [w \in Workers |-> 0]
  /\ advertised = [p \in Packages |-> 0] /\ current = {} /\ torn = {}
  /\ faults = 0 /\ deaths = 0

Mine(w) == Stripe[package[w]]
Dir(w) == repo[package[w]]
SetDir(w, r) == repo' = [repo EXCEPT ![package[w]] = r]
\* A worker goes on; the history of a request ends with it.
Goto(w, label) ==
  /\ pc' = [pc EXCEPT ![w] = label]
  /\ since' = IF label = "idle" THEN [since EXCEPT ![w] = {}] ELSE since
\* The lock_guard ends with the function: with a repository, or with nothing.
Return(w, label) == Goto(w, label) /\ lock' = [lock EXCEPT ![Mine(w)] = None]

\* A command runs, or fails for a reason of its own.
Succeed == UNCHANGED faults
Fault == faults < MaxFaults /\ faults' = faults + 1

-----------------------------------------------------------------------------
(* ensure_git_repo *)

\* A request for a package with a valid name.
Ask(w, p) ==
  /\ pc[w] = "idle"
  /\ package' = [package EXCEPT ![w] = p]
  /\ since' = [since EXCEPT ![w] = {mirror[p]}]
  /\ pc' = [pc EXCEPT ![w] = "lock"]
  /\ UNCHANGED <<diskVars, lock, commit, toldVars, torn, faults, deaths>>

BugLock(w) ==
  /\ pc[w] = "lock"
  /\ Goto(w, "mirror")
  /\ UNCHANGED <<diskVars, lock, package, commit, toldVars, torn, faults, deaths>>
Lock(w) ==
  /\ pc[w] = "lock" /\ lock[Mine(w)] = None
  /\ lock' = [lock EXCEPT ![Mine(w)] = w]
  /\ Goto(w, "mirror")
  /\ UNCHANGED <<diskVars, package, commit, toldVars, torn, faults, deaths>>

\* git rev-parse in the mirror; no branch or no answer is no repository.
ReadMirror(w) ==
  /\ pc[w] = "mirror"
  /\ \/ Succeed /\ commit' = [commit EXCEPT ![w] = mirror[package[w]]]
     \/ Fault /\ commit' = [commit EXCEPT ![w] = 0]
  /\ IF commit'[w] = 0 THEN Return(w, "idle") ELSE Goto(w, "look") /\ UNCHANGED lock
  /\ UNCHANGED <<diskVars, package, toldVars, torn, deaths>>

BugLook(w) ==
  /\ pc[w] = "look"
  /\ IF Dir(w).objects THEN Return(w, "serve") ELSE Goto(w, "init") /\ UNCHANGED lock
  /\ UNCHANGED <<diskVars, package, commit, toldVars, torn, faults, deaths>>
\* A repository counts as made when its objects directory exists.
Look(w) ==
  /\ pc[w] = "look"
  /\ Goto(w, IF Dir(w).objects THEN "master" ELSE "init")
  /\ UNCHANGED <<diskVars, lock, package, commit, toldVars, torn, faults, deaths>>

\* rev-parse of master needs the commit itself, so it needs the mirror's objects.
ReadMaster(w) ==
  /\ pc[w] = "master"
  /\ \/ /\ Succeed
        /\ IF Readable(Dir(w)) /\ Dir(w).master = commit[w]
             THEN Return(w, "serve")
             ELSE Goto(w, "update") /\ UNCHANGED lock
     \/ Fault /\ Goto(w, "update") /\ UNCHANGED lock
  /\ UNCHANGED <<diskVars, package, commit, toldVars, torn, deaths>>

SetMasterTo(w) == SetDir(w, [Dir(w) EXCEPT !.master = commit[w]])

\* git update-ref refuses a commit it cannot read.
UpdateMaster(w) ==
  /\ pc[w] = "update"
  /\ \/ Succeed /\ Readable(Dir(w)) /\ SetMasterTo(w) /\ Return(w, "serve")
     \/ Succeed /\ ~Readable(Dir(w)) /\ UNCHANGED repo /\ Return(w, "idle")
     \/ Fault /\ UNCHANGED repo /\ Return(w, "idle")
  /\ UNCHANGED <<mirrorVars, package, commit, toldVars, torn, deaths>>

\* git init; on a directory that is partly there it adds what is missing, the objects
\* last.
Inited(r) == [r EXCEPT !.objects = TRUE, !.head = IF @ = "none" THEN InitialHead ELSE @]
\* What one that fails may leave.
HalfInited(r) == {r, [Inited(r) EXCEPT !.objects = r.objects], Inited(r)}

GitInit(w) ==
  /\ pc[w] = "init"
  /\ \/ /\ Succeed
        /\ SetDir(w, Inited(Dir(w)))
        /\ Goto(w, "alternates") /\ UNCHANGED <<lock, torn>>
     \/ /\ Fault
        /\ \E r \in HalfInited(Dir(w)) :
             /\ SetDir(w, r)
             /\ torn' = IF r.objects THEN torn \cup {package[w]} ELSE torn
        /\ Return(w, "idle")
  /\ UNCHANGED <<mirrorVars, package, commit, toldVars, deaths>>

BugWriteAlternates(w) ==
  /\ pc[w] = "alternates"
  /\ \/ /\ Succeed
        /\ SetDir(w, [Dir(w) EXCEPT !.alternates = TRUE])
        /\ Goto(w, "set_master") /\ UNCHANGED lock
     \/ Fault /\ UNCHANGED repo /\ Return(w, "idle")
  /\ UNCHANGED <<mirrorVars, package, commit, toldVars, torn, deaths>>
WriteAlternates(w) ==
  /\ pc[w] = "alternates"
  /\ \/ /\ Succeed
        /\ SetDir(w, [Dir(w) EXCEPT !.alternates = TRUE])
        /\ Goto(w, "set_master")
     \/ Fault /\ UNCHANGED repo /\ Goto(w, "remove")
  /\ UNCHANGED <<mirrorVars, lock, package, commit, toldVars, torn, deaths>>

SetMaster(w) ==
  /\ pc[w] = "set_master"
  /\ \/ Succeed /\ SetMasterTo(w) /\ Goto(w, "set_head")
     \/ Fault /\ UNCHANGED repo /\ Goto(w, "remove")
  /\ UNCHANGED <<mirrorVars, lock, package, commit, toldVars, torn, deaths>>

SetHead(w) ==
  /\ pc[w] = "set_head"
  /\ \/ /\ Succeed
        /\ SetDir(w, [Dir(w) EXCEPT !.head = "master"])
        /\ Return(w, "serve")
     \/ Fault /\ UNCHANGED repo /\ Goto(w, "remove") /\ UNCHANGED lock
  /\ UNCHANGED <<mirrorVars, package, commit, toldVars, torn, deaths>>

\* What remove_all may have left of a directory so far.
Remains(r) ==
  {s \in [objects : {FALSE, r.objects}, alternates : {FALSE, r.alternates},
          master : {0, r.master}, head : {"none", r.head}] :
     s.alternates => s.objects}

\* remove_all deletes file by file, in the order the directories list them.
Remove(w) ==
  /\ pc[w] = "remove"
  /\ \E s \in Remains(Dir(w)) :
       /\ SetDir(w, s)
       /\ IF s = NoRepo THEN Return(w, "idle") ELSE UNCHANGED <<pc, lock, since>>
  /\ UNCHANGED <<mirrorVars, package, commit, toldVars, torn, faults, deaths>>

-----------------------------------------------------------------------------
(* handle_git, after the mutex is released *)

\* git upload-pack --advertise-refs: a clone begins.
Advertise(w) ==
  /\ pc[w] = "serve"
  /\ IF Readable(Dir(w))
       THEN /\ advertised' = [advertised EXCEPT ![package[w]] = Dir(w).master]
            /\ current' = IF since[w] = {mirror[package[w]]}
                            THEN current \cup {package[w]} ELSE current \ {package[w]}
       ELSE UNCHANGED toldVars
  /\ Goto(w, "idle")
  /\ UNCHANGED <<diskVars, lock, package, commit, torn, faults, deaths>>

\* git upload-pack for what a client asked for, or another path of the repository.
Upload(w) ==
  /\ pc[w] = "serve"
  /\ Goto(w, "idle")
  /\ UNCHANGED <<diskVars, lock, package, commit, toldVars, torn, faults, deaths>>

-----------------------------------------------------------------------------
(* Environment *)

\* git fetch, run by the indexer, puts the branch where upstream has it, or somebody
\* sets or deletes the ref.
Push(p) ==
  /\ \E c \in Commit \ {mirror[p]} :
       /\ mirror' = [mirror EXCEPT ![p] = c]
       /\ since' = [w \in Workers |-> IF package[w] = p /\ pc[w] # "idle"
                                        THEN since[w] \cup {c} ELSE since[w]]
  /\ current' = current \ {p}
  /\ UNCHANGED <<cut, repo, lock, pc, package, commit, advertised, torn, faults, deaths>>

\* The server dies, or an exception of the file system ends it; its commands die
\* with it, the mutexes are new.  What was on disk stays.
Die ==
  /\ deaths < MaxDeaths /\ deaths' = deaths + 1
  /\ torn' = torn \cup {package[w] : w \in {v \in Workers : pc[v] \in Making}}
  /\ pc' = [w \in Workers |-> "idle"] /\ since' = [w \in Workers |-> {}]
  /\ lock' = [s \in Stripes |-> None]
  /\ UNCHANGED <<diskVars, package, commit, toldVars, faults>>

Ensure(w) ==
  \/ ReadMirror(w) \/ Look(w) \/ ReadMaster(w) \/ UpdateMaster(w) \/ GitInit(w)
  \/ WriteAlternates(w) \/ SetMaster(w) \/ SetHead(w) \/ Remove(w)
Answer(w) == Advertise(w) \/ Upload(w)

Next ==
  \/ \E w \in Workers :
       \/ \E p \in Packages : Ask(w, p)
       \/ Lock(w) \/ Ensure(w) \/ Answer(w)
  \/ \E p \in Packages : Push(p)
  \/ Die

Spec == Init /\ [][Next]_vars

\* Clients come back for every package, a worker that waits for a mutex gets it
\* some time, and a worker goes on.  remove_all goes through what there is.
FairSpec ==
  /\ Spec
  /\ \A p \in Packages : SF_vars(\E w \in Workers : Ask(w, p))
  /\ \A w \in Workers :
       /\ SF_vars(Lock(w))
       /\ WF_vars(Ensure(w) /\ <<repo', pc'>> # <<repo, pc>>)
       /\ WF_vars(Answer(w))

-----------------------------------------------------------------------------
(* Properties *)

\* Every variable has its type, and a worker that goes on past the mirror has a
\* commit (the type invariant).
TypeOK ==
  /\ mirror \in [Packages -> Commit] /\ cut \subseteq Packages
  /\ repo \in [Packages -> Repo]
  /\ lock \in [Stripes -> Workers \cup {None}]
  /\ pc \in [Workers -> Labels]
  /\ package \in [Workers -> Packages]
  /\ since \in [Workers -> SUBSET Commit] /\ commit \in [Workers -> Commit]
  /\ advertised \in [Packages -> Commit]
  /\ current \subseteq Packages /\ torn \subseteq Packages
  /\ faults \in 0..MaxFaults /\ deaths \in 0..MaxDeaths
  /\ \A w \in Workers : pc[w] \in Locked \ {"mirror"} => commit[w] # 0

\* A repository that is handed to git upload-pack can be read, and its master is a
\* commit that the mirror's branch had since the request came in, although the mutex
\* is released before and other workers go on with the same directory, and whatever
\* earlier servers left of it (http.cpp:126-143, 391-400).
ServedIsFresh ==
  \A w \in Workers : pc[w] = "serve" =>
    Readable(Dir(w)) /\ Dir(w).master \in since[w] \ {0}

\* A repository a client was shown is not taken back or away, and the commit it was
\* told of is still there for its next request, unless the branch has changed since it
\* asked: no worker that was slower writes an older one (http.cpp:136-168, 395-420).
\* When the branch is deleted the directory stays, and the answer is 404.
AdvertisedStays ==
  \A p \in Packages : advertised[p] # 0 =>
    /\ Readable(repo[p])
    /\ p \in current => repo[p].master = advertised[p]

\* README.en.md:36: the repositories "share the mirror's objects".  One that the
\* next request would take for finished does.
FinishedShares ==
  \A p \in Packages :
    lock[Stripe[p]] = None /\ repo[p].objects => repo[p].alternates

\* README.en.md:36: "Git clones use on-demand per-package repositories".  The history
\* of a served repository is complete: nothing in it says where the mirror's is cut,
\* so git upload-pack fails for a parent that is missing (http.cpp:144-168,
\* indexer.cpp:740-741).
ServedCanBeCloned == \A w \in Workers : pc[w] = "serve" => package[w] \notin cut

\* A directory that every later request takes for finished and that is not: its objects
\* are there, and its alternates or HEAD never come.
HalfMade(p) ==
  lock[Stripe[p]] = None /\ repo[p].objects /\ ~(repo[p].alternates /\ repo[p].head = "master")

\* While clients ask for a package of the mirror it is served, with the HEAD a clone checks
\* out, however often commands failed before, unless its creation was cut off in one of two
\* ways that the code does not undo: git init itself failed after it had made the objects,
\* or the server died before it was through.  Then half a repository is there for good; a
\* failure of any later command is undone (http.cpp:144-167).
Heals ==
  \A p \in Packages :
    mirror[p] # 0 ~>
      \/ \E w \in Workers : pc[w] = "serve" /\ package[w] = p /\ repo[p].head = "master"
      \/ mirror[p] = 0
      \/ p \in torn /\ HalfMade(p)
=============================================================================
