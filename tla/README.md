# A verification project for aurhub

aurhub mirrors the package metadata of the AUR. `aurhub-indexer` compiles the
`.SRCINFO` files of a bare Git mirror into one file, the *generation*; `aurhubd`
maps that file and answers RPC queries from it over HTTP, and follows the
generations the indexer publishes while it runs. This directory holds TLA+ models
of that program, the TLC runs that check them and the TLAPS proofs about them.
Source paths are those of the repository; line numbers are the ones `PROJECT.json`
maps every definition to.

## 1. Inventory

| component | state | operations | meets |
|---|---|---|---|
| publication (`indexer.cpp`, `generation.cpp`, `snapshot.cpp`) | the names `output`, `output.base`, `output.tmp.<pid>`, the files behind them | open a generation, link or write a temporary file, rename it into place | every indexer run, and the loads of the server, on one directory |
| incremental build and merge (`indexer.cpp`, `merge.cpp`) | the previous generation, the listed refs | full build, overlay, compaction, collapse | reads through the generation view, writes by publication |
| generation view (`generation.cpp`) | immutable tables over one or two mapped files | validate, resolve, `find_package`, `search` | used by both programs |
| snapshot format, search bitmaps (`snapshot.cpp`, `search.cpp`) | the bytes of a file | write, validate, scan blocks | below the view |
| worker pool of a full build (`indexer.cpp`) | shared counter, failure flag, first exception, threads | spawn, take a branch, fail, join, publish | one `git cat-file` process per worker |
| life of the threads and descriptors (`server.cpp`) | `g_running`, the listeners, the threads, the epoll descriptors, the reloader's condition variable | set up, spawn, accept, signal, fail, join, close | the kernel, which spreads clients over the listeners |
| hot reload (`server.cpp`) | inotify queue, `requested_`, `handled`, `result_`, an eventfd, the active snapshot | watch, request, load, deliver, notify, activate | publication (files, events), the workers (the active snapshot) |
| connections (`server.cpp`, `connection.cpp`) | input buffer, response in flight, half-close flag, epoll interest | read, prepare, send, complete, close | one client each; one worker thread owns many |
| HTTP and RPC (`http.cpp`) | none | parse, route, format | connections, the view, Git |
| on-demand Git repositories (`http.cpp`) | a directory per package, striped mutexes | `ensure_git_repo` | all workers, the mirror |
| Git subprocesses (`http.cpp`) | pipes, a child | `run_command`, `run_git_output` | the worker that waits for it |
| Git access of the indexer (`git.cpp`) | packed and loose refs, a batch process | list branches, read blobs | the pool, the incremental build |
| `.SRCINFO` parser (`srcinfo.cpp`) | the sections of one file | parse, diagnose | the pool |
| mirror refresh (`indexer.cpp`) | the mirror's refs | `git clone`, `git fetch` | Git (external) |
| deployment (`deploy/`) | systemd units | hourly timer, `ExecStartPre`, restart | indexer and server |
| benches, dump and compare tools, tests | none | read a finished generation | - |

What is hard, and what makes each part correct:

- **Two names for one generation.** An overlay refers to records of the file at
  `output.base`; to publish the first overlay the indexer replaces two names, and
  a reader opens the path, opens it again, and then opens the base. Correct means
  that readers only ever see whole generations, at every interleaving and whatever
  step a run dies at; that a run that ends well has published the refs it listed;
  and that later runs repair what overlapping runs leave behind.
- **Updates built on updates.** Each generation is made from the one before, by a
  three-way merge in which names pass between winner and shadow. Correct means
  that a reader cannot tell it from a full build of the same refs.
- **Lookups and searches that combine base and overlay**, with a result limit and
  blocks marked dirty. Correct means: the same answer as a plain scan.
- **Threads that share a list without a lock**, stop each other by a flag and fail
  at any point. Correct means: one writer per element, and all packages or an error.
- **Wake-ups** between inotify, two counters, a slot that is overwritten and an
  eventfd. Correct means that none is lost and that the server never goes back.
- **A level-triggered event loop** with pipelining, a dispatch limit, half-closed
  peers and full sockets. Correct means: every request answered once, in order,
  bounded buffers, no connection kept for ever.
- **Creating a Git repository on demand**, in six commands of which each may fail,
  while other workers wait, the mirror moves on and the process may die. Correct
  means that what is served can be read, is fresh, and is never taken back.
- **Subprocesses behind pipes of bounded size** whose ends other children inherit.
  Correct means: every call returns, with the whole output or none, and leaves nothing.
- **Reading Git's own files** while Git rewrites them. Correct means that a quiet
  listing is exact and that a disturbed one does not stay wrong.
- **Ends**: a signal, a thread that cannot be started, a worker that throws. Correct
  means that no thread outlives `serve`, only what failed leaks, nothing is closed twice and
  nobody waits for ever.
- **Sums that skip blocks**, with arithmetic that writer, reader and search have a copy
  of each. Correct means: no match is skipped, and no written file is refused.
- **One pass over a text** whose lines may come in any order. Correct means that
  what is accepted and inherited depends on what the text states, not on the order.

`PROJECT.json` lists these as 40 hazards, each at the line where it bites, with
the properties that would catch it, or with the reason why none does.

## 2. Modules

```
 AtomicStore   one register: what the files promise readers        (abstract)
     ^  implemented by (Visible, refs)
 GenerationStore   names, files, runs, crashes, loads   <-- PublicationProofs
     ^  extended by                                          |  and
 HotReload     the server's reload pipeline on those files <-'
 Catalog       what a generation holds, as a run changes it <-- CatalogProofs
     |  extends
 GenerationView  references, checks, lookup and search of a view
 SearchBlocks  the bitmaps by which that search skips   <-- SearchBlocksProofs
 RefListing    how a run lists the refs it publishes    <-- IndexerProofs
 BuildPool     the threads of a full build              <-- and
 Srcinfo       what they make of one document
 Serve         the server's threads, listeners, ends    <-- ServeProofs
 Connection    one connection and its worker            <-- ConnectionProofs
 GitRepo       the repositories its requests are for    <-- GitRepoProofs
 GitExec       the Git commands its requests run        <-- GitExecProofs
 MCStore, MCHotReload, MCCatalog, MCConnection, MCSearchBlocks, MCSrcinfo,
 MCGitRepo, MCGitExec      instances for TLC
```

### GenerationStore

State: `inode` is the content of the files, `output` and `base` the two names,
`temp[i]` the temporary name of run *i*, `head[p]` and `headBase[p]` what the
`GenerationView` of process *p* has open, `pc[p]` the place in the code. A file
keeps only what tells generations apart: its kind, the refs of its inline
records, the branches it refers to in its base, and the base its header names.

| action | code |
|---|---|
| `Start`, `StartFull` | `main` of the indexer: reuse the output, or `--full` |
| `Probe`, `Open`, `OpenBase` | `generation_is_overlay` and the constructor of `GenerationView`: three opens by name, with the identity check in the last |
| `ListRefs` | `list_branches_fast`, change detection, and the choice between nothing to do, collapse, compaction, overlay, overlay with a new base |
| `LinkBase`, `RenameBase`, `LinkCollapse`, `RenameCollapse` | `replace_with_hard_link`, used both ways |
| `WriteOverlay`/`RenameOverlay`, `WriteCompact`/`RenameCompact`, `ListFull`/`WriteFull`/`RenameFull` | the writers: a temporary file, then rename |
| `Fail` | an exception: fall back to a full build, or exit 1 |
| `Crash` | the process dies; its temporary name stays |
| `BeginLoad`, `EndLoad` | a thread of the server that loads the generation |
| `Push` | the mirror's refs change (`git fetch`, external), between any two steps |

`AtomicStore` says the same of one register: `List(i)` takes a picture of the
refs, `Commit(i)` shows readers that picture in one step. The refinement maps the
register to `Visible`, what a reader sees who opens both names now.

Abstractions. A branch has one package, so an overlay with *n* inline branches
has 2*n* records (a branch and a package), which is what the compaction limit
counts; several packages and shadows are Catalog's. Temporary names belong to a
pid nobody used before. A rename is atomic and a file is whole when renamed: the
code syncs files before it renames, and loss of power is not modelled. `Stamp` is
the (size, creation second) by which the code recognises a base; the runs give
every file its own, and the theorems about views state that assumption.

`Serialized` says whether runs may overlap. Both values are real: systemd starts
the oneshot service at most once at a time, but `aurhubd.service` starts another
indexer in `ExecStartPre`, which may run beside it.

### HotReload

Extends GenerationStore: the server's loads are the reader `aurhubd`, and every
rename onto the snapshot path queues an inotify event once the watch exists.
`Boot`, `Load`, `InitialLoad`, `Watch` are `main` and the start of `serve`;
`Request`, `Drain`, `Take` the control loop; `Wake`, `Load`, `Deliver`, `Notify`
the reloader thread; `Die` a restart of the process, and `LoadFault` a load that
fails for want of memory or descriptors. Such a load is not tried again, so `spoilt`
remembers it, and what is said of a server at rest excepts it. Events that arrive before
the queue is read are one `pending` flag, because the loop reads the queue empty
and makes one request of it. `log` records what was published and in which order; `opened`
which publication a load has opened: both are history and guard nothing.

### Catalog and GenerationView

`GenerationView` has no actions, as the view is immutable: operators for
references, the constructor's checks, its tables, `FindPackage` and `Search`.
`Catalog` has one action for a run that rebuilds and one for a run that reuses
the output, whose three disjuncts are the three things it can write. `FullBuild`,
`OldToNew`, `Carried`, `MergeStep`, `Overlay`, `MatchesBaseExactly` and `Expand`
carry the code's steps, the merge one candidate at a time. `moved` is history: the branches
that moved since the base of the output was written. Names are integers;
search text, JSON and times are one opaque value of branch and commit. A query is the
set of names it matches, and the bitmaps, which only skip blocks, are left out:
every block is looked at. An empty query never reaches the view, `http.cpp`
rejects it; the model answers it like any other. That skipping blocks changes no
answer is what SearchBlocks says.

### SearchBlocks

`WritePackage` is one turn of the loop of `write_snapshot` that adds a package to the
fine and the super block it has begun and closes those that are full; `Load` are the
reader's checks of counts and places; `Search`, `SuperBlock`, `FineBlock` and
`ScanPackage` the three loops of `search`, one turn each, with the limit and the packages an
overlay hides. A block's sum is its sets of bytes, of pairs and of hashed
trigrams, filled from the texts; `Hash` is any function, which is all the code needs.

### RefListing

`LockRef` and `MoveRef` are `git fetch`, `Pack` and `Prune` the `git pack-refs` of the
`gc` a fetch leaves behind; `Begin`, `ReadPacked`, `ReadLoose` (one directory entry) and
`Return` are `list_branches_fast`. A file with a commit in it is a branch whatever its name,
so the lock file of a ref is an entry as well. `atStart` and `disturbed` are history.
The order in which a directory is read is Git's and the file system's: any.

### Srcinfo

Each kind of line that `parse_srcinfo` treats in its own way is an action:
`MalformedLine`, `Pkgbase`, `BeforePkgbase`, `Pkgname`, `UnknownField`, `NotInPackage`,
`Ignore`, `Assign`; `Finish` checks the architectures, merges what is inherited and
projects the packages. Fields hold the numbers of lines, so that the properties can tell
which line a value came from; the document is history. Of the values only what the
parser decides by is there: whether it is empty, which name, which architecture.

### BuildPool

`Open`, `Check`, `Fetch`, `Read`, `Throw`, `Record` are the statements of
`run_worker` that touch shared state, `Spawn`, `SpawnFails`, `Join`, `Publish`,
`Rethrow` those of `full_build`. Atomics are relaxed in the code: each worker only
needs the atomicity of `fetch_add`, a stale `failed` is an interleaving in which
the check comes earlier, and join orders everything else.

### Connection

The client sends a script of requests in pieces of any size, half-closes or
resets; the worker goes through `Wake` (epoll), `Read` (`read_requests`),
`Prepare` (`prepare_next_response`), `Transmit` and `Complete` (`drive_output`),
`Finish` (`update_interest`) and `Close`. Bytes are units; a request is the length
of its header and body, whether its answer closes, the part of the answer that
is sent from the snapshot, and a second length, `framed`: the worker cuts the input off by
the first `content-length:` it finds anywhere in the request line and headers
(`connection.cpp:75-96`), while the request is read by the header of that name
(`http.cpp:583`). The two may differ, and the sum of header and length wraps (`Word`). So a
request may take bytes of the next with it, be cut short, or wait for what never comes;
`rest` is what the code finds when the input then begins inside of a request. What it makes
of such a piece is any answer that `MayClose` allows. A response counts as sent when the kernel has it: bytes
the kernel discards because the connection was closed with input unread are outside the
model. A body can only arrive on the Git endpoint; any other gets a closing 400. The empty
line that ends a header is within one unit, so nothing is cut inside of it.

### Serve

`Create*`, `Register`, `Spawn`, `Control`, `Batch`, `Notify`, `Join`, `StopReloader`,
`WakeReloader`, `JoinReloader` are `main` from the start of `serve` to its end, with the
destructors in the order an exception or a return runs them; `Check`, `Load`, `Spurious` the
reloader at its condition variable; `WorkerStart` to `Catch` a worker; `Signal` and
`Arrive` the outside. Whatever may fail does so, `MaxFaults` times: `failing` says that
an exception leaves `serve`. `open` is the set of open descriptors, `closedTwice` whether one
was closed that was not. What a worker does with an event is one step that returns or throws.

### GitRepo

| action | code |
|---|---|
| `Ask` | a request of a Git client that has been routed |
| `Lock`, `ReadMirror`, `Look`, `ReadMaster`, `UpdateMaster` | `ensure_git_repo` up to the early return |
| `GitInit`, `WriteAlternates`, `SetMaster`, `SetHead`, `Remove` | the creation, and the clean-up when a command of it fails |
| `Advertise`, `Upload` | `git upload-pack` with and without `--advertise-refs`, after the mutex |
| `Push`, `Die` | the mirror's branch goes to any other commit, or away (the refspec is forced, `indexer.cpp:750`); the server dies and starts again |

Of a directory the model keeps four facts: whether `objects` exists, whether the
alternates are written, the commit of `master`, and what `HEAD` names. `git init` may
fail before or after it made `objects` (`HalfInited`); `remove_all` may stop anywhere, so
`Remains` is any part of the directory. History: `since` is what the mirror's branch was
since a request came in, `advertised` what a client was told last, `current` whether the
branch is still as it was when that client asked, `torn` the packages whose creation was cut
off with nobody to undo it. `InitialHead` is what the `HEAD` names that Git
itself writes, a matter of its configuration.

### GitExec

`OpenIn`, `OpenOut`, `Fork`, `CloseChildEnds`, `Write`, `CloseIn`, `Read`, `Wait` are
the statements of `run_git_output`; `run_command` is the same without pipes. The child
does `Feed`, `Say` and `Put` (it goes into a blocking write and comes out of it), `Finish` or
`Break`. `Inherit` puts a child into every end any worker has open when it is forked: pipes
are not close-on-exec, so an end stays open until the last child that inherited it has ended.
The body is the client's, and nothing is assumed of it: a job may have Git answer more
than a pipe holds before it has read its input (`early`), or wait for the end of an input that
was cut short (`waits`).

## 3. Runs

| run | instance | distinct states | time |
|---|---|---|---|
| `store_serial` | 1 indexer, 2 branches, 2 commits, 3 pushes, 1 fault, 1 full build, overlays of at most 2 records | 776 394 | 80 s |
| `store_overlap` | 2 indexers, 2 branches, 1 commit, 1 push | 370 360 | 1 min |
| `hot_reload` | server and 1 indexer, 2 branches, 1 commit, 2 pushes, 1 full build, 1 death or failed load | 1 418 704 | 2:30 |
| `catalog` | 3 branches, 2 commits each, 4 names, overlays of at most 5 records, blocks of 2 packages | 1 773 | 1:15 |
| `search_blocks` | up to 3 packages of 3 texts, 6 layouts, 6 queries, 3 limits | 245 600 | 30 s |
| `ref_listing` | 2 branches, 2 commits, 2 packs | 666 611 | 30 s |
| `build_pool` | 3 threads, 3 branches | 17 561 | 2 s |
| `srcinfo` | documents of an opening and 5 of 12 lines, and of 5 of 10 lines of any kind | 765 352 | 1:45 |
| `connection` | 13 scripts of up to 4 requests, 2 responses per dispatch | 121 445 | 40 s |
| `serve` | 2 workers, 2 clients, 1 reload, 2 faults | 108 238 | 1:40 |
| `git_repo` | 2 workers, 1 package, 2 commits, 2 faults, 1 death | 434 493 | 2 min |
| `git_exec` | 2 workers, pipes of 1 unit, 5 jobs, 1 fault | 460 179 | 3 min |

- `store_serial`: one run at a time, with a crash or error at any step, one forced
  full build and three changes of the refs. A reader who arrives at any moment
  finds an overlay on its own base (`Loadable`); a run that ends well leaves what it
  listed (`RunPublishes`); temporary names left behind are paid for by collapses
  and faults (`LeaksBounded`): `rename(2)` of a link over a link to the same
  file does nothing, so a run that follows a collapse keeps its temporary name;
  the protocol is one register (`ImplementsAtomicStore`); and wherever a run
  stopped, the later ones bring readers to the mirror's refs (`Converges`).
- `store_overlap`: two runs at once. `Loadable` and the refinement are false here:
  one run can put its base under the other's overlay. `ViewIsWhole` says that the
  check in the view notices, and `Converges` that later runs repair it.
- `hot_reload`: publications while the server boots, watches and loads, and dies
  or has a load fail once. Two branches, so that overlays, new bases and full builds are
  published between the opens of one load. `ServedWasPublished` says that what
  is served is one generation that was published, not parts of two. `QuietIsFresh`: when
  nothing is under way, the last publication since the watch is served, unless the last
  load was spoilt. `NeverBackwards`: activations follow the order of publication.
  `HotReloads`: the same as a liveness property.
- `catalog`: every sequence of runs over refs of three branches with two commits
  each. Names are contested by two branches, one commit has no packages, and commits list
  names out of order. `ShowsFullBuild` and `ReaderAccepts` compare every reachable
  generation with the full build of its refs and with the reader's checks;
  `AnswersAreExact` does so for every lookup, and for every query
  and limit. `CollapseIsComplete`: an overlay stores itself exactly what moved since its base
  was written. An overlay may show just what its base shows, if it holds a branch that moved
  away and came back, and stays until the next compaction or full build; no other does.
- `search_blocks`: every file and every search of the instance. `NeverRefused`: what the
  writer wrote is loaded; `ExactAnswer`: a search finds the first matches, whatever
  was skipped. Hashes collide, the last blocks are short, a layout has super blocks of
  one, two or three fine ones, or none.
- `ref_listing`: listings, updates and packs interleaved. `QuietIsExact`: a listing
  during which nothing was updated and no pack began is exact, also while an earlier pack
  still deletes loose refs. `Repairs`: in the end the listing is the mirror's.
- `build_pool`: three workers, three branches, failures anywhere.
- `srcinfo`: `AcceptsExactly` compares the verdict with conditions on the text that do not
  depend on the order of a section's lines; `StatesItsOwn` the values of each package
  with the lines it states and inherits; `NothingLost` accounts for every line.
- `connection`: thirteen scripts: pipelined, with a body, with an answer larger than
  the socket takes, with "close" in the middle, with input at and past each limit, and six that
  are cut off at a wrong place: with the next request or half of it, with more than comes,
  with less than the body, with more than is allowed, and with a length that wraps.
  `RequestsAnswered` owes an answer up to the first of those; `InputBounded`, `AnswersInOrder`
  and `ConnectionEnds` hold beyond it too.
- `serve`: two of the calls fail, anywhere, and a signal comes at any time. `OnlyFailuresLeak`:
  no thread is left when `serve` is, and nothing is open but what the code does leak on
  failures, which is the listener, epoll and connections of a worker that threw and main's
  descriptors if the start failed early. `ClosesItsOwn`: no descriptor has two owners;
  `Stops`: every signal and failure ends the server; `NobodyWaits`: every client is
  accepted or reset, also those of a worker that is gone.
- `git_repo`: two requests at once for one package, whose branch is moved, rewound, deleted and
  made again. `ServedIsFresh`: the repository that is handed to Git is readable and at a commit
  the branch had since the request came in. `AdvertisedStays`: a repository that a client was
  shown stays readable, and at the commit it was told of as long as the branch does not
  change; that a deleted branch is answered 404 is the code's intent. `Heals`: while clients ask
  for a package it is served in the end, unless its creation was cut off by a death or by a
  `git init` that failed after it made `objects`; these two keep it out for good.
- `git_exec`: two calls at once, the second forked at any point of the first. `OutputIsWhole`,
  `NothingLeft`. `CallsReturn`: a call returns, or some worker and child have filled both of their
  pipes and each waits in a write (`Crossed`), or children wait for the end of inputs that they
  hold open for each other (`Ring`). The code has both; there is no third.

The bounds are enough for the cases the properties are about: six files hold two
names, two temporary files and the files of two views, so no run waits for a file;
three pushes reach overlay, compaction, collapse and a new base after a collapse in
one behaviour; `MaxOverlayRecords = 2` lets one branch fit in an overlay and two
compact it; `BlockPackages = 2` makes the base of several blocks, clean and dirty;
two responses per dispatch leave one over from three pipelined requests; three
packages fill a block of two and begin another; two packs let one begin when another
deletes; two commits and none at all let the mirror move on, back and away before and
after each of two workers reads it; with a pipe of one unit and jobs of two, a pipe is full and
empty, and both may be full at once. In
`srcinfo` the opening makes accepted documents reachable within five free lines:
two packages, a line of each, and one more of the base before them.
`CHECK_DEADLOCK FALSE` is set for the pool, which ends, for the connection,
which closes, for `srcinfo`, where a document ends, and for `git_exec`, where all workers may be
`Crossed` or in a `Ring`, which `CallsReturn` names. In all other runs no state is a
dead end: a run, a call or a listing can always be started, and `Serve` has a step for
having ended.

Types are not checked by runs of their own: `TypeOK` of every module with a proof module is
proved, for every value of the constants.

### Fairness

- `GenerationStore`: `WF(Start)` is the hourly timer, `WF(Step)` that a run
  which is not hit by a fault goes on. Faults, forced full builds and pushes are not fair.
- `HotReload`: threads of the server are scheduled, and systemd restarts it
  (`Restart=always`). The control loop handles both of its descriptors in each
  batch of events, hence one condition for each. The indexer has no fairness.
- `RefListing`: the timer starts listings, and Git ends the update or the deletion it
  has begun. Updates and packs are bounded, so the refs come to rest.
- `BuildPool`: threads are scheduled.
- `Connection`: the worker is scheduled and the client reads what it is sent. The
  client need not send anything nor leave.
- `Serve`: each thread is scheduled, and what a worker does with an event returns. Of Git
  requests this is `CallsReturn` of GitExec, with its two exceptions: a worker in one of those
  is never joined, and what `serve` says of stopping does not hold then. Signals, clients and failures are not fair.
- `GitRepo`: a worker goes on; `SF(Lock)`: one that waits for a mutex gets it some
  time; `SF(Ask)`, per package: clients come back for it, which is the premise of `Heals`.
  Weak fairness of the steps counts those that change the directory or the place, as
  `remove_all` comes to an end.
- `GitExec`: workers and children are scheduled. No call need come, no child die.

## 4. Theorems

All proofs are checked by tlapm, with Z3, Zenon and LS4.

**PublicationProofs**, on GenerationStore, for any branches, commits, files, indexers, readers and
bounds (`ConstantsAssumption` gives their types only):

- `TypeCorrect`: `[]TypeOK`. The invariant `TypeInv` adds that a run past
  `ListRefs` has refs, without which a written file could have none.
- `AlwaysLoadable`, `RunsPublish`, `StoreImplementsRegister` assume `Serialized`.
  `Loadable` alone is not inductive: that a rename keeps it depends on what the
  run decided several steps before, from files that were opened by name. `SerialInv`
  adds that at most one run is active (`Alone`), that the files names lead to are
  written ones (`FilesOK`), that the view of the run is the published
  generation (`ViewOK`), and that what is about to be renamed shows the listed refs
  once in place (`PlanOK`). `OneRuns` reduces a step to the running indexer;
  `CollapseExact` shows that a collapse restores the listed refs; `OthersKept`
  that writing a new file disturbs none in use. The refinement follows step by
  step: `RenameOverlay`, `RenameCompact`, `RenameFull` and `RenameCollapse` are
  `Commit`, `RenameBase` is not visible.
- `ViewsAreWhole`: `[]ViewIsWhole`, without `Serialized`. `WholeInv` says that what
  a view has open passed the identity check and is not overwritten. That stamps
  differ is the premise of the property itself.

- `LeaksAlwaysBounded` assumes `Serialized`. `LeakInv` counts one more
  name while both names lead to one file and no run is about to part them (`Owed`): the
  next link of the output over the base will leave its temporary name. What is
  owed was paid for by the collapse that joined them, or by the fault that stopped a
  run between its renames.

The same module, on HotReload, for any mirror, files, indexers and mishaps, under `Serialized`
and `FreshFiles` (files differ in size or creation second): `HotTypeCorrect`,
`AlwaysPublished`, `QuietAlwaysFresh`, `NeverGoesBack`. It builds on `SerialInv`
of the store. `HotInv` adds `Logged` (the log ends with what lies at the path), `Opening`
(the load in progress has opened one entry of it), `Ordered` (what was stored, delivered and
activated are entries, each behind the next), `Phases` (what main and the
reloader have going on at each point) and `Followed`: as long as the last publication
has been asked for but is not served, it is at one of the stages between the
inotify queue and activation. At rest there is no such stage left.

**CatalogProofs**, for any finite set of branches, names, .SRCINFOs, overlay limit, result
limit and block size: `FullBuildShown`, `CollapseComplete`, `Acceptance` and `AnswersExact`,
the four properties of the `catalog` run, all from one inductive invariant (`Invariance`).
`ShowsFullBuild` is not inductive: what the next update makes of the output depends on where
its records are found, not only on what they say. `CatalogInv` says that the output is a
full build of the listed refs, or an overlay of *some* full build whose references are valid
and lead to the records of one (`Sound`), with the branch of an inline package inline too.
The argument has these parts:

1. *Sorted lists are their sets.* `SortedOnly` and `AscendingOnly`: two sorted sequences of the
   same elements are equal. A full build is so reduced to the winners of each name and the
   rest (`FullBuildIs`).
2. *The merge.* `UpdateInputs`: what is carried over and what is compiled anew are three sorted
   queues without a common (name, branch) that together hold the packages of the new refs.
   `old_to_new` keeps the order of branches, so what is carried over stays sorted.
   `MergeExact`: the merge of such queues gives the winners and, sorted, the rest, by the loop
   invariant `MergeInv` (what was taken lies before the rest, and the last winner waits).
   `UpdateContent` puts the two together.
3. *What is published.* Compaction: `ExpandFacts`. Overlay: `OverlayReads`, the references that
   are written lead to what was merged, inline or in the base. Collapse: `CollapseExact` (the
   base is restored only if it is the full build of the refs) and `CollapseDue` (it is
   restored whenever it is and nothing is stored inline). `MovedAreStored`, a part of the
   invariant, and `StoredMoved` say that what an overlay stores itself is what has moved; the two
   give `CollapseIsComplete`.
4. *Readers.* `SoundValid`: the references of a sound overlay ascend with the names they lead to,
   so the constructor accepts it. `FindExact` and `SearchFirsts`: a name not kept from the base is
   among the extra packages or nowhere; the list of results is, after each extra package,
   the first *n* of the matches seen so far (`Joined`).

The loops of the merge and of the search are recursive functions; that these exist and what
they compute is proved by induction on the number of steps, from the library's fact that the
natural numbers are well founded (`Least`, `UpTo`).

**IndexerProofs**, on BuildPool, for any number of workers and branches: `PoolTypeCorrect`,
`BranchesOnce`, `SnapshotComplete`, `ThreadsJoined`. The invariant `PoolInv` says
that threads are started and joined in order, that every index below the counter
was taken by one worker and, while nobody failed, is held by it, that nobody ends
early without a failure, and that a failure is stored or about to be. When
all are joined and no error is stored, nobody failed, so every index was compiled.

The same module, on RefListing, for any branches, commits and runs of `git pack-refs`:
`QuietListingExact`. `QuietInv` says that, as long as nothing was updated or packed,
the refs are what they were when the listing began, nothing is locked, and what was read is
right: a loose ref that is pruned meanwhile has the same commit in packed-refs, which was
read before it.

The same module, on Srcinfo (specification `ParseSpec`), for lines of any kind and texts of any
length: `NothingIsLost`, `AcceptanceExact`, `OwnStated`, the three properties of the `srcinfo`
run, from one inductive invariant (`ParsingInvariance`). The properties are not inductive: two
of them speak of the end only, and what is missing or not supported is reported only then.
`ParseInv` adds what holds line by line:

- `SectionsInv`: there is a block for each line that names a package, in their order, and the
  section of its line is its number.
- Until the text ends, a fatal report has been made exactly when the text is not `Sound`.
  `Sound` is the part of `Correct` that does not wait for the end: a text that breaks it
  cannot become correct, whatever follows.
- `ContentInv`: while no report is fatal, every field of every section is `Exact`: a dimension
  for each suffix the section has lines with, and in it the lines with a value, ascending.

Each kind of line has a lemma that it keeps the three, from what one more line does to names,
sections and fields. At the end what is checked then is the rest of `Correct`, in the
terms of the lines since the fields are exact; and merging two exact fields lists what is
`Stated`, each line once and the package's own first. Flattened sequences are reasoned
about by induction on the number of joined parts, as in CatalogProofs.

**SearchBlocksProofs**, for every number of packages, text, layout, hash, query and limit:
`SearchTypeCorrect`, `AlwaysLoaded`, `SearchAlwaysExact`. `Written` says which packages the
blocks written so far and the blocks begun cover and that their sums hold those
packages' sets; so a skipped block has no match. `At` is the package the three
loops stand at, and `Answered` says that the results are the matches before it, cut at the limit.
The arithmetic of super and fine blocks is in lemmas of its own (`Aligned`, `RoundedUp`).

**ServeProofs**, for any number of workers, clients and failures: `ServeTypeCorrect`,
`NothingEverOutlives`, `EachClosesItsOwn`, `OnlyThatIsLeft`, `AlwaysOnlyFailuresLeak`. `Threads` ties
the threads to main's place; `SurelyOpen` says what is open when its owner comes to
close it, `MaybeOpen` that nothing is open without an owner, `Attended` that clients
wait only at open listeners.

**ConnectionProofs**, for every script and all limits: `ConnectionTypeCorrect`,
`InputAlwaysBounded`, `AnswersAlwaysInOrder`. The order of answers needs `InFlight` (the
response in flight answers a request before the front of the input, the one just before if that
was cut off as it was meant, or it closes) and `Following` (the same of the last answer, or
the worker is about to close). `FrontMoves` says how far the front goes when a request is
taken, whatever length it was cut off with.

**GitRepoProofs**, for any workers, packages, mutexes and their sharing, commits,
changes of the branches, failures and deaths, and for both values of `Shallow` and
`InitialHead`: `RepoTypeCorrect`, `AlwaysServedFresh`, `AlwaysAdvertised`. `RepoInv` says that a
worker inside holds the mutex of its package (`HoldsLock`); that what it read is in the history
of its request, and in that of whoever has a repository of the package to serve, since they
began earlier (`Witnessed`); that where the branch is as a client was told, all who write the
directory write that (`Told`); what the steps of a creation achieved (`Made`); and that a directory
which is being made or removed was never shown to a client (`MadeUnseen`), which is why the
clean-up takes nothing away.

**GitExecProofs**, for any number of workers, capacity and jobs: `ExecTypeCorrect`,
`AlwaysNothingLeft`, `AlwaysWholeOutput`. `Holds` says which ends the server may have open at
each statement; `Flows` that what was read and what is in the pipe is what the child
wrote; `Speaks` that a running child has its output open, so that end of file means it
has ended, however many ends other children inherited; `Ended` that one which ended well has read
its input and said its answer.

Only model-checked: liveness (`Converges`, `HotReloads`, `Terminates`,
`RequestsAnswered`, `ConnectionEnds`, `Repairs`, `Stops`, `NobodyWaits`, `Heals`,
`CallsReturn`), which the prover does not reach. The invariants and action properties of all
runs are theorems.

## 5. Where code and documents differ

Four statements of the documents do not hold of the code. Each is stated as a property,
kept with a configuration that gives the counterexample, and is not one of the
runs above, which all pass.

| statement | property | command |
|---|---|---|
| `README.en.md:34`: the indexer overwrites the snapshot and `aurhubd` hot-reloads | `ServesLast` | `tlc -config MCHotReloadStartup.cfg MCHotReload` |
| `README.en.md:36`: clones use per-package repositories that share the mirror's objects | `FinishedShares` | `tlc -config MCGitRepoDeath.cfg MCGitRepo` |
| the same: clones use these repositories | `ServedCanBeCloned` | `tlc -config MCGitRepoShallow.cfg MCGitRepo` |
| `README.en.md:46`: the timer keeps the server synchronized hourly | `Synchronized` | `tlc -config MCRefListingPacked.cfg RefListing` |

- `ServesLast`: `main` loads the initial snapshot (`server.cpp:658-660`) before
  `serve` creates the watch (`server.cpp:511`). A generation that is renamed into
  place in between produces no event, and is served only after the *next* publication;
  runs that find the mirror unchanged publish nothing. `QuietIsFresh` and `HotReloads`
  therefore speak of publications since the watch, and hold.
- `FinishedShares`: a server that dies after `git init` has made `objects` and before
  the alternates are written leaves a directory that every later server takes for
  finished (`http.cpp:136`); `update-ref` fails in it and the package is answered 404
  until the directory is removed by hand. A `git init` that fails after it has made `objects`
  does the same without a death (`http.cpp:145-147` returns without `remove_all`). `Heals`
  excepts both and shows that there is no third way.
- `ServedCanBeCloned`: the indexer's mirror is shallow (`indexer.cpp:740`), the
  repositories that borrow its objects have no `shallow` file (`http.cpp:148`), and a full
  clone fails at the first missing parent. The tests clone their mirror in full.
- `Synchronized`: packed refs are read before the loose ones (`git.cpp:172`), the
  other way round than Git does. A `pack-refs` in between moves a branch past both reads, and the
  run publishes a generation without the package. `Repairs` says that a later run finds it.

Four more things the code does contradict no document; properties name them and show that
nothing else of the kind happens:

- A request with `content-length:` somewhere before its own header of that name is cut off at a
  wrong place, and swallows or waits for bytes of the next (`RequestsAnswered`).
- A body and an early answer that are both longer than a pipe block worker and child, and
  children that wait for the end of a truncated body may hold it open for each other
  (`CallsReturn`).
- A worker that throws, and a start that fails early, leave descriptors open until the process
  ends, which it then does (`OnlyFailuresLeak`).
- A branch that moves away and comes back stays in the overlay, which is kept although its base
  says the same (`CollapseIsComplete`).

## 6. Not modelled

Everything section 1 lists is modelled or partly modelled, but the benches, the comparison
and dump tools and the tests: sequential readers of a finished file. What the modules
leave out, and why:

- **Temporary names with reused pids** (`snapshot.cpp:378`). A name that a dead run left as a
  link to the published base is opened with `O_TRUNC` by a run with the same pid. A run of
  `GenerationStore` has a pid that no dead run had, so a file that is open or named is
  never written to again, which is what a hard link and a rename are for; with a reused
  pid that assumption is gone, and with it all that is said of readers.
- **Builds cut off by `--limit`** (`indexer.cpp:342-344`): `StartFull` is a full build of the whole
  mirror, and every property of the refs is about such builds.
- **Mirror objects that Git prunes**: after a forced fetch the commits a branch no longer has stay
  readable through the alternates, in the model for ever, in Git until a `gc` two weeks later.
- **Equal stamps** (`generation.cpp:224`): two bases of equal size made within a second are taken
  for each other. `FreshFiles` and the premise of `ViewIsWhole` state the assumption.
- **Branches upstream deleted** (`indexer.cpp:748`): fetch does not prune, so they stay. The
  mirror's refs are the truth of every module; what upstream has is outside.
- **The `cat-file --batch` process** of a worker of the full build: one pipe of requests and
  answers in turn. Its failures are `Throw` of BuildPool.
- **Byte layout**, compression, alignment and checksums of the files, and the checks of
  `SnapshotValidation::full`, which neither program uses.
- **HTTP syntax, URL decoding and JSON**: pure functions of one request, with tests in
  `tests/`. Connection has what decides closing, and the two lengths of a request, by which it is
  cut off and by which it is read.
- **First start of the deployment**: `aurhubd` starts an indexer in `ExecStartPre`; that
  this may overlap the timer's is `store_overlap`, the units themselves are not modelled.
- **Loss of power**: the code syncs a file before it renames it, but not the directory.
- **Git itself** is external: its refs, its files and its commands appear by what the code
  relies on.
- **Catalog composed with GenerationStore**, so that what is shown and where it lies were
  one specification: the product is out of TLC's reach at bounds where either part
  is interesting. The two meet in what a run decides, which `RunPublishes` and
  `ShowsFullBuild` state on either side.
