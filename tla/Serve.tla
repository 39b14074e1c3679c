------------------------------- MODULE Serve -------------------------------
(***************************************************************************)
(* The life of aurhubd's threads and descriptors: main sets the server up, *)
(* starts the workers, runs the control loop and takes everything down     *)
(* again; the reloader sleeps on its condition variable; each worker has a *)
(* listener of its own on the same port, among which the kernel            *)
(* distributes the clients.  Any call that may fail does so, at most       *)
(* MaxFaults times.  What a reload finds is HotReload's, what is said on a *)
(* connection Connection's.                                                *)
(***************************************************************************)
EXTENDS Integers, FiniteSets

CONSTANTS
  N,            \* options.workers
  Clients,
  MaxRequests,  \* bound: reloads requested
  MaxFaults     \* bound: calls that fail

ASSUME ServeAssumption == N \in Nat \ {0} /\ MaxRequests \in Nat /\ MaxFaults \in Nat

Workers == 1..N

VARIABLES
  running,      \* g_running
  main,         \* where main is
  failing,      \* an exception leaves serve
  made,         \* listeners created
  spawned,      \* threads started
  worker,       \* where each worker is
  failed,       \* the workers whose serve_worker threw
  open,         \* descriptors, other than those of connections
  closedTwice,  \* one was closed that was not open
  queued,       \* the clients at each listener
  conns,        \* the connections of each worker
  gone,         \* the clients whose connection has ended
  reloader, stopping, requested, handled, target,
  faults

workerVars == <<worker, failed>>
clientVars == <<queued, conns, gone>>
fdVars == <<open, closedTwice>>
reloaderVars == <<reloader, stopping, requested, handled, target>>
mainVars == <<main, failing, made, spawned>>
vars == <<running, faults, mainVars, workerVars, clientVars, fdVars, reloaderVars>>

Listener(w) == <<"listener", w>>
Epoll(w) == <<"epoll", w>>
Own(s) == <<s, 0>>       \* main's "control" and "inotify", the reloader's "event"

Open(ds) == open' = open \cup ds /\ UNCHANGED closedTwice

Close(ds) ==
  /\ open' = open \ ds
  /\ closedTwice' = (closedTwice \/ ~(ds \subseteq open))

\* The kernel resets the clients that wait at a listener which is closed.
Reset(ws) ==
  /\ queued' = [w \in Workers |-> IF w \in ws THEN {} ELSE queued[w]]
  /\ gone' = gone \cup UNION {queued[w] : w \in ws}
  /\ UNCHANGED conns

Fault == faults < MaxFaults /\ faults' = faults + 1
Works == UNCHANGED faults

Init ==
  /\ running = TRUE /\ main = "start" /\ failing = FALSE /\ made = 0 /\ spawned = 0
  /\ worker = [w \in Workers |-> "none"] /\ failed = {}
  /\ open = {} /\ closedTwice = FALSE
  /\ queued = [w \in Workers |-> {}] /\ conns = [w \in Workers |-> {}] /\ gone = {}
  /\ reloader = "none" /\ stopping = FALSE /\ requested = 0 /\ handled = 0 /\ target = 0
  /\ faults = 0

-----------------------------------------------------------------------------
(* main: serve *)

Throw(next) == failing' = TRUE /\ main' = next

CreateControl ==
  /\ main = "start"
  /\ \/ Works /\ Open({Own("control")}) /\ main' = "watch" /\ UNCHANGED failing
     \/ Fault /\ Throw("ended") /\ UNCHANGED fdVars
  /\ UNCHANGED <<running, made, spawned, workerVars, clientVars, reloaderVars>>

CreateWatch ==
  /\ main = "watch"
  /\ \/ Works /\ Open({Own("inotify")}) /\ main' = "reloader" /\ UNCHANGED failing
     \/ Fault /\ Throw("ended") /\ UNCHANGED fdVars
  /\ UNCHANGED <<running, made, spawned, workerVars, clientVars, reloaderVars>>

\* The eventfd is not closed when the thread cannot be started.
CreateReloader ==
  /\ main = "reloader"
  /\ \/ Works /\ Open({Own("event")}) /\ main' = "register" /\ reloader' = "check"
        /\ UNCHANGED failing
     \/ Fault /\ Throw("ended") /\ UNCHANGED <<fdVars, reloader>>
     \/ Fault /\ Throw("ended") /\ Open({Own("event")}) /\ UNCHANGED reloader
  /\ UNCHANGED <<running, made, spawned, workerVars, clientVars,
                 stopping, requested, handled, target>>

\* From here on an exception destroys the reloader.
Register ==
  /\ main = "register"
  /\ \/ Works /\ main' = "listen" /\ UNCHANGED failing
     \/ Fault /\ Throw("stop")
  /\ UNCHANGED <<running, made, spawned, workerVars, clientVars, fdVars, reloaderVars>>

CreateListener ==
  /\ main = "listen"
  /\ \/ made = N /\ Works /\ main' = "spawn" /\ UNCHANGED <<failing, made, fdVars, clientVars>>
     \/ /\ made < N /\ Works
        /\ made' = made + 1 /\ Open({Listener(made + 1)})
        /\ UNCHANGED <<main, failing, clientVars>>
     \/ /\ made < N /\ Fault
        /\ Close({Listener(w) : w \in 1..made} \cup {Own("inotify"), Own("control")})
        /\ Reset(1..made)
        /\ Throw("stop") /\ UNCHANGED made
  /\ UNCHANGED <<running, spawned, workerVars, reloaderVars>>

Started(w) == worker' = [worker EXCEPT ![w] = "start"]

BugSpawnClosesAll ==
  /\ main = "spawn"
  /\ \/ spawned = N /\ Works /\ main' = "control"
        /\ UNCHANGED <<running, failing, spawned, worker, fdVars, clientVars>>
     \/ /\ spawned < N /\ Works
        /\ spawned' = spawned + 1 /\ Started(spawned + 1)
        /\ UNCHANGED <<running, main, failing, fdVars, clientVars>>
     \/ /\ spawned < N /\ Fault
        /\ running' = FALSE
        /\ Close({Listener(w) : w \in 1..N}) /\ Reset(1..N)
        /\ Throw("join") /\ UNCHANGED <<spawned, worker>>
  /\ UNCHANGED <<made, failed, reloaderVars>>
\* The listeners that have no thread yet are closed here, the others by their threads.
Spawn ==
  /\ main = "spawn"
  /\ \/ spawned = N /\ Works /\ main' = "control"
        /\ UNCHANGED <<running, failing, spawned, worker, fdVars, clientVars>>
     \/ /\ spawned < N /\ Works
        /\ spawned' = spawned + 1 /\ Started(spawned + 1)
        /\ UNCHANGED <<running, main, failing, fdVars, clientVars>>
     \/ /\ spawned < N /\ Fault
        /\ running' = FALSE
        /\ Close({Listener(w) : w \in spawned+1..N}) /\ Reset(spawned+1..N)
        /\ Throw("join") /\ UNCHANGED <<spawned, worker>>
  /\ UNCHANGED <<made, failed, reloaderVars>>

Control ==
  /\ main = "control"
  /\ main' = IF running THEN "batch" ELSE "join"
  /\ UNCHANGED <<running, faults, failing, made, spawned, workerVars, clientVars, fdVars,
                 reloaderVars>>

\* epoll_wait and the reading of the watch may fail; a change requests a reload.
Batch ==
  /\ main = "batch"
  /\ \/ main' = "control" /\ Works /\ UNCHANGED <<running, failing, requested>>
     \/ /\ requested < MaxRequests /\ Works
        /\ requested' = requested + 1 /\ main' = "notify" /\ UNCHANGED <<running, failing>>
     \/ Fault /\ Throw("join") /\ running' = FALSE /\ UNCHANGED requested
  /\ UNCHANGED <<made, spawned, workerVars, clientVars, fdVars,
                 reloader, stopping, handled, target>>

Woken == reloader' = IF reloader = "waiting" THEN "check" ELSE reloader

Notify ==
  /\ main = "notify" /\ main' = "control"
  /\ Woken
  /\ UNCHANGED <<running, faults, failing, made, spawned, workerVars, clientVars, fdVars,
                 stopping, requested, handled, target>>

Join ==
  /\ main = "join"
  /\ \A w \in 1..spawned : worker[w] = "done"
  /\ main' = "stop"
  /\ Close({Own("inotify"), Own("control")})
  /\ UNCHANGED <<running, faults, failing, made, spawned, workerVars, clientVars, reloaderVars>>

\* ~SnapshotReloader
StopReloader ==
  /\ main = "stop" /\ main' = "wake"
  /\ stopping' = TRUE
  /\ UNCHANGED <<running, faults, failing, made, spawned, workerVars, clientVars, fdVars,
                 reloader, requested, handled, target>>

BugWakeReloader ==
  /\ main = "wake" /\ main' = "joining"
  /\ UNCHANGED <<running, faults, failing, made, spawned, workerVars, clientVars, fdVars,
                 reloaderVars>>
WakeReloader ==
  /\ main = "wake" /\ main' = "joining"
  /\ Woken
  /\ UNCHANGED <<running, faults, failing, made, spawned, workerVars, clientVars, fdVars,
                 stopping, requested, handled, target>>

JoinReloader ==
  /\ main = "joining" /\ reloader = "done"
  /\ main' = "ended"
  /\ Close({Own("event")})
  /\ UNCHANGED <<running, faults, failing, made, spawned, workerVars, clientVars, reloaderVars>>

Main ==
  \/ CreateControl \/ CreateWatch \/ CreateReloader \/ Register \/ CreateListener \/ Spawn
  \/ Control \/ Batch \/ Notify \/ Join \/ StopReloader \/ WakeReloader \/ JoinReloader

-----------------------------------------------------------------------------
(* The reloader's thread: SnapshotReloader::run *)

\* The predicate is evaluated, and the wait begins, under the mutex.
Check ==
  /\ reloader = "check"
  /\ IF stopping THEN reloader' = "done" /\ UNCHANGED target
     ELSE IF requested # handled THEN reloader' = "loading" /\ target' = requested
     ELSE reloader' = "waiting" /\ UNCHANGED target
  /\ UNCHANGED <<running, faults, mainVars, workerVars, clientVars, fdVars,
                 stopping, requested, handled>>

Load ==
  /\ reloader = "loading" /\ reloader' = "check"
  /\ handled' = target
  /\ UNCHANGED <<running, faults, mainVars, workerVars, clientVars, fdVars,
                 stopping, requested, target>>

Spurious ==
  /\ reloader = "waiting" /\ reloader' = "check"
  /\ UNCHANGED <<running, faults, mainVars, workerVars, clientVars, fdVars,
                 stopping, requested, handled, target>>

-----------------------------------------------------------------------------
(* A worker: serve_worker in the thread's function *)

At(w, here, next) == worker[w] = here /\ worker' = [worker EXCEPT ![w] = next]

\* A descriptor that serve_worker does not close stays open until the process ends.
WorkerStart(w) ==
  /\ \/ At(w, "start", "register") /\ Works
        /\ Open({Epoll(w)}) /\ UNCHANGED <<failed, clientVars>>
     \/ At(w, "start", "catch") /\ Fault
        /\ Close({Listener(w)}) /\ Reset({w}) /\ failed' = failed \cup {w}
  /\ UNCHANGED <<running, mainVars, reloaderVars>>

WorkerRegister(w) ==
  /\ \/ At(w, "register", "loop") /\ Works /\ UNCHANGED failed
     \/ At(w, "register", "catch") /\ Fault /\ failed' = failed \cup {w}
  /\ UNCHANGED <<running, mainVars, clientVars, fdVars, reloaderVars>>

Wait(w) ==
  /\ \/ ~running /\ At(w, "loop", "closing") /\ Works /\ UNCHANGED failed
     \/ running /\ At(w, "loop", "accept") /\ Works /\ UNCHANGED failed
     \/ running /\ At(w, "loop", "catch") /\ Fault /\ failed' = failed \cup {w}
  /\ UNCHANGED <<running, mainVars, clientVars, fdVars, reloaderVars>>

\* accept4 until no client waits; a client that cannot be registered is closed first.
Accept(w) ==
  /\ \/ queued[w] = {} /\ At(w, "accept", "events") /\ Works /\ UNCHANGED <<failed, clientVars>>
     \/ \E c \in queued[w] :
          /\ At(w, "accept", "accept") /\ Works
          /\ queued' = [queued EXCEPT ![w] = @ \ {c}] /\ conns' = [conns EXCEPT ![w] = @ \cup {c}]
          /\ UNCHANGED <<failed, gone>>
     \/ \E c \in queued[w] :
          /\ At(w, "accept", "catch") /\ Fault /\ failed' = failed \cup {w}
          /\ queued' = [queued EXCEPT ![w] = @ \ {c}] /\ gone' = gone \cup {c}
          /\ UNCHANGED conns
     \/ At(w, "accept", "catch") /\ Fault /\ failed' = failed \cup {w} /\ UNCHANGED clientVars
  /\ UNCHANGED <<running, mainVars, fdVars, reloaderVars>>

\* The events of connections: some end.  What makes a response may throw.
Events(w) ==
  /\ \/ At(w, "events", "loop") /\ Works /\ UNCHANGED <<failed, clientVars>>
     \/ At(w, "events", "catch") /\ Fault /\ failed' = failed \cup {w} /\ UNCHANGED clientVars
     \/ \E c \in conns[w] :
          /\ At(w, "events", "events") /\ Works
          /\ conns' = [conns EXCEPT ![w] = @ \ {c}] /\ gone' = gone \cup {c}
          /\ UNCHANGED <<failed, queued>>
  /\ UNCHANGED <<running, mainVars, fdVars, reloaderVars>>

BugCloseAll(w) ==
  /\ At(w, "closing", "done")
  /\ conns' = [conns EXCEPT ![w] = {}] /\ queued' = [queued EXCEPT ![w] = {}]
  /\ gone' = gone \cup conns[w] \cup queued[w]
  /\ Close({Listener(w)})
  /\ UNCHANGED <<running, faults, failed, mainVars, reloaderVars>>
CloseAll(w) ==
  /\ At(w, "closing", "done")
  /\ conns' = [conns EXCEPT ![w] = {}] /\ queued' = [queued EXCEPT ![w] = {}]
  /\ gone' = gone \cup conns[w] \cup queued[w]
  /\ Close({Epoll(w), Listener(w)})
  /\ UNCHANGED <<running, faults, failed, mainVars, reloaderVars>>

BugCatch(w) ==
  /\ At(w, "catch", "done")
  /\ UNCHANGED <<running, faults, failed, mainVars, clientVars, fdVars, reloaderVars>>
\* The thread's handler: one worker that cannot go on ends the server.
Catch(w) ==
  /\ At(w, "catch", "done")
  /\ running' = FALSE
  /\ UNCHANGED <<faults, failed, mainVars, clientVars, fdVars, reloaderVars>>

Worker(w) ==
  WorkerStart(w) \/ WorkerRegister(w) \/ Wait(w) \/ Accept(w) \/ Events(w) \/ CloseAll(w) \/ Catch(w)

-----------------------------------------------------------------------------
(* The environment *)

\* stop_server, on SIGINT or SIGTERM.
Signal ==
  /\ running /\ running' = FALSE
  /\ main # "ended"
  /\ UNCHANGED <<faults, mainVars, workerVars, clientVars, fdVars, reloaderVars>>

\* A client connects, and the kernel gives it to a listener, whether or not its worker runs.
Arrive(c, w) ==
  /\ main # "ended" /\ Listener(w) \in open
  /\ c \notin gone /\ \A v \in Workers : c \notin queued[v] /\ c \notin conns[v]
  /\ queued' = [queued EXCEPT ![w] = @ \cup {c}]
  /\ UNCHANGED <<running, faults, mainVars, workerVars, conns, gone, fdVars, reloaderVars>>

\* The process is over.
Ended == main = "ended" /\ UNCHANGED vars

Next ==
  \/ Main \/ Check \/ Load \/ Spurious \/ Signal \/ Ended
  \/ \E w \in Workers : Worker(w) \/ \E c \in Clients : Arrive(c, w)

Spec == Init /\ [][Next]_vars

\* Every thread is scheduled; what a worker does with an event returns (GitExec).
FairSpec ==
  /\ Spec
  /\ WF_vars(Main) /\ WF_vars(Check \/ Load)
  /\ \A w \in Workers : WF_vars(Worker(w))

-----------------------------------------------------------------------------
(* Properties *)

MainStates ==
  {"start", "watch", "reloader", "register", "listen", "spawn", "control", "batch",
   "notify", "join", "stop", "wake", "joining", "ended"}
ReloaderStates == {"none", "check", "waiting", "loading", "done"}
WorkerStates ==
  {"none", "start", "register", "loop", "accept", "events", "closing", "catch", "done"}

Descriptors ==
  {Listener(w) : w \in Workers} \cup {Epoll(w) : w \in Workers}
    \cup {Own("control"), Own("inotify"), Own("event")}

\* Every variable has its type (the type invariant).
TypeOK ==
  /\ {running, failing, closedTwice, stopping} \subseteq BOOLEAN
  /\ main \in MainStates
  /\ made \in 0..N /\ spawned \in 0..N
  /\ worker \in [Workers -> WorkerStates] /\ failed \subseteq Workers
  /\ open \subseteq Descriptors
  /\ queued \in [Workers -> SUBSET Clients] /\ conns \in [Workers -> SUBSET Clients]
  /\ gone \subseteq Clients
  /\ reloader \in ReloaderStates
  /\ {requested, handled, target, faults} \subseteq Nat

\* When serve is left, by a return or by an exception of any of its steps, no thread runs
\* that has a reference to its variables (server.cpp:531-557, 607-619, 65-75).
NothingOutlives ==
  main = "ended" =>
    /\ \A w \in Workers : worker[w] \in {"none", "done"}
    /\ reloader \in {"none", "done"}

\* No descriptor is closed by two of the threads: its number may be another's by then
\* (server.cpp:521-529, 546-557, 403-408, 491-497).
ClosesItsOwn == ~closedTwice

\* What failures leave open: a worker that failed its listener and its epoll, a start that
\* failed before the first listener main's descriptors, and the event only if there was no
\* reloader yet to close it.
Leaked ==
  {Listener(w) : w \in failed} \cup {Epoll(w) : w \in failed}
    \cup {Own(s) : s \in IF ~failing \/ made > 0 THEN {}
                         ELSE IF reloader = "none" THEN {"control", "inotify", "event"}
                         ELSE {"control", "inotify"}}

OnlyLeaked ==
  main = "ended" =>
    /\ open \subseteq Leaked
    /\ \A w \in Workers \ failed : conns[w] = {} /\ queued[w] = {}

\* When serve is left, on whatever way, no thread is left, and a stop that nothing failed
\* before leaves no descriptor and no connection open.  The code does leak on failures: a
\* worker that throws leaves its listener, its epoll and its connections (server.cpp:403-460),
\* main the descriptors of a start that fails early (server.cpp:504-517); the end of the
\* process closes them.  Nothing else is left, of whom else a failure may have ended: not
\* what the other workers had, nor the listeners that have no thread, nor main's own
\* (server.cpp:491-497, 521-529, 546-557, 607-619).
OnlyFailuresLeak == NothingOutlives /\ OnlyLeaked

\* A signal, a worker that fails, and an exception in main all end in the end of the server:
\* no thread waits for another that waits for it (server.cpp:536-557, 566-619).
Stops == ~running \/ failing ~> main = "ended"

\* No client waits at a listener that nobody reads: it is accepted, or the server ends and
\* the kernel resets it (server.cpp:432-460, 536-544).
NobodyWaits ==
  \A c \in Clients, w \in Workers : c \in queued[w] ~> c \notin queued[w] \/ main = "ended"
=============================================================================
