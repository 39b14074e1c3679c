---------------------------- MODULE ServeProofs ----------------------------
(***************************************************************************)
(* Serve for every number of workers, clients, requests and failures.  The *)
(* inductive invariant says, for each place of main and of each worker,    *)
(* which descriptors are surely open and which may be: what a thread is    *)
(* about to close is the former, what is left in the end the latter.       *)
(***************************************************************************)
EXTENDS Serve, TLAPS

Early == {"start", "watch", "reloader"}
Late == {"stop", "wake", "joining", "ended"}
Serving == {"listen", "spawn", "control", "batch", "notify", "join"}

\* Where main is tells how many threads there are, and which have ended.
Threads ==
  /\ main \in Early \cup {"register"} => made = 0
  /\ main \in Early \cup {"register", "listen"} => spawned = 0
  /\ main = "spawn" => made = N
  /\ \A w \in Workers : worker[w] = "none" <=> w > spawned
  /\ main \in Late => \A w \in Workers : worker[w] \in {"none", "done"}
  /\ main \in Early => reloader = "none"
  /\ main = "ended" => reloader \in {"none", "done"}

HasListener(w) == worker[w] \in {"start", "register", "loop", "accept", "events", "closing"}
HasEpoll(w) == worker[w] \in {"register", "loop", "accept", "events", "closing"}
Unclaimed(w) == worker[w] = "none" /\ w <= made /\ main \in {"listen", "spawn"}

\* Every thread's descriptors are open when it comes to close them.
SurelyOpen ==
  /\ main \in {"watch", "reloader", "register"} \cup Serving => Own("control") \in open
  /\ main \in {"reloader", "register"} \cup Serving => Own("inotify") \in open
  /\ main \in {"register", "stop", "wake", "joining"} \cup Serving => Own("event") \in open
  /\ \A w \in Workers : HasListener(w) \/ Unclaimed(w) => Listener(w) \in open
  /\ \A w \in Workers : HasEpoll(w) => Epoll(w) \in open
  /\ closedTwice = FALSE

\* Nothing is open without an owner.
MaybeOpen ==
  /\ \A w \in Workers : Listener(w) \in open => w \in failed \/ HasListener(w) \/ Unclaimed(w)
  /\ \A w \in Workers : Epoll(w) \in open => w \in failed \/ HasEpoll(w)
  /\ main \in Late =>
       (Own("control") \notin open /\ Own("inotify") \notin open) \/ (failing /\ made = 0)
  /\ main = "ended" => Own("event") \notin open \/ (failing /\ made = 0 /\ reloader = "none")

\* Clients wait only at open listeners, and are served only by workers that run or failed.
Attended ==
  /\ \A w \in Workers : worker[w] = "catch" => w \in failed
  /\ \A w \in Workers : queued[w] # {} => Listener(w) \in open
  /\ \A w \in Workers : conns[w] # {} =>
       w \in failed \/ worker[w] \in {"loop", "accept", "events", "closing"}

ServeInv == TypeOK /\ Threads /\ SurelyOpen /\ MaybeOpen /\ Attended

LEMMA Distinct ==
  /\ \A v, w \in Workers : Listener(v) = Listener(w) => v = w
  /\ \A v, w \in Workers : Epoll(v) = Epoll(w) => v = w
  /\ \A v, w \in Workers : Listener(v) # Epoll(w)
  /\ \A w \in Workers : \A s \in {"control", "inotify", "event"} :
       Own(s) # Listener(w) /\ Own(s) # Epoll(w)
  /\ Own("control") # Own("inotify") /\ Own("control") # Own("event")
  /\ Own("inotify") # Own("event")
BY DEF Listener, Epoll, Own, Workers

LEMMA AllDescriptors ==
  /\ \A w \in Workers : Listener(w) \in Descriptors /\ Epoll(w) \in Descriptors
  /\ \A s \in {"control", "inotify", "event"} : Own(s) \in Descriptors
  /\ Descriptors' = Descriptors
BY DEF Descriptors, Listener, Epoll, Own, Workers

\* Clients that are reset are clients.
LEMMA ResetTyped ==
  ASSUME TypeOK, NEW ws, ws \subseteq Workers, Reset(ws)
  PROVE  /\ queued' \in [Workers -> SUBSET Clients] /\ conns' \in [Workers -> SUBSET Clients]
         /\ gone' \subseteq Clients
<1>1. queued \in [Workers -> SUBSET Clients] /\ gone \subseteq Clients
  BY DEF TypeOK
<1>2. \A w \in ws : queued[w] \subseteq Clients
  BY <1>1
<1> QED BY <1>1, <1>2 DEF TypeOK, Reset

LEMMA InitServe == Init => ServeInv
<1> SUFFICES ASSUME Init PROVE ServeInv
  OBVIOUS
<1>1. TypeOK
  <2>1. {running, failing, closedTwice, stopping} \subseteq BOOLEAN
    BY DEF Init
  <2>2. /\ made \in 0..N /\ spawned \in 0..N /\ open \subseteq Descriptors
        /\ {requested, handled, target, faults} \subseteq Nat
    BY ServeAssumption DEF Init
  <2>3. worker \in [Workers -> WorkerStates] /\ failed \subseteq Workers
    BY DEF Init, WorkerStates
  <2>4. /\ queued \in [Workers -> SUBSET Clients] /\ conns \in [Workers -> SUBSET Clients]
        /\ gone \subseteq Clients
    BY DEF Init
  <2> QED BY <2>1, <2>2, <2>3, <2>4 DEF Init, TypeOK, MainStates, ReloaderStates
<1>2. Threads
  BY ServeAssumption DEF Init, Threads, Early, Late, Workers
<1>3. SurelyOpen /\ MaybeOpen /\ Attended
  BY ServeAssumption DEF Init, SurelyOpen, MaybeOpen, Attended, Late, Serving, HasListener,
     HasEpoll,
     Unclaimed, Workers
<1> QED BY <1>1, <1>2, <1>3 DEF ServeInv

LEMMA CreateControlServe ==
  ASSUME ServeInv, CreateControl
  PROVE  ServeInv'
<1>1. TypeOK'
  <2>1. open' \subseteq Descriptors
    BY AllDescriptors, ServeAssumption DEF ServeInv, TypeOK, CreateControl, workerVars, clientVars,
       fdVars, reloaderVars, Works, Fault, Throw, Open, Workers
  <2>2. {running', failing', closedTwice', stopping'} \subseteq BOOLEAN
    BY DEF ServeInv, TypeOK, CreateControl, workerVars, clientVars, fdVars, reloaderVars, Works,
       Fault, Throw, Open
  <2>3. {requested', handled', target', faults'} \subseteq Nat
    BY DEF ServeInv, TypeOK, CreateControl, workerVars, clientVars, fdVars, reloaderVars, Works,
       Fault, Throw, Open
  <2>4. /\ made' \in 0..N /\ spawned' \in 0..N
        /\ worker' \in [Workers -> WorkerStates] /\ failed' \subseteq Workers
    BY ServeAssumption DEF ServeInv, TypeOK, CreateControl, workerVars, clientVars, fdVars,
       reloaderVars, Works, Fault, Throw, Open, Workers, WorkerStates
  <2>5. /\ queued' \in [Workers -> SUBSET Clients] /\ conns' \in [Workers -> SUBSET Clients]
        /\ gone' \subseteq Clients
    BY ServeAssumption DEF ServeInv, TypeOK, CreateControl, workerVars, clientVars, fdVars,
       reloaderVars, Works, Fault, Throw, Open, Workers
  <2>6. main' \in MainStates /\ reloader' \in ReloaderStates
    BY DEF ServeInv, TypeOK, CreateControl, workerVars, clientVars, fdVars, reloaderVars, Works,
       Fault, Throw, Open, MainStates, ReloaderStates
  <2> QED BY AllDescriptors, <2>1, <2>2, <2>3, <2>4, <2>5, <2>6 DEF TypeOK
<1>2. Threads'
  BY Distinct, ServeAssumption DEF ServeInv, CreateControl, workerVars, clientVars, fdVars,
     reloaderVars, Works, Fault, Throw, Open, TypeOK, Threads, Early, Late, Workers
<1>3. SurelyOpen'
  BY Distinct, ServeAssumption DEF ServeInv, CreateControl, workerVars, clientVars, fdVars,
     reloaderVars, Works, Fault, Throw, Open, TypeOK, Threads, SurelyOpen, MaybeOpen, Early, Late,
     Serving, HasListener, HasEpoll, Unclaimed, Workers
<1>4. MaybeOpen'
  BY Distinct, ServeAssumption DEF ServeInv, CreateControl, workerVars, clientVars, fdVars,
     reloaderVars, Works, Fault, Throw, Open, TypeOK, Threads, SurelyOpen, MaybeOpen, Early, Late,
     Serving, HasListener, HasEpoll, Unclaimed, Workers
<1>5. Attended'
  BY Distinct, ServeAssumption DEF ServeInv, CreateControl, workerVars, clientVars, fdVars,
     reloaderVars, Works, Fault, Throw, Open, TypeOK, Threads, MaybeOpen, Attended, HasListener,
     Unclaimed, Workers
<1> QED BY <1>1, <1>2, <1>3, <1>4, <1>5 DEF ServeInv

LEMMA CreateWatchServe ==
  ASSUME ServeInv, CreateWatch
  PROVE  ServeInv'
<1>1. TypeOK'
  <2>1. open' \subseteq Descriptors
    BY AllDescriptors, ServeAssumption DEF ServeInv, TypeOK, CreateWatch, workerVars, clientVars,
       fdVars, reloaderVars, Works, Fault, Throw, Open, Workers
  <2>2. {running', failing', closedTwice', stopping'} \subseteq BOOLEAN
    BY DEF ServeInv, TypeOK, CreateWatch, workerVars, clientVars, fdVars, reloaderVars, Works,
       Fault, Throw, Open
  <2>3. {requested', handled', target', faults'} \subseteq Nat
    BY DEF ServeInv, TypeOK, CreateWatch, workerVars, clientVars, fdVars, reloaderVars, Works,
       Fault, Throw, Open
  <2>4. /\ made' \in 0..N /\ spawned' \in 0..N
        /\ worker' \in [Workers -> WorkerStates] /\ failed' \subseteq Workers
    BY ServeAssumption DEF ServeInv, TypeOK, CreateWatch, workerVars, clientVars, fdVars,
       reloaderVars, Works, Fault, Throw, Open, Workers, WorkerStates
  <2>5. /\ queued' \in [Workers -> SUBSET Clients] /\ conns' \in [Workers -> SUBSET Clients]
        /\ gone' \subseteq Clients
    BY ServeAssumption DEF ServeInv, TypeOK, CreateWatch, workerVars, clientVars, fdVars,
       reloaderVars, Works, Fault, Throw, Open, Workers
  <2>6. main' \in MainStates /\ reloader' \in ReloaderStates
    BY DEF ServeInv, TypeOK, CreateWatch, workerVars, clientVars, fdVars, reloaderVars, Works,
       Fault, Throw, Open, MainStates, ReloaderStates
  <2> QED BY AllDescriptors, <2>1, <2>2, <2>3, <2>4, <2>5, <2>6 DEF TypeOK
<1>2. Threads'
  BY Distinct, ServeAssumption DEF ServeInv, CreateWatch, workerVars, clientVars, fdVars,
     reloaderVars, Works, Fault, Throw, Open, TypeOK, Threads, Early, Late, Workers
<1>3. SurelyOpen'
  BY Distinct, ServeAssumption DEF ServeInv, CreateWatch, workerVars, clientVars, fdVars,
     reloaderVars, Works, Fault, Throw, Open, TypeOK, Threads, SurelyOpen, MaybeOpen, Early, Late,
     Serving, HasListener, HasEpoll, Unclaimed, Workers
<1>4. MaybeOpen'
  BY Distinct, ServeAssumption DEF ServeInv, CreateWatch, workerVars, clientVars, fdVars,
     reloaderVars, Works, Fault, Throw, Open, TypeOK, Threads, SurelyOpen, MaybeOpen, Early, Late,
     Serving, HasListener, HasEpoll, Unclaimed, Workers
<1>5. Attended'
  BY Distinct, ServeAssumption DEF ServeInv, CreateWatch, workerVars, clientVars, fdVars,
     reloaderVars, Works, Fault, Throw, Open, TypeOK, Threads, MaybeOpen, Attended, HasListener,
     Unclaimed, Workers
<1> QED BY <1>1, <1>2, <1>3, <1>4, <1>5 DEF ServeInv

LEMMA CreateReloaderServe ==
  ASSUME ServeInv, CreateReloader
  PROVE  ServeInv'
<1>1. TypeOK'
  <2>1. open' \subseteq Descriptors
    BY AllDescriptors, ServeAssumption DEF ServeInv, TypeOK, CreateReloader, workerVars, clientVars,
       fdVars, Works, Fault, Throw, Open, Workers
  <2>2. {running', failing', closedTwice', stopping'} \subseteq BOOLEAN
    BY DEF ServeInv, TypeOK, CreateReloader, workerVars, clientVars, fdVars, Works, Fault, Throw,
       Open
  <2>3. {requested', handled', target', faults'} \subseteq Nat
    BY DEF ServeInv, TypeOK, CreateReloader, workerVars, clientVars, fdVars, Works, Fault, Throw,
       Open
  <2>4. /\ made' \in 0..N /\ spawned' \in 0..N
        /\ worker' \in [Workers -> WorkerStates] /\ failed' \subseteq Workers
    BY ServeAssumption DEF ServeInv, TypeOK, CreateReloader, workerVars, clientVars, fdVars, Works,
       Fault, Throw, Open, Workers, WorkerStates
  <2>5. /\ queued' \in [Workers -> SUBSET Clients] /\ conns' \in [Workers -> SUBSET Clients]
        /\ gone' \subseteq Clients
    BY ServeAssumption DEF ServeInv, TypeOK, CreateReloader, workerVars, clientVars, fdVars, Works,
       Fault, Throw, Open, Workers
  <2>6. main' \in MainStates /\ reloader' \in ReloaderStates
    BY DEF ServeInv, TypeOK, CreateReloader, workerVars, clientVars, fdVars, Works, Fault, Throw,
       Open, MainStates, ReloaderStates
  <2> QED BY AllDescriptors, <2>1, <2>2, <2>3, <2>4, <2>5, <2>6 DEF TypeOK
<1>2. Threads'
  BY Distinct, ServeAssumption DEF ServeInv, CreateReloader, workerVars, clientVars, fdVars, Works,
     Fault, Throw, Open, TypeOK, Threads, Early, Late, Workers
<1>3. SurelyOpen'
  BY Distinct, ServeAssumption DEF ServeInv, CreateReloader, workerVars, clientVars, fdVars, Works,
     Fault, Throw, Open, TypeOK, Threads, SurelyOpen, MaybeOpen, Early, Late, Serving, HasListener,
     HasEpoll, Unclaimed, Workers
<1>4. MaybeOpen'
  BY Distinct, ServeAssumption DEF ServeInv, CreateReloader, workerVars, clientVars, fdVars, Works,
     Fault, Throw, Open, TypeOK, Threads, SurelyOpen, MaybeOpen, Early, Late, Serving, HasListener,
     HasEpoll, Unclaimed, Workers
<1>5. Attended'
  BY Distinct, ServeAssumption DEF ServeInv, CreateReloader, workerVars, clientVars, fdVars, Works,
     Fault, Throw, Open, TypeOK, Threads, MaybeOpen, Attended, HasListener, Unclaimed, Workers
<1> QED BY <1>1, <1>2, <1>3, <1>4, <1>5 DEF ServeInv

LEMMA RegisterServe ==
  ASSUME ServeInv, Register
  PROVE  ServeInv'
<1>1. TypeOK'
  <2>1. open' \subseteq Descriptors
    BY AllDescriptors, ServeAssumption DEF ServeInv, TypeOK, Register, workerVars, clientVars,
       fdVars, reloaderVars, Works, Fault, Throw, Workers
  <2>2. {running', failing', closedTwice', stopping'} \subseteq BOOLEAN
    BY DEF ServeInv, TypeOK, Register, workerVars, clientVars, fdVars, reloaderVars, Works, Fault,
       Throw
  <2>3. {requested', handled', target', faults'} \subseteq Nat
    BY DEF ServeInv, TypeOK, Register, workerVars, clientVars, fdVars, reloaderVars, Works, Fault,
       Throw
  <2>4. /\ made' \in 0..N /\ spawned' \in 0..N
        /\ worker' \in [Workers -> WorkerStates] /\ failed' \subseteq Workers
    BY ServeAssumption DEF ServeInv, TypeOK, Register, workerVars, clientVars, fdVars, reloaderVars,
       Works, Fault, Throw, Workers, WorkerStates
  <2>5. /\ queued' \in [Workers -> SUBSET Clients] /\ conns' \in [Workers -> SUBSET Clients]
        /\ gone' \subseteq Clients
    BY ServeAssumption DEF ServeInv, TypeOK, Register, workerVars, clientVars, fdVars, reloaderVars,
       Works, Fault, Throw, Workers
  <2>6. main' \in MainStates /\ reloader' \in ReloaderStates
    BY DEF ServeInv, TypeOK, Register, workerVars, clientVars, fdVars, reloaderVars, Works, Fault,
       Throw, MainStates, ReloaderStates
  <2> QED BY AllDescriptors, <2>1, <2>2, <2>3, <2>4, <2>5, <2>6 DEF TypeOK
<1>2. Threads'
  BY Distinct, ServeAssumption DEF ServeInv, Register, workerVars, clientVars, fdVars, reloaderVars,
     Works, Fault, Throw, TypeOK, Threads, Early, Late, Workers
<1>3. SurelyOpen'
  BY Distinct, ServeAssumption DEF ServeInv, Register, workerVars, clientVars, fdVars, reloaderVars,
     Works, Fault, Throw, TypeOK, Threads, SurelyOpen, MaybeOpen, Early, Late, Serving, HasListener,
     HasEpoll, Unclaimed, Workers
<1>4. MaybeOpen'
  BY Distinct, ServeAssumption DEF ServeInv, Register, workerVars, clientVars, fdVars, reloaderVars,
     Works, Fault, Throw, TypeOK, Threads, SurelyOpen, MaybeOpen, Early, Late, Serving, HasListener,
     HasEpoll, Unclaimed, Workers
<1>5. Attended'
  BY Distinct, ServeAssumption DEF ServeInv, Register, workerVars, clientVars, fdVars, reloaderVars,
     Works, Fault, Throw, TypeOK, Threads, MaybeOpen, Attended, HasListener, Unclaimed, Workers
<1> QED BY <1>1, <1>2, <1>3, <1>4, <1>5 DEF ServeInv

LEMMA CreateListenerServe ==
  ASSUME ServeInv, CreateListener
  PROVE  ServeInv'
<1>1. TypeOK'
  <2>1. open' \subseteq Descriptors
    BY AllDescriptors, ServeAssumption DEF ServeInv, TypeOK, CreateListener, workerVars, clientVars,
       fdVars, reloaderVars, Works, Fault, Throw, Open, Close, Reset, Workers
  <2>2. {running', failing', closedTwice', stopping'} \subseteq BOOLEAN
    BY DEF ServeInv, TypeOK, CreateListener, workerVars, clientVars, fdVars, reloaderVars, Works,
       Fault, Throw, Open, Close, Reset
  <2>3. {requested', handled', target', faults'} \subseteq Nat
    BY DEF ServeInv, TypeOK, CreateListener, workerVars, clientVars, fdVars, reloaderVars, Works,
       Fault, Throw, Open, Close, Reset
  <2>4. /\ made' \in 0..N /\ spawned' \in 0..N
        /\ worker' \in [Workers -> WorkerStates] /\ failed' \subseteq Workers
    BY ServeAssumption DEF ServeInv, TypeOK, CreateListener, workerVars, clientVars, fdVars,
       reloaderVars, Works, Fault, Throw, Open, Close, Reset, Workers, WorkerStates
  <2>5. /\ queued' \in [Workers -> SUBSET Clients] /\ conns' \in [Workers -> SUBSET Clients]
        /\ gone' \subseteq Clients
    <3>1. 1..made \subseteq Workers
      BY ServeAssumption DEF ServeInv, TypeOK, Workers
    <3>2. UNCHANGED clientVars \/ Reset(1..made)
      BY DEF CreateListener
    <3> QED BY <3>1, <3>2, ResetTyped DEF ServeInv, TypeOK, clientVars
  <2>6. main' \in MainStates /\ reloader' \in ReloaderStates
    BY DEF ServeInv, TypeOK, CreateListener, workerVars, clientVars, fdVars, reloaderVars, Works,
       Fault, Throw, Open, Close, Reset, MainStates, ReloaderStates
  <2> QED BY AllDescriptors, <2>1, <2>2, <2>3, <2>4, <2>5, <2>6 DEF TypeOK
<1>2. Threads'
  BY Distinct, ServeAssumption DEF ServeInv, CreateListener, workerVars, clientVars, fdVars,
     reloaderVars, Works, Fault, Throw, Open, Close, Reset, TypeOK, Threads, Early, Late, Workers
<1>3. SurelyOpen'
  <2>1. CASE made = N /\ main' = "spawn" /\ UNCHANGED <<failing, made, fdVars, clientVars>>
    BY <2>1, ServeAssumption DEF ServeInv, CreateListener, workerVars, fdVars, clientVars, TypeOK,
           Threads, SurelyOpen, Early, Late, Serving, HasListener, HasEpoll, Unclaimed, Workers
  <2>2. CASE /\ made < N /\ made' = made + 1 /\ Open({Listener(made + 1)})
             /\ UNCHANGED <<main, failing, clientVars>>
    <3>1. /\ UNCHANGED <<main, worker, closedTwice>> /\ made \in Nat /\ made' = made + 1
          /\ open' = open \cup {Listener(made + 1)}
      BY <2>2, ServeAssumption DEF ServeInv, TypeOK, CreateListener, workerVars, Open
    <3>2. \A w \in Workers : Unclaimed(w)' => Unclaimed(w) \/ w = made + 1
      BY <3>1 DEF Unclaimed, Workers
    <3> QED BY <3>1, <3>2 DEF ServeInv, SurelyOpen, HasListener, HasEpoll
  <2>3. CASE /\ made < N /\ Throw("stop") /\ UNCHANGED made /\ Reset(1..made)
             /\ Close({Listener(w) : w \in 1..made} \cup {Own("inotify"), Own("control")})
    BY <2>3, Distinct, ServeAssumption
       DEF ServeInv, CreateListener, workerVars, Throw, Reset, Close, TypeOK,
           Threads, SurelyOpen, Early, Late, Serving, HasListener, HasEpoll, Unclaimed, Workers
  <2> QED BY <2>1, <2>2, <2>3 DEF CreateListener
<1>4. MaybeOpen'
  BY Distinct, ServeAssumption DEF ServeInv, CreateListener, workerVars, clientVars, fdVars,
     reloaderVars, Works, Fault, Throw, Open, Close, Reset, TypeOK, Threads, SurelyOpen, MaybeOpen,
     Early, Late, Serving, HasListener, HasEpoll, Unclaimed, Workers
<1>5. Attended'
  <2>1. CASE made = N /\ main' = "spawn" /\ UNCHANGED <<failing, made, fdVars, clientVars>>
    BY <2>1, ServeAssumption DEF ServeInv, CreateListener, workerVars, fdVars, clientVars, TypeOK,
           Threads, MaybeOpen, Attended, HasListener, Unclaimed, Workers
  <2>2. CASE /\ made < N /\ made' = made + 1 /\ Open({Listener(made + 1)})
             /\ UNCHANGED <<main, failing, clientVars>>
    <3>1. UNCHANGED <<worker, failed, queued, conns>> /\ open \subseteq open'
      BY <2>2 DEF CreateListener, workerVars, clientVars, Open
    <3> QED BY <3>1 DEF ServeInv, Attended
  <2>3. CASE /\ made < N /\ Throw("stop") /\ UNCHANGED made /\ Reset(1..made)
             /\ Close({Listener(w) : w \in 1..made} \cup {Own("inotify"), Own("control")})
    <3>1. UNCHANGED <<worker, failed, conns>>
      BY <2>3 DEF CreateListener, workerVars, Reset
    <3>2. \A w \in Workers : queued'[w] # {} => w \notin 1..made /\ queued[w] # {}
      BY <2>3 DEF Reset
    <3>3. 1..made \subseteq Workers
      BY ServeAssumption DEF ServeInv, TypeOK, Workers
    <3>4. \A w \in Workers : w \notin 1..made /\ Listener(w) \in open => Listener(w) \in open'
      BY <2>3, <3>3, Distinct DEF Close
    <3> QED BY <3>1, <3>2, <3>4 DEF ServeInv, Attended
  <2> QED BY <2>1, <2>2, <2>3 DEF CreateListener
<1> QED BY <1>1, <1>2, <1>3, <1>4, <1>5 DEF ServeInv

LEMMA SpawnServe ==
  ASSUME ServeInv, Spawn
  PROVE  ServeInv'
<1>1. TypeOK'
  <2>1. open' \subseteq Descriptors
    BY AllDescriptors, ServeAssumption DEF ServeInv, TypeOK, Spawn, clientVars, fdVars,
       reloaderVars, Works, Fault, Throw, Close, Reset, Started, Workers
  <2>2. {running', failing', closedTwice', stopping'} \subseteq BOOLEAN
    BY DEF ServeInv, TypeOK, Spawn, clientVars, fdVars, reloaderVars, Works, Fault, Throw, Close,
       Reset, Started
  <2>3. {requested', handled', target', faults'} \subseteq Nat
    BY DEF ServeInv, TypeOK, Spawn, clientVars, fdVars, reloaderVars, Works, Fault, Throw, Close,
       Reset, Started
  <2>4. /\ made' \in 0..N /\ spawned' \in 0..N
        /\ worker' \in [Workers -> WorkerStates] /\ failed' \subseteq Workers
    BY ServeAssumption DEF ServeInv, TypeOK, Spawn, clientVars, fdVars, reloaderVars, Works, Fault,
       Throw, Close, Reset, Started, Workers, WorkerStates
  <2>5. /\ queued' \in [Workers -> SUBSET Clients] /\ conns' \in [Workers -> SUBSET Clients]
        /\ gone' \subseteq Clients
    BY ServeAssumption DEF ServeInv, TypeOK, Spawn, clientVars, fdVars, reloaderVars, Works, Fault,
       Throw, Close, Reset, Started, Workers
  <2>6. main' \in MainStates /\ reloader' \in ReloaderStates
    BY DEF ServeInv, TypeOK, Spawn, clientVars, fdVars, reloaderVars, Works, Fault, Throw, Close,
       Reset, Started, MainStates, ReloaderStates
  <2> QED BY AllDescriptors, <2>1, <2>2, <2>3, <2>4, <2>5, <2>6 DEF TypeOK
<1>2. Threads'
  BY Distinct, ServeAssumption DEF ServeInv, Spawn, clientVars, fdVars, reloaderVars, Works, Fault,
     Throw, Close, Reset, Started, TypeOK, Threads, Early, Late, Workers
<1>3. SurelyOpen'
  <2>1. CASE spawned = N /\ main' = "control" /\ UNCHANGED <<spawned, worker, fdVars>>
    BY <2>1 DEF ServeInv, Spawn, fdVars, TypeOK, Threads, SurelyOpen, Serving,
                HasListener, HasEpoll, Unclaimed
  <2>2. CASE /\ spawned < N /\ spawned' = spawned + 1 /\ Started(spawned + 1)
             /\ UNCHANGED <<main, fdVars>>
    BY <2>2, ServeAssumption DEF ServeInv, Spawn, fdVars, Started, TypeOK, Threads, SurelyOpen,
       Serving, HasListener, HasEpoll, Unclaimed, Workers
  <2>3. CASE /\ spawned < N /\ Throw("join") /\ UNCHANGED <<spawned, worker>>
             /\ Close({Listener(w) : w \in spawned+1..N})
    BY <2>3, Distinct, ServeAssumption DEF ServeInv, Spawn, Throw, Close, TypeOK, Threads,
       SurelyOpen, Serving, HasListener, HasEpoll, Unclaimed, Workers
  <2> QED BY <2>1, <2>2, <2>3 DEF Spawn
<1>4. MaybeOpen'
  BY Distinct, ServeAssumption DEF ServeInv, Spawn, clientVars, fdVars, reloaderVars, Works, Fault,
     Throw, Close, Reset, Started, TypeOK, Threads, SurelyOpen, MaybeOpen, Early, Late, Serving,
     HasListener, HasEpoll, Unclaimed, Workers
<1>5. Attended'
  <2>1. \A w \in Workers : worker'[w] # worker[w] => worker[w] = "none" /\ worker'[w] = "start"
    BY DEF ServeInv, TypeOK, Threads, Spawn, Started, Workers
  <2>2. conns' = conns /\ failed' = failed
    BY DEF Spawn, Reset, clientVars
  <2>3. \A w \in Workers : queued'[w] # {} => queued[w] # {} /\ Listener(w) \in open'
    <3>1. CASE UNCHANGED <<fdVars, clientVars>>
      BY <3>1 DEF fdVars, clientVars, ServeInv, Attended
    <3>2. CASE Close({Listener(w) : w \in spawned+1..N}) /\ Reset(spawned+1..N)
      <4>1. \A w \in Workers : queued'[w] = (IF w \in spawned+1..N THEN {} ELSE queued[w])
        BY <3>2 DEF Reset
      <4>2. \A w \in Workers : w \notin spawned+1..N =>
              Listener(w) \notin {Listener(v) : v \in spawned+1..N}
        BY Distinct DEF ServeInv, TypeOK, Workers
      <4> QED BY <3>2, <4>1, <4>2 DEF Close, ServeInv, Attended
    <3> QED BY <3>1, <3>2 DEF Spawn
  <2>4. \A w \in Workers : worker'[w] = "catch" => w \in failed'
    BY <2>1, <2>2 DEF ServeInv, Attended
  <2>5. \A w \in Workers : conns'[w] # {} =>
          w \in failed' \/ worker'[w] \in {"loop", "accept", "events", "closing"}
    BY <2>1, <2>2 DEF ServeInv, Attended
  <2> QED BY <2>3, <2>4, <2>5 DEF Attended, Workers, Listener
<1> QED BY <1>1, <1>2, <1>3, <1>4, <1>5 DEF ServeInv

LEMMA ControlServe ==
  ASSUME ServeInv, Control
  PROVE  ServeInv'
<1>1. TypeOK'
  BY AllDescriptors, ServeAssumption DEF ServeInv, Control, workerVars, clientVars, fdVars,
     reloaderVars, TypeOK, MainStates, ReloaderStates, WorkerStates, Workers
<1>2. Threads'
  BY Distinct, ServeAssumption DEF ServeInv, Control, workerVars, clientVars, fdVars, reloaderVars,
     TypeOK, Threads, Early, Late, Workers
<1>3. SurelyOpen'
  BY Distinct, ServeAssumption DEF ServeInv, Control, workerVars, clientVars, fdVars, reloaderVars,
     TypeOK, Threads, SurelyOpen, MaybeOpen, Early, Late, Serving, HasListener, HasEpoll, Unclaimed,
     Workers
<1>4. MaybeOpen'
  BY Distinct, ServeAssumption DEF ServeInv, Control, workerVars, clientVars, fdVars, reloaderVars,
     TypeOK, Threads, SurelyOpen, MaybeOpen, Early, Late, Serving, HasListener, HasEpoll, Unclaimed,
     Workers
<1>5. Attended'
  BY Distinct, ServeAssumption DEF ServeInv, Control, workerVars, clientVars, fdVars, reloaderVars,
     TypeOK, Threads, MaybeOpen, Attended, HasListener, Unclaimed, Workers
<1> QED BY <1>1, <1>2, <1>3, <1>4, <1>5 DEF ServeInv

LEMMA BatchServe ==
  ASSUME ServeInv, Batch
  PROVE  ServeInv'
<1>1. TypeOK'
  <2>1. open' \subseteq Descriptors
    BY AllDescriptors, ServeAssumption DEF ServeInv, TypeOK, Batch, workerVars, clientVars, fdVars,
       Works, Fault, Throw, Workers
  <2>2. {running', failing', closedTwice', stopping'} \subseteq BOOLEAN
    BY DEF ServeInv, TypeOK, Batch, workerVars, clientVars, fdVars, Works, Fault, Throw
  <2>3. {requested', handled', target', faults'} \subseteq Nat
    BY DEF ServeInv, TypeOK, Batch, workerVars, clientVars, fdVars, Works, Fault, Throw
  <2>4. /\ made' \in 0..N /\ spawned' \in 0..N
        /\ worker' \in [Workers -> WorkerStates] /\ failed' \subseteq Workers
    BY ServeAssumption DEF ServeInv, TypeOK, Batch, workerVars, clientVars, fdVars, Works, Fault,
       Throw, Workers, WorkerStates
  <2>5. /\ queued' \in [Workers -> SUBSET Clients] /\ conns' \in [Workers -> SUBSET Clients]
        /\ gone' \subseteq Clients
    BY ServeAssumption DEF ServeInv, TypeOK, Batch, workerVars, clientVars, fdVars, Works, Fault,
       Throw, Workers
  <2>6. main' \in MainStates /\ reloader' \in ReloaderStates
    BY DEF ServeInv, TypeOK, Batch, workerVars, clientVars, fdVars, Works, Fault, Throw, MainStates,
       ReloaderStates
  <2> QED BY AllDescriptors, <2>1, <2>2, <2>3, <2>4, <2>5, <2>6 DEF TypeOK
<1>2. Threads'
  BY Distinct, ServeAssumption DEF ServeInv, Batch, workerVars, clientVars, fdVars, Works, Fault,
     Throw, TypeOK, Threads, Early, Late, Workers
<1>3. SurelyOpen'
  BY Distinct, ServeAssumption DEF ServeInv, Batch, workerVars, clientVars, fdVars, Works, Fault,
     Throw, TypeOK, Threads, SurelyOpen, MaybeOpen, Early, Late, Serving, HasListener, HasEpoll,
     Unclaimed, Workers
<1>4. MaybeOpen'
  BY Distinct, ServeAssumption DEF ServeInv, Batch, workerVars, clientVars, fdVars, Works, Fault,
     Throw, TypeOK, Threads, SurelyOpen, MaybeOpen, Early, Late, Serving, HasListener, HasEpoll,
     Unclaimed, Workers
<1>5. Attended'
  BY Distinct, ServeAssumption DEF ServeInv, Batch, workerVars, clientVars, fdVars, Works, Fault,
     Throw, TypeOK, Threads, MaybeOpen, Attended, HasListener, Unclaimed, Workers
<1> QED BY <1>1, <1>2, <1>3, <1>4, <1>5 DEF ServeInv

LEMMA NotifyServe ==
  ASSUME ServeInv, Notify
  PROVE  ServeInv'
<1>1. TypeOK'
  BY AllDescriptors, ServeAssumption DEF ServeInv, Notify, workerVars, clientVars, fdVars, Woken,
     TypeOK, MainStates, ReloaderStates, WorkerStates, Workers
<1>2. Threads'
  BY Distinct, ServeAssumption DEF ServeInv, Notify, workerVars, clientVars, fdVars, Woken, TypeOK,
     Threads, Early, Late, Workers
<1>3. SurelyOpen'
  BY Distinct, ServeAssumption DEF ServeInv, Notify, workerVars, clientVars, fdVars, Woken, TypeOK,
     Threads, SurelyOpen, MaybeOpen, Early, Late, Serving, HasListener, HasEpoll, Unclaimed, Workers
<1>4. MaybeOpen'
  BY Distinct, ServeAssumption DEF ServeInv, Notify, workerVars, clientVars, fdVars, Woken, TypeOK,
     Threads, SurelyOpen, MaybeOpen, Early, Late, Serving, HasListener, HasEpoll, Unclaimed, Workers
<1>5. Attended'
  BY Distinct, ServeAssumption DEF ServeInv, Notify, workerVars, clientVars, fdVars, Woken, TypeOK,
     Threads, MaybeOpen, Attended, HasListener, Unclaimed, Workers
<1> QED BY <1>1, <1>2, <1>3, <1>4, <1>5 DEF ServeInv

LEMMA JoinServe ==
  ASSUME ServeInv, Join
  PROVE  ServeInv'
<1>1. TypeOK'
  <2>1. open' \subseteq Descriptors
    BY AllDescriptors, ServeAssumption DEF ServeInv, TypeOK, Join, workerVars, clientVars,
       reloaderVars, Close, Workers
  <2>2. {running', failing', closedTwice', stopping'} \subseteq BOOLEAN
    BY DEF ServeInv, TypeOK, Join, workerVars, clientVars, reloaderVars, Close
  <2>3. {requested', handled', target', faults'} \subseteq Nat
    BY DEF ServeInv, TypeOK, Join, workerVars, clientVars, reloaderVars, Close
  <2>4. /\ made' \in 0..N /\ spawned' \in 0..N
        /\ worker' \in [Workers -> WorkerStates] /\ failed' \subseteq Workers
    BY ServeAssumption DEF ServeInv, TypeOK, Join, workerVars, clientVars, reloaderVars, Close,
       Workers, WorkerStates
  <2>5. /\ queued' \in [Workers -> SUBSET Clients] /\ conns' \in [Workers -> SUBSET Clients]
        /\ gone' \subseteq Clients
    BY ServeAssumption DEF ServeInv, TypeOK, Join, workerVars, clientVars, reloaderVars, Close,
       Workers
  <2>6. main' \in MainStates /\ reloader' \in ReloaderStates
    BY DEF ServeInv, TypeOK, Join, workerVars, clientVars, reloaderVars, Close, MainStates,
       ReloaderStates
  <2> QED BY AllDescriptors, <2>1, <2>2, <2>3, <2>4, <2>5, <2>6 DEF TypeOK
<1>2. Threads'
  BY Distinct, ServeAssumption DEF ServeInv, Join, workerVars, clientVars, reloaderVars, Close,
     TypeOK, Threads, Early, Late, Workers
<1>3. SurelyOpen'
  BY Distinct, ServeAssumption DEF ServeInv, Join, workerVars, clientVars, reloaderVars, Close,
     TypeOK, Threads, SurelyOpen, MaybeOpen, Early, Late, Serving, HasListener, HasEpoll, Unclaimed,
     Workers
<1>4. MaybeOpen'
  <2>1. /\ open' = open \ {Own("inotify"), Own("control")} /\ main' = "stop"
        /\ UNCHANGED <<worker, failed, made, spawned, failing>>
    BY DEF Join, Close, workerVars
  <2>2. \A w \in Workers : (HasListener(w)' <=> HasListener(w)) /\ (HasEpoll(w)' <=> HasEpoll(w))
    BY <2>1 DEF HasListener, HasEpoll
  <2>3. \A w \in Workers : ~Unclaimed(w)
    BY DEF Join, Unclaimed
  <2>4. \A w \in Workers : Listener(w) \in open' => w \in failed' \/ HasListener(w)'
    BY <2>1, <2>2, <2>3 DEF ServeInv, MaybeOpen
  <2>5. \A w \in Workers : Epoll(w) \in open' => w \in failed' \/ HasEpoll(w)'
    BY <2>1, <2>2 DEF ServeInv, MaybeOpen
  <2>6. Own("control") \notin open' /\ Own("inotify") \notin open' /\ main' = "stop"
    BY <2>1
  <2> QED BY <2>4, <2>5, <2>6
          DEF MaybeOpen, HasListener, HasEpoll, Unclaimed, Workers, Listener, Epoll, Own
<1>5. Attended'
  BY Distinct, ServeAssumption DEF ServeInv, Join, workerVars, clientVars, reloaderVars, Close,
     TypeOK, Threads, MaybeOpen, Attended, HasListener, Unclaimed, Workers
<1> QED BY <1>1, <1>2, <1>3, <1>4, <1>5 DEF ServeInv

LEMMA StopReloaderServe ==
  ASSUME ServeInv, StopReloader
  PROVE  ServeInv'
<1>1. TypeOK'
  BY AllDescriptors, ServeAssumption DEF ServeInv, StopReloader, workerVars, clientVars, fdVars,
     TypeOK, MainStates, ReloaderStates, WorkerStates, Workers
<1>2. Threads'
  BY Distinct, ServeAssumption DEF ServeInv, StopReloader, workerVars, clientVars, fdVars, TypeOK,
     Threads, Early, Late, Workers
<1>3. SurelyOpen'
  BY Distinct, ServeAssumption DEF ServeInv, StopReloader, workerVars, clientVars, fdVars, TypeOK,
     Threads, SurelyOpen, MaybeOpen, Early, Late, Serving, HasListener, HasEpoll, Unclaimed, Workers
<1>4. MaybeOpen'
  BY Distinct, ServeAssumption DEF ServeInv, StopReloader, workerVars, clientVars, fdVars, TypeOK,
     Threads, SurelyOpen, MaybeOpen, Early, Late, Serving, HasListener, HasEpoll, Unclaimed, Workers
<1>5. Attended'
  BY Distinct, ServeAssumption DEF ServeInv, StopReloader, workerVars, clientVars, fdVars, TypeOK,
     Threads, MaybeOpen, Attended, HasListener, Unclaimed, Workers
<1> QED BY <1>1, <1>2, <1>3, <1>4, <1>5 DEF ServeInv

LEMMA WakeReloaderServe ==
  ASSUME ServeInv, WakeReloader
  PROVE  ServeInv'
<1>1. TypeOK'
  BY AllDescriptors, ServeAssumption DEF ServeInv, WakeReloader, workerVars, clientVars, fdVars,
     Woken, TypeOK, MainStates, ReloaderStates, WorkerStates, Workers
<1>2. Threads'
  BY Distinct, ServeAssumption DEF ServeInv, WakeReloader, workerVars, clientVars, fdVars, Woken,
     TypeOK, Threads, Early, Late, Workers
<1>3. SurelyOpen'
  BY Distinct, ServeAssumption DEF ServeInv, WakeReloader, workerVars, clientVars, fdVars, Woken,
     TypeOK, Threads, SurelyOpen, MaybeOpen, Early, Late, Serving, HasListener, HasEpoll, Unclaimed,
     Workers
<1>4. MaybeOpen'
  BY Distinct, ServeAssumption DEF ServeInv, WakeReloader, workerVars, clientVars, fdVars, Woken,
     TypeOK, Threads, SurelyOpen, MaybeOpen, Early, Late, Serving, HasListener, HasEpoll, Unclaimed,
     Workers
<1>5. Attended'
  BY Distinct, ServeAssumption DEF ServeInv, WakeReloader, workerVars, clientVars, fdVars, Woken,
     TypeOK, Threads, MaybeOpen, Attended, HasListener, Unclaimed, Workers
<1> QED BY <1>1, <1>2, <1>3, <1>4, <1>5 DEF ServeInv

LEMMA JoinReloaderServe ==
  ASSUME ServeInv, JoinReloader
  PROVE  ServeInv'
<1>1. TypeOK'
  <2>1. open' \subseteq Descriptors
    BY AllDescriptors, ServeAssumption DEF ServeInv, TypeOK, JoinReloader, workerVars, clientVars,
       reloaderVars, Close, Workers
  <2>2. {running', failing', closedTwice', stopping'} \subseteq BOOLEAN
    BY DEF ServeInv, TypeOK, JoinReloader, workerVars, clientVars, reloaderVars, Close
  <2>3. {requested', handled', target', faults'} \subseteq Nat
    BY DEF ServeInv, TypeOK, JoinReloader, workerVars, clientVars, reloaderVars, Close
  <2>4. /\ made' \in 0..N /\ spawned' \in 0..N
        /\ worker' \in [Workers -> WorkerStates] /\ failed' \subseteq Workers
    BY ServeAssumption DEF ServeInv, TypeOK, JoinReloader, workerVars, clientVars, reloaderVars,
       Close, Workers, WorkerStates
  <2>5. /\ queued' \in [Workers -> SUBSET Clients] /\ conns' \in [Workers -> SUBSET Clients]
        /\ gone' \subseteq Clients
    BY ServeAssumption DEF ServeInv, TypeOK, JoinReloader, workerVars, clientVars, reloaderVars,
       Close, Workers
  <2>6. main' \in MainStates /\ reloader' \in ReloaderStates
    BY DEF ServeInv, TypeOK, JoinReloader, workerVars, clientVars, reloaderVars, Close, MainStates,
       ReloaderStates
  <2> QED BY AllDescriptors, <2>1, <2>2, <2>3, <2>4, <2>5, <2>6 DEF TypeOK
<1>2. Threads'
  BY Distinct, ServeAssumption DEF ServeInv, JoinReloader, workerVars, clientVars, reloaderVars,
     Close, TypeOK, Threads, Early, Late, Workers
<1>3. SurelyOpen'
  BY Distinct, ServeAssumption DEF ServeInv, JoinReloader, workerVars, clientVars, reloaderVars,
     Close, TypeOK, Threads, SurelyOpen, MaybeOpen, Early, Late, Serving, HasListener, HasEpoll,
     Unclaimed, Workers
<1>4. MaybeOpen'
  BY Distinct, ServeAssumption DEF ServeInv, JoinReloader, workerVars, clientVars, reloaderVars,
     Close, TypeOK, Threads, SurelyOpen, MaybeOpen, Early, Late, Serving, HasListener, HasEpoll,
     Unclaimed, Workers
<1>5. Attended'
  BY Distinct, ServeAssumption DEF ServeInv, JoinReloader, workerVars, clientVars, reloaderVars,
     Close, TypeOK, Threads, MaybeOpen, Attended, HasListener, Unclaimed, Workers
<1> QED BY <1>1, <1>2, <1>3, <1>4, <1>5 DEF ServeInv

LEMMA CheckServe ==
  ASSUME ServeInv, Check
  PROVE  ServeInv'
<1>1. TypeOK'
  BY AllDescriptors, ServeAssumption DEF ServeInv, Check, workerVars, clientVars, fdVars, mainVars,
     TypeOK, MainStates, ReloaderStates, WorkerStates, Workers
<1>2. Threads'
  BY Distinct, ServeAssumption DEF ServeInv, Check, workerVars, clientVars, fdVars, mainVars,
     TypeOK, Threads, Early, Late, Workers
<1>3. SurelyOpen'
  BY Distinct, ServeAssumption DEF ServeInv, Check, workerVars, clientVars, fdVars, mainVars,
     TypeOK, Threads, SurelyOpen, MaybeOpen, Early, Late, Serving, HasListener, HasEpoll, Unclaimed,
     Workers
<1>4. MaybeOpen'
  BY Distinct, ServeAssumption DEF ServeInv, Check, workerVars, clientVars, fdVars, mainVars,
     TypeOK, Threads, SurelyOpen, MaybeOpen, Early, Late, Serving, HasListener, HasEpoll, Unclaimed,
     Workers
<1>5. Attended'
  BY Distinct, ServeAssumption DEF ServeInv, Check, workerVars, clientVars, fdVars, mainVars,
     TypeOK, Threads, MaybeOpen, Attended, HasListener, Unclaimed, Workers
<1> QED BY <1>1, <1>2, <1>3, <1>4, <1>5 DEF ServeInv

LEMMA LoadServe ==
  ASSUME ServeInv, Load
  PROVE  ServeInv'
<1>1. TypeOK'
  BY AllDescriptors, ServeAssumption DEF ServeInv, Load, workerVars, clientVars, fdVars, mainVars,
     TypeOK, MainStates, ReloaderStates, WorkerStates, Workers
<1>2. Threads'
  BY Distinct, ServeAssumption DEF ServeInv, Load, workerVars, clientVars, fdVars, mainVars, TypeOK,
     Threads, Early, Late, Workers
<1>3. SurelyOpen'
  BY Distinct, ServeAssumption DEF ServeInv, Load, workerVars, clientVars, fdVars, mainVars, TypeOK,
     Threads, SurelyOpen, MaybeOpen, Early, Late, Serving, HasListener, HasEpoll, Unclaimed, Workers
<1>4. MaybeOpen'
  BY Distinct, ServeAssumption DEF ServeInv, Load, workerVars, clientVars, fdVars, mainVars, TypeOK,
     Threads, SurelyOpen, MaybeOpen, Early, Late, Serving, HasListener, HasEpoll, Unclaimed, Workers
<1>5. Attended'
  BY Distinct, ServeAssumption DEF ServeInv, Load, workerVars, clientVars, fdVars, mainVars, TypeOK,
     Threads, MaybeOpen, Attended, HasListener, Unclaimed, Workers
<1> QED BY <1>1, <1>2, <1>3, <1>4, <1>5 DEF ServeInv

LEMMA SpuriousServe ==
  ASSUME ServeInv, Spurious
  PROVE  ServeInv'
<1>1. TypeOK'
  BY AllDescriptors, ServeAssumption DEF ServeInv, Spurious, workerVars, clientVars, fdVars,
     mainVars, TypeOK, MainStates, ReloaderStates, WorkerStates, Workers
<1>2. Threads'
  BY Distinct, ServeAssumption DEF ServeInv, Spurious, workerVars, clientVars, fdVars, mainVars,
     TypeOK, Threads, Early, Late, Workers
<1>3. SurelyOpen'
  BY Distinct, ServeAssumption DEF ServeInv, Spurious, workerVars, clientVars, fdVars, mainVars,
     TypeOK, Threads, SurelyOpen, MaybeOpen, Early, Late, Serving, HasListener, HasEpoll, Unclaimed,
     Workers
<1>4. MaybeOpen'
  BY Distinct, ServeAssumption DEF ServeInv, Spurious, workerVars, clientVars, fdVars, mainVars,
     TypeOK, Threads, SurelyOpen, MaybeOpen, Early, Late, Serving, HasListener, HasEpoll, Unclaimed,
     Workers
<1>5. Attended'
  BY Distinct, ServeAssumption DEF ServeInv, Spurious, workerVars, clientVars, fdVars, mainVars,
     TypeOK, Threads, MaybeOpen, Attended, HasListener, Unclaimed, Workers
<1> QED BY <1>1, <1>2, <1>3, <1>4, <1>5 DEF ServeInv

LEMMA SignalServe ==
  ASSUME ServeInv, Signal
  PROVE  ServeInv'
<1>1. TypeOK'
  BY AllDescriptors, ServeAssumption DEF ServeInv, Signal, workerVars, clientVars, fdVars,
     reloaderVars, mainVars, TypeOK, MainStates, ReloaderStates, WorkerStates, Workers
<1>2. Threads'
  BY Distinct, ServeAssumption DEF ServeInv, Signal, workerVars, clientVars, fdVars, reloaderVars,
     mainVars, TypeOK, Threads, Early, Late, Workers
<1>3. SurelyOpen'
  BY Distinct, ServeAssumption DEF ServeInv, Signal, workerVars, clientVars, fdVars, reloaderVars,
     mainVars, TypeOK, Threads, SurelyOpen, MaybeOpen, Early, Late, Serving, HasListener, HasEpoll,
     Unclaimed, Workers
<1>4. MaybeOpen'
  BY Distinct, ServeAssumption DEF ServeInv, Signal, workerVars, clientVars, fdVars, reloaderVars,
     mainVars, TypeOK, Threads, SurelyOpen, MaybeOpen, Early, Late, Serving, HasListener, HasEpoll,
     Unclaimed, Workers
<1>5. Attended'
  BY Distinct, ServeAssumption DEF ServeInv, Signal, workerVars, clientVars, fdVars, reloaderVars,
     mainVars, TypeOK, Threads, MaybeOpen, Attended, HasListener, Unclaimed, Workers
<1> QED BY <1>1, <1>2, <1>3, <1>4, <1>5 DEF ServeInv

LEMMA WorkerStartServe ==
  ASSUME ServeInv, NEW w0 \in Workers, WorkerStart(w0)
  PROVE  ServeInv'
<1>1. TypeOK'
  <2>1. open' \subseteq Descriptors
    BY AllDescriptors, ServeAssumption DEF ServeInv, TypeOK, WorkerStart, clientVars, reloaderVars,
       mainVars, Works, Fault, Open, Close, Reset, At, Workers
  <2>2. {running', failing', closedTwice', stopping'} \subseteq BOOLEAN
    BY DEF ServeInv, TypeOK, WorkerStart, clientVars, reloaderVars, mainVars, Works, Fault, Open,
       Close, Reset, At
  <2>3. {requested', handled', target', faults'} \subseteq Nat
    BY DEF ServeInv, TypeOK, WorkerStart, clientVars, reloaderVars, mainVars, Works, Fault, Open,
       Close, Reset, At
  <2>4. /\ made' \in 0..N /\ spawned' \in 0..N
        /\ worker' \in [Workers -> WorkerStates] /\ failed' \subseteq Workers
    BY ServeAssumption DEF ServeInv, TypeOK, WorkerStart, clientVars, reloaderVars, mainVars, Works,
       Fault, Open, Close, Reset, At, Workers, WorkerStates
  <2>5. /\ queued' \in [Workers -> SUBSET Clients] /\ conns' \in [Workers -> SUBSET Clients]
        /\ gone' \subseteq Clients
    BY ServeAssumption DEF ServeInv, TypeOK, WorkerStart, clientVars, reloaderVars, mainVars, Works,
       Fault, Open, Close, Reset, At, Workers
  <2>6. main' \in MainStates /\ reloader' \in ReloaderStates
    BY DEF ServeInv, TypeOK, WorkerStart, clientVars, reloaderVars, mainVars, Works, Fault, Open,
       Close, Reset, At, MainStates, ReloaderStates
  <2> QED BY AllDescriptors, <2>1, <2>2, <2>3, <2>4, <2>5, <2>6 DEF TypeOK
<1>2. Threads'
  BY Distinct, ServeAssumption DEF ServeInv, WorkerStart, clientVars, reloaderVars, mainVars, Works,
     Fault, Open, Close, Reset, At, TypeOK, Threads, Early, Late, Workers
<1>3. SurelyOpen'
  BY Distinct, ServeAssumption DEF ServeInv, WorkerStart, clientVars, reloaderVars, mainVars, Works,
     Fault, Open, Close, Reset, At, TypeOK, Threads, SurelyOpen, MaybeOpen, Early, Late, Serving,
     HasListener, HasEpoll, Unclaimed, Workers
<1>4. MaybeOpen'
  BY Distinct, ServeAssumption DEF ServeInv, WorkerStart, clientVars, reloaderVars, mainVars, Works,
     Fault, Open, Close, Reset, At, TypeOK, Threads, SurelyOpen, MaybeOpen, Early, Late, Serving,
     HasListener, HasEpoll, Unclaimed, Workers
<1>5. Attended'
  BY Distinct, ServeAssumption DEF ServeInv, WorkerStart, clientVars, reloaderVars, mainVars, Works,
     Fault, Open, Close, Reset, At, TypeOK, Threads, MaybeOpen, Attended, HasListener, Unclaimed,
     Workers
<1> QED BY <1>1, <1>2, <1>3, <1>4, <1>5 DEF ServeInv

LEMMA WorkerRegisterServe ==
  ASSUME ServeInv, NEW w0 \in Workers, WorkerRegister(w0)
  PROVE  ServeInv'
<1>1. TypeOK'
  <2>1. open' \subseteq Descriptors
    BY AllDescriptors, ServeAssumption DEF ServeInv, TypeOK, WorkerRegister, clientVars, fdVars,
       reloaderVars, mainVars, Works, Fault, At, Workers
  <2>2. {running', failing', closedTwice', stopping'} \subseteq BOOLEAN
    BY DEF ServeInv, TypeOK, WorkerRegister, clientVars, fdVars, reloaderVars, mainVars, Works,
       Fault, At
  <2>3. {requested', handled', target', faults'} \subseteq Nat
    BY DEF ServeInv, TypeOK, WorkerRegister, clientVars, fdVars, reloaderVars, mainVars, Works,
       Fault, At
  <2>4. /\ made' \in 0..N /\ spawned' \in 0..N
        /\ worker' \in [Workers -> WorkerStates] /\ failed' \subseteq Workers
    BY ServeAssumption DEF ServeInv, TypeOK, WorkerRegister, clientVars, fdVars, reloaderVars,
       mainVars, Works, Fault, At, Workers, WorkerStates
  <2>5. /\ queued' \in [Workers -> SUBSET Clients] /\ conns' \in [Workers -> SUBSET Clients]
        /\ gone' \subseteq Clients
    BY ServeAssumption DEF ServeInv, TypeOK, WorkerRegister, clientVars, fdVars, reloaderVars,
       mainVars, Works, Fault, At, Workers
  <2>6. main' \in MainStates /\ reloader' \in ReloaderStates
    BY DEF ServeInv, TypeOK, WorkerRegister, clientVars, fdVars, reloaderVars, mainVars, Works,
       Fault, At, MainStates, ReloaderStates
  <2> QED BY AllDescriptors, <2>1, <2>2, <2>3, <2>4, <2>5, <2>6 DEF TypeOK
<1>2. Threads'
  BY Distinct, ServeAssumption DEF ServeInv, WorkerRegister, clientVars, fdVars, reloaderVars,
     mainVars, Works, Fault, At, TypeOK, Threads, Early, Late, Workers
<1>3. SurelyOpen'
  BY Distinct, ServeAssumption DEF ServeInv, WorkerRegister, clientVars, fdVars, reloaderVars,
     mainVars, Works, Fault, At, TypeOK, Threads, SurelyOpen, MaybeOpen, Early, Late, Serving,
     HasListener, HasEpoll, Unclaimed, Workers
<1>4. MaybeOpen'
  <2>1. UNCHANGED <<main, failing, made, spawned, open, reloader>>
    BY DEF WorkerRegister, mainVars, fdVars, reloaderVars
  <2>2. /\ \A w \in Workers \ {w0} : worker'[w] = worker[w]
        /\ failed \subseteq failed' /\ worker[w0] # "none"
        /\ w0 \in failed' \/ worker'[w0] = "loop"
    BY DEF ServeInv, TypeOK, WorkerRegister, At
  <2> QED BY <2>1, <2>2 DEF ServeInv, MaybeOpen, HasListener, HasEpoll, Unclaimed
<1>5. Attended'
  BY Distinct, ServeAssumption DEF ServeInv, WorkerRegister, clientVars, fdVars, reloaderVars,
     mainVars, Works, Fault, At, TypeOK, Threads, MaybeOpen, Attended, HasListener, Unclaimed,
     Workers
<1> QED BY <1>1, <1>2, <1>3, <1>4, <1>5 DEF ServeInv

LEMMA WaitServe ==
  ASSUME ServeInv, NEW w0 \in Workers, Wait(w0)
  PROVE  ServeInv'
<1>1. TypeOK'
  <2>1. open' \subseteq Descriptors
    BY AllDescriptors, ServeAssumption DEF ServeInv, TypeOK, Wait, clientVars, fdVars, reloaderVars,
       mainVars, Works, Fault, At, Workers
  <2>2. {running', failing', closedTwice', stopping'} \subseteq BOOLEAN
    BY DEF ServeInv, TypeOK, Wait, clientVars, fdVars, reloaderVars, mainVars, Works, Fault, At
  <2>3. {requested', handled', target', faults'} \subseteq Nat
    BY DEF ServeInv, TypeOK, Wait, clientVars, fdVars, reloaderVars, mainVars, Works, Fault, At
  <2>4. /\ made' \in 0..N /\ spawned' \in 0..N
        /\ worker' \in [Workers -> WorkerStates] /\ failed' \subseteq Workers
    BY ServeAssumption DEF ServeInv, TypeOK, Wait, clientVars, fdVars, reloaderVars, mainVars,
       Works, Fault, At, Workers, WorkerStates
  <2>5. /\ queued' \in [Workers -> SUBSET Clients] /\ conns' \in [Workers -> SUBSET Clients]
        /\ gone' \subseteq Clients
    BY ServeAssumption DEF ServeInv, TypeOK, Wait, clientVars, fdVars, reloaderVars, mainVars,
       Works, Fault, At, Workers
  <2>6. main' \in MainStates /\ reloader' \in ReloaderStates
    BY DEF ServeInv, TypeOK, Wait, clientVars, fdVars, reloaderVars, mainVars, Works, Fault, At,
       MainStates, ReloaderStates
  <2> QED BY AllDescriptors, <2>1, <2>2, <2>3, <2>4, <2>5, <2>6 DEF TypeOK
<1>2. Threads'
  BY Distinct, ServeAssumption DEF ServeInv, Wait, clientVars, fdVars, reloaderVars, mainVars,
     Works, Fault, At, TypeOK, Threads, Early, Late, Workers
<1>3. SurelyOpen'
  BY Distinct, ServeAssumption DEF ServeInv, Wait, clientVars, fdVars, reloaderVars, mainVars,
     Works, Fault, At, TypeOK, Threads, SurelyOpen, MaybeOpen, Early, Late, Serving, HasListener,
     HasEpoll, Unclaimed, Workers
<1>4. MaybeOpen'
  <2>1. UNCHANGED <<main, failing, made, spawned, open, reloader>>
    BY DEF Wait, mainVars, fdVars, reloaderVars
  <2>2. /\ \A w \in Workers \ {w0} : worker'[w] = worker[w]
        /\ failed \subseteq failed' /\ worker[w0] # "none"
        /\ w0 \in failed' \/ worker'[w0] \in {"accept", "closing"}
    BY DEF ServeInv, TypeOK, Wait, At
  <2> QED BY <2>1, <2>2 DEF ServeInv, MaybeOpen, HasListener, HasEpoll, Unclaimed
<1>5. Attended'
  <2>1. UNCHANGED <<queued, conns, open>>
    BY DEF Wait, clientVars, fdVars
  <2>2. /\ \A w \in Workers \ {w0} : worker'[w] = worker[w]
        /\ failed \subseteq failed'
        /\ \/ w0 \in failed'
           \/ worker'[w0] \in {"accept", "closing"}
    BY DEF ServeInv, TypeOK, Wait, At
  <2> QED BY <2>1, <2>2 DEF ServeInv, Attended
<1> QED BY <1>1, <1>2, <1>3, <1>4, <1>5 DEF ServeInv

LEMMA AcceptServe ==
  ASSUME ServeInv, NEW w0 \in Workers, Accept(w0)
  PROVE  ServeInv'
<1>1. TypeOK'
  <2>1. open' \subseteq Descriptors
    BY AllDescriptors, ServeAssumption DEF ServeInv, TypeOK, Accept, clientVars, fdVars,
       reloaderVars, mainVars, Works, Fault, At, Workers
  <2>2. {running', failing', closedTwice', stopping'} \subseteq BOOLEAN
    BY DEF ServeInv, TypeOK, Accept, clientVars, fdVars, reloaderVars, mainVars, Works, Fault, At
  <2>3. {requested', handled', target', faults'} \subseteq Nat
    BY DEF ServeInv, TypeOK, Accept, clientVars, fdVars, reloaderVars, mainVars, Works, Fault, At
  <2>4. /\ made' \in 0..N /\ spawned' \in 0..N
        /\ worker' \in [Workers -> WorkerStates] /\ failed' \subseteq Workers
    BY ServeAssumption DEF ServeInv, TypeOK, Accept, clientVars, fdVars, reloaderVars, mainVars,
       Works, Fault, At, Workers, WorkerStates
  <2>5. /\ queued' \in [Workers -> SUBSET Clients] /\ conns' \in [Workers -> SUBSET Clients]
        /\ gone' \subseteq Clients
    <3>1. /\ queued \in [Workers -> SUBSET Clients] /\ conns \in [Workers -> SUBSET Clients]
          /\ gone \subseteq Clients /\ queued[w0] \subseteq Clients
      BY DEF ServeInv, TypeOK
    <3>2. CASE UNCHANGED clientVars
      BY <3>1, <3>2 DEF clientVars
    <3>3. ASSUME NEW c \in queued[w0], queued' = [queued EXCEPT ![w0] = @ \ {c}],
                 \/ conns' = [conns EXCEPT ![w0] = @ \cup {c}] /\ gone' = gone
                 \/ conns' = conns /\ gone' = gone \cup {c}
          PROVE  /\ queued' \in [Workers -> SUBSET Clients] /\ conns' \in [Workers -> SUBSET Clients]
                 /\ gone' \subseteq Clients
      BY <3>1, <3>3
    <3> QED BY <3>2, <3>3 DEF Accept
  <2>6. main' \in MainStates /\ reloader' \in ReloaderStates
    BY DEF ServeInv, TypeOK, Accept, clientVars, fdVars, reloaderVars, mainVars, Works, Fault, At,
       MainStates, ReloaderStates
  <2> QED BY AllDescriptors, <2>1, <2>2, <2>3, <2>4, <2>5, <2>6 DEF TypeOK
<1>2. Threads'
  BY Distinct, ServeAssumption DEF ServeInv, Accept, clientVars, fdVars, reloaderVars, mainVars,
     Works, Fault, At, TypeOK, Threads, Early, Late, Workers
<1>3. SurelyOpen'
  BY Distinct, ServeAssumption DEF ServeInv, Accept, clientVars, fdVars, reloaderVars, mainVars,
     Works, Fault, At, TypeOK, Threads, SurelyOpen, MaybeOpen, Early, Late, Serving, HasListener,
     HasEpoll, Unclaimed, Workers
<1>4. MaybeOpen'
  <2>1. /\ UNCHANGED <<open, main, made, spawned, failing, reloader>> /\ failed \subseteq failed'
        /\ worker[w0] = "accept" /\ worker'[w0] \in {"events", "accept", "catch"}
        /\ worker'[w0] = "catch" => w0 \in failed'
        /\ \A w \in Workers \ {w0} : worker'[w] = worker[w]
    BY DEF ServeInv, TypeOK, Accept, At, Works, Fault, fdVars, mainVars, reloaderVars
  <2>2. \A w \in Workers : HasListener(w) => w \in failed' \/ HasListener(w)'
    BY <2>1 DEF HasListener
  <2>3. \A w \in Workers : HasEpoll(w) => w \in failed' \/ HasEpoll(w)'
    BY <2>1 DEF HasEpoll
  <2>4. \A w \in Workers : Unclaimed(w) => Unclaimed(w)'
    BY <2>1 DEF Unclaimed
  <2> QED BY <2>1, <2>2, <2>3, <2>4
          DEF ServeInv, MaybeOpen, Late, Workers, Listener, Epoll, Own
<1>5. Attended'
  <2>1. /\ open' = open /\ failed \subseteq failed'
        /\ worker[w0] = "accept" /\ worker'[w0] \in {"events", "accept", "catch"}
        /\ worker'[w0] = "catch" => w0 \in failed'
        /\ \A w \in Workers \ {w0} : worker'[w] = worker[w]
    BY DEF ServeInv, TypeOK, Accept, At, Works, Fault, fdVars
  <2>2. \A w \in Workers : queued'[w] \subseteq queued[w]
    BY DEF ServeInv, TypeOK, Accept, clientVars
  <2>3. \A w \in Workers \ {w0} : conns'[w] = conns[w]
    BY DEF ServeInv, TypeOK, Accept, clientVars
  <2>4. \A w \in Workers : worker'[w] = "catch" => w \in failed'
    BY <2>1 DEF ServeInv, Attended
  <2>5. \A w \in Workers : queued'[w] # {} => Listener(w) \in open'
    BY <2>1, <2>2 DEF ServeInv, Attended
  <2>6. \A w \in Workers : conns'[w] # {} =>
          w \in failed' \/ worker'[w] \in {"loop", "accept", "events", "closing"}
    BY <2>1, <2>3 DEF ServeInv, Attended
  <2> QED BY <2>4, <2>5, <2>6 DEF Attended, Workers, Listener
<1> QED BY <1>1, <1>2, <1>3, <1>4, <1>5 DEF ServeInv

LEMMA EventsServe ==
  ASSUME ServeInv, NEW w0 \in Workers, Events(w0)
  PROVE  ServeInv'
<1>1. TypeOK'
  <2>1. open' \subseteq Descriptors
    BY AllDescriptors, ServeAssumption DEF ServeInv, TypeOK, Events, clientVars, fdVars,
       reloaderVars, mainVars, Works, Fault, At, Workers
  <2>2. {running', failing', closedTwice', stopping'} \subseteq BOOLEAN
    BY DEF ServeInv, TypeOK, Events, clientVars, fdVars, reloaderVars, mainVars, Works, Fault, At
  <2>3. {requested', handled', target', faults'} \subseteq Nat
    BY DEF ServeInv, TypeOK, Events, clientVars, fdVars, reloaderVars, mainVars, Works, Fault, At
  <2>4. /\ made' \in 0..N /\ spawned' \in 0..N
        /\ worker' \in [Workers -> WorkerStates] /\ failed' \subseteq Workers
    BY ServeAssumption DEF ServeInv, TypeOK, Events, clientVars, fdVars, reloaderVars, mainVars, Works, Fault, At,
       Workers, WorkerStates
  <2>5. /\ queued' \in [Workers -> SUBSET Clients] /\ conns' \in [Workers -> SUBSET Clients]
        /\ gone' \subseteq Clients
    BY ServeAssumption DEF ServeInv, TypeOK, Events, clientVars, fdVars, reloaderVars, mainVars, Works, Fault, At,
       Workers
  <2>6. main' \in MainStates /\ reloader' \in ReloaderStates
    BY DEF ServeInv, TypeOK, Events, clientVars, fdVars, reloaderVars, mainVars, Works, Fault, At, MainStates,
       ReloaderStates
  <2> QED BY AllDescriptors, <2>1, <2>2, <2>3, <2>4, <2>5, <2>6 DEF TypeOK
<1>2. Threads'
  BY Distinct, ServeAssumption DEF ServeInv, Events, clientVars, fdVars, reloaderVars, mainVars, Works, Fault, At,
     TypeOK, Threads, Early, Late, Workers
<1>3. SurelyOpen'
  BY Distinct, ServeAssumption DEF ServeInv, Events, clientVars, fdVars, reloaderVars, mainVars, Works, Fault, At,
     TypeOK, Threads, SurelyOpen, MaybeOpen, Early, Late, Serving, HasListener, HasEpoll, Unclaimed,
     Workers
<1>4. MaybeOpen'
  <2>1. /\ UNCHANGED <<open, main, made, spawned, failing, reloader>> /\ failed \subseteq failed'
        /\ worker[w0] = "events" /\ worker'[w0] \in {"loop", "events", "catch"}
        /\ worker'[w0] = "catch" => w0 \in failed'
        /\ \A w \in Workers \ {w0} : worker'[w] = worker[w]
    BY DEF ServeInv, TypeOK, Events, At, Works, Fault, fdVars, mainVars, reloaderVars
  <2>2. \A w \in Workers : HasListener(w) => w \in failed' \/ HasListener(w)'
    BY <2>1 DEF HasListener
  <2>3. \A w \in Workers : HasEpoll(w) => w \in failed' \/ HasEpoll(w)'
    BY <2>1 DEF HasEpoll
  <2>4. \A w \in Workers : Unclaimed(w) => Unclaimed(w)'
    BY <2>1 DEF Unclaimed
  <2> QED BY <2>1, <2>2, <2>3, <2>4
          DEF ServeInv, MaybeOpen, Late, Workers, Listener, Epoll, Own
<1>5. Attended'
  <2>1. /\ open' = open /\ failed \subseteq failed'
        /\ worker[w0] = "events" /\ worker'[w0] \in {"loop", "events", "catch"}
        /\ worker'[w0] = "catch" => w0 \in failed'
        /\ \A w \in Workers \ {w0} : worker'[w] = worker[w]
    BY DEF ServeInv, TypeOK, Events, At, Works, Fault, fdVars
  <2>2. \A w \in Workers : queued'[w] \subseteq queued[w]
    BY DEF ServeInv, TypeOK, Events, clientVars
  <2>3. \A w \in Workers \ {w0} : conns'[w] = conns[w]
    BY DEF ServeInv, TypeOK, Events, clientVars
  <2>4. \A w \in Workers : worker'[w] = "catch" => w \in failed'
    BY <2>1 DEF ServeInv, Attended
  <2>5. \A w \in Workers : queued'[w] # {} => Listener(w) \in open'
    BY <2>1, <2>2 DEF ServeInv, Attended
  <2>6. \A w \in Workers : conns'[w] # {} =>
          w \in failed' \/ worker'[w] \in {"loop", "accept", "events", "closing"}
    BY <2>1, <2>3 DEF ServeInv, Attended
  <2> QED BY <2>4, <2>5, <2>6 DEF Attended, Workers, Listener
<1> QED BY <1>1, <1>2, <1>3, <1>4, <1>5 DEF ServeInv

LEMMA CloseAllServe ==
  ASSUME ServeInv, NEW w0 \in Workers, CloseAll(w0)
  PROVE  ServeInv'
<1>1. TypeOK'
  <2>1. open' \subseteq Descriptors
    BY AllDescriptors, ServeAssumption DEF ServeInv, TypeOK, CloseAll, reloaderVars, mainVars,
       Close, At, Workers
  <2>2. {running', failing', closedTwice', stopping'} \subseteq BOOLEAN
    BY DEF ServeInv, TypeOK, CloseAll, reloaderVars, mainVars, Close, At
  <2>3. {requested', handled', target', faults'} \subseteq Nat
    BY DEF ServeInv, TypeOK, CloseAll, reloaderVars, mainVars, Close, At
  <2>4. /\ made' \in 0..N /\ spawned' \in 0..N
        /\ worker' \in [Workers -> WorkerStates] /\ failed' \subseteq Workers
    BY ServeAssumption DEF ServeInv, TypeOK, CloseAll, reloaderVars, mainVars, Close, At, Workers,
       WorkerStates
  <2>5. /\ queued' \in [Workers -> SUBSET Clients] /\ conns' \in [Workers -> SUBSET Clients]
        /\ gone' \subseteq Clients
    BY ServeAssumption DEF ServeInv, TypeOK, CloseAll, reloaderVars, mainVars, Close, At, Workers
  <2>6. main' \in MainStates /\ reloader' \in ReloaderStates
    BY DEF ServeInv, TypeOK, CloseAll, reloaderVars, mainVars, Close, At, MainStates, ReloaderStates
  <2> QED BY AllDescriptors, <2>1, <2>2, <2>3, <2>4, <2>5, <2>6 DEF TypeOK
<1>2. Threads'
  BY Distinct, ServeAssumption DEF ServeInv, CloseAll, reloaderVars, mainVars, Close, At, TypeOK,
     Threads, Early, Late, Workers
<1>3. SurelyOpen'
  BY Distinct, ServeAssumption DEF ServeInv, CloseAll, reloaderVars, mainVars, Close, At, TypeOK,
     Threads, SurelyOpen, MaybeOpen, Early, Late, Serving, HasListener, HasEpoll, Unclaimed, Workers
<1>4. MaybeOpen'
  BY Distinct, ServeAssumption DEF ServeInv, CloseAll, reloaderVars, mainVars, Close, At, TypeOK,
     Threads, SurelyOpen, MaybeOpen, Early, Late, Serving, HasListener, HasEpoll, Unclaimed, Workers
<1>5. Attended'
  BY Distinct, ServeAssumption DEF ServeInv, CloseAll, reloaderVars, mainVars, Close, At, TypeOK,
     Threads, MaybeOpen, Attended, HasListener, Unclaimed, Workers
<1> QED BY <1>1, <1>2, <1>3, <1>4, <1>5 DEF ServeInv

LEMMA CatchServe ==
  ASSUME ServeInv, NEW w0 \in Workers, Catch(w0)
  PROVE  ServeInv'
<1>1. TypeOK'
  BY AllDescriptors, ServeAssumption DEF ServeInv, Catch, clientVars, fdVars, reloaderVars,
     mainVars, At, TypeOK, MainStates, ReloaderStates, WorkerStates, Workers
<1>2. Threads'
  BY Distinct, ServeAssumption DEF ServeInv, Catch, clientVars, fdVars, reloaderVars, mainVars, At,
     TypeOK, Threads, Early, Late, Workers
<1>3. SurelyOpen'
  BY Distinct, ServeAssumption DEF ServeInv, Catch, clientVars, fdVars, reloaderVars, mainVars, At,
     TypeOK, Threads, SurelyOpen, MaybeOpen, Early, Late, Serving, HasListener, HasEpoll, Unclaimed,
     Workers
<1>4. MaybeOpen'
  BY Distinct, ServeAssumption DEF ServeInv, Catch, clientVars, fdVars, reloaderVars, mainVars, At,
     TypeOK, Threads, SurelyOpen, MaybeOpen, Early, Late, Serving, HasListener, HasEpoll, Unclaimed,
     Workers
<1>5. Attended'
  BY Distinct, ServeAssumption DEF ServeInv, Catch, clientVars, fdVars, reloaderVars, mainVars, At,
     TypeOK, Threads, MaybeOpen, Attended, HasListener, Unclaimed, Workers
<1> QED BY <1>1, <1>2, <1>3, <1>4, <1>5 DEF ServeInv

LEMMA ArriveServe ==
  ASSUME ServeInv, NEW c \in Clients, NEW w0 \in Workers, Arrive(c, w0)
  PROVE  ServeInv'
<1>1. TypeOK'
  BY AllDescriptors, ServeAssumption DEF ServeInv, Arrive, workerVars, fdVars, reloaderVars,
     mainVars, TypeOK, MainStates, ReloaderStates, WorkerStates, Workers
<1>2. Threads'
  BY Distinct, ServeAssumption DEF ServeInv, Arrive, workerVars, fdVars, reloaderVars, mainVars,
     TypeOK, Threads, Early, Late, Workers
<1>3. SurelyOpen'
  BY Distinct, ServeAssumption DEF ServeInv, Arrive, workerVars, fdVars, reloaderVars, mainVars,
     TypeOK, Threads, SurelyOpen, MaybeOpen, Early, Late, Serving, HasListener, HasEpoll, Unclaimed,
     Workers
<1>4. MaybeOpen'
  BY Distinct, ServeAssumption DEF ServeInv, Arrive, workerVars, fdVars, reloaderVars, mainVars,
     TypeOK, Threads, SurelyOpen, MaybeOpen, Early, Late, Serving, HasListener, HasEpoll, Unclaimed,
     Workers
<1>5. Attended'
  BY Distinct, ServeAssumption DEF ServeInv, Arrive, workerVars, fdVars, reloaderVars, mainVars,
     TypeOK, Threads, MaybeOpen, Attended, HasListener, Unclaimed, Workers
<1> QED BY <1>1, <1>2, <1>3, <1>4, <1>5 DEF ServeInv

LEMMA ServeInvariant == Spec => []ServeInv
<1>1. ASSUME ServeInv, [Next]_vars PROVE ServeInv'
  <2>1. CASE Main
    BY <1>1, <2>1, CreateControlServe, CreateWatchServe, CreateReloaderServe, RegisterServe,
       CreateListenerServe, SpawnServe, ControlServe, BatchServe, NotifyServe, JoinServe,
       StopReloaderServe, WakeReloaderServe, JoinReloaderServe DEF Main
  <2>2. CASE Check \/ Load \/ Spurious \/ Signal
    BY <1>1, <2>2, CheckServe, LoadServe, SpuriousServe, SignalServe
  <2>3. ASSUME NEW w \in Workers, Worker(w) PROVE ServeInv'
    BY <1>1, <2>3, WorkerStartServe, WorkerRegisterServe, WaitServe, AcceptServe, EventsServe,
       CloseAllServe, CatchServe DEF Worker
  <2>4. ASSUME NEW w \in Workers, NEW c \in Clients, Arrive(c, w) PROVE ServeInv'
    BY <1>1, <2>4, ArriveServe
  <2>5. CASE UNCHANGED vars
    BY <1>1, <2>5 DEF vars, mainVars, workerVars, clientVars, fdVars, reloaderVars, ServeInv,
       TypeOK, Descriptors, Listener, Epoll, Own, MainStates, ReloaderStates, WorkerStates,
       Workers, Threads, SurelyOpen, MaybeOpen, Attended, Early, Late, Serving, HasListener,
       HasEpoll, Unclaimed
  <2> QED BY <1>1, <2>1, <2>2, <2>3, <2>4, <2>5 DEF Next, Ended
<1> QED BY InitServe, <1>1, PTL DEF Spec

\* Every variable keeps its type.
THEOREM ServeTypeCorrect == Spec => []TypeOK
<1>1. ServeInv => TypeOK
  BY DEF ServeInv
<1> QED BY <1>1, ServeInvariant, PTL

\* No thread outlives serve, whichever of its steps fails (server.cpp:531-557, 607-619, 65-75).
THEOREM NothingEverOutlives == Spec => []NothingOutlives
<1>1. ServeInv => NothingOutlives
  BY DEF ServeInv, Threads, Late, NothingOutlives
<1> QED BY <1>1, ServeInvariant, PTL

\* No two threads close the same descriptor (server.cpp:521-529, 546-557, 403-408, 491-497).
THEOREM EachClosesItsOwn == Spec => []ClosesItsOwn
<1>1. ServeInv => ClosesItsOwn
  BY DEF ServeInv, SurelyOpen, ClosesItsOwn
<1> QED BY <1>1, ServeInvariant, PTL

\* What is left open was left by a step that failed (server.cpp:403-460, 504-517).
THEOREM OnlyThatIsLeft == Spec => []OnlyLeaked
<1>1. ASSUME ServeInv, main = "ended" PROVE OnlyLeaked
  <2>1. \A w \in Workers : ~HasListener(w) /\ ~HasEpoll(w) /\ ~Unclaimed(w) /\ worker[w] \in {"none", "done"}
    BY <1>1 DEF ServeInv, Threads, Late, HasListener, HasEpoll, Unclaimed
  <2>2. \A w \in Workers :
          (Listener(w) \in open => w \in failed) /\ (Epoll(w) \in open => w \in failed)
    BY <1>1, <2>1 DEF ServeInv, MaybeOpen
  <2>3. \A s \in {"control", "inotify"} : Own(s) \in open => failing /\ made = 0
    BY <1>1 DEF ServeInv, MaybeOpen, Late
  <2>4. Own("event") \in open => failing /\ made = 0 /\ reloader = "none"
    BY <1>1 DEF ServeInv, MaybeOpen
  <2>5. ASSUME NEW d \in open PROVE d \in Leaked
    <3>1. \/ \E w \in Workers : d = Listener(w)
          \/ \E w \in Workers : d = Epoll(w)
          \/ d \in {Own("control"), Own("inotify"), Own("event")}
      BY <1>1 DEF ServeInv, TypeOK, Descriptors
    <3>2. CASE d = Own("control") \/ d = Own("inotify")
      BY <2>3, <3>2 DEF Leaked
    <3>3. CASE d = Own("event")
      BY <2>4, <3>3 DEF Leaked
    <3>4. CASE \E w \in Workers : d = Listener(w)
      BY <3>4, <2>2 DEF Leaked
    <3>5. CASE \E w \in Workers : d = Epoll(w)
      BY <3>5, <2>2 DEF Leaked
    <3> QED BY <3>1, <3>2, <3>3, <3>4, <3>5
  <2>6. ASSUME NEW w \in Workers \ failed PROVE conns[w] = {} /\ queued[w] = {}
    <3>1. conns[w] = {}
      BY <1>1, <2>1 DEF ServeInv, Attended
    <3>2. queued[w] = {}
      BY <1>1, <2>2 DEF ServeInv, Attended
    <3> QED BY <3>1, <3>2
  <2> QED BY <2>5, <2>6 DEF OnlyLeaked
<1>2. ServeInv => OnlyLeaked
  BY <1>1 DEF OnlyLeaked
<1> QED BY <1>2, ServeInvariant, PTL

\* No thread is left, and no descriptor but those of failed workers and of a start that
\* failed early; after a stop that nothing failed before, none (server.cpp:403-460, 491-557,
\* 607-619).
THEOREM AlwaysOnlyFailuresLeak == Spec => []OnlyFailuresLeak
<1>1. NothingOutlives /\ OnlyLeaked => OnlyFailuresLeak
  BY DEF OnlyFailuresLeak
<1> QED BY <1>1, NothingEverOutlives, OnlyThatIsLeft, PTL
=============================================================================
