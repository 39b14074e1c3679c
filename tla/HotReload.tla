----------------------------- MODULE HotReload -----------------------------
(***************************************************************************)
(* How aurhubd follows the generations an indexer publishes: the initial   *)
(* load in main, the inotify watch, the reloader thread with its request   *)
(* and result slots, the eventfd, and the control loop that activates what *)
(* was loaded.  The files and the indexer are those of GenerationStore;    *)
(* the server's one loading thread at a time (first main, then the         *)
(* reloader) is its reader `aurhubd`.                                      *)
(***************************************************************************)
EXTENDS GenerationStore, Sequences

CONSTANTS aurhubd,     \* the reader in GenerationStore's arrays
          MaxMishaps   \* bound: deaths of the server and loads that fail for a reason of its own

ASSUME ReaderAssumption == aurhubd \in Readers /\ MaxMishaps \in Nat

VARIABLES
  server,     \* "down", "loading", "loaded" (before the watch) or "serving"
  pending,    \* inotify has an event for the watched name
  requested,  \* requested_
  handled,    \* the reloader's `handled`
  target,     \* the reloader's `target`
  result,     \* result_, or NoResult
  event,      \* the eventfd's counter is not zero
  control,    \* "wait", or "take": eventfd drained, result not yet taken
  active,     \* the generation the workers serve
  notifying,  \* the reloader is between storing a result and notify
  opened,     \* which publication the load in progress has opened
  log,        \* the trees published so far, in order
  watchedFrom,\* how many had been published when the watch was created
  mishaps,
  spoilt      \* the last load failed for a reason of the server's own (history)

faultVars == <<mishaps, spoilt>>
serverVars == <<server, pending, requested, handled, target, result, event,
                control, active, notifying, opened, log, watchedFrom, faultVars>>
hotVars == <<vars, serverVars>>

NoResult == [ok |-> FALSE, tree |-> NoTree, seq |-> 0, empty |-> TRUE]
Loaded == [ok |-> TRUE, tree |-> Resolve(head[aurhubd], headBase[aurhubd]),
           seq |-> opened, empty |-> FALSE]
Rejected == [ok |-> FALSE, tree |-> NoTree, seq |-> 0, empty |-> FALSE]
NoView == [tree |-> NoTree, seq |-> 0]

-----------------------------------------------------------------------------
HotInit ==
  /\ Init
  /\ server = "down"
  /\ pending = FALSE
  /\ requested = 0 /\ handled = 0 /\ target = 0
  /\ result = NoResult
  /\ event = FALSE
  /\ control = "wait"
  /\ active = NoView
  /\ notifying = FALSE
  /\ opened = 0
  /\ log = <<>>
  /\ watchedFrom = 0
  /\ mishaps = 0 /\ spoilt = FALSE

\* A rename onto the snapshot path: the watch, if there is one, queues an event.
\* Renames onto the base's name and writes to temporary names do not match.
BugNoticeCloseWrite ==
  IF output' # output THEN log' = Append(log, Visible') /\ UNCHANGED pending
                      ELSE UNCHANGED <<log, pending>>
Notice ==
  IF output' # output
    THEN /\ log' = Append(log, Visible')
         /\ pending' = (pending \/ server = "serving")
    ELSE UNCHANGED <<log, pending>>

IndexerSide ==
  /\ Push \/ \E i \in Indexers : Indexer(i)
  /\ Notice
  /\ UNCHANGED <<server, requested, handled, target, result, event, control,
                 active, notifying, opened, watchedFrom, faultVars>>

-----------------------------------------------------------------------------
(* The server *)

\* main starts and finds that the snapshot exists.
Boot ==
  /\ server = "down"
  /\ output # NoInode
  /\ server' = "loading"
  /\ BeginLoad(aurhubd)
  /\ spoilt' = FALSE
  /\ UNCHANGED <<pending, requested, handled, target, result, event, control,
                 active, notifying, opened, log, watchedFrom, mishaps>>

\* The steps of GenerationView's constructor, in main or in the reloader.
Load ==
  /\ LoadStep(aurhubd)
  /\ opened' = IF pc[aurhubd] = "open" THEN Len(log) ELSE opened
  /\ UNCHANGED <<server, pending, requested, handled, target, result, event,
                 control, active, notifying, log, watchedFrom, faultVars>>

\* A load also fails for a reason of the server's own: no descriptor, no memory, no
\* address space.  It is reported like a generation that is rejected.  (An open that fails in
\* generation_is_overlay decides nothing by itself: the next open fails or succeeds.)
LoadFault ==
  /\ server \in {"loading", "serving"}
  /\ pc[aurhubd] \in {"open", "openBase"}
  /\ mishaps < MaxMishaps
  /\ mishaps' = mishaps + 1 /\ spoilt' = TRUE
  /\ Goto(aurhubd, "rejected")
  /\ UNCHANGED <<mirror, fileVars, viewVars, refs, temp, statVars, boundVars, server, pending,
                 requested, handled, target, result, event, control, active, notifying, opened,
                 log, watchedFrom>>

\* main has its snapshot, or exits 1 and is started again.
InitialLoad ==
  /\ server = "loading"
  /\ EndLoad(aurhubd)
  /\ IF pc[aurhubd] = "opened"
       THEN server' = "loaded" /\ active' = [tree |-> Loaded.tree, seq |-> opened]
       ELSE server' = "down" /\ UNCHANGED active
  /\ opened' = 0
  /\ UNCHANGED <<pending, requested, handled, target, result, event, control,
                 notifying, log, watchedFrom, faultVars>>

\* serve: the watch is created, then the reloader and the workers.
Watch ==
  /\ server = "loaded"
  /\ server' = "serving"
  /\ watchedFrom' = Len(log)
  /\ UNCHANGED <<vars, pending, requested, handled, target, result, event,
                 control, active, notifying, opened, log, faultVars>>

\* The control loop reads the inotify queue empty and requests one reload.
Request ==
  /\ server = "serving" /\ control = "wait"
  /\ pending
  /\ pending' = FALSE
  /\ requested' = requested + 1
  /\ UNCHANGED <<vars, server, handled, target, result, event, control, active,
                 notifying, opened, log, watchedFrom, faultVars>>

\* The reloader wakes for a request it has not handled and starts to load.
Wake ==
  /\ server = "serving" /\ pc[aurhubd] = "idle" /\ ~notifying
  /\ requested # handled
  /\ target' = requested
  /\ BeginLoad(aurhubd)
  /\ spoilt' = FALSE
  /\ UNCHANGED <<server, pending, requested, handled, result, event, control,
                 active, notifying, opened, log, watchedFrom, mishaps>>

\* The reloader stores what it loaded, or the error, over any older result.
BugDeliverHandlesAll ==
  /\ server = "serving"
  /\ EndLoad(aurhubd)
  /\ handled' = requested
  /\ result' = IF pc[aurhubd] = "opened" THEN Loaded ELSE Rejected
  /\ notifying' = TRUE
  /\ opened' = 0
  /\ UNCHANGED <<server, pending, requested, target, event, control, active,
                 log, watchedFrom, faultVars>>
Deliver ==
  /\ server = "serving"
  /\ EndLoad(aurhubd)
  /\ handled' = target
  /\ result' = IF pc[aurhubd] = "opened" THEN Loaded ELSE Rejected
  /\ notifying' = TRUE
  /\ opened' = 0
  /\ UNCHANGED <<server, pending, requested, target, event, control, active,
                 log, watchedFrom, faultVars>>

\* notify: after the mutex is released.
Notify ==
  /\ server = "serving" /\ notifying
  /\ event' = TRUE
  /\ notifying' = FALSE
  /\ UNCHANGED <<vars, server, pending, requested, handled, target, result,
                 control, active, opened, log, watchedFrom, faultVars>>

\* The control loop sees the eventfd, drains it, and then takes the result.
Drain ==
  /\ server = "serving" /\ control = "wait"
  /\ event
  /\ event' = FALSE
  /\ control' = "take"
  /\ UNCHANGED <<vars, server, pending, requested, handled, target, result,
                 active, notifying, opened, log, watchedFrom, faultVars>>

BugTakeUnchecked ==
  /\ server = "serving" /\ control = "take"
  /\ active' = [tree |-> result.tree, seq |-> result.seq]
  /\ result' = NoResult
  /\ control' = "wait"
  /\ UNCHANGED <<vars, server, pending, requested, handled, target, event,
                 notifying, opened, log, watchedFrom, faultVars>>
Take ==
  /\ server = "serving" /\ control = "take"
  /\ active' = IF result.ok THEN [tree |-> result.tree, seq |-> result.seq]
                            ELSE active
  /\ result' = NoResult
  /\ control' = "wait"
  /\ UNCHANGED <<vars, server, pending, requested, handled, target, event,
                 notifying, opened, log, watchedFrom, faultVars>>

\* The process dies or is stopped, at any point; systemd starts it again.
Die ==
  /\ server # "down"
  /\ mishaps < MaxMishaps
  /\ mishaps' = mishaps + 1
  /\ server' = "down"
  /\ pending' = FALSE /\ event' = FALSE /\ notifying' = FALSE
  /\ requested' = 0 /\ handled' = 0 /\ target' = 0 /\ opened' = 0
  /\ result' = NoResult /\ control' = "wait" /\ active' = NoView
  /\ spoilt' = FALSE
  /\ CloseView(aurhubd)
  /\ Goto(aurhubd, "idle")
  /\ UNCHANGED <<mirror, fileVars, refs, temp, statVars, boundVars, log, watchedFrom>>

Reloader == (server = "serving" /\ Load) \/ Wake \/ Deliver \/ Notify
ControlLoop == Request \/ Drain \/ Take
Main == Boot \/ (server = "loading" /\ Load) \/ InitialLoad \/ Watch

HotNext == IndexerSide \/ Main \/ Reloader \/ ControlLoop \/ LoadFault \/ Die

HotSpec == HotInit /\ [][HotNext]_hotVars

\* systemd restarts the server; its threads are scheduled and the control loop
\* serves both of its descriptors in every batch of epoll events.
HotFairSpec ==
  /\ HotSpec
  /\ WF_hotVars(Main)
  /\ WF_hotVars(Reloader)
  /\ WF_hotVars(Request) /\ WF_hotVars(Drain \/ Take)

-----------------------------------------------------------------------------
(* Properties *)

\* Every variable of the server has its type (the type invariant).
HotTypeOK ==
  /\ server \in {"down", "loading", "loaded", "serving"}
  /\ control \in {"wait", "take"}
  /\ {pending, event, notifying, spoilt} \subseteq BOOLEAN
  /\ {requested, handled, target, opened, watchedFrom, mishaps} \subseteq Nat
  /\ result \in [ok : BOOLEAN, empty : BOOLEAN, tree : Trees \cup {NoTree}, seq : Nat]
  /\ active \in [tree : Trees \cup {NoTree}, seq : Nat]
  /\ log \in Seq(Trees)

\* What the workers serve is, as a whole, one generation that was published:
\* the one at the snapshot path when the load opened it.  Renames of either
\* name during the load make it fail, never mix two generations
\* (server.cpp:131-138, generation.cpp:166-231).
ServedWasPublished ==
  active # NoView =>
    /\ active.seq \in 1..Len(log)
    /\ active.tree = log[active.seq]

\* When nothing is under way in the server (no event, no request, no load, no
\* notification, no result to take) it serves the last generation published
\* since it watches, unless its last load failed for a reason of its own: no
\* wake-up is lost between the inotify queue, the two
\* counters, the result slot and the eventfd, and a load that was rejected
\* because it raced a publication is always followed by another one
\* (server.cpp:86-148, 577-605).
QuietIsFresh ==
  /\ server = "serving" /\ ~pending /\ requested = handled
  /\ pc[aurhubd] = "idle" /\ ~notifying /\ ~event /\ control = "wait"
  => /\ result = NoResult
     /\ Len(log) > watchedFrom => active.seq = Len(log) \/ spoilt

\* Workers never go back to an older generation, whatever loads overlap with
\* publications and whatever results are overwritten (server.cpp:141-146, 585-590).
NeverBackwards ==
  [][server = "serving" /\ server' = "serving" => active'.seq >= active.seq]_hotVars

\* The last generation published while the server watches is served in the
\* end, unless the last load failed for a reason of the server's own, which
\* nothing repeats (server.cpp:137-139).  The indexer may stop at any point, so each one is the last of some
\* behaviour (server.cpp:359-392, 567-606).
HotReloads ==
  <>[](server = "serving" /\ Len(log) > watchedFrom => active.seq = Len(log) \/ spoilt)

\* README.en.md:34: "The indexer overwrites the snapshot and `aurhubd`
\* hot-reloads via inotify": in the end a running server serves the last
\* generation.
ServesLast == <>[](server = "serving" => active.tree = log[Len(log)])
=============================================================================
