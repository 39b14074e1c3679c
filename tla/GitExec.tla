------------------------------ MODULE GitExec ------------------------------
(***************************************************************************)
(* The Git commands a worker of aurhubd runs and waits for: run_command,   *)
(* and run_git_output with its two pipes.  Pipes hold a bounded amount,    *)
(* and their ends are not close-on-exec: a child that another worker forks *)
(* at that moment inherits them, and an end counts as closed only when     *)
(* nobody has it open any more.                                            *)
(*                                                                         *)
(* A worker has at most one child, so a child is named by its worker.      *)
(***************************************************************************)
EXTENDS Integers

CONSTANTS
  Workers,
  Server,     \* the server's own process
  Capacity,   \* units a pipe holds
  Jobs,       \* what the workers ask for
  MaxFaults   \* bound: pipes or forks that fail, children that die

\* A job has a body to send, an answer to read, and early units of the answer that
\* are written before the whole body was read.  The body is the client's: a request
\* that is cut short makes Git wait for the end of its standard input.  A run_command
\* has no pipes.
Job == [pipes : BOOLEAN, body : Nat, answer : Nat, early : Nat, waits : BOOLEAN]

ASSUME ExecAssumption ==
  /\ Server \notin Workers
  /\ Capacity \in Nat \ {0} /\ MaxFaults \in Nat
  /\ Jobs \subseteq Job
  /\ \A j \in Jobs : /\ j.early <= j.answer
                     /\ j.waits => j.body > 0
                     /\ ~j.pipes => j.body = 0 /\ j.answer = 0

VARIABLES
  pc,       \* where a worker stands
  job,      \* what it runs
  written,  \* units of the body written by the worker
  got,      \* units of the answer it has read
  result,   \* "none", or what the call returned: "empty" or "whole"
  ends,     \* who has each end of a worker's pipes open
  full,     \* units in its two pipes
  child,    \* "none", "running", "writing" (in a write of its own), "done" or "dead"
            \* (not waited for yet)
  fed,      \* units of the body the child has read
  said,     \* units of the answer it has written
  faults

workerVars == <<pc, job, written, got, result>>
childVars == <<child, fed, said>>
vars == <<workerVars, ends, full, childVars, faults>>

Ends == {"inRead", "inWrite", "outRead", "outWrite"}
Closed == [e \in Ends |-> {}]
Labels == {"idle", "in", "out", "fork", "close", "write", "closeIn", "read", "wait"}

Init ==
  /\ pc = [w \in Workers |-> "idle"]
  /\ job \in [Workers -> Jobs]
  /\ written = [w \in Workers |-> 0] /\ got = [w \in Workers |-> 0]
  /\ result = [w \in Workers |-> "none"]
  /\ ends = [w \in Workers |-> Closed]
  /\ full = [w \in Workers |-> [in |-> 0, out |-> 0]]
  /\ child = [w \in Workers |-> "none"]
  /\ fed = [w \in Workers |-> 0] /\ said = [w \in Workers |-> 0]
  /\ faults = 0

Goto(w, label) == pc' = [pc EXCEPT ![w] = label]
Opened(w, e) == ends[w][e] # {}
\* The server opens or closes some ends of w's pipes.
Open(w, which) ==
  ends' = [ends EXCEPT ![w] = [e \in Ends |-> IF e \in which THEN {Server} ELSE @[e]]]
Close(w, which) ==
  ends' = [ends EXCEPT ![w] = [e \in Ends |-> IF e \in which THEN @[e] \ {Server} ELSE @[e]]]
Fault == faults < MaxFaults /\ faults' = faults + 1
Succeed == UNCHANGED faults
ReturnEmpty(w) == Goto(w, "idle") /\ result' = [result EXCEPT ![w] = "empty"]

-----------------------------------------------------------------------------
(* The worker *)

Call(w, j) ==
  /\ pc[w] = "idle"
  /\ job' = [job EXCEPT ![w] = j]
  /\ written' = [written EXCEPT ![w] = 0] /\ got' = [got EXCEPT ![w] = 0]
  /\ fed' = [fed EXCEPT ![w] = 0] /\ said' = [said EXCEPT ![w] = 0]
  /\ full' = [full EXCEPT ![w] = [in |-> 0, out |-> 0]]
  /\ result' = [result EXCEPT ![w] = "none"]
  /\ Goto(w, IF ~j.pipes THEN "fork" ELSE IF j.body > 0 THEN "in" ELSE "out")
  /\ UNCHANGED <<ends, child, faults>>

\* pipe(in_pipe), only when there is a body to send.
OpenIn(w) ==
  /\ pc[w] = "in"
  /\ \/ /\ Succeed /\ Goto(w, "out") /\ UNCHANGED result
        /\ Open(w, {"inRead", "inWrite"})
     \/ Fault /\ ReturnEmpty(w) /\ UNCHANGED ends
  /\ UNCHANGED <<job, written, got, full, childVars>>

BugOpenOut(w) ==
  /\ pc[w] = "out"
  /\ \/ /\ Succeed /\ Goto(w, "fork") /\ UNCHANGED result
        /\ Open(w, {"outRead", "outWrite"})
     \/ Fault /\ ReturnEmpty(w) /\ UNCHANGED ends
  /\ UNCHANGED <<job, written, got, full, childVars>>
OpenOut(w) ==
  /\ pc[w] = "out"
  /\ \/ /\ Succeed /\ Goto(w, "fork") /\ UNCHANGED result
        /\ Open(w, {"outRead", "outWrite"})
     \/ Fault /\ ReturnEmpty(w) /\ Close(w, Ends)
  /\ UNCHANGED <<job, written, got, full, childVars>>

\* The child gets a copy of every descriptor of the server.  Of its own pipes it
\* keeps standard input and output, of the others' all.
Inherit(w) ==
  ends' = [v \in Workers |-> [e \in Ends |->
             IF Server \in ends[v][e] /\ (v = w => e \in {"inRead", "outWrite"})
               THEN ends[v][e] \cup {w} ELSE ends[v][e]]]

Fork(w) ==
  /\ pc[w] = "fork"
  /\ \/ /\ Succeed /\ Inherit(w)
        /\ child' = [child EXCEPT ![w] = "running"]
        /\ Goto(w, IF job[w].pipes THEN "close" ELSE "wait") /\ UNCHANGED result
     \/ Fault /\ ReturnEmpty(w) /\ Close(w, Ends) /\ UNCHANGED child
  /\ UNCHANGED <<job, written, got, full, fed, said>>

BugCloseChildEnds(w) ==
  /\ pc[w] = "close"
  /\ Close(w, {"inRead"})
  /\ Goto(w, IF job[w].body > 0 THEN "write" ELSE "read")
  /\ UNCHANGED <<job, written, got, result, full, childVars, faults>>
\* The server closes the ends that are the child's.
CloseChildEnds(w) ==
  /\ pc[w] = "close"
  /\ Close(w, {"inRead", "outWrite"})
  /\ Goto(w, IF job[w].body > 0 THEN "write" ELSE "read")
  /\ UNCHANGED <<job, written, got, result, full, childVars, faults>>

\* A blocking write of what fits the pipe; an error ends the writing (SIGPIPE is
\* ignored).
Write(w) ==
  /\ pc[w] = "write"
  /\ IF written[w] = job[w].body \/ ~Opened(w, "inRead")
       THEN Goto(w, "closeIn") /\ UNCHANGED <<written, full>>
       ELSE /\ full[w].in < Capacity
            /\ full' = [full EXCEPT ![w].in = @ + 1]
            /\ written' = [written EXCEPT ![w] = @ + 1]
            /\ UNCHANGED pc
  /\ UNCHANGED <<job, got, result, ends, childVars, faults>>

CloseIn(w) ==
  /\ pc[w] = "closeIn"
  /\ Close(w, {"inWrite"})
  /\ Goto(w, "read")
  /\ UNCHANGED <<job, written, got, result, full, childVars, faults>>

\* Reads what is there, or the end when nobody can write any more.
Read(w) ==
  /\ pc[w] = "read"
  /\ \/ /\ full[w].out > 0
        /\ got' = [got EXCEPT ![w] = @ + full[w].out]
        /\ full' = [full EXCEPT ![w].out = 0]
        /\ UNCHANGED <<pc, ends>>
     \/ /\ full[w].out = 0 /\ ~Opened(w, "outWrite")
        /\ Goto(w, "wait") /\ Close(w, {"outRead"})
        /\ UNCHANGED <<got, full>>
  /\ UNCHANGED <<job, written, result, childVars, faults>>

BugWait(w) ==
  /\ pc[w] = "wait" /\ child[w] \in {"done", "dead"}
  /\ child' = [child EXCEPT ![w] = "none"]
  /\ result' = [result EXCEPT ![w] = "whole"]
  /\ Goto(w, "idle")
  /\ UNCHANGED <<job, written, got, ends, full, fed, said, faults>>
\* waitpid of its own child; what a failed one wrote does not count.
Wait(w) ==
  /\ pc[w] = "wait" /\ child[w] \in {"done", "dead"}
  /\ child' = [child EXCEPT ![w] = "none"]
  /\ result' = [result EXCEPT ![w] = IF child[w] = "done" THEN "whole" ELSE "empty"]
  /\ Goto(w, "idle")
  /\ UNCHANGED <<job, written, got, ends, full, fed, said, faults>>

-----------------------------------------------------------------------------
(* The child: it does one thing at a time, and while it writes it does not read *)

Become(w, state) == child' = [child EXCEPT ![w] = state]
Alive(w) == child[w] \in {"running", "writing"}

Feed(w) ==
  /\ child[w] = "running" /\ full[w].in > 0
  /\ full' = [full EXCEPT ![w].in = @ - 1]
  /\ fed' = [fed EXCEPT ![w] = @ + 1]
  /\ UNCHANGED <<workerVars, ends, child, said, faults>>

\* It has something to write, and goes into a blocking write.
Say(w) ==
  /\ child[w] = "running" /\ said[w] < job[w].answer
  /\ fed[w] = job[w].body \/ said[w] < job[w].early
  /\ Become(w, "writing")
  /\ UNCHANGED <<workerVars, ends, full, fed, said, faults>>

Put(w) ==
  /\ child[w] = "writing" /\ full[w].out < Capacity
  /\ full' = [full EXCEPT ![w].out = @ + 1]
  /\ said' = [said EXCEPT ![w] = @ + 1]
  /\ Become(w, "running")
  /\ UNCHANGED <<workerVars, ends, fed, faults>>

\* An exit closes whatever the process has open.
Exit(w, how) ==
  /\ Alive(w)
  /\ Become(w, how)
  /\ ends' = [v \in Workers |-> [e \in Ends |-> ends[v][e] \ {w}]]
  /\ UNCHANGED <<workerVars, full, fed, said>>

\* It has read its request and said its answer.  One that was cut short ends when
\* nobody can send more, well or with an error.
Finish(w) ==
  /\ child[w] = "running" /\ fed[w] = job[w].body /\ said[w] = job[w].answer
  /\ \/ ~job[w].waits /\ Exit(w, "done")
     \/ job[w].waits /\ ~Opened(w, "inWrite") /\ \E how \in {"done", "dead"} : Exit(w, how)
  /\ Succeed
\* exec fails, or Git reports an error.
Break(w) == Fault /\ Exit(w, "dead")

Worker(w) ==
  \/ OpenIn(w) \/ OpenOut(w) \/ Fork(w) \/ CloseChildEnds(w)
  \/ Write(w) \/ CloseIn(w) \/ Read(w) \/ Wait(w)
Child(w) == Feed(w) \/ Say(w) \/ Put(w) \/ Finish(w)

Next ==
  \E w \in Workers :
    \/ \E j \in Jobs : Call(w, j)
    \/ Worker(w) \/ Child(w) \/ Break(w)

Spec == Init /\ [][Next]_vars

\* Threads and processes are scheduled; nothing makes a call come or a child die.
FairSpec == Spec /\ \A w \in Workers : WF_vars(Worker(w)) /\ WF_vars(Child(w))

-----------------------------------------------------------------------------
(* Properties *)

Procs == Workers \cup {Server}

\* Every variable has its type, and no pipe holds more than its capacity (the type
\* invariant).
TypeOK ==
  /\ pc \in [Workers -> Labels] /\ job \in [Workers -> Jobs]
  /\ result \in [Workers -> {"none", "empty", "whole"}]
  /\ child \in [Workers -> {"none", "running", "writing", "done", "dead"}]
  /\ ends \in [Workers -> [Ends -> SUBSET Procs]]
  /\ full \in [Workers -> [in : 0..Capacity, out : 0..Capacity]]
  /\ written \in [Workers -> Nat] /\ fed \in [Workers -> Nat]
  /\ said \in [Workers -> Nat] /\ got \in [Workers -> Nat]
  /\ faults \in 0..MaxFaults

\* A worker that has its answer has left nothing behind, on any way out of the
\* function: none of its descriptors is open in the server, its child was waited
\* for (http.cpp:50-104).
NothingLeft ==
  \A w \in Workers : pc[w] = "idle" =>
    child[w] = "none" /\ \A e \in Ends : Server \notin ends[w][e]

\* What is returned is the whole output of a child that ended well, never the part
\* of one that died or was still writing (http.cpp:88-103).
OutputIsWhole ==
  \A w \in Workers : result[w] = "whole" => fed[w] = job[w].body /\ got[w] = job[w].answer

\* A worker and its child have filled both pipes: each waits in a write for the other
\* to read.  It takes a body and an early answer that are both longer than a pipe.
Crossed(v) ==
  /\ job[v].body > Capacity /\ job[v].early > Capacity
  /\ pc[v] = "write" /\ written[v] < job[v].body /\ full[v].in = Capacity
  /\ child[v] = "writing" /\ full[v].out = Capacity

\* Children that were sent all of a request that was cut short and wait for its end,
\* while the pipe of each is held open by another of them, which inherited it.
AtEnd(v) ==
  /\ job[v].waits /\ child[v] = "running"
  /\ fed[v] = job[v].body /\ said[v] = job[v].answer
Ring(S) == S # {} /\ \A v \in S : AtEnd(v) /\ ends[v]["inWrite"] \cap S # {}

\* Every call returns, unless some worker and child are in one of these two states,
\* which nothing but a child that dies ends: there is no third way to wait for ever,
\* neither for a pipe that another worker's child has inherited nor for a child that
\* was not told its input is at an end.  The code has both ways, since it writes the
\* whole body of a client before it reads, and shares its pipes with every child
\* (http.cpp:48-104).
CallsReturn ==
  \A w \in Workers : pc[w] # "idle" ~>
    \/ pc[w] = "idle"
    \/ \E v \in Workers : Crossed(v)
    \/ \E S \in SUBSET Workers : Ring(S)
=============================================================================
