--------------------------- MODULE GitExecProofs ---------------------------
(***************************************************************************)
(* Proofs about the Git commands of the workers, for any number of         *)
(* workers, any pipe and any job: nothing is left behind, and what is      *)
(* returned is whole.                                                      *)
(*                                                                         *)
(* Neither is inductive.  Holds says which descriptors the server may have *)
(* open at each step of the function, which is why the closes that follow  *)
(* are enough; Flows says that what was read and what is in the pipe is    *)
(* what the child wrote; Speaks says that a child that lives can write,    *)
(* which is why the end of the input means that the child has ended.       *)
(***************************************************************************)
EXTENDS GitExec, TLAPS

\* The server has an end of a worker's pipes open only between the pipe and the
\* close, and only if the pipe was called for.
HoldsWhile(w, e, labels) == Server \in ends[w][e] => job[w].pipes /\ pc[w] \in labels
Holds ==
  \A w \in Workers :
    /\ HoldsWhile(w, "inRead", {"out", "fork", "close"})
    /\ HoldsWhile(w, "inWrite", {"out", "fork", "close", "write", "closeIn"})
    /\ HoldsWhile(w, "outRead", {"fork", "close", "write", "closeIn", "read"})
    /\ HoldsWhile(w, "outWrite", {"fork", "close"})
    /\ \A e \in {"inRead", "inWrite"} : Server \in ends[w][e] => job[w].body > 0
    /\ pc[w] \in {"in", "out", "close", "write", "closeIn", "read"} => job[w].pipes
    /\ pc[w] = "in" => job[w].body > 0

\* A worker has a child from the fork to waitpid.
HasChild ==
  \A w \in Workers : child[w] = "none" <=> pc[w] \in {"idle", "in", "out", "fork"}

Flows ==
  \A w \in Workers :
    /\ got[w] + full[w].out = said[w] /\ said[w] <= job[w].answer
    /\ child[w] = "writing" => said[w] < job[w].answer

\* A child that has not ended holds its standard output, and so does the server until
\* it has forked.
Speaks ==
  \A w \in Workers :
    job[w].pipes =>
      /\ pc[w] = "fork" => Server \in ends[w]["outWrite"]
      /\ Alive(w) => w \in ends[w]["outWrite"]

\* A child that ended well has done its job; when the worker waits for its child the
\* answer is complete.
Ended ==
  \A w \in Workers :
    /\ child[w] = "done" => fed[w] = job[w].body /\ said[w] = job[w].answer
    /\ pc[w] = "wait" /\ job[w].pipes => ~Alive(w) /\ full[w].out = 0
    /\ result[w] # "none" => pc[w] = "idle"
    /\ result[w] = "whole" => fed[w] = job[w].body /\ got[w] = job[w].answer

ExecInv == TypeOK /\ Holds /\ HasChild /\ Flows /\ Speaks /\ Ended

-----------------------------------------------------------------------------
USE DEF Ends, Alive

LEMMA JobTyped ==
  \A j \in Jobs : /\ j.pipes \in BOOLEAN /\ j.body \in Nat /\ j.answer \in Nat
                  /\ ~j.pipes => j.body = 0 /\ j.answer = 0
  BY ExecAssumption DEF Job

LEMMA InitExec == ASSUME Init PROVE ExecInv
<1>1. TypeOK
  BY ExecAssumption DEF Init, TypeOK, Labels, Closed
<1>2. HasChild /\ Speaks /\ Ended
  BY DEF Init, HasChild, Speaks, Ended, Closed
<1>4. Holds
  BY DEF Init, Holds, HoldsWhile, Closed
<1>3. Flows
  <2> SUFFICES ASSUME NEW w \in Workers
               PROVE  /\ got[w] + full[w].out = said[w] /\ said[w] <= job[w].answer
                      /\ child[w] = "writing" => said[w] < job[w].answer
    BY DEF Flows
  <2>1. /\ job[w] \in Jobs /\ got[w] = 0 /\ said[w] = 0 /\ full[w].out = 0
        /\ child[w] = "none"
    BY DEF Init
  <2> QED BY <2>1, JobTyped
<1> QED BY <1>1, <1>2, <1>3, <1>4 DEF ExecInv

\* A worker that goes to a label is at a label.
LEMMA GotoTyped ==
  ASSUME TypeOK, NEW w \in Workers, NEW l \in Labels, Goto(w, l)
  PROVE  pc' \in [Workers -> Labels]
  BY DEF TypeOK, Goto

-----------------------------------------------------------------------------
(* What the steps do to the descriptors *)

EndsTyped == ends \in [Workers -> [Ends -> SUBSET Procs]]

\* Closing takes the server off the ends named, and no child off any.
LEMMA CloseEnds ==
  ASSUME EndsTyped, NEW w \in Workers, NEW which, Close(w, which)
  PROVE  /\ EndsTyped'
         /\ \A v \in Workers, e \in Ends :
              Server \in ends'[v][e] <=> Server \in ends[v][e] /\ (v = w => e \notin which)
         /\ \A v, c \in Workers : \A e \in Ends : c \in ends'[v][e] <=> c \in ends[v][e]
<1>1. \A v \in Workers, e \in Ends :
        ends'[v][e] = IF v = w /\ e \in which THEN ends[v][e] \ {Server} ELSE ends[v][e]
  BY DEF EndsTyped, Close
<1>2. EndsTyped' BY DEF EndsTyped, Close
<1>3. \A c \in Workers : c # Server BY ExecAssumption
<1>4. \A v \in Workers, e \in Ends :
        Server \in ends'[v][e] <=> Server \in ends[v][e] /\ (v = w => e \notin which)
  BY <1>1
<1>5. \A v, c \in Workers : \A e \in Ends : c \in ends'[v][e] <=> c \in ends[v][e]
  BY <1>1, <1>3
<1> QED BY <1>2, <1>4, <1>5

\* A fork gives the child its own ends and leaves the server's as they are.
LEMMA InheritEnds ==
  ASSUME EndsTyped, NEW w \in Workers, Inherit(w)
  PROVE  /\ EndsTyped'
         /\ \A v \in Workers, e \in Ends : Server \in ends'[v][e] <=> Server \in ends[v][e]
         /\ \A v, c \in Workers : \A e \in Ends : c \in ends[v][e] => c \in ends'[v][e]
         /\ Server \in ends[w]["outWrite"] => w \in ends'[w]["outWrite"]
<1>1. \A v \in Workers, e \in Ends :
        ends'[v][e] = IF Server \in ends[v][e] /\ (v = w => e \in {"inRead", "outWrite"})
                        THEN ends[v][e] \cup {w} ELSE ends[v][e]
  BY DEF Inherit
<1>2. EndsTyped' BY DEF EndsTyped, Inherit, Procs
<1>3. w # Server BY ExecAssumption
<1>4. \A v \in Workers, e \in Ends : Server \in ends'[v][e] <=> Server \in ends[v][e]
  BY <1>1, <1>3
<1>5. \A v, c \in Workers : \A e \in Ends : c \in ends[v][e] => c \in ends'[v][e]
  <2>1. \A v \in Workers : \A e \in Ends : ends[v][e] \subseteq ends'[v][e]
    BY <1>1
  <2> QED BY <2>1
<1>6. Server \in ends[w]["outWrite"] => w \in ends'[w]["outWrite"]
  BY <1>1
<1> QED BY <1>2, <1>4, <1>5, <1>6

\* An exit gives up all the child has open, and nothing else.
LEMMA ExitEnds ==
  ASSUME EndsTyped, NEW w \in Workers, NEW how, Exit(w, how)
  PROVE  /\ EndsTyped'
         /\ \A v \in Workers, e \in Ends : Server \in ends'[v][e] <=> Server \in ends[v][e]
         /\ \A v, c \in Workers : \A e \in Ends :
              c # w => (c \in ends'[v][e] <=> c \in ends[v][e])
<1>1. \A v \in Workers, e \in Ends : ends'[v][e] = ends[v][e] \ {w}
  BY DEF Exit
<1>2. EndsTyped' BY DEF EndsTyped, Exit
<1> QED BY <1>1, <1>2, ExecAssumption

\* pipe() opens the ends named, for the server.
LEMMA OpenEnds ==
  ASSUME EndsTyped, NEW w \in Workers, NEW which, Open(w, which)
  PROVE  /\ EndsTyped'
         /\ \A v \in Workers, e \in Ends :
              Server \in ends'[v][e] <=> Server \in ends[v][e] \/ (v = w /\ e \in which)
         /\ \A v \in Workers : v # w => ends'[v] = ends[v]
<1>1. \A v \in Workers, e \in Ends :
        ends'[v][e] = IF v = w /\ e \in which THEN {Server} ELSE ends[v][e]
  BY DEF EndsTyped, Open
<1>2. EndsTyped' BY DEF EndsTyped, Open, Procs
<1>3. \A v \in Workers : v # w => ends'[v] = ends[v] BY DEF EndsTyped, Open
<1> QED BY <1>1, <1>2, <1>3, ExecAssumption

-----------------------------------------------------------------------------
(* The steps keep the invariant *)

\* A call begins with nothing open and no child.
LEMMA CallStep ==
  ASSUME ExecInv, NEW w \in Workers, NEW j \in Jobs, Call(w, j)
  PROVE  ExecInv'
<1> USE DEF ExecInv, TypeOK, Call, Goto
<1>1. TypeOK' BY ExecAssumption DEF Labels
<1>2. Holds' BY JobTyped DEF Holds, HoldsWhile, HasChild
<1>3. HasChild' BY DEF HasChild
<1>4. Flows' BY JobTyped DEF Flows, HasChild
<1>5. Speaks' BY DEF Speaks, HasChild, Holds
<1>6. Ended' BY JobTyped DEF Ended, HasChild, Flows, Speaks
<1> QED BY <1>1, <1>2, <1>3, <1>4, <1>5, <1>6

\* pipe(in_pipe) opens two ends, or the call returns with none.
LEMMA OpenInStep ==
  ASSUME ExecInv, NEW w \in Workers, OpenIn(w)
  PROVE  ExecInv'
<1>0. pc' \in [Workers -> Labels]
  <2>1. \E l \in Labels : Goto(w, l) BY DEF OpenIn, ReturnEmpty, Labels
  <2> QED BY <2>1, GotoTyped DEF ExecInv
<1>1. EndsTyped BY DEF ExecInv, TypeOK, EndsTyped
<1>2. /\ EndsTyped'
      /\ \A v \in Workers, e \in Ends :
           Server \in ends'[v][e] <=>
             \/ Server \in ends[v][e]
             \/ v = w /\ pc'[w] = "out" /\ e \in {"inRead", "inWrite"}
      /\ \A v \in Workers : v # w => ends'[v] = ends[v]
  <2>1. \/ pc'[w] = "out" /\ Open(w, {"inRead", "inWrite"})
        \/ pc'[w] = "idle" /\ ends' = ends
    BY DEF ExecInv, TypeOK, OpenIn, Goto, ReturnEmpty
  <2> QED BY <1>1, <2>1, OpenEnds DEF EndsTyped
<1> USE DEF ExecInv, TypeOK, OpenIn, Goto, ReturnEmpty, Succeed, Fault, childVars
<1>3. /\ pc' \in [Workers -> Labels] /\ faults' \in 0..MaxFaults
      /\ result' \in [Workers -> {"none", "empty", "whole"}]
  <2>1. MaxFaults \in Nat BY ExecAssumption
  <2>2. faults' \in 0..MaxFaults BY <2>1
  <2>3. pc' \in [Workers -> Labels] BY <1>0
  <2>4. result' \in [Workers -> {"none", "empty", "whole"}] OBVIOUS
  <2> QED BY <2>2, <2>3, <2>4
<1>4. TypeOK' BY <1>2, <1>3 DEF EndsTyped
<1>5. Holds' BY <1>2, JobTyped DEF Holds, HoldsWhile, HasChild
<1>6. HasChild' BY DEF HasChild
<1>7. Flows' BY JobTyped DEF Flows, HasChild
<1>8. Speaks' BY <1>2 DEF Speaks, HasChild, Holds
<1>9. Ended' BY <1>2, JobTyped DEF Ended, HasChild, Flows, Speaks
<1> QED BY <1>4, <1>5, <1>6, <1>7, <1>8, <1>9

\* pipe(out_pipe) opens two more, or what was open is closed.
LEMMA OpenOutStep ==
  ASSUME ExecInv, NEW w \in Workers, OpenOut(w)
  PROVE  ExecInv'
<1>0. pc' \in [Workers -> Labels]
  <2>1. \E l \in Labels : Goto(w, l) BY DEF OpenOut, ReturnEmpty, Labels
  <2> QED BY <2>1, GotoTyped DEF ExecInv
<1>1. EndsTyped BY DEF ExecInv, TypeOK, EndsTyped
<1>2. /\ EndsTyped'
      /\ \A v \in Workers, e \in Ends :
           Server \in ends'[v][e] =>
             IF v = w /\ pc'[w] = "idle" THEN FALSE
             ELSE Server \in ends[v][e] \/ (v = w /\ e \in {"outRead", "outWrite"})
      /\ pc'[w] = "fork" => Server \in ends'[w]["outWrite"]
      /\ \A v, c \in Workers : \A e \in Ends :
           v # w => (c \in ends'[v][e] <=> c \in ends[v][e])
      /\ \A v \in Workers, e \in Ends :
           v # w => (Server \in ends'[v][e] <=> Server \in ends[v][e])
  <2>1. \/ pc'[w] = "fork" /\ Open(w, {"outRead", "outWrite"})
        \/ pc'[w] = "idle" /\ Close(w, Ends)
    BY DEF ExecInv, TypeOK, OpenOut, Goto, ReturnEmpty
  <2>2. CASE pc'[w] = "fork" /\ Open(w, {"outRead", "outWrite"})
    BY <1>1, <2>2, OpenEnds
  <2>3. CASE pc'[w] = "idle" /\ Close(w, Ends)
    BY <1>1, <2>3, CloseEnds
  <2> QED BY <2>1, <2>2, <2>3
<1> USE DEF ExecInv, TypeOK, OpenOut, Goto, ReturnEmpty, Succeed, Fault, childVars
<1>3. /\ pc' \in [Workers -> Labels] /\ faults' \in 0..MaxFaults
      /\ result' \in [Workers -> {"none", "empty", "whole"}]
  <2>1. MaxFaults \in Nat BY ExecAssumption
  <2>2. faults' \in 0..MaxFaults BY <2>1
  <2>3. pc' \in [Workers -> Labels] BY <1>0
  <2>4. result' \in [Workers -> {"none", "empty", "whole"}] OBVIOUS
  <2> QED BY <2>2, <2>3, <2>4
<1>4. TypeOK' BY <1>2, <1>3 DEF EndsTyped
<1>5. Holds' BY <1>2, JobTyped DEF Holds, HoldsWhile, HasChild
<1>6. HasChild' BY DEF HasChild
<1>7. Flows' BY JobTyped DEF Flows, HasChild
<1>8. Speaks' BY <1>2 DEF Speaks, HasChild, Holds
<1>9. Ended' BY <1>2, JobTyped DEF Ended, HasChild, Flows, Speaks
<1> QED BY <1>4, <1>5, <1>6, <1>7, <1>8, <1>9

\* fork: the server keeps what it holds, and the child gets its output.
LEMMA ForkStep ==
  ASSUME ExecInv, NEW w \in Workers, Fork(w)
  PROVE  ExecInv'
<1>0. pc' \in [Workers -> Labels]
  <2>1. \E l \in Labels : Goto(w, l) BY DEF Fork, ReturnEmpty, Labels
  <2> QED BY <2>1, GotoTyped DEF ExecInv
<1>1. EndsTyped BY DEF ExecInv, TypeOK, EndsTyped
<1>2. /\ EndsTyped'
      /\ \A v \in Workers, e \in Ends :
           IF v = w /\ pc'[w] = "idle" THEN Server \notin ends'[v][e]
           ELSE Server \in ends'[v][e] <=> Server \in ends[v][e]
      /\ \A v, c \in Workers : \A e \in Ends : c \in ends[v][e] => c \in ends'[v][e]
      /\ pc'[w] # "idle" /\ Server \in ends[w]["outWrite"] => w \in ends'[w]["outWrite"]
  <2>1. \/ pc'[w] # "idle" /\ Inherit(w)
        \/ pc'[w] = "idle" /\ Close(w, Ends)
    BY DEF ExecInv, TypeOK, Fork, Goto, ReturnEmpty
  <2>2. CASE pc'[w] # "idle" /\ Inherit(w) BY <1>1, <2>2, InheritEnds
  <2>3. CASE pc'[w] = "idle" /\ Close(w, Ends) BY <1>1, <2>3, CloseEnds
  <2> QED BY <2>1, <2>2, <2>3
<1>6. HasChild'
  <2>1. /\ HasChild /\ pc \in [Workers -> Labels]
        /\ child \in [Workers -> {"none", "running", "writing", "done", "dead"}]
    BY DEF ExecInv, TypeOK
  <2>2. /\ pc[w] = "fork"
        /\ \/ /\ child' = [child EXCEPT ![w] = "running"]
              /\ \E l \in {"close", "wait"} : pc' = [pc EXCEPT ![w] = l]
           \/ child' = child /\ pc' = [pc EXCEPT ![w] = "idle"]
    BY DEF Fork, Goto, ReturnEmpty
  <2> QED BY <2>1, <2>2 DEF HasChild
<1> USE DEF ExecInv, TypeOK, Fork, Goto, ReturnEmpty, Succeed, Fault
<1>3. /\ pc' \in [Workers -> Labels] /\ faults' \in 0..MaxFaults
      /\ result' \in [Workers -> {"none", "empty", "whole"}]
  <2>1. MaxFaults \in Nat BY ExecAssumption
  <2>2. faults' \in 0..MaxFaults BY <2>1
  <2>3. pc' \in [Workers -> Labels] BY <1>0
  <2>4. result' \in [Workers -> {"none", "empty", "whole"}] OBVIOUS
  <2> QED BY <2>2, <2>3, <2>4
<1>4. TypeOK' BY <1>2, <1>3 DEF EndsTyped
<1>5. Holds' BY <1>2, JobTyped DEF Holds, HoldsWhile, HasChild
<1>7. Flows' BY JobTyped DEF Flows, HasChild
<1>8. Speaks' BY <1>2 DEF Speaks, HasChild, Holds
<1>9. Ended' BY <1>2, JobTyped DEF Ended, HasChild, Flows, Speaks
<1> QED BY <1>4, <1>5, <1>6, <1>7, <1>8, <1>9

\* The child's ends are closed; a pipe not called for is not missed.
LEMMA CloseChildEndsStep ==
  ASSUME ExecInv, NEW w \in Workers, CloseChildEnds(w)
  PROVE  ExecInv'
<1>1. EndsTyped BY DEF ExecInv, TypeOK, EndsTyped
<1>2. /\ EndsTyped'
      /\ \A v \in Workers, e \in Ends :
           Server \in ends'[v][e] <=>
             Server \in ends[v][e] /\ (v = w => e \notin {"inRead", "outWrite"})
      /\ \A v, c \in Workers : \A e \in Ends : c \in ends'[v][e] <=> c \in ends[v][e]
  BY <1>1, CloseEnds DEF CloseChildEnds
<1> USE DEF ExecInv, TypeOK, CloseChildEnds, Goto, childVars
<1>3. TypeOK' BY <1>2 DEF EndsTyped, Labels
<1>4. Holds' BY <1>2, JobTyped DEF Holds, HoldsWhile, HasChild
<1>5. HasChild' BY DEF HasChild
<1>6. Flows' BY JobTyped DEF Flows, HasChild
<1>7. Speaks' BY <1>2 DEF Speaks, HasChild, Holds
<1>8. Ended' BY <1>2, JobTyped DEF Ended, HasChild, Flows, Speaks
<1> QED BY <1>3, <1>4, <1>5, <1>6, <1>7, <1>8

\* The body is at its end.
LEMMA CloseInStep ==
  ASSUME ExecInv, NEW w \in Workers, CloseIn(w)
  PROVE  ExecInv'
<1>1. EndsTyped BY DEF ExecInv, TypeOK, EndsTyped
<1>2. /\ EndsTyped'
      /\ \A v \in Workers, e \in Ends :
           Server \in ends'[v][e] <=>
             Server \in ends[v][e] /\ (v = w => e \notin {"inWrite"})
      /\ \A v, c \in Workers : \A e \in Ends : c \in ends'[v][e] <=> c \in ends[v][e]
  BY <1>1, CloseEnds DEF CloseIn
<1> USE DEF ExecInv, TypeOK, CloseIn, Goto, childVars
<1>3. TypeOK' BY <1>2 DEF EndsTyped, Labels
<1>4. Holds' BY <1>2, JobTyped DEF Holds, HoldsWhile, HasChild
<1>5. HasChild' BY DEF HasChild
<1>6. Flows' BY JobTyped DEF Flows, HasChild
<1>7. Speaks' BY <1>2 DEF Speaks, HasChild, Holds
<1>8. Ended' BY <1>2, JobTyped DEF Ended, HasChild, Flows, Speaks
<1> QED BY <1>3, <1>4, <1>5, <1>6, <1>7, <1>8

\* The worker writes; its answer pipe is not touched.
LEMMA WriteStep ==
  ASSUME ExecInv, NEW w \in Workers, Write(w)
  PROVE  ExecInv'
<1>1. /\ full' \in [Workers -> [in : 0..Capacity, out : 0..Capacity]]
      /\ \A v \in Workers : full'[v].out = full[v].out
  <2>1. Capacity \in Nat BY ExecAssumption
  <2>2. full \in [Workers -> [in : 0..Capacity, out : 0..Capacity]] BY DEF ExecInv, TypeOK
  <2> QED BY <2>1, <2>2 DEF Write
<1>0. pc' \in [Workers -> Labels] /\ written' \in [Workers -> Nat]
  <2>1. pc \in [Workers -> Labels] /\ written \in [Workers -> Nat] BY DEF ExecInv, TypeOK
  <2>2. "closeIn" \in Labels BY DEF Labels
  <2> QED BY <2>1, <2>2 DEF Write, Goto
<1> USE DEF ExecInv, TypeOK, Write, Goto, childVars
<1>2. TypeOK' BY <1>0, <1>1
<1>3. Holds' BY <1>1, JobTyped DEF Holds, HoldsWhile, HasChild
<1>4. HasChild' BY DEF HasChild
<1>5. Flows' BY JobTyped, <1>1 DEF Flows, HasChild
<1>6. Speaks' BY <1>1 DEF Speaks, HasChild, Holds
<1>7. Ended' BY <1>1, JobTyped DEF Ended, HasChild, Flows, Speaks
<1> QED BY <1>2, <1>3, <1>4, <1>5, <1>6, <1>7

\* The child reads.
LEMMA FeedStep ==
  ASSUME ExecInv, NEW w \in Workers, Feed(w)
  PROVE  ExecInv'
<1>1. /\ full' \in [Workers -> [in : 0..Capacity, out : 0..Capacity]]
      /\ \A v \in Workers : full'[v].out = full[v].out
  <2>1. Capacity \in Nat BY ExecAssumption
  <2>2. full \in [Workers -> [in : 0..Capacity, out : 0..Capacity]] BY DEF ExecInv, TypeOK
  <2> QED BY <2>1, <2>2 DEF Feed
<1> USE DEF ExecInv, TypeOK, Feed, workerVars
<1>2. TypeOK' BY <1>1 DEF Labels
<1>3. Holds' BY <1>1, JobTyped DEF Holds, HoldsWhile, HasChild
<1>4. HasChild' BY DEF HasChild
<1>5. Flows' BY JobTyped, <1>1 DEF Flows, HasChild
<1>6. Speaks' BY <1>1 DEF Speaks, HasChild, Holds
<1>7. Ended' BY <1>1, JobTyped DEF Ended, HasChild, Flows, Speaks
<1> QED BY <1>2, <1>3, <1>4, <1>5, <1>6, <1>7

\* The child goes into a write of what it has not said yet.
LEMMA SayStep ==
  ASSUME ExecInv, NEW w \in Workers, Say(w)
  PROVE  ExecInv'
<1> USE DEF ExecInv, TypeOK, Say, Become, workerVars
<1>1. TypeOK' OBVIOUS
<1>2. Holds' BY JobTyped DEF Holds, HoldsWhile, HasChild
<1>3. HasChild' BY DEF HasChild
<1>4. Flows' BY JobTyped DEF Flows, HasChild
<1>5. Speaks' BY DEF Speaks, HasChild, Holds
<1>6. Ended' BY JobTyped DEF Ended, HasChild, Flows, Speaks
<1> QED BY <1>1, <1>2, <1>3, <1>4, <1>5, <1>6

\* The write of a unit ends.
LEMMA PutStep ==
  ASSUME ExecInv, NEW w \in Workers, Put(w)
  PROVE  ExecInv'
<1>1. /\ full' \in [Workers -> [in : 0..Capacity, out : 0..Capacity]]
      /\ \A v \in Workers : full'[v].out = IF v = w THEN full[v].out + 1 ELSE full[v].out
  <2>1. Capacity \in Nat BY ExecAssumption
  <2>2. full \in [Workers -> [in : 0..Capacity, out : 0..Capacity]] BY DEF ExecInv, TypeOK
  <2> QED BY <2>1, <2>2 DEF Put
<1> USE DEF ExecInv, TypeOK, Put, Become, workerVars
<1>2. TypeOK' BY <1>1 DEF Labels
<1>3. Holds' BY <1>1, JobTyped DEF Holds, HoldsWhile, HasChild
<1>4. HasChild' BY DEF HasChild
<1>5. Flows'
  <2> SUFFICES ASSUME NEW v \in Workers
               PROVE  /\ got'[v] + full'[v].out = said'[v] /\ said'[v] <= job'[v].answer
                      /\ child'[v] = "writing" => said'[v] < job'[v].answer
    BY DEF Flows
  <2>1. job[v] \in Jobs /\ got[v] \in Nat /\ said[v] \in Nat /\ full[v].out \in Nat
    BY ExecAssumption
  <2>2. CASE v = w BY <1>1, <2>1, <2>2, JobTyped DEF Flows
  <2>3. CASE v # w BY <1>1, <2>1, <2>3 DEF Flows
  <2> QED BY <2>2, <2>3
<1>6. Speaks' BY <1>1 DEF Speaks, HasChild, Holds
<1>7. Ended' BY <1>1, JobTyped DEF Ended, HasChild, Flows, Speaks
<1> QED BY <1>2, <1>3, <1>4, <1>5, <1>6, <1>7

\* waitpid gives the result of a child that ended.
LEMMA WaitStep ==
  ASSUME ExecInv, NEW w \in Workers, Wait(w)
  PROVE  ExecInv'
<1> USE DEF ExecInv, TypeOK, Wait, Goto
<1>1. TypeOK' BY DEF Labels
<1>2. Holds' BY JobTyped DEF Holds, HoldsWhile, HasChild
<1>3. HasChild' BY DEF HasChild
<1>4. Flows' BY JobTyped DEF Flows, HasChild
<1>5. Speaks' BY DEF Speaks, HasChild, Holds
<1>6. Ended' BY JobTyped DEF Ended, HasChild, Flows, Speaks
<1> QED BY <1>1, <1>2, <1>3, <1>4, <1>5, <1>6

\* The worker reads, or finds the end: then nobody can write, its child neither.
LEMMA ReadStep ==
  ASSUME ExecInv, NEW w \in Workers, Read(w)
  PROVE  ExecInv'
<1>1. /\ full' \in [Workers -> [in : 0..Capacity, out : 0..Capacity]]
      /\ \A v \in Workers : v # w => full'[v] = full[v]
      /\ \/ got'[w] = got[w] + full[w].out /\ full'[w].out = 0 /\ pc' = pc
         \/ full' = full /\ got' = got /\ full[w].out = 0 /\ ends[w]["outWrite"] = {}
      /\ got' \in [Workers -> Nat] /\ \A v \in Workers : v # w => got'[v] = got[v]
  <2>1. Capacity \in Nat BY ExecAssumption
  <2>2. full \in [Workers -> [in : 0..Capacity, out : 0..Capacity]] BY DEF ExecInv, TypeOK
  <2>3. full[w].out \in 0..Capacity /\ got \in [Workers -> Nat] BY <2>2 DEF ExecInv, TypeOK
  <2>4. CASE /\ got' = [got EXCEPT ![w] = @ + full[w].out]
             /\ full' = [full EXCEPT ![w].out = 0] /\ UNCHANGED <<pc, ends>>
    BY <2>1, <2>2, <2>3, <2>4
  <2>5. CASE full[w].out = 0 /\ ~Opened(w, "outWrite") /\ UNCHANGED <<got, full>>
    BY <2>2, <2>3, <2>5 DEF Opened
  <2> QED BY <2>4, <2>5 DEF Read
<1>2. /\ EndsTyped'
      /\ \A v \in Workers, e \in Ends :
           Server \in ends'[v][e] <=>
             Server \in ends[v][e] /\ ~(v = w /\ pc'[w] = "wait" /\ e = "outRead")
      /\ \A v, c \in Workers : \A e \in Ends : c \in ends'[v][e] <=> c \in ends[v][e]
  <2>1. EndsTyped BY DEF ExecInv, TypeOK, EndsTyped
  <2>2. \/ pc'[w] = "wait" /\ Close(w, {"outRead"})
        \/ pc'[w] = "read" /\ ends' = ends
    BY DEF ExecInv, TypeOK, Read, Goto
  <2>3. CASE pc'[w] = "wait" /\ Close(w, {"outRead"}) BY <2>1, <2>3, CloseEnds
  <2>4. CASE pc'[w] = "read" /\ ends' = ends BY <2>1, <2>4 DEF EndsTyped
  <2> QED BY <2>2, <2>3, <2>4
<1> USE DEF ExecInv, TypeOK, Read, Goto, childVars
<1>3. TypeOK' BY <1>1, <1>2 DEF EndsTyped, Labels
<1>4. Holds' BY <1>1, <1>2, JobTyped DEF Holds, HoldsWhile, HasChild
<1>5. HasChild' BY DEF HasChild
<1>6. Flows' BY JobTyped, <1>1 DEF Flows, HasChild
<1>7. Speaks' BY <1>1, <1>2 DEF Speaks, HasChild, Holds
<1>8. Ended' BY <1>1, <1>2, JobTyped DEF Ended, HasChild, Flows, Speaks
<1> QED BY <1>3, <1>4, <1>5, <1>6, <1>7, <1>8

\* A child ends: what it had open is closed.
LEMMA ExitStep ==
  ASSUME ExecInv, NEW w \in Workers, NEW how \in {"done", "dead"}, Exit(w, how),
         how = "done" => fed[w] = job[w].body /\ said[w] = job[w].answer,
         faults' \in 0..MaxFaults
  PROVE  ExecInv'
<1>1. /\ EndsTyped'
      /\ \A v \in Workers, e \in Ends : Server \in ends'[v][e] <=> Server \in ends[v][e]
      /\ \A v, c \in Workers : \A e \in Ends :
           c # w => (c \in ends'[v][e] <=> c \in ends[v][e])
  <2>1. EndsTyped BY DEF ExecInv, TypeOK, EndsTyped
  <2> QED BY <2>1, ExitEnds
<1> USE DEF ExecInv, TypeOK, Exit, Become, workerVars
<1>2. TypeOK' BY <1>1 DEF EndsTyped, Labels
<1>3. Holds' BY <1>1, JobTyped DEF Holds, HoldsWhile, HasChild
<1>4. HasChild' BY DEF HasChild
<1>5. Flows' BY JobTyped DEF Flows, HasChild
<1>6. Speaks' BY <1>1 DEF Speaks, HasChild, Holds
<1>7. Ended' BY <1>1, JobTyped DEF Ended, HasChild, Flows, Speaks
<1> QED BY <1>2, <1>3, <1>4, <1>5, <1>6, <1>7

-----------------------------------------------------------------------------
\* The invariant holds in every reachable state.
THEOREM AlwaysExecInv == Spec => []ExecInv
<1>1. ExecInv /\ [Next]_vars => ExecInv'
  <2> SUFFICES ASSUME ExecInv, [Next]_vars PROVE ExecInv' OBVIOUS
  <2>1. CASE UNCHANGED vars
    BY <2>1 DEF vars, workerVars, childVars, ExecInv, TypeOK, Holds, HoldsWhile, HasChild,
                Flows, Speaks, Ended
  <2>2. ASSUME NEW w \in Workers, NEW j \in Jobs, Call(w, j) PROVE ExecInv'
    BY <2>2, CallStep
  <2>3. ASSUME NEW w \in Workers, Worker(w) PROVE ExecInv'
    BY <2>3, OpenInStep, OpenOutStep, ForkStep, CloseChildEndsStep, WriteStep, CloseInStep,
       ReadStep, WaitStep DEF Worker
  <2>4. ASSUME NEW w \in Workers, Child(w) PROVE ExecInv'
    <3>1. CASE Feed(w) BY <3>1, FeedStep
    <3>2. CASE Say(w) BY <3>2, SayStep
    <3>3. CASE Finish(w)
      <4>1. faults' \in 0..MaxFaults BY <3>3 DEF Finish, Succeed, ExecInv, TypeOK
      <4>2. PICK how \in {"done", "dead"} : Exit(w, how) BY <3>3 DEF Finish
      <4>3. fed[w] = job[w].body /\ said[w] = job[w].answer BY <3>3 DEF Finish
      <4> QED BY <4>1, <4>2, <4>3, ExitStep
    <3>4. CASE Put(w) BY <3>4, PutStep
    <3> QED BY <2>4, <3>1, <3>2, <3>3, <3>4 DEF Child
  <2>5. ASSUME NEW w \in Workers, Break(w) PROVE ExecInv'
    <3>1. faults' \in 0..MaxFaults
      BY <2>5, ExecAssumption DEF Break, Fault, ExecInv, TypeOK
    <3> QED BY <2>5, <3>1, ExitStep DEF Break
  <2> QED BY <2>1, <2>2, <2>3, <2>4, <2>5 DEF Next
<1> QED BY <1>1, InitExec, PTL DEF Spec

\* Every variable keeps its type, and no pipe holds more than its capacity.
THEOREM ExecTypeCorrect == Spec => []TypeOK
  BY AlwaysExecInv, PTL DEF ExecInv

\* On every way out of the function the server has closed its descriptors and waited
\* for its child, whatever failed and whoever else forked meanwhile (http.cpp:50-104).
THEOREM AlwaysNothingLeft == Spec => []NothingLeft
<1>1. ExecInv => NothingLeft
  BY DEF ExecInv, TypeOK, Holds, HoldsWhile, HasChild, NothingLeft
<1> QED BY <1>1, AlwaysExecInv, PTL

\* What a call returns is all its child wrote, and the child ended well
\* (http.cpp:88-103).
THEOREM AlwaysWholeOutput == Spec => []OutputIsWhole
<1>1. ExecInv => OutputIsWhole
  BY DEF ExecInv, Ended, OutputIsWhole
<1> QED BY <1>1, AlwaysExecInv, PTL
=============================================================================
