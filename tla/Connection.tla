----------------------------- MODULE Connection -----------------------------
(***************************************************************************)
(* One HTTP connection of aurhubd and the worker thread that owns it: the  *)
(* input buffer, the response in flight, pipelining, the half-closed peer, *)
(* the limits, and the interest registered with a level-triggered epoll.   *)
(* The client sends a script of requests, in pieces, and may stop, shut    *)
(* its side down or reset; the active snapshot changes meanwhile.          *)
(*                                                                         *)
(* Bytes are counted in units.  Positions in the input are absolute, from  *)
(* the first byte of the connection: `input` is what lies between the      *)
(* positions consumed and received.                                        *)
(*                                                                         *)
(* How long a request is the code decides twice: the connection cuts it    *)
(* off by the digits after the first "content-length:" it finds anywhere   *)
(* in the header, the parser reads the headers.  A request has both        *)
(* lengths, framed and body; where they differ the front of the input gets *)
(* out of step with the requests the client sent.                          *)
(***************************************************************************)
EXTENDS Integers, Sequences

CONSTANTS
  Scripts,                  \* what clients send: sequences of requests
  MaxHeaderBytes,           \* kMaxHeaderBytes
  MaxBufferedInputBytes,    \* kMaxBufferedInputBytes
  MaxResponsesPerDispatch,  \* kMaxResponsesPerDispatch
  RecvBytes,                \* the buffer of recv
  SendBytes,                \* what the kernel takes before the client reads
  Word,                     \* the modulus of size_t
  MaxGeneration             \* bound: snapshots activated

\* start: where it begins; head: up to and with the empty line; body: by its header
\* Content-Length; framed: by the search for that name; rest: by the same search when
\* the beginning of the header is gone; close: the response says so; file: the part of
\* the response sent from the snapshot.
Request == [start : Nat, head : Nat \ {0}, body : Nat, framed : Nat, rest : Nat,
            close : BOOLEAN, file : Nat]

ASSUME ConnectionAssumption ==
  /\ Scripts \subseteq Seq(Request)
  /\ \A s \in Scripts :
       /\ s # <<>> /\ s[1].start = 0
       /\ \A k \in 1..(Len(s) - 1) : s[k + 1].start = s[k].start + s[k].head + s[k].body
  /\ MaxHeaderBytes \in Nat /\ MaxBufferedInputBytes \in Nat
  /\ MaxResponsesPerDispatch \in Nat \ {0}
  /\ RecvBytes \in Nat \ {0} /\ SendBytes \in Nat \ {0}
  /\ Word \in Nat \ {0}
  /\ MaxGeneration \in Nat

VARIABLES
  script,      \* what this client sends
  sent,        \* units the client has sent
  peer,        \* the client's side: "open", "shut" for writing, or "reset"
  generation,  \* the active snapshot
  received,    \* units the worker has read
  consumed,    \* units that were answered or thrown away
  nextRequest, \* the request whose header ends first in the input
  response,    \* the response in flight, or NoResponse
  peerReadClosed,
  pollOut,     \* EPOLLOUT is registered
  unread,      \* units sent that the client has not read
  pc,          \* where the worker stands with this connection
  active,      \* the snapshot of this round of events
  completed,   \* responses completed in this dispatch
  answers      \* the responses completed: request, whether it was whole, generation

clientVars == <<script, sent, peer>>
inputVars == <<received, consumed, nextRequest>>
vars == <<clientVars, generation, inputVars, response, peerReadClosed, pollOut,
          unread, pc, active, completed, answers>>

NoResponse ==
  [request |-> 0, whole |-> FALSE, left |-> 0, close |-> FALSE, generation |-> 0]
TooLarge == -1    \* answered 431 instead of a request

HasResponse == response # NoResponse
Buffered == received - consumed

\* The first positions after the header of request k of the script, and after it all.
HeadEnd(k) == script[k].start + script[k].head
End(k) == HeadEnd(k) + script[k].body
Length == End(Len(script))

Init ==
  /\ script \in Scripts
  /\ sent = 0 /\ peer = "open" /\ generation = 1
  /\ received = 0 /\ consumed = 0 /\ nextRequest = 1
  /\ response = NoResponse
  /\ peerReadClosed = FALSE /\ pollOut = FALSE
  /\ unread = 0
  /\ pc = "wait" /\ active = 0 /\ completed = 0
  /\ answers = <<>>

-----------------------------------------------------------------------------
(* Environment *)

\* The client sends up to the middle of a request or to its end.
Send ==
  /\ peer = "open" /\ sent < Length /\ pc # "closed"
  /\ sent' \in (sent + 1)..Length
  /\ UNCHANGED <<script, peer, generation, inputVars, response, peerReadClosed,
                 pollOut, unread, pc, active, completed, answers>>

\* shutdown(SHUT_WR), or an abort of the connection.
Leave ==
  /\ \/ peer = "open" /\ peer' = "shut"
     \/ peer # "reset" /\ peer' = "reset"
  /\ pc # "closed"
  /\ UNCHANGED <<script, sent, generation, inputVars, response, peerReadClosed,
                 pollOut, unread, pc, active, completed, answers>>

ClientReads ==
  /\ unread > 0
  /\ unread' = 0
  /\ UNCHANGED <<clientVars, generation, inputVars, response, peerReadClosed,
                 pollOut, pc, active, completed, answers>>

\* The control thread stores the next snapshot.
Activate ==
  /\ generation < MaxGeneration
  /\ generation' = generation + 1
  /\ UNCHANGED <<clientVars, inputVars, response, peerReadClosed, pollOut,
                 unread, pc, active, completed, answers>>

-----------------------------------------------------------------------------
(* serve_worker: one round of epoll_wait, seen from this connection *)

Readable == sent > received \/ peer = "shut"
Goto(label) == pc' = label

\* EPOLLIN while the peer may still send, EPOLLRDHUP always, EPOLLOUT on demand.
\* The snapshot is loaded after epoll_wait returned.
Wake ==
  /\ pc = "wait"
  /\ \/ peer = "reset" /\ Goto("close")
     \/ peer # "reset" /\ Readable /\ Goto("read")
     \/ peer # "reset" /\ ~Readable /\ pollOut /\ unread < SendBytes /\ Goto("prepare")
  /\ active' = generation
  /\ completed' = 0
  /\ UNCHANGED <<clientVars, generation, inputVars, response, peerReadClosed,
                 pollOut, unread, answers>>

\* closed_response: the input is thrown away, the connection will be closed.
Refuse(end) ==
  /\ response' = [request |-> TooLarge, whole |-> FALSE, left |-> 1, close |-> TRUE,
                  generation |-> 0]
  /\ consumed' = end

\* What recv returns, up to the size of its buffer.
Recv == IF sent - received < RecvBytes THEN sent ELSE received + RecvBytes

BugRead ==
  /\ pc = "read"
  /\ \/ /\ peer = "reset" /\ Goto("close")
        /\ UNCHANGED <<inputVars, response, peerReadClosed>>
     \/ /\ peer # "reset" /\ sent > received
        /\ received' = Recv
        /\ UNCHANGED <<pc, response, consumed, nextRequest, peerReadClosed>>
     \/ /\ peer # "reset" /\ sent = received
        /\ peerReadClosed' = (peer = "shut")
        /\ Goto("prepare")
        /\ UNCHANGED <<inputVars, response>>
  /\ UNCHANGED <<clientVars, generation, pollOut, unread, active, completed, answers>>
\* One turn of read_requests: recv gets what fits its buffer, the end of the
\* input, or nothing yet.  Too much input closes the connection after the
\* response in flight, or is refused at once.
Read ==
  /\ pc = "read"
  /\ \/ /\ peer = "reset" /\ Goto("close")
        /\ UNCHANGED <<inputVars, response, peerReadClosed>>
     \/ /\ peer # "reset" /\ sent > received
        /\ received' = Recv
        /\ IF received' - consumed <= MaxBufferedInputBytes
             THEN UNCHANGED <<pc, response, consumed>>
           ELSE IF HasResponse
             THEN /\ response' = [response EXCEPT !.close = TRUE]
                  /\ consumed' = received'
                  /\ Goto("prepare")
           ELSE Refuse(received') /\ Goto("prepare")
        /\ UNCHANGED <<nextRequest, peerReadClosed>>
     \/ /\ peer # "reset" /\ sent = received
        /\ peerReadClosed' = (peer = "shut")
        /\ Goto("prepare")
        /\ UNCHANGED <<inputVars, response>>
  /\ UNCHANGED <<clientVars, generation, pollOut, unread, active, completed, answers>>

-----------------------------------------------------------------------------
(* prepare_next_response *)

Current == script[nextRequest]
HeaderComplete == nextRequest <= Len(script) /\ received >= HeadEnd(nextRequest)

\* The input begins where a request does, or inside of one, after bytes that were
\* taken for the body of the one before.
Aligned == consumed = Current.start
HeadSize == HeadEnd(nextRequest) - consumed
Needed == (HeadSize + (IF Aligned THEN Current.framed ELSE Current.rest)) % Word
Whole == Aligned /\ Needed = Current.head + Current.body

\* The header is too long, or so is the request, or the body is still coming.
MustRefuse ==
  IF HeaderComplete
    THEN \/ HeadSize > MaxHeaderBytes
         \/ Buffered < Needed /\ Needed > MaxBufferedInputBytes
    ELSE Buffered > MaxHeaderBytes

CanAnswer == HeaderComplete /\ ~MustRefuse /\ Buffered >= Needed

\* Takes what is needed from the input.  Request k is the first after it with the end
\* of a header in what follows.
Consume ==
  /\ consumed' = consumed + Needed
  /\ \E k \in nextRequest..(Len(script) + 1) :
       /\ \A j \in nextRequest..(k - 1) : HeadEnd(j) <= consumed'
       /\ k <= Len(script) => HeadEnd(k) > consumed'
       /\ nextRequest' = k

\* What parse_http_request may answer to what was cut off: a request that lacks some of
\* its header or body is refused with "close"; the end of one can be read as anything.
MayClose(close) ==
  IF Aligned THEN close <=> Current.close \/ Needed < Current.head + Current.body
             ELSE Needed < HeadSize => close
Files == IF Aligned THEN {Current.file} ELSE {0, Current.file}

BugAnswer(gen) ==
  /\ Consume
  /\ \E close \in BOOLEAN, file \in Files :
       /\ MayClose(close)
       /\ response' = [request |-> nextRequest, whole |-> Whole, left |-> 1 + file,
                       close |-> close, generation |-> IF file > 0 THEN generation ELSE gen]
\* A response holds on to the snapshot it was made from.
Answer(gen) ==
  /\ Consume
  /\ \E close \in BOOLEAN, file \in Files :
       /\ MayClose(close)
       /\ response' = [request |-> nextRequest, whole |-> Whole, left |-> 1 + file,
                       close |-> close, generation |-> gen]

\* Makes the next response, if the input holds a request or must be refused.
PrepareNext ==
  \/ CanAnswer /\ Answer(active) /\ UNCHANGED received
  \/ MustRefuse /\ Refuse(received) /\ UNCHANGED <<received, nextRequest>>
  \/ ~CanAnswer /\ ~MustRefuse /\ response' = NoResponse /\ UNCHANGED inputVars

Prepare ==
  /\ pc = "prepare"
  /\ IF HasResponse THEN UNCHANGED <<inputVars, response>> ELSE PrepareNext
  /\ Goto("drive")
  /\ UNCHANGED <<clientVars, generation, peerReadClosed, pollOut, unread, active,
                 completed, answers>>

-----------------------------------------------------------------------------
(* drive_output *)

\* send and sendfile take what there is room for; EAGAIN ends the dispatch.
Transmit ==
  /\ pc = "drive" /\ HasResponse /\ response.left > 0
  /\ LET room == SendBytes - unread
         n == IF room < response.left THEN room ELSE response.left
     IN IF peer = "reset"
          THEN Goto("close") /\ UNCHANGED <<response, unread>>
        ELSE IF room = 0
          THEN Goto("finish") /\ UNCHANGED <<response, unread>>
        ELSE /\ unread' = unread + n
             /\ response' = [response EXCEPT !.left = @ - n]
             /\ UNCHANGED pc
  /\ UNCHANGED <<clientVars, generation, inputVars, peerReadClosed, pollOut, active,
                 completed, answers>>

Record(r) == [request |-> r.request, whole |-> r.whole, generation |-> r.generation]

BugComplete ==
  /\ pc = "drive" /\ HasResponse /\ response.left = 0
  /\ answers' = Append(answers, Record(response))
  /\ completed' = completed + 1
  /\ IF response.close
       THEN Goto("close") /\ response' = NoResponse /\ UNCHANGED inputVars
       ELSE /\ PrepareNext
            /\ Goto(IF completed' >= MaxResponsesPerDispatch /\ peerReadClosed
                      THEN "close"
                    ELSE IF response' = NoResponse \/ completed' >= MaxResponsesPerDispatch
                      THEN "finish" ELSE "drive")
  /\ UNCHANGED <<clientVars, generation, peerReadClosed, pollOut, unread, active>>
\* The response is out: the next one, within the limit of a dispatch.
Complete ==
  /\ pc = "drive" /\ HasResponse /\ response.left = 0
  /\ answers' = Append(answers, Record(response))
  /\ completed' = completed + 1
  /\ IF response.close
       THEN Goto("close") /\ response' = NoResponse /\ UNCHANGED inputVars
       ELSE /\ PrepareNext
            /\ Goto(IF response' = NoResponse \/ completed' >= MaxResponsesPerDispatch
                      THEN "finish" ELSE "drive")
  /\ UNCHANGED <<clientVars, generation, peerReadClosed, pollOut, unread, active>>

NothingToDrive ==
  /\ pc = "drive" /\ ~HasResponse
  /\ Goto("finish")
  /\ UNCHANGED <<clientVars, generation, inputVars, response, peerReadClosed, pollOut,
                 unread, active, completed, answers>>

BugFinish ==
  /\ pc = "finish"
  /\ Goto("wait") /\ pollOut' = HasResponse
  /\ UNCHANGED <<clientVars, generation, inputVars, response, peerReadClosed, unread,
                 active, completed, answers>>
\* A peer that will send no more is left when nothing is owed to it;
\* update_interest otherwise.
Finish ==
  /\ pc = "finish"
  /\ IF peerReadClosed /\ ~HasResponse
       THEN Goto("close") /\ UNCHANGED pollOut
       ELSE Goto("wait") /\ pollOut' = HasResponse
  /\ UNCHANGED <<clientVars, generation, inputVars, response, peerReadClosed, unread,
                 active, completed, answers>>

Close ==
  /\ pc = "close"
  /\ Goto("closed")
  /\ UNCHANGED <<clientVars, generation, inputVars, response, peerReadClosed, pollOut,
                 unread, active, completed, answers>>

-----------------------------------------------------------------------------
Worker ==
  \/ Wake \/ Read \/ Prepare \/ Transmit \/ Complete \/ NothingToDrive
  \/ Finish \/ Close

Next == Send \/ Leave \/ ClientReads \/ Activate \/ Worker

Spec == Init /\ [][Next]_vars

\* The worker is scheduled; the client reads what it is sent.
FairSpec == Spec /\ WF_vars(Worker) /\ WF_vars(ClientReads)
-----------------------------------------------------------------------------
(* Properties *)

Responses == [request : Nat \cup {TooLarge}, whole : BOOLEAN, left : Nat, close : BOOLEAN,
              generation : Nat]
Answers == [request : Nat \cup {TooLarge}, whole : BOOLEAN, generation : Nat]

\* Every variable has its type (the type invariant).
TypeOK ==
  /\ script \in Scripts
  /\ sent \in Nat /\ received \in 0..sent /\ consumed \in 0..received
  /\ peer \in {"open", "shut", "reset"}
  /\ nextRequest \in Nat \ {0}
  /\ generation \in Nat \ {0} /\ active \in 0..generation
  /\ response \in Responses
  /\ peerReadClosed \in BOOLEAN /\ pollOut \in BOOLEAN
  /\ unread \in 0..SendBytes
  /\ pc \in {"wait", "read", "prepare", "drive", "finish", "close", "closed"}
  /\ completed \in Nat
  /\ answers \in Seq(Answers)

\* A script within the limits: it may be pipelined in one piece.
Regular ==
  /\ \A k \in DOMAIN script : script[k].head <= MaxHeaderBytes
  /\ Length <= MaxBufferedInputBytes

\* The requests before k and k itself are cut off as they are meant.
Framed(k) == \A j \in 1..k : script[j].framed = script[j].body

\* Request k is owed an answer: sent to its end, after no "close", and nothing before it
\* is cut off at a wrong place.
Owed(k) ==
  /\ k \in DOMAIN script /\ sent >= End(k)
  /\ \A j \in 1..(k - 1) : ~script[j].close
  /\ Framed(k)

Answered(k) == \E n \in DOMAIN answers : answers[n].request = k /\ answers[n].whole

\* Every request that was sent to its end is answered as it was sent, however it was cut
\* in pieces or pipelined, also when the peer has shut down its side, the limit of a
\* dispatch is hit or the socket is full (server.cpp:271-338, 462-488).  This ends with
\* the first request whose framed length is not its body's, as one with a header
\* X-Content-Length: it takes bytes of the next request with it, or waits for bytes that
\* never come, and nothing is owed for it or after it (connection.cpp:75-96).
RequestsAnswered ==
  \A k \in 1..3 : (Regular /\ Owed(k)) ~> (Answered(k) \/ peer = "reset")

\* A connection is not kept for a peer that is gone, whatever is left in its input, nor
\* past a request that is too large, if that is where the input begins
\* (server.cpp:478-487, connection.cpp:51-109).
ConnectionEnds ==
  /\ peer # "open" ~> pc = "closed"
  /\ (\E k \in DOMAIN script :
         script[k].head > MaxHeaderBytes /\ sent >= End(k) /\ Framed(k - 1))
       ~> (pc = "closed" \/ \E k \in DOMAIN script : script[k].close /\ Answered(k))

\* Answers come in the order of the requests and none twice; none is left out after one
\* that was cut off as it was meant; a refusal is the last; and a connection never shows
\* an older snapshot after a newer one.
Earlier(a, b) ==
  /\ a.request # TooLarge
  /\ b.request # TooLarge =>
       /\ b.request > a.request /\ a.generation <= b.generation
       /\ a.whole => b.request = a.request + 1
AnswersInOrder ==
  \A n \in 2..Len(answers) : Earlier(answers[n - 1], answers[n])

\* Between two calls of recv the input buffer is within its limit, whatever the
\* client sends while a response is stuck (server.cpp:236-269).
InputBounded == Buffered <= MaxBufferedInputBytes
=============================================================================
