-------------------------- MODULE ConnectionProofs --------------------------
(***************************************************************************)
(* Proofs about one connection, for every script, every limit and every    *)
(* interleaving of the client, the worker and the activations: the types,  *)
(* the bound of the input buffer, and the order of the answers.            *)
(*                                                                         *)
(* AnswersInOrder is not inductive: what comes next depends on the         *)
(* response in flight.  The invariant says which request that response     *)
(* answers (InFlight) and that the last answer came just before it         *)
(* (Following), or that the worker is about to close.                      *)
(***************************************************************************)
EXTENDS Connection, TLAPS

\* The response in flight answers a request before the front of the input, the one just
\* before if it was cut off as it was meant, from a snapshot that was active; or else it
\* closes.
InFlight ==
  HasResponse =>
    \/ response.request = TooLarge /\ response.close
    \/ /\ response.request >= 1 /\ response.generation <= active
       /\ \/ response.close
          \/ /\ nextRequest > response.request
             /\ response.whole => nextRequest = response.request + 1

\* What the last answer leaves to be answered next.
Continues(a, k, gen) ==
  k > a.request /\ (a.whole => k = a.request + 1) /\ a.generation <= gen
Follows(a) ==
  /\ a.request # TooLarge
  /\ IF HasResponse /\ response.request # TooLarge
       THEN Continues(a, response.request, response.generation)
       ELSE Continues(a, nextRequest, active)

Following ==
  answers # <<>> => \/ pc \in {"close", "closed"}
                    \/ Follows(answers[Len(answers)])

ConnInv == TypeOK /\ InputBounded /\ InFlight /\ Following /\ AnswersInOrder

-----------------------------------------------------------------------------
USE DEF TooLarge

\* A request in the script is a request.
LEMMA CurrentIsRequest ==
  ASSUME TypeOK, HeaderComplete
  PROVE  Current \in Request
  BY ConnectionAssumption DEF TypeOK, HeaderComplete, Current

\* What a request says of itself are numbers.
LEMMA RequestSizes ==
  \A r \in Request : /\ r.start \in Nat /\ r.head \in Nat /\ r.head > 0 /\ r.body \in Nat
                     /\ r.framed \in Nat /\ r.rest \in Nat /\ r.file \in Nat
                     /\ r.close \in BOOLEAN
  BY DEF Request

\* What is needed for it is a number that a size_t holds.
LEMMA NeededIsWord ==
  ASSUME TypeOK, HeaderComplete
  PROVE  Needed \in Nat
<1>1. Current \in Request BY CurrentIsRequest
<1>2. HeadSize \in Int
  BY <1>1 DEF TypeOK, HeadSize, HeadEnd, Current, Request
<1>3. \A n \in Int, m \in Nat \ {0} : n % m \in Nat OBVIOUS
<1>4. (HeadSize + (IF Aligned THEN Current.framed ELSE Current.rest)) \in Int
  BY <1>1, <1>2 DEF Request
<1> QED BY <1>3, <1>4, ConnectionAssumption DEF Needed

\* The front of the input moves past a header that was consumed, and just to the next
\* request when all of this one was.
LEMMA FrontMoves ==
  ASSUME TypeOK, HeaderComplete, Consume
  PROVE  /\ nextRequest' \in Nat \ {0} /\ nextRequest' >= nextRequest
         /\ Needed >= HeadSize => nextRequest' > nextRequest
         /\ Whole => nextRequest' = nextRequest + 1
<1>1. /\ script \in Seq(Request) /\ nextRequest \in 1..Len(script) /\ Len(script) \in Nat
      /\ consumed \in Nat /\ Current \in Request
  BY ConnectionAssumption, CurrentIsRequest DEF TypeOK, HeaderComplete
<1>2. PICK k \in nextRequest..(Len(script) + 1) :
        /\ \A j \in nextRequest..(k - 1) : HeadEnd(j) <= consumed'
        /\ k <= Len(script) => HeadEnd(k) > consumed'
        /\ nextRequest' = k
  BY DEF Consume
<1>3. consumed' = consumed + Needed /\ Needed \in Nat
  BY NeededIsWord DEF Consume
<1>4. HeadEnd(nextRequest) \in Nat /\ HeadSize = HeadEnd(nextRequest) - consumed
  BY <1>1, RequestSizes DEF HeadEnd, HeadSize, Current
<1>5. Needed >= HeadSize => k > nextRequest
  BY <1>1, <1>2, <1>3, <1>4
<1>6. ASSUME Whole PROVE k = nextRequest + 1
  <2>1. /\ consumed = Current.start /\ Needed = Current.head + Current.body
        /\ HeadEnd(nextRequest) = Current.start + Current.head
        /\ Current.start \in Nat /\ Current.head \in Nat /\ Current.body \in Nat
    BY <1>1, <1>6 DEF Whole, Aligned, HeadEnd, Current, Request
  <2>2. k > nextRequest
    BY <1>4, <1>5, <2>1
  <2>3. CASE nextRequest = Len(script)
    BY <1>1, <1>2, <2>2, <2>3
  <2>4. CASE nextRequest < Len(script)
    <3>1. /\ nextRequest \in 1..(Len(script) - 1) /\ nextRequest + 1 \in 1..Len(script)
      BY <1>1, <2>4
    <3>2. script[nextRequest + 1].start = consumed'
      <4>1. script \in Scripts BY DEF TypeOK
      <4>2. script[nextRequest + 1].start = Current.start + Current.head + Current.body
        BY <3>1, <4>1, ConnectionAssumption DEF Current
      <4> QED BY <4>2, <2>1, <1>3
    <3>3. script[nextRequest + 1] \in Request
      BY <1>1, <3>1
    <3>4. HeadEnd(nextRequest + 1) > consumed'
      BY <3>2, <3>3, <1>1, <1>3, RequestSizes DEF HeadEnd
    <3>5. HeadEnd(nextRequest + 1) \in Nat /\ consumed' \in Nat
      BY <3>3, <1>1, <1>3, RequestSizes DEF HeadEnd
    <3>6. ~(HeadEnd(nextRequest + 1) <= consumed')
      BY <3>4, <3>5
    <3>7. nextRequest + 1 \notin nextRequest..(k - 1)
      BY <1>2, <3>6
    <3> QED BY <1>1, <1>2, <2>2, <3>7
  <2> QED BY <1>1, <2>3, <2>4
<1> QED BY <1>1, <1>2, <1>5, <1>6

\* At the start nothing is in flight and nothing was answered.
LEMMA InitConn == ASSUME Init PROVE ConnInv
<1>1. response \in Responses BY DEF Init, NoResponse, Responses
<1>5. answers \in Seq(Answers) BY DEF Init
<1>7. SendBytes \in Nat BY ConnectionAssumption
<1>8. /\ sent \in Nat /\ received \in 0..sent /\ consumed \in 0..received
      /\ nextRequest \in Nat \ {0} /\ generation \in Nat \ {0}
      /\ active \in 0..generation /\ unread \in 0..SendBytes /\ completed \in Nat
  BY <1>7 DEF Init
<1>6. TypeOK BY <1>1, <1>5, <1>8 DEF Init, TypeOK
<1>2. InputBounded BY ConnectionAssumption DEF Init, InputBounded, Buffered
<1>3. InFlight /\ Following BY DEF Init, InFlight, HasResponse, Following
<1>4. AnswersInOrder BY DEF Init, AnswersInOrder
<1> QED BY <1>2, <1>3, <1>4, <1>6 DEF ConnInv

\* The client and the control thread touch nothing the order depends on: the
\* snapshot of a round is loaded once, by Wake.
LEMMA EnvironmentStep ==
  ASSUME ConnInv, Send \/ Leave \/ ClientReads \/ Activate
  PROVE  ConnInv'
<1> USE ConnectionAssumption
<1>1. TypeOK'
  <2>1. CASE Send      BY <2>1 DEF ConnInv, TypeOK, Send, inputVars
  <2>2. CASE Leave     BY <2>2 DEF ConnInv, TypeOK, Leave, inputVars
  <2>3. CASE ClientReads BY <2>3 DEF ConnInv, TypeOK, ClientReads, clientVars, inputVars
  <2>4. CASE Activate  BY <2>4 DEF ConnInv, TypeOK, Activate, clientVars, inputVars
  <2> QED BY <2>1, <2>2, <2>3, <2>4
<1>2. UNCHANGED <<inputVars, response, pc, active, answers>>
  BY DEF Send, Leave, ClientReads, Activate
<1>3. InputBounded' /\ InFlight' /\ Following' /\ AnswersInOrder'
  BY <1>2 DEF ConnInv, InputBounded, Buffered, InFlight, HasResponse, Following, Follows,
              AnswersInOrder, inputVars
<1> QED BY <1>1, <1>3 DEF ConnInv

-----------------------------------------------------------------------------
(* The worker *)

\* A step of the worker that leaves the client alone keeps the types if it keeps
\* those of the input, the response and the place.
LEMMA StaysTyped ==
  ASSUME TypeOK, UNCHANGED <<clientVars, generation, pollOut, active, completed, answers>>,
         received' \in 0..sent, consumed' \in 0..received', nextRequest' \in Nat \ {0},
         response' \in Responses, peerReadClosed' \in BOOLEAN, unread' \in 0..SendBytes,
         pc' \in {"read", "prepare", "drive", "finish", "close"}
  PROVE  TypeOK'
  BY DEF TypeOK, clientVars

\* What prepare_next_response can do: nothing, a refusal, or the answer to the
\* request at the front, from the snapshot of this round.
LEMMA Prepared ==
  ASSUME TypeOK, InputBounded, PrepareNext
  PROVE  /\ received' = received /\ consumed' \in consumed..received
         /\ nextRequest' \in Nat \ {0}
         /\ response' \in Responses
         /\ \/ response' = NoResponse /\ nextRequest' = nextRequest
            \/ /\ response'.request = TooLarge /\ response'.close
               /\ nextRequest' = nextRequest
            \/ /\ response'.request = nextRequest /\ response'.generation = active
               /\ \/ response'.close
                  \/ /\ nextRequest' > nextRequest
                     /\ response'.whole => nextRequest' = nextRequest + 1
<1>1. CASE CanAnswer /\ Answer(active) /\ UNCHANGED received
  <2>1. HeaderComplete /\ Current \in Request BY <1>1, CurrentIsRequest DEF CanAnswer
  <2>2. Needed \in Nat /\ Buffered >= Needed
    BY <1>1, <2>1, NeededIsWord DEF CanAnswer
  <2>3. consumed' \in consumed..received
    BY <1>1, <2>2 DEF TypeOK, Answer, Consume, Buffered
  <2>4. /\ nextRequest' \in Nat \ {0}
        /\ Needed >= HeadSize => nextRequest' > nextRequest
        /\ Whole => nextRequest' = nextRequest + 1
    BY <1>1, <2>1, FrontMoves DEF Answer
  <2>5. PICK close \in BOOLEAN, file \in Files :
          /\ MayClose(close)
          /\ response' = [request |-> nextRequest, whole |-> Whole, left |-> 1 + file,
                          close |-> close, generation |-> active]
    BY <1>1 DEF Answer
  <2>6. file \in Nat /\ Whole \in BOOLEAN
    <3>1. file \in Nat BY <2>1, RequestSizes DEF Files
    <3>2. Whole \in BOOLEAN BY Zenon DEF Whole
    <3> QED BY <3>1, <3>2
  <2>7. response' \in Responses
    BY <2>5, <2>6 DEF TypeOK, Responses
  <2>8. close \/ Needed >= HeadSize
    <3>1. /\ consumed \in Nat /\ HeadSize = HeadEnd(nextRequest) - consumed
          /\ HeadEnd(nextRequest) = Current.start + Current.head
          /\ Current.start \in Nat /\ Current.head \in Nat /\ Current.body \in Nat
      BY <2>1, RequestSizes DEF TypeOK, HeadSize, HeadEnd, Current
    <3>2. CASE Aligned
      <4>1. close \/ ~(Needed < Current.head + Current.body)
        BY <2>5, <3>2, Zenon DEF MayClose
      <4>2. HeadSize = Current.head
        BY <3>1, <3>2 DEF Aligned
      <4> QED BY <2>2, <3>1, <4>1, <4>2
    <3>3. CASE ~Aligned
      <4>1. close \/ ~(Needed < HeadSize)
        BY <2>5, <3>3, Zenon DEF MayClose
      <4> QED BY <2>2, <3>1, <4>1
    <3> QED BY <3>2, <3>3
  <2>9. /\ response'.request = nextRequest /\ response'.generation = active
        /\ response'.close = close /\ response'.whole = Whole
    BY <2>5
  <2> QED BY <1>1, <2>3, <2>4, <2>7, <2>8, <2>9 DEF TypeOK
<1>2. CASE MustRefuse /\ Refuse(received) /\ UNCHANGED <<received, nextRequest>>
  BY <1>2 DEF TypeOK, Refuse, Responses
<1>3. CASE /\ ~CanAnswer /\ ~MustRefuse
           /\ response' = NoResponse /\ UNCHANGED inputVars
  BY <1>3 DEF TypeOK, NoResponse, inputVars, Responses
<1> QED BY <1>1, <1>2, <1>3 DEF PrepareNext

\* A round begins: the snapshot loaded is no older than the one before.
LEMMA WakeStep == ASSUME ConnInv, Wake PROVE ConnInv'
<1>1. TypeOK' BY DEF ConnInv, TypeOK, Wake, Goto, clientVars, inputVars
<1>2. active <= active' /\ active \in Nat /\ active' \in Nat BY DEF ConnInv, TypeOK, Wake
<1>3. InputBounded' /\ AnswersInOrder'
  BY DEF ConnInv, Wake, InputBounded, Buffered, AnswersInOrder, inputVars
<1>4. InFlight'
  BY <1>2 DEF ConnInv, TypeOK, Wake, InFlight, HasResponse, inputVars, Responses
<1>5. Following'
  <2> SUFFICES ASSUME answers # <<>>
               PROVE  Follows(answers[Len(answers)])'
    BY DEF Wake, Following
  <2>1. answers[Len(answers)] \in Answers BY DEF ConnInv, TypeOK
  <2>2. Follows(answers[Len(answers)])
    BY DEF ConnInv, Following, Wake
  <2> QED BY <1>2, <2>1, <2>2 DEF Wake, Follows, Continues, HasResponse, inputVars, Answers
<1> QED BY <1>1, <1>3, <1>4, <1>5 DEF ConnInv

\* recv adds at most its buffer; what is too much is thrown away in the same
\* step, and a refusal is only made when nothing is in flight.
LEMMA ReadStep == ASSUME ConnInv, Read PROVE ConnInv'
<1>1. CASE UNCHANGED <<inputVars, response>> /\ peerReadClosed' \in BOOLEAN
           /\ pc' \in {"close", "prepare"}
  <2>1. TypeOK' BY <1>1 DEF ConnInv, TypeOK, Read, Goto, inputVars, clientVars
  <2>2. InputBounded' /\ InFlight' /\ AnswersInOrder' /\ Following'
    BY <1>1 DEF ConnInv, InputBounded, Buffered, InFlight, HasResponse, Following, Follows,
                AnswersInOrder, inputVars, Read, Goto
  <2> QED BY <2>1, <2>2 DEF ConnInv
<1>2. CASE /\ peer # "reset" /\ sent > received
           /\ received' = Recv
           /\ IF received' - consumed <= MaxBufferedInputBytes
                THEN UNCHANGED <<pc, response, consumed>>
              ELSE IF HasResponse
                THEN /\ response' = [response EXCEPT !.close = TRUE]
                     /\ consumed' = received'
                     /\ Goto("prepare")
              ELSE Refuse(received') /\ Goto("prepare")
           /\ UNCHANGED <<nextRequest, peerReadClosed>>
  <2>0. /\ received' \in Nat /\ received' \in 0..sent
        /\ consumed \in 0..received' /\ received' \in 0..received'
    <3>1. sent \in Nat /\ received \in 0..sent /\ consumed \in 0..received
      BY DEF ConnInv, TypeOK
    <3>2. received' = Recv /\ sent > received BY <1>2
    <3>3. RecvBytes \in Nat BY ConnectionAssumption
    <3> QED BY <3>1, <3>2, <3>3 DEF Recv
  <2>1. UNCHANGED <<clientVars, generation, pollOut, unread, active, completed, answers>>
    BY DEF Read
  <2>2. CASE received' - consumed <= MaxBufferedInputBytes
    <3>1. TypeOK'
      <4>1. UNCHANGED <<pc, response, consumed, nextRequest, peerReadClosed, unread>>
        BY <1>2, <2>1, <2>2
      <4>2. /\ nextRequest' \in Nat \ {0} /\ response' \in Responses
            /\ peerReadClosed' \in BOOLEAN /\ unread' \in 0..SendBytes /\ pc' = "read"
        BY <4>1 DEF ConnInv, TypeOK, Read
      <4>3. consumed' \in 0..received' BY <2>0, <4>1
      <4> QED BY <2>0, <2>1, <4>2, <4>3, StaysTyped DEF ConnInv
    <3>2. InputBounded' BY <1>2, <2>2 DEF InputBounded, Buffered
    <3>3. InFlight' /\ AnswersInOrder' /\ Following'
      BY <1>2, <2>1, <2>2 DEF ConnInv, InFlight, HasResponse, Following, Follows,
                              AnswersInOrder
    <3> QED BY <3>1, <3>2, <3>3 DEF ConnInv
  <2>3. CASE ~(received' - consumed <= MaxBufferedInputBytes) /\ HasResponse
    <3>1. response' = [response EXCEPT !.close = TRUE] /\ consumed' = received'
          /\ pc' = "prepare"
      BY <1>2, <2>3 DEF Goto
    <3>2. TypeOK'
      <4>1. response' \in Responses BY <3>1 DEF ConnInv, TypeOK, Responses
      <4>2. received' \in 0..sent /\ consumed' \in 0..received' BY <2>0, <3>1
      <4>3. /\ nextRequest' \in Nat \ {0} /\ peerReadClosed' \in BOOLEAN
            /\ unread' \in 0..SendBytes
        BY <1>2, <2>1 DEF ConnInv, TypeOK
      <4> QED BY <2>1, <3>1, <4>1, <4>2, <4>3, StaysTyped DEF ConnInv
    <3>3. InputBounded'
      <4>1. received' - consumed' = 0 BY <2>0, <3>1
      <4>2. MaxBufferedInputBytes \in Nat BY ConnectionAssumption
      <4> QED BY <4>1, <4>2 DEF InputBounded, Buffered
    <3>4. /\ response'.request = response.request
          /\ response'.generation = response.generation /\ response'.close
      BY <3>1 DEF ConnInv, TypeOK, Responses
    <3>5. HasResponse' BY <2>3, <3>4 DEF ConnInv, InFlight, HasResponse, NoResponse
    <3>6. InFlight' /\ AnswersInOrder'
      BY <1>2, <2>1, <2>3, <3>4, <3>5 DEF ConnInv, InFlight, AnswersInOrder
    <3>7. Following'
      BY <1>2, <2>1, <2>3, <3>4, <3>5 DEF ConnInv, Following, Follows, Read
    <3> QED BY <3>2, <3>3, <3>6, <3>7 DEF ConnInv
  <2>4. CASE ~(received' - consumed <= MaxBufferedInputBytes) /\ ~HasResponse
    <3>1. Refuse(received') /\ pc' = "prepare" BY <1>2, <2>4 DEF Goto
    <3>2. TypeOK'
      <4>1. response' \in Responses BY <3>1 DEF Refuse, Responses
      <4>2. consumed' = received' BY <3>1 DEF Refuse
      <4>3. received' \in 0..sent /\ consumed' \in 0..received' BY <2>0, <4>2
      <4>4. /\ nextRequest' \in Nat \ {0} /\ peerReadClosed' \in BOOLEAN
            /\ unread' \in 0..SendBytes
        BY <1>2, <2>1 DEF ConnInv, TypeOK
      <4> QED BY <2>1, <3>1, <4>1, <4>3, <4>4, StaysTyped DEF ConnInv
    <3>3. InputBounded'
      <4>1. received' \in Int /\ MaxBufferedInputBytes \in Nat
        BY <2>0, ConnectionAssumption DEF ConnInv, TypeOK
      <4>2. consumed' = received' BY <3>1 DEF Refuse
      <4>3. \A a, b \in Int : a = b => a - b = 0 OBVIOUS
      <4>4. received' - consumed' = 0 BY <4>1, <4>2, <4>3, Zenon
      <4> QED BY <4>1, <4>4 DEF InputBounded, Buffered
    <3>4. InFlight' /\ AnswersInOrder'
      BY <2>1, <3>1 DEF ConnInv, InFlight, AnswersInOrder, Refuse
    <3>5. Following'
      BY <1>2, <2>1, <2>4, <3>1 DEF ConnInv, Following, Follows, Refuse, Read
    <3> QED BY <3>2, <3>3, <3>4, <3>5 DEF ConnInv
  <2> QED BY <2>2, <2>3, <2>4
<1>3. peerReadClosed \in BOOLEAN BY DEF ConnInv, TypeOK
<1> QED BY <1>1, <1>2, <1>3 DEF Read, Goto, inputVars

\* The next response is prepared when none is in flight.
LEMMA PrepareStep == ASSUME ConnInv, Prepare PROVE ConnInv'
<1>0. UNCHANGED <<clientVars, generation, peerReadClosed, pollOut, unread, active,
                  completed, answers>> /\ pc = "prepare" /\ pc' = "drive"
  BY DEF Prepare, Goto
<1>1. CASE HasResponse
  <2>1. UNCHANGED <<inputVars, response>> BY <1>1 DEF Prepare
  <2>2. TypeOK' BY <1>0, <2>1 DEF ConnInv, TypeOK, inputVars, clientVars
  <2>3. InputBounded' /\ InFlight' /\ AnswersInOrder' /\ Following'
    BY <1>0, <2>1 DEF ConnInv, InputBounded, Buffered, InFlight, HasResponse, Following,
                      Follows, AnswersInOrder, inputVars
  <2> QED BY <2>2, <2>3 DEF ConnInv
<1>2. CASE ~HasResponse /\ PrepareNext
  <2>1. TypeOK' BY <1>0, <1>2, Prepared DEF ConnInv, TypeOK, clientVars
  <2>2. InputBounded'
    BY <1>2, Prepared, ConnectionAssumption DEF ConnInv, InputBounded, Buffered, TypeOK
  <2>3. InFlight'
    BY <1>0, <1>2, Prepared DEF ConnInv, InFlight, HasResponse, NoResponse, TypeOK
  <2>4. AnswersInOrder' BY <1>0 DEF ConnInv, AnswersInOrder
  <2>5. Following'
    <3> SUFFICES ASSUME answers # <<>> PROVE Follows(answers[Len(answers)])'
      BY <1>0 DEF Following
    <3>1. Follows(answers[Len(answers)]) BY <1>0 DEF ConnInv, Following
    <3>2. answers[Len(answers)] \in Answers
      BY DEF ConnInv, TypeOK
    <3> QED BY <1>0, <1>2, <3>1, <3>2, Prepared
            DEF ConnInv, TypeOK, Follows, HasResponse, NoResponse
  <2> QED BY <2>1, <2>2, <2>3, <2>4, <2>5 DEF ConnInv
<1> QED BY <1>1, <1>2 DEF Prepare

\* Sending takes units off the response and changes nothing else of it.
LEMMA TransmitStep == ASSUME ConnInv, Transmit PROVE ConnInv'
<1>0. UNCHANGED <<clientVars, generation, inputVars, peerReadClosed, pollOut, active,
                  completed, answers>>
  BY DEF Transmit
<1>1. /\ response'.request = response.request /\ response'.close = response.close
      /\ response'.whole = response.whole
      /\ response'.generation = response.generation
      /\ response' \in Responses
      /\ unread' \in 0..SendBytes /\ pc' \in {"drive", "finish", "close"}
  <2> DEFINE room == SendBytes - unread
             n == IF room < response.left THEN room ELSE response.left
  <2>1. /\ response \in Responses /\ response.left \in Nat
        /\ unread \in 0..SendBytes /\ SendBytes \in Nat
    BY ConnectionAssumption DEF ConnInv, TypeOK, Responses
  <2>2. n \in Nat /\ n <= response.left /\ unread + n \in 0..SendBytes
    BY <2>1
  <2>3. peer = "reset" \/ room = 0 =>
          UNCHANGED <<response, unread>> /\ pc' \in {"close", "finish"}
    BY DEF Transmit, Goto
  <2>4. ~(peer = "reset" \/ room = 0) =>
          /\ unread' = unread + n /\ response' = [response EXCEPT !.left = @ - n]
          /\ pc' = "drive"
    BY DEF Transmit
  <2> HIDE DEF room, n
  <2>5. CASE peer = "reset" \/ room = 0
    BY <2>1, <2>3, <2>5
  <2>6. CASE ~(peer = "reset" \/ room = 0)
    <3>1. response.left - n \in Nat BY <2>1, <2>2
    <3> QED BY <2>1, <2>2, <2>4, <2>6, <3>1 DEF Responses
  <2> QED BY <2>5, <2>6
<1>2. TypeOK'
  <2>1. /\ received' \in 0..sent /\ consumed' \in 0..received'
        /\ nextRequest' \in Nat \ {0} /\ peerReadClosed' \in BOOLEAN
    BY <1>0 DEF ConnInv, TypeOK, inputVars
  <2> QED BY <1>0, <1>1, <2>1, StaysTyped DEF ConnInv
<1>3. HasResponse /\ HasResponse'
  <2>1. response.request # 0
    BY DEF ConnInv, TypeOK, InFlight, Transmit
  <2> QED BY <1>1, <2>1 DEF HasResponse, NoResponse
<1>4. InputBounded' /\ InFlight' /\ AnswersInOrder'
  BY <1>0, <1>1, <1>3 DEF ConnInv, InputBounded, Buffered, InFlight, AnswersInOrder, inputVars
<1>5. Following'
  BY <1>0, <1>1, <1>3 DEF ConnInv, Following, Follows, inputVars, Transmit
<1> QED BY <1>2, <1>4, <1>5 DEF ConnInv
\* The response is out and becomes the last answer: the one before it named the
\* request before it, so the order holds; what follows is either nothing, a
\* refusal, the next request, or the end of the connection.
LEMMA CompleteStep == ASSUME ConnInv, Complete PROVE ConnInv'
<1> DEFINE a == Record(response)
<1>0. UNCHANGED <<clientVars, generation, peerReadClosed, pollOut, unread, active>>
      /\ pc = "drive" /\ HasResponse /\ answers' = Append(answers, a)
      /\ completed' = completed + 1
  BY DEF Complete
<1>1. /\ a \in Answers /\ a.request = response.request /\ a.whole = response.whole
      /\ a.generation = response.generation
  BY DEF ConnInv, TypeOK, Responses, Answers, Record
<1>2. answers \in Seq(Answers) BY DEF ConnInv, TypeOK
<1>3. /\ answers' \in Seq(Answers) /\ Len(answers') = Len(answers) + 1
      /\ answers'[Len(answers')] = a
      /\ \A n \in 1..Len(answers) : answers'[n] = answers[n]
  BY <1>0, <1>1, <1>2
<1>4. answers # <<>> => Follows(answers[Len(answers)])
  BY <1>0 DEF ConnInv, Following
<1>5. AnswersInOrder'
  <2> SUFFICES ASSUME NEW n \in 2..Len(answers')
               PROVE  Earlier(answers'[n - 1], answers'[n])
    BY DEF AnswersInOrder, Earlier
  <2>1. CASE n \in 2..Len(answers)
    <3>1. Earlier(answers[n - 1], answers[n]) BY <2>1 DEF ConnInv, AnswersInOrder
    <3>2. n - 1 \in 1..Len(answers) /\ n \in 1..Len(answers) BY <1>2, <2>1
    <3> QED BY <1>3, <3>1, <3>2
  <2>2. CASE n = Len(answers')
    <3>1. answers # <<>> /\ n - 1 = Len(answers) /\ n - 1 \in 1..Len(answers)
      BY <1>2, <1>3, <2>2
    <3>2. answers'[n - 1] = answers[Len(answers)] /\ answers'[n] = a
      BY <1>3, <2>2, <3>1
    <3>3. Follows(answers[Len(answers)]) BY <1>4, <3>1
    <3> QED BY <1>0, <1>1, <3>2, <3>3 DEF Follows, Continues, Earlier
  <2> QED BY <1>2, <1>3, <2>1, <2>2
<1>6. CASE response.close
  <2>1. pc' = "close" /\ response' = NoResponse /\ UNCHANGED inputVars
    BY <1>6 DEF Complete, Goto
  <2>2. NoResponse \in Responses BY DEF NoResponse, Responses
  <2>3. TypeOK' BY <1>0, <1>3, <2>1, <2>2 DEF ConnInv, TypeOK, clientVars, inputVars
  <2>4. InputBounded' /\ InFlight' /\ Following'
    BY <2>1 DEF ConnInv, InputBounded, Buffered, InFlight, HasResponse, Following, inputVars
  <2> QED BY <1>5, <2>3, <2>4 DEF ConnInv
<1>7. CASE ~response.close
  <2>1. PrepareNext /\ pc' \in {"finish", "drive"} BY <1>7 DEF Complete, Goto
  <2>2. TypeOK' BY <1>0, <1>3, <2>1, Prepared DEF ConnInv, TypeOK, clientVars
  <2>3. InputBounded'
    BY <2>1, Prepared, ConnectionAssumption DEF ConnInv, InputBounded, Buffered, TypeOK
  <2>4. InFlight'
    BY <1>0, <2>1, Prepared DEF ConnInv, InFlight, HasResponse, NoResponse, TypeOK
  <2>5. a.request # TooLarge /\ Continues(a, nextRequest, active)
    BY <1>0, <1>1, <1>7 DEF ConnInv, TypeOK, InFlight, Responses, Continues
  <2>6. IF HasResponse' /\ response'.request # TooLarge
          THEN Continues(a, response'.request, response'.generation)
          ELSE Continues(a, nextRequest', active')
    <3>1. NoResponse.request = 0 BY DEF NoResponse
    <3>2. nextRequest \in Nat \ {0} /\ active' = active BY <1>0 DEF ConnInv, TypeOK
    <3> QED BY <2>1, <2>5, <3>1, <3>2, Prepared DEF ConnInv, HasResponse
  <2>7. Following' BY <1>3, <2>5, <2>6 DEF Following, Follows
  <2> QED BY <1>5, <2>2, <2>3, <2>4, <2>7 DEF ConnInv
<1> QED BY <1>6, <1>7

\* The other steps of the worker leave the input, the response and the answers.
LEMMA QuietStep ==
  ASSUME ConnInv, NothingToDrive \/ Finish \/ Close \/ UNCHANGED vars
  PROVE  ConnInv'
<1>1. TypeOK'
  <2>1. CASE NothingToDrive
    BY <2>1 DEF ConnInv, TypeOK, NothingToDrive, Goto, clientVars, inputVars
  <2>2. CASE Finish
    <3>1. pollOut \in BOOLEAN BY DEF ConnInv, TypeOK
    <3>2. pollOut' \in BOOLEAN BY <2>2, <3>1, Zenon DEF Finish, HasResponse
    <3> QED BY <2>2, <3>2 DEF ConnInv, TypeOK, Finish, Goto, clientVars, inputVars
  <2>3. CASE Close BY <2>3 DEF ConnInv, TypeOK, Close, Goto, clientVars, inputVars
  <2>4. CASE UNCHANGED vars BY <2>4 DEF ConnInv, TypeOK, vars, clientVars, inputVars
  <2> QED BY <2>1, <2>2, <2>3, <2>4
<1>2. UNCHANGED <<inputVars, response, active, answers>>
      /\ (pc \in {"close", "closed"} => pc' \in {"close", "closed"})
  BY DEF NothingToDrive, Finish, Close, Goto, vars
<1>3. InputBounded' /\ InFlight' /\ Following' /\ AnswersInOrder'
  BY <1>2 DEF ConnInv, InputBounded, Buffered, InFlight, HasResponse, Following, Follows,
              AnswersInOrder, inputVars
<1> QED BY <1>1, <1>3 DEF ConnInv

-----------------------------------------------------------------------------
\* The invariant holds in every reachable state.
THEOREM AlwaysConnInv == Spec => []ConnInv
<1>1. ConnInv /\ [Next]_vars => ConnInv'
  <2> SUFFICES ASSUME ConnInv, [Next]_vars PROVE ConnInv' OBVIOUS
  <2>1. CASE Send \/ Leave \/ ClientReads \/ Activate BY <2>1, EnvironmentStep
  <2>2. CASE Wake     BY <2>2, WakeStep
  <2>3. CASE Read     BY <2>3, ReadStep
  <2>4. CASE Prepare  BY <2>4, PrepareStep
  <2>5. CASE Transmit BY <2>5, TransmitStep
  <2>6. CASE Complete BY <2>6, CompleteStep
  <2>7. CASE NothingToDrive \/ Finish \/ Close \/ UNCHANGED vars BY <2>7, QuietStep
  <2> QED BY <2>1, <2>2, <2>3, <2>4, <2>5, <2>6, <2>7 DEF Next, Worker
<1> QED BY <1>1, InitConn, PTL DEF Spec

\* Every variable of a connection keeps its type.
THEOREM ConnectionTypeCorrect == Spec => []TypeOK
  BY AlwaysConnInv, PTL DEF ConnInv

\* The input buffer never exceeds its limit between two calls of recv, for any
\* client and any limits (server.cpp:236-269).
THEOREM InputAlwaysBounded == Spec => []InputBounded
  BY AlwaysConnInv, PTL DEF ConnInv

\* Pipelined or cut in pieces, refused or cut off, with any limit of responses
\* per dispatch and snapshots activated at any moment: the answers are in the
\* order of the requests, each once, none after a refusal, and never from an
\* older snapshot than the one before (server.cpp:271-338, connection.cpp:51-109).
THEOREM AnswersAlwaysInOrder == Spec => []AnswersInOrder
  BY AlwaysConnInv, PTL DEF ConnInv
=============================================================================
