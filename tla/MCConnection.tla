---------------------------- MODULE MCConnection ----------------------------
(* Connection on small scripts for TLC.                                    *)
EXTENDS Connection, SequencesExt

Plain == [head |-> 1, body |-> 0, framed |-> 0, rest |-> 0, close |-> FALSE, file |-> 0]
Names == [Plain EXCEPT !.file = 3]
Post == [Plain EXCEPT !.body = 2, !.framed = 2]
Closing == [Plain EXCEPT !.close = TRUE]
\* A request of one unit that is cut off with n more, or with all that a size_t holds.
Taking(n) == [Plain EXCEPT !.framed = n]

\* Requests one behind the other.
Laid(s) ==
  [k \in DOMAIN s |->
     [start |-> FoldLeft(LAMBDA n, r : n + r.head + r.body, 0, SubSeq(s, 1, k - 1))] @@ s[k]]

\* Pipelined requests, a body, a file larger than the socket takes, "close" in
\* the middle; input at and past each limit; and requests that are cut off at the wrong
\* place: with the next one, with half of it, with more than comes, with less than their
\* body, with more than is allowed, and with a length that wraps.
MCScripts ==
  { Laid(s) : s \in
    { <<Plain, Names, Plain>>,
      <<Names, Plain, Names>>,
      <<Post, Plain>>,
      <<Plain, Closing, Plain>>,
      <<Plain, [Plain EXCEPT !.head = 4]>>,
      <<Names, [Plain EXCEPT !.body = 7, !.framed = 7]>>,
      <<Names, Post, Post>>,
      <<Taking(1), Plain, Names>>,
      <<Taking(1), [Plain EXCEPT !.head = 2, !.rest = 1], Names, Plain>>,
      <<Plain, Taking(3), Plain>>,
      <<[Post EXCEPT !.framed = 1], Plain>>,
      <<Taking(6), Plain>>,
      <<Plain, Taking(Word - 1), Plain>> } }
=============================================================================
