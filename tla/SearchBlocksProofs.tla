------------------------- MODULE SearchBlocksProofs -------------------------
(***************************************************************************)
(* SearchBlocks for every number of packages, every layout, text, query    *)
(* and hash: what the writer writes is loaded, and every search answers    *)
(* exactly.  The inductive invariant says where a search stands in         *)
(* packages, whichever of its three loops it is in, and that what lies     *)
(* before that place is answered for.                                      *)
(***************************************************************************)
EXTENDS SearchBlocks, TLAPS

-----------------------------------------------------------------------------
(* Multiples *)

LEMMA NextMultiple ==
  ASSUME NEW a \in Nat, NEW b \in Nat, NEW f \in Positive
  PROVE  /\ a * f \in Nat /\ (a + 1) * f = a * f + f
         /\ a < b => a * f + f <= b * f
         /\ a <= b => a * f <= b * f
  BY DEF Positive

LEMMA WholeBlocks ==
  ASSUME NEW a \in Nat, NEW x \in Nat, NEW f \in Positive, a * f <= x, x < a * f + f
  PROVE  x \div f = a
  BY DEF Positive

LEMMA RoundedUp ==
  ASSUME NEW x \in Nat, NEW f \in Positive
  PROVE  /\ (x + f - 1) \div f \in Nat
         /\ ((x + f - 1) \div f) * f >= x /\ ((x + f - 1) \div f) * f < x + f
  BY DEF Positive

LEMMA CountOfBlocks ==
  ASSUME NEW x \in Nat, NEW c \in Nat, NEW f \in Positive, x <= c * f, c * f < x + f
  PROVE  c = BlockCount(x, f)
  BY DEF Positive, BlockCount

LEMMA Quotient ==
  ASSUME NEW s \in Nat, NEW f \in Positive, s % f = 0
  PROVE  s \div f \in Nat /\ s = (s \div f) * f
  BY DEF Positive

\* A place that ends a super block ends a fine block.
LEMMA Aligned ==
  ASSUME NEW a \in Nat, NEW s \in Nat, NEW f \in Positive, s % f = 0
  PROVE  /\ (a * s) \div f \in Nat /\ ((a * s) \div f) * f = a * s
         /\ \A x \in Nat : x <= a * s => ((x + f - 1) \div f) * f <= a * s
<1>1. PICK k \in Nat : s = k * f
  BY Quotient
<1>2. PICK c \in Nat : c = a * k
  BY <1>1
<1>3. a * s = c * f
  BY <1>1, <1>2 DEF Positive
<1>4. (a * s) \div f = c
  BY <1>3, WholeBlocks DEF Positive
<1>5. ASSUME NEW x \in Nat, x <= a * s
      PROVE  ((x + f - 1) \div f) * f <= a * s
  <2>1. PICK d \in Nat : d = (x + f - 1) \div f /\ d * f < x + f
    BY RoundedUp
  <2>2. d * f < c * f + f
    BY <2>1, <1>5, <1>3 DEF Positive
  <2>3. d <= c
    <3>1. CASE c < d
      BY <3>1, <2>2, NextMultiple DEF Positive
    <3> QED BY <3>1
  <2> QED BY <2>3, <2>1, <1>3, NextMultiple
<1> QED BY <1>3, <1>4, <1>5

-----------------------------------------------------------------------------
(* The skip test *)

\* What a block says of a text it sums up.
Holds(b, t) ==
  Bytes(t) \subseteq b.bytes /\ Bigrams(t) \subseteq b.bigrams /\ SlotsOf(t) \subseteq b.trigrams

\* A text that contains the query has its letters, pairs and triples in it.
LEMMA PartsOfText ==
  ASSUME NEW t \in Seq(Letters), NEW q \in Seq(Letters), Contains(t, q)
  PROVE  Bytes(q) \subseteq Bytes(t) /\ Bigrams(q) \subseteq Bigrams(t)
         /\ Trigrams(q) \subseteq Trigrams(t)
  <1>1. PICK k \in 0..(Len(t) - Len(q)) : \A i \in 1..Len(q) : t[k + i] = q[i]
    BY DEF Contains
  <1>2. Len(t) \in Nat /\ Len(q) \in Nat /\ k \in Nat /\ k + Len(q) <= Len(t)
    OBVIOUS
  <1>3. Bytes(q) \subseteq Bytes(t)
    <2>1. ASSUME NEW i \in 1..Len(q) PROVE q[i] \in Bytes(t)
      <3>1. k + i \in 1..Len(t) /\ t[k + i] = q[i]
        BY <1>1, <1>2
      <3> QED BY <3>1 DEF Bytes
    <2> QED BY <2>1 DEF Bytes
  <1>4. Bigrams(q) \subseteq Bigrams(t)
    <2>1. ASSUME NEW i \in 2..Len(q) PROVE <<q[i-1], q[i]>> \in Bigrams(t)
      <3>1. k + i \in 2..Len(t) /\ t[k + i] = q[i] /\ t[(k + i) - 1] = q[i-1]
        <4>1. (k + i) - 1 = k + (i - 1) /\ i - 1 \in 1..Len(q) /\ i \in 1..Len(q)
          BY <1>2
        <4> QED BY <4>1, <1>1, <1>2
      <3> QED BY <3>1 DEF Bigrams
    <2> QED BY <2>1 DEF Bigrams
  <1>5. Trigrams(q) \subseteq Trigrams(t)
    <2>1. ASSUME NEW i \in 3..Len(q) PROVE <<q[i-2], q[i-1], q[i]>> \in Trigrams(t)
      <3>1. /\ k + i \in 3..Len(t) /\ t[k + i] = q[i]
            /\ t[(k + i) - 1] = q[i-1] /\ t[(k + i) - 2] = q[i-2]
        <4>1. /\ (k + i) - 1 = k + (i - 1) /\ i - 1 \in 1..Len(q)
              /\ (k + i) - 2 = k + (i - 2) /\ i - 2 \in 1..Len(q) /\ i \in 1..Len(q)
          BY <1>2
        <4> QED BY <4>1, <1>1, <1>2
      <3> QED BY <3>1 DEF Trigrams
    <2> QED BY <2>1 DEF Trigrams
  <1> QED BY <1>3, <1>4, <1>5

\* A block that sums a matching text up is not skipped, whatever the hash.
LEMMA NeverSkipped ==
  ASSUME NEW t \in Seq(Letters), NEW q \in Seq(Letters), NEW b,
         q # << >>, Contains(t, q), Holds(b, t)
  PROVE  BitmapContains(b, q)
  <1>1. Bytes(q) \subseteq Bytes(t) /\ Bigrams(q) \subseteq Bigrams(t)
        /\ Trigrams(q) \subseteq Trigrams(t)
    BY PartsOfText
  <1>2. SlotsOf(q) \subseteq SlotsOf(t)
    BY <1>1 DEF SlotsOf
  <1>3. CASE Len(q) = 1
    <2>1. q[1] \in Bytes(q)
      BY <1>3 DEF Bytes
    <2> QED BY <1>3, <2>1, <1>1 DEF Holds, BitmapContains
  <1>4. CASE Len(q) > 1
    BY <1>4, <1>1, <1>2 DEF Holds, BitmapContains
  <1>5. Len(q) \in Nat /\ Len(q) # 0
    OBVIOUS
  <1>6. \A m \in Nat : m # 0 => m = 1 \/ m > 1
    OBVIOUS
  <1>7. Len(q) = 1 \/ Len(q) > 1
    BY <1>5, <1>6, Zenon
  <1> QED BY <1>3, <1>4, <1>7

-----------------------------------------------------------------------------
(* The writer *)

LEMMA PartsTyped ==
  ASSUME NEW t \in Seq(Letters)
  PROVE  /\ Bytes(t) \subseteq Letters /\ Bigrams(t) \subseteq Letters \X Letters
         /\ Trigrams(t) \subseteq Letters \X Letters \X Letters
         /\ SlotsOf(t) \subseteq Slots
<1>1. \A i \in 1..Len(t) : t[i] \in Letters
  OBVIOUS
<1>2. Bytes(t) \subseteq Letters
  BY <1>1 DEF Bytes
<1>3. ASSUME NEW i \in 2..Len(t) PROVE <<t[i-1], t[i]>> \in Letters \X Letters
  <2>1. i - 1 \in 1..Len(t) /\ i \in 1..Len(t)
    OBVIOUS
  <2> QED BY <2>1, <1>1
<1>4. ASSUME NEW i \in 3..Len(t) PROVE <<t[i-2], t[i-1], t[i]>> \in Letters \X Letters \X Letters
  <2>1. i - 2 \in 1..Len(t) /\ i - 1 \in 1..Len(t) /\ i \in 1..Len(t)
    OBVIOUS
  <2> QED BY <2>1, <1>1
<1>5. Bigrams(t) \subseteq Letters \X Letters
  BY <1>3 DEF Bigrams
<1>6. Trigrams(t) \subseteq Letters \X Letters \X Letters
  BY <1>4 DEF Trigrams
<1>7. SlotsOf(t) \subseteq Slots
  BY <1>6, SearchAssumption DEF SlotsOf
<1> QED BY <1>2, <1>5, <1>6, <1>7

LEMMA Division ==
  ASSUME NEW x \in Nat, NEW f \in Positive PROVE x \div f \in Nat
BY DEF Positive

LEMMA InitTyped == Init => TypeOK
<1> SUFFICES ASSUME Init PROVE TypeOK
  OBVIOUS
<1>1. Empty \in Block
  BY DEF Empty, Block
<1>2. F \in Positive /\ S \in Nat /\ <<F, S>> \in Layouts
  BY SearchAssumption DEF Init
<1> QED BY <1>1, <1>2, SearchAssumption DEF Init, TypeOK

LEMMA StepTyped == TypeOK /\ [Next]_vars => TypeOK'
<1> SUFFICES ASSUME TypeOK, [Next]_vars PROVE TypeOK'
  OBVIOUS
<1>0. /\ n \in Nat /\ F \in Positive /\ S \in Nat /\ index \in 0..n
      /\ super \in Nat /\ block \in Nat /\ blockEnd \in Nat
  BY DEF TypeOK
<1>1. CASE WritePackage
  <2>1. ASSUME NEW b \in Block PROVE Added(b, index) \in Block
    <3>1. packages[index] \in Seq(Letters)
      BY <1>1, SearchAssumption DEF WritePackage, TypeOK
    <3> QED BY <3>1, <1>0, PartsTyped DEF Added, Block
  <2>2. Empty \in Block
    BY DEF Empty, Block
  <2>3. /\ Added(fine, index) \in Block /\ Added(coarse, index) \in Block
        /\ fine \in Block /\ coarse \in Block
        /\ fineBlocks \in Seq(Block) /\ superBlocks \in Seq(Block)
    BY <2>1 DEF TypeOK
  <2>4. fine' \in Block /\ fineBlocks' \in Seq(Block)
    <3>1. \/ fineBlocks' = Append(fineBlocks, Added(fine, index)) /\ fine' = Empty
          \/ fine' = Added(fine, index) /\ fineBlocks' = fineBlocks
      BY <1>1 DEF WritePackage
    <3> QED BY <3>1, <2>2, <2>3
  <2>5. coarse' \in Block /\ superBlocks' \in Seq(Block)
    <3>1. \/ superBlocks' = Append(superBlocks, Added(coarse, index)) /\ coarse' = Empty
          \/ coarse' \in {coarse, Added(coarse, index)} /\ superBlocks' = superBlocks
      BY <1>1 DEF WritePackage
    <3> QED BY <3>1, <2>2, <2>3
  <2>6. index' \in 0..n
    BY <1>1, <1>0 DEF WritePackage
  <2> QED BY <1>1, <2>4, <2>5, <2>6 DEF WritePackage, layout, request, place, TypeOK
<1>2. CASE Load
  BY <1>2 DEF Load, layout, file, writer, request, place, TypeOK
<1>3. ASSUME NEW q \in Queries, NEW m \in Limits, NEW k \in [0..(n-1) -> BOOLEAN],
             Search(q, m, k)
      PROVE  TypeOK'
  <2>1. query' \in Seq(Letters) /\ limit' \in Nat /\ Len(fineBlocks) \in Nat
    BY <1>3, SearchAssumption DEF Search, TypeOK
  <2>2. pc' \in {"ready", "super", "fine"} /\ results' = << >> /\ kept' = k
    BY <1>3 DEF Search
  <2>3. super' \in Nat /\ block' \in Nat /\ blockEnd' \in Nat
    BY <1>3, <1>0, <2>1 DEF Search, place
  <2>4. package' = package /\ packageEnd' = packageEnd
    BY <1>3 DEF Search, place
  <2> QED BY <1>3, <2>1, <2>2, <2>3, <2>4 DEF Search, layout, file, writer, TypeOK
<1>4. CASE SuperBlock
  <2>1. SuperFirst(super) \in Nat
    BY <1>0 DEF SuperFirst
  <2>2. SuperFirst(super) \div F \in Nat
    BY <2>1, <1>0, Division
  <2>3. SuperEnd(super) \in Nat
    BY <2>1, <1>0 DEF SuperEnd, Min2
  <2>4. (SuperEnd(super) + F - 1) \div F \in Nat
    BY <2>3, <1>0, RoundedUp
  <2>5. FineEnd(super) \in Nat
    BY <2>4 DEF FineEnd, Min2, TypeOK
  <2>6. super' \in Nat /\ block' \in Nat /\ blockEnd' \in Nat /\ pc' \in {"ready", "super", "fine"}
    BY <1>4, <1>0, <2>2, <2>5 DEF SuperBlock
  <2> QED BY <1>4, <2>6 DEF SuperBlock, layout, file, writer, request, TypeOK
<1>5. CASE FineBlock
  <2>1. block * F \in Nat /\ \A x \in Nat : x + Min2(F, n - x) \in Int
    BY <1>0 DEF Positive, Min2
  <2>2. /\ pc' \in {"ready", "super", "fine", "scan"} /\ block' \in {block, block + 1}
        /\ \/ package' = package /\ packageEnd' = packageEnd
           \/ package' = block * F /\ packageEnd' = package' + Min2(F, n - package')
    BY <1>5 DEF FineBlock
  <2>3. block' \in Nat /\ package' \in Nat /\ packageEnd' \in Int
    <3>1. block' \in Nat
      BY <2>2, <1>0
    <3>2. package \in Nat /\ packageEnd \in Int
      BY DEF TypeOK
    <3>3. CASE package' = package /\ packageEnd' = packageEnd
      BY <3>1, <3>2, <3>3
    <3>4. CASE package' = block * F /\ packageEnd' = package' + Min2(F, n - package')
      BY <3>1, <3>4, <2>1
    <3> QED BY <2>2, <3>3, <3>4
  <2> QED BY <1>5, <2>2, <2>3 DEF FineBlock, layout, file, writer, request, TypeOK
<1>6. CASE ScanPackage
  <2>1. package \in Nat /\ results \in Seq(Nat)
    BY DEF TypeOK
  <2>2. /\ pc' \in {"fine", "scan"} /\ block' \in {block, block + 1}
        /\ package' \in {package, package + 1} /\ results' \in {results, Append(results, package)}
    BY <1>6 DEF ScanPackage
  <2>3. block' \in Nat /\ package' \in Nat /\ results' \in Seq(Nat)
    <3>1. block' \in Nat /\ package' \in Nat
      BY <2>1, <2>2, <1>0
    <3>2. Append(results, package) \in Seq(Nat)
      BY <2>1
    <3> QED BY <3>1, <3>2, <2>1, <2>2
  <2> QED BY <1>6, <2>2, <2>3 DEF ScanPackage, layout, file, writer, request, TypeOK
<1>7. CASE UNCHANGED vars
  BY <1>7 DEF vars, layout, file, writer, request, place, TypeOK
<1> QED BY <1>1, <1>2, <1>3, <1>4, <1>5, <1>6, <1>7 DEF Next

\* Every variable keeps its type.
THEOREM SearchTypeCorrect == Spec => []TypeOK
<1> QED BY InitTyped, StepTyped, PTL DEF Spec

-----------------------------------------------------------------------------
(* The blocks *)

\* The block sums up the packages from a to before z.
Sums(b, a, z) ==
  /\ b.first = a /\ b.count = z - a
  /\ \A p \in Nat : a <= p /\ p < z => Holds(b, packages[p])

\* Before package x the blocks are full, and the open one has what is left; after the
\* last package there is none open.
Stream(blocks, open, per, x) ==
  LET L == Len(blocks) * per
  IN /\ \A i \in 1..Len(blocks) : (i-1) * per < n /\ Sums(blocks[i], (i-1) * per, Min2(n, i * per))
     /\ x < n => /\ L <= x /\ open.count = x - L /\ open.count < per
                 /\ open.count > 0 => open.first = L
                 /\ \A p \in Nat : L <= p /\ p < x => Holds(open, packages[p])
     /\ x = n => open = Empty /\ n <= L /\ L < n + per

LEMMA EmptyStream ==
  ASSUME NEW per \in Positive, n \in Nat
  PROVE  Stream(<< >>, Empty, per, 0)
BY DEF Stream, Empty, Positive

LEMMA StreamStep ==
  ASSUME TypeOK, index < n, NEW per \in Positive,
         NEW blocks \in Seq(Block), NEW open \in Block, Stream(blocks, open, per, index)
  PROVE  LET b == Added(open, index)
         IN IF Full(b, per) THEN Stream(Append(blocks, b), Empty, per, index + 1)
                            ELSE Stream(blocks, b, per, index + 1)
<1> DEFINE b == Added(open, index)
           k == Len(blocks)
           L == k * per
<1>1. n \in Nat /\ index \in Nat /\ k \in Nat /\ L \in Nat /\ (k + 1) * per = L + per
  BY NextMultiple DEF TypeOK, Positive
<1>2. /\ L <= index /\ open.count = index - L /\ open.count < per
      /\ open.count > 0 => open.first = L
      /\ \A p \in Nat : L <= p /\ p < index => Holds(open, packages[p])
  BY DEF Stream
<1>3. \A i \in 1..k : (i-1) * per < n /\ Sums(blocks[i], (i-1) * per, Min2(n, i * per))
  BY DEF Stream
<1>4. b.count = index + 1 - L /\ b.first = L
  BY <1>1, <1>2 DEF Added, Block
<1>5. \A p \in Nat : L <= p /\ p < index + 1 => Holds(b, packages[p])
  <2>1. Holds(b, packages[index])
    BY DEF Added, Holds
  <2>2. ASSUME NEW p \in Nat, L <= p, p < index PROVE Holds(b, packages[p])
    <3>1. Holds(open, packages[p])
      BY <1>2, <2>2
    <3> QED BY <3>1 DEF Added, Holds
  <2> QED BY <2>1, <2>2, <1>1
<1>6. b.count <= per
  BY <1>1, <1>2, <1>4 DEF Positive
<1> HIDE DEF b, k, L
<1>7. ASSUME Full(b, per) PROVE Stream(Append(blocks, b), Empty, per, index + 1)
  <2> DEFINE nb == Append(blocks, b)
  <2>1. Len(nb) = k + 1 /\ nb[k+1] = b /\ \A i \in 1..k : nb[i] = blocks[i]
    BY DEF k
  <2>2. index + 1 = Min2(n, L + per)
    BY <1>1, <1>2, <1>4, <1>6, <1>7 DEF Full, Min2, Positive
  <2>3. Sums(b, L, Min2(n, L + per))
    <3>1. Sums(b, L, index + 1)
      BY <1>1, <1>4, <1>5 DEF Sums
    <3> QED BY <3>1, <2>2
  <2> HIDE DEF nb
  <2>4. \A i \in 1..Len(nb) : (i-1) * per < n /\ Sums(nb[i], (i-1) * per, Min2(n, i * per))
    <3>1. ASSUME NEW i \in 1..k
          PROVE  (i-1) * per < n /\ Sums(nb[i], (i-1) * per, Min2(n, i * per))
      BY <1>3, <2>1, <1>1
    <3>2. ((k+1) - 1) * per = L /\ L < n
      BY <1>1, <1>2 DEF L
    <3>3. Sums(nb[k+1], ((k+1) - 1) * per, Min2(n, (k+1) * per))
      BY <3>2, <2>3, <2>1, <1>1
    <3>4. \A i \in 1..(k+1) : i \in 1..k \/ i = k + 1
      BY <1>1
    <3> QED BY <3>1, <3>2, <3>3, <3>4, <2>1
  <2>5. CASE index + 1 < n
    <3>1. L + per = index + 1
      BY <2>2, <2>5, <1>1 DEF Min2, Positive
    <3>2. Len(nb) * per = index + 1
      BY <3>1, <2>1, <1>1
    <3>3. Empty.count = 0 /\ ~(Empty.count > 0)
      BY DEF Empty
    <3>4. Stream(nb, Empty, per, index + 1)
      BY <2>4, <3>2, <3>3, <2>5, <1>1 DEF Stream, Positive
    <3> QED BY <3>4 DEF nb
  <2>6. CASE index + 1 = n
    <3>1. n <= L + per /\ L + per < n + per
      BY <2>2, <2>6, <1>1, <1>2 DEF Min2, Positive
    <3>2. n <= Len(nb) * per /\ Len(nb) * per < n + per
      BY <3>1, <2>1, <1>1
    <3>3. Stream(nb, Empty, per, index + 1)
      BY <2>4, <3>2, <2>6, <1>1 DEF Stream
    <3> QED BY <3>3 DEF nb
  <2> QED BY <2>5, <2>6, <1>1
<1>8. ASSUME ~Full(b, per) PROVE Stream(blocks, b, per, index + 1)
  <2>1. index + 1 < n /\ b.count < per
    BY <1>8, <1>1, <1>6, <1>4 DEF Full, Positive
  <2>2. L <= index + 1 /\ b.count = (index + 1) - L
    BY <1>1, <1>2, <1>4
  <2>3. \A p \in Nat : L <= p /\ p < index + 1 => Holds(b, packages[p])
    BY <1>5
  <2> QED BY <2>1, <2>2, <2>3, <1>1, <1>3, <1>4 DEF Stream, L, k
<1> QED BY <1>7, <1>8 DEF b

\* After the last package the blocks are as many as the header says, one after the other.
LEMMA StreamDone ==
  ASSUME n \in Nat, NEW per \in Positive, NEW blocks \in Seq(Block), NEW open,
         Stream(blocks, open, per, n)
  PROVE  Len(blocks) = BlockCount(n, per) /\ Covers(blocks, per)
<1> DEFINE k == Len(blocks)
<1>1. k \in Nat /\ n <= k * per /\ k * per < n + per
  BY DEF Stream
<1>2. \A i \in 1..k : (i-1) * per < n /\ Sums(blocks[i], (i-1) * per, Min2(n, i * per))
  BY DEF Stream
<1>3. k = BlockCount(n, per)
  BY <1>1, CountOfBlocks
<1> HIDE DEF k
<1>4. ASSUME NEW i \in 1..k
      PROVE  /\ (i-1) * per \in Nat /\ i * per = (i-1) * per + per /\ i * per \in Nat
             /\ blocks[i].first = (i-1) * per
             /\ blocks[i].count = Min2(n, i * per) - (i-1) * per
             /\ blocks[i].count \in 1..per
  <2>1. i - 1 \in Nat /\ i = (i - 1) + 1
    BY <1>1
  <2>2. (i-1) * per \in Nat /\ i * per = (i-1) * per + per
    BY <2>1, NextMultiple
  <2>3. /\ blocks[i].first = (i-1) * per /\ (i-1) * per < n
        /\ blocks[i].count = Min2(n, i * per) - (i-1) * per
    BY <1>2 DEF Sums
  <2> QED BY <2>2, <2>3 DEF Min2, Positive
<1>5. ASSUME NEW i \in 1..k
      PROVE  blocks[i].first = (IF i = 1 THEN 0 ELSE blocks[i-1].first + blocks[i-1].count)
  <2>1. CASE i = 1
    <3>1. (1-1) * per = 0
      BY DEF Positive
    <3> QED BY <2>1, <3>1, <1>4
  <2>2. CASE i # 1
    <3>1. i - 1 \in 1..k
      BY <2>2, <1>1
    <3>2. (i-1) * per < n
      BY <1>2
    <3>3. /\ blocks[i-1].first = ((i-1)-1) * per /\ ((i-1)-1) * per \in Nat
          /\ blocks[i-1].count = Min2(n, (i-1) * per) - ((i-1)-1) * per
          /\ (i-1) * per \in Nat
      BY <3>1, <1>4
    <3>4. blocks[i-1].first + blocks[i-1].count = (i-1) * per
      BY <3>2, <3>3 DEF Min2
    <3> QED BY <3>4, <2>2, <1>4
  <2> QED BY <2>1, <2>2
<1>6. n = IF blocks = << >> THEN 0 ELSE blocks[k].first + blocks[k].count
  <2>1. CASE k = 0
    <3>1. blocks = << >> /\ k * per = 0
      BY <2>1 DEF k, Positive
    <3> QED BY <3>1, <1>1
  <2>2. CASE k # 0
    <3>1. blocks # << >> /\ k \in 1..k
      BY <2>2, <1>1 DEF k
    <3>2. Min2(n, k * per) = n
      BY <1>1 DEF Min2, Positive
    <3>3. (k-1) * per \in Nat /\ blocks[k].first = (k-1) * per /\ blocks[k].count = n - (k-1) * per
      BY <3>1, <3>2, <1>4
    <3> QED BY <3>1, <3>3
  <2> QED BY <2>1, <2>2
<1> QED BY <1>3, <1>4, <1>5, <1>6 DEF Covers, k

\* What a search relies on: the blocks sum all packages up.
Written ==
  /\ Stream(fineBlocks, fine, F, index)
  /\ S = 0 => superBlocks = << >>
  /\ S # 0 => Stream(superBlocks, coarse, S, index)
  /\ pc # "write" => index = n
  /\ pc # "refused"

LEMMA WriteKept ==
  ASSUME TypeOK, Written, WritePackage
  PROVE  Written'
<1>1. /\ n \in Nat /\ index < n /\ pc = "write" /\ index' = index + 1 /\ index' \in Nat
      /\ fine \in Block /\ coarse \in Block
      /\ fineBlocks \in Seq(Block) /\ superBlocks \in Seq(Block)
      /\ n' = n /\ packages' = packages /\ F' = F /\ S' = S /\ pc' = pc
      /\ F \in Positive /\ S \in Nat
  BY DEF TypeOK, WritePackage, layout
<1>3. Stream(fineBlocks, fine, F, index)'
  <2>1. IF Full(Added(fine, index), F)
          THEN Stream(Append(fineBlocks, Added(fine, index)), Empty, F, index + 1)
          ELSE Stream(fineBlocks, Added(fine, index), F, index + 1)
    BY <1>1, StreamStep DEF Written
  <2>2. IF Full(Added(fine, index), F)
          THEN fineBlocks' = Append(fineBlocks, Added(fine, index)) /\ fine' = Empty
          ELSE fineBlocks' = fineBlocks /\ fine' = Added(fine, index)
    BY DEF WritePackage
  <2>3. Stream(fineBlocks', fine', F, index + 1)
    BY <2>1, <2>2
  <2> QED BY <2>3, <1>1 DEF Stream, Sums
<1>4. CASE S = 0
  BY <1>1, <1>3, <1>4 DEF Written, WritePackage
<1>5. CASE S # 0
  <2>1. S \in Positive
    BY <1>1, <1>5 DEF Positive
  <2>2. IF Full(Added(coarse, index), S)
          THEN Stream(Append(superBlocks, Added(coarse, index)), Empty, S, index + 1)
          ELSE Stream(superBlocks, Added(coarse, index), S, index + 1)
    BY <1>1, <2>1, <1>5, StreamStep DEF Written
  <2>3. IF Full(Added(coarse, index), S)
          THEN superBlocks' = Append(superBlocks, Added(coarse, index)) /\ coarse' = Empty
          ELSE superBlocks' = superBlocks /\ coarse' = Added(coarse, index)
    BY <1>5 DEF WritePackage
  <2>4. Stream(superBlocks', coarse', S, index + 1)
    BY <2>2, <2>3
  <2>5. Stream(superBlocks, coarse, S, index)'
    BY <2>4, <1>1 DEF Stream, Sums
  <2> QED BY <2>5, <1>1, <1>3, <1>5 DEF Written
<1> QED BY <1>4, <1>5

LEMMA LoadKept ==
  ASSUME TypeOK, Written, Load
  PROVE  Written' /\ pc' = "ready"
<1>1. /\ n \in Nat /\ F \in Positive /\ S \in Nat /\ index = n
      /\ fineBlocks \in Seq(Block) /\ superBlocks \in Seq(Block)
  BY DEF TypeOK, Load
<1>2. Len(fineBlocks) = BlockCount(n, F) /\ Covers(fineBlocks, F)
  BY <1>1, StreamDone DEF Written
<1>3. Len(superBlocks) = (IF S = 0 THEN 0 ELSE BlockCount(n, S))
  <2>1. CASE S = 0
    BY <2>1 DEF Written
  <2>2. CASE S # 0
    BY <2>2, <1>1, StreamDone DEF Written, Positive
  <2> QED BY <2>1, <2>2
<1>4. S # 0 => Covers(superBlocks, S)
  BY <1>1, StreamDone DEF Written, Positive
<1>5. pc' = "ready"
  BY <1>2, <1>3, <1>4 DEF Load
<1> QED BY <1>1, <1>5 DEF Written, Load, layout, file, writer, Stream, Sums

-----------------------------------------------------------------------------
(* A search *)

\* The package a search has come to, in whichever of its loops.
At ==
  IF pc = "super" THEN super * S ELSE IF pc = "fine" THEN block * F ELSE package

\* What it has found lies before that place, and what lies before it is answered for.
Answered ==
  /\ Len(results) <= limit
  /\ \A i \in 1..Len(results) : results[i] < n /\ results[i] < At /\ Matches(results[i])
  /\ \A i, j \in 1..Len(results) : i < j => results[i] < results[j]
  /\ \A p \in 0..(n-1) : p < At /\ Matches(p) =>
       \/ \E i \in 1..Len(results) : results[i] = p
       \/ Len(results) = limit /\ \A i \in 1..limit : results[i] < p

\* The fine blocks it may go on to are those of the super block it is in.
InRange ==
  /\ pc = "super" => S # 0
  /\ pc \in {"fine", "scan"} =>
       /\ block <= blockEnd /\ blockEnd <= Len(fineBlocks)
       /\ S = 0 => blockEnd = Len(fineBlocks)
       /\ S # 0 => Min2(n, super * S) <= blockEnd * F /\ blockEnd * F <= super * S
  /\ pc = "scan" =>
       /\ block < blockEnd
       /\ block * F <= package /\ package <= packageEnd /\ packageEnd = Min2(n, block * F + F)

Searching == pc \in {"super", "fine", "scan"}

SearchInv ==
  /\ TypeOK /\ Written
  /\ pc = "write" => results = << >> /\ query = << >>
  /\ Searching => query # << >> /\ InRange /\ Answered
  /\ ExactAnswer

Undisturbed == UNCHANGED <<layout, file, writer, request>>

LEMMA StillWritten ==
  ASSUME Written, UNCHANGED <<layout, file, writer>>,
         pc \notin {"write", "refused"}, pc' \notin {"write", "refused"}
  PROVE  Written'
BY DEF Written, layout, file, writer, Stream, Sums

LEMMA SameMatches ==
  ASSUME Undisturbed PROVE n' = n /\ limit' = limit /\ \A p : Matches(p)' <=> Matches(p)
BY DEF Undisturbed, layout, request, Matches

LEMMA Places ==
  ASSUME TypeOK, TypeOK'
  PROVE  /\ n \in Nat /\ At \in Nat /\ At' \in Nat /\ limit \in Nat /\ Len(results) \in Nat
         /\ \A i \in 1..Len(results) : results[i] \in Nat
<1>1. \A a, b \in Nat : a * b \in Nat
  OBVIOUS
<1>2. At \in Nat
  BY <1>1 DEF TypeOK, At, Positive
<1>3. At' \in Nat
  BY <1>1 DEF TypeOK, At, Positive
<1>4. n \in Nat /\ limit \in Nat /\ results \in Seq(Nat)
  BY DEF TypeOK
<1>5. Len(results) \in Nat /\ \A i \in 1..Len(results) : results[i] \in Nat
  BY <1>4
<1> QED BY <1>2, <1>3, <1>4, <1>5

\* Where no package matches, or enough are found, a search may go on.
LEMMA Forward ==
  ASSUME TypeOK, TypeOK', Answered, Undisturbed, results' = results, At <= At',
         Enough \/ \A p \in 0..(n-1) : At <= p /\ p < At' => ~Matches(p)
  PROVE  Answered'
<1>1. /\ n \in Nat /\ At \in Nat /\ At' \in Nat /\ limit \in Nat /\ Len(results) \in Nat
      /\ \A i \in 1..Len(results) : results[i] \in Nat
  BY Places
<1>2. n' = n /\ limit' = limit /\ \A p : Matches(p)' <=> Matches(p)
  BY SameMatches
<1>3. /\ Len(results) <= limit
      /\ \A i \in 1..Len(results) : results[i] < n /\ results[i] < At' /\ Matches(results[i])
      /\ \A i, j \in 1..Len(results) : i < j => results[i] < results[j]
  BY <1>1 DEF Answered
<1>4. ASSUME NEW p \in 0..(n-1), p < At', Matches(p)
      PROVE  \/ \E i \in 1..Len(results) : results[i] = p
             \/ Len(results) = limit /\ \A i \in 1..limit : results[i] < p
  <2>1. CASE p < At
    BY <2>1, <1>4 DEF Answered
  <2>2. CASE ~(p < At)
    <3>1. At <= p
      BY <2>2, <1>1
    <3>2. Len(results) = limit
      BY <3>1, <1>4, <1>1 DEF Enough, Answered
    <3>3. \A i \in 1..limit : results[i] < p
      BY <3>1, <3>2, <1>1 DEF Answered
    <3> QED BY <3>2, <3>3
  <2> QED BY <2>1, <2>2
<1>5. results' = results
  OBVIOUS
<1> QED BY <1>2, <1>3, <1>4, <1>5 DEF Answered

\* At the end of the packages, or with enough found, the answer is exact.
LEMMA Ended ==
  ASSUME TypeOK, TypeOK', Answered, Undisturbed, results' = results, Enough \/ n <= At
  PROVE  ExactAnswer'
<1>1. /\ n \in Nat /\ At \in Nat /\ limit \in Nat /\ Len(results) \in Nat
      /\ \A i \in 1..Len(results) : results[i] \in Nat
  BY Places
<1>2. n' = n /\ limit' = limit /\ \A p : Matches(p)' <=> Matches(p)
  BY SameMatches
<1>3. ASSUME NEW p \in 0..(n-1), Matches(p)
      PROVE  \/ \E i \in 1..Len(results) : results[i] = p
             \/ Len(results) = limit /\ \A i \in 1..limit : results[i] < p
  <2>1. CASE p < At
    BY <2>1, <1>3 DEF Answered
  <2>2. CASE ~(p < At)
    <3>1. Len(results) = limit
      BY <2>2, <1>1 DEF Enough, Answered
    <3>2. \A i \in 1..limit : results[i] < p
      BY <2>2, <3>1, <1>1 DEF Answered
    <3> QED BY <3>1, <3>2
  <2> QED BY <2>1, <2>2
<1>4. results' = results
  OBVIOUS
<1> QED BY <1>2, <1>3, <1>4 DEF Answered, ExactAnswer

\* Block i of a complete stream, as it is found in its sequence.
LEMMA BlockAt ==
  ASSUME n \in Nat, NEW per \in Positive, NEW blocks \in Seq(Block), NEW open,
         Stream(blocks, open, per, n), NEW i \in Nat, i < Len(blocks)
  PROVE  /\ i * per \in Nat /\ i * per < n /\ (i + 1) * per = i * per + per
         /\ \A p \in 0..(n-1) : i * per <= p /\ p < i * per + per =>
              Holds(blocks[i + 1], packages[p])
<1>1. i + 1 \in 1..Len(blocks) /\ (i + 1) - 1 = i
  OBVIOUS
<1>2. i * per \in Nat /\ (i + 1) * per = i * per + per
  BY NextMultiple
<1>3. i * per < n /\ Sums(blocks[i+1], i * per, Min2(n, (i + 1) * per))
  BY <1>1 DEF Stream
<1> QED BY <1>2, <1>3 DEF Sums, Min2

\* A block that the test skips has no match.
LEMMA SkipsNoMatch ==
  ASSUME TypeOK, n \in Nat, NEW per \in Positive, NEW blocks \in Seq(Block), NEW open,
         Stream(blocks, open, per, n), NEW i \in Nat, i < Len(blocks),
         ~BitmapContains(blocks[i + 1], query)
  PROVE  \A p \in 0..(n-1) : i * per <= p /\ p < i * per + per => ~Matches(p)
<1> SUFFICES ASSUME NEW p \in 0..(n-1), i * per <= p, p < i * per + per, Matches(p)
             PROVE  FALSE
  OBVIOUS
<1>1. Holds(blocks[i + 1], packages[p])
  BY BlockAt
<1>2. packages[p] \in Seq(Letters) /\ query \in Seq(Letters)
  BY SearchAssumption DEF TypeOK
<1> QED BY <1>1, <1>2, NeverSkipped DEF Matches

-----------------------------------------------------------------------------
(* The invariant *)

LEMMA InitSearch == Init => SearchInv
<1> SUFFICES ASSUME Init PROVE SearchInv
  OBVIOUS
<1>1. TypeOK
  BY InitTyped
<1>2. n \in Nat /\ F \in Positive /\ S \in Nat
  BY <1>1 DEF TypeOK
<1>3. Stream(fineBlocks, fine, F, index)
  BY <1>2, EmptyStream DEF Init
<1>4. S # 0 => Stream(superBlocks, coarse, S, index)
  BY <1>2, EmptyStream DEF Init, Positive
<1>5. Written
  BY <1>3, <1>4 DEF Written, Init
<1> QED BY <1>1, <1>5 DEF SearchInv, Init, Searching, ExactAnswer

LEMMA WriteStep ==
  ASSUME SearchInv, TypeOK', WritePackage
  PROVE  SearchInv'
<1>1. Written'
  BY WriteKept DEF SearchInv
<1>2. pc = "write" /\ pc' = "write" /\ results' = results /\ query' = query
  BY DEF WritePackage, request
<1> QED BY <1>1, <1>2 DEF SearchInv, Searching, ExactAnswer

LEMMA LoadStep ==
  ASSUME SearchInv, TypeOK', Load
  PROVE  SearchInv'
<1>1. Written' /\ pc' = "ready"
  BY LoadKept DEF SearchInv
<1>2. results' = << >> /\ query' = << >> /\ limit' \in Nat
  BY DEF Load, request, SearchInv, TypeOK
<1>3. ExactAnswer'
  BY <1>2 DEF ExactAnswer, Matches
<1> QED BY <1>1, <1>3 DEF SearchInv, Searching

LEMMA SearchStep ==
  ASSUME SearchInv, TypeOK', NEW q \in Queries, NEW m \in Limits,
         NEW k \in [0..(n-1) -> BOOLEAN], Search(q, m, k)
  PROVE  SearchInv'
<1>1. /\ pc = "ready" /\ UNCHANGED <<layout, file, writer>>
      /\ query' = q /\ limit' = m /\ results' = << >>
  BY DEF Search
<1>2. pc' \in {"ready", "super", "fine"}
  BY DEF Search
<1>3. Written'
  BY <1>1, <1>2, StillWritten DEF SearchInv
<1>4. m \in Nat /\ n' = n /\ n \in Nat /\ F \in Positive /\ F' = F /\ S' = S
      /\ S \in Nat
  BY <1>1, SearchAssumption DEF layout, SearchInv, TypeOK
<1>5. CASE q = << >> \/ m = 0
  <2>1. pc' = "ready"
    BY <1>1, <1>5 DEF Search
  <2>2. ExactAnswer'
    BY <1>1, <1>4, <1>5 DEF ExactAnswer, Matches
  <2> QED BY <2>1, <2>2, <1>3 DEF SearchInv, Searching
<1>6. CASE ~(q = << >> \/ m = 0)
  <2>1. \/ S = 0 /\ pc' = "fine" /\ block' = 0 /\ blockEnd' = Len(fineBlocks)
        \/ S # 0 /\ pc' = "super" /\ super' = 0
    BY <1>6 DEF Search
  <2>2. At' = 0
    <3>1. F \in Nat /\ S \in Nat
      BY <1>4 DEF Positive
    <3>2. 0 * F = 0 /\ 0 * S = 0
      BY <3>1
    <3> QED BY <2>1, <3>2, <1>4 DEF At
  <2>3. Answered'
    BY <2>2, <1>1, <1>4 DEF Answered
  <2>4. fineBlocks' = fineBlocks /\ Len(fineBlocks) \in Nat
    <3>1. fineBlocks' = fineBlocks
      BY <1>1 DEF file
    <3>2. fineBlocks \in Seq(Block)
      BY DEF SearchInv, TypeOK
    <3> QED BY <3>1, <3>2
  <2>5. InRange'
    BY <2>1, <2>4, <1>4 DEF InRange
  <2>6. query' # << >> /\ pc' # "ready" /\ pc' # "write"
    BY <1>1, <1>6, <2>1
  <2> QED BY <2>3, <2>5, <2>6, <1>3 DEF SearchInv, Searching, ExactAnswer
<1> QED BY <1>5, <1>6

\* What the steps of a search leave to show.
LEMMA StillSearching ==
  ASSUME SearchInv, TypeOK', Undisturbed, Searching, Searching', InRange', Answered'
  PROVE  SearchInv'
<1>1. Written'
  BY StillWritten DEF SearchInv, Searching, Undisturbed
<1>2. query' = query /\ query # << >>
  BY DEF Undisturbed, request, SearchInv
<1>3. pc' # "ready" /\ pc' # "write"
  BY DEF Searching
<1> QED BY <1>1, <1>2, <1>3 DEF SearchInv, ExactAnswer

LEMMA SearchEnds ==
  ASSUME SearchInv, TypeOK', Undisturbed, Searching, pc' = "ready", results' = results,
         Enough \/ n <= At
  PROVE  SearchInv'
<1>1. Written'
  BY StillWritten DEF SearchInv, Searching, Undisturbed
<1>2. ExactAnswer'
  BY Ended DEF SearchInv
<1> QED BY <1>1, <1>2 DEF SearchInv, Searching

LEMMA SuperStep ==
  ASSUME SearchInv, TypeOK', SuperBlock
  PROVE  SearchInv'
<1>1. /\ pc = "super" /\ Undisturbed /\ results' = results /\ S # 0
      /\ Searching /\ Answered /\ TypeOK /\ Written
  BY DEF SuperBlock, Undisturbed, SearchInv, InRange, Searching
<1>2. /\ n \in Nat /\ F \in Positive /\ S \in Positive /\ super \in Nat /\ S % F = 0
      /\ superBlocks \in Seq(Block) /\ fineBlocks \in Seq(Block)
      /\ S \in Nat /\ super + 1 \in Nat
  <2>1. /\ n \in Nat /\ F \in Positive /\ super \in Nat /\ S \in Nat
        /\ superBlocks \in Seq(Block) /\ fineBlocks \in Seq(Block)
        /\ <<F, S>> \in Layouts
    BY <1>1 DEF TypeOK
  <2>2. S % F = 0
    BY <2>1, SearchAssumption
  <2> QED BY <2>1, <2>2, <1>1 DEF Positive
<1>3. /\ Stream(fineBlocks, fine, F, n) /\ Stream(superBlocks, coarse, S, n)
  BY <1>1 DEF Written
<1>4. At = super * S
  BY <1>1 DEF At
<1>5. CASE super >= Len(superBlocks) \/ Enough
  <2>1. pc' = "ready"
    BY <1>5 DEF SuperBlock
  <2>2. Enough \/ n <= At
    <3>1. CASE super >= Len(superBlocks)
      <4>1. n <= Len(superBlocks) * S
        BY <1>3 DEF Stream
      <4>2. Len(superBlocks) \in Nat
        BY <1>2
      <4>3. Len(superBlocks) * S \in Nat /\ super * S \in Nat
            /\ Len(superBlocks) * S <= super * S
        BY <4>2, <1>2, <3>1, NextMultiple
      <4> QED BY <4>1, <4>3, <1>2, <1>4
    <3> QED BY <3>1, <1>5
  <2> QED BY <2>1, <2>2, <1>1, SearchEnds
<1>6. CASE ~(super >= Len(superBlocks) \/ Enough)
  <2>1. super < Len(superBlocks) /\ super' = super + 1
    BY <1>6, <1>2 DEF SuperBlock
  <2>2. super * S \in Nat /\ super * S < n /\ (super + 1) * S = super * S + S
    BY <2>1, <1>2, <1>3, BlockAt
  <2>3. S' = S /\ F' = F /\ n' = n /\ fineBlocks' = fineBlocks
    BY <1>1 DEF Undisturbed, layout, file
  <2>4. CASE ~BitmapContains(superBlocks[super + 1], query)
    <3>1. pc' = "super"
      BY <2>4, <1>1, <1>6 DEF SuperBlock
    <3>2. At' = super * S + S
      BY <3>1, <2>1, <2>2, <2>3 DEF At
    <3>3. \A p \in 0..(n-1) : super * S <= p /\ p < super * S + S => ~Matches(p)
      BY <1>1, <1>2, <1>3, <2>1, <2>4, SkipsNoMatch
    <3>4. At <= At'
      BY <3>2, <1>4, <1>2, <2>2 DEF Positive
    <3>5. Answered'
      BY <3>2, <3>3, <3>4, <1>1, <1>4, Forward
    <3>6. InRange'
      BY <3>1, <2>3, <1>1 DEF InRange
    <3> QED BY <3>1, <3>5, <3>6, <1>1, StillSearching DEF Searching
  <2>5. CASE BitmapContains(superBlocks[super + 1], query)
    <3>1. /\ pc' = "fine" /\ block' = SuperFirst(super) \div F
          /\ blockEnd' = FineEnd(super)
      BY <2>5, <1>6 DEF SuperBlock
    <3>2. block' \in Nat /\ block' * F = super * S
      <4>1. (super * S) \div F \in Nat /\ ((super * S) \div F) * F = super * S
        BY ONLY <1>2, Aligned
      <4> QED BY <4>1, <3>1 DEF SuperFirst
    <3> DEFINE e == SuperEnd(super)
               d == (e + F - 1) \div F
               c == Len(fineBlocks)
    <3>3. e = Min2(n, super * S + S) /\ e \in Nat /\ e <= (super + 1) * S /\ super * S <= e
          /\ e <= n
      BY <2>2, <1>2 DEF SuperEnd, SuperFirst, Min2, Positive
    <3>4. d \in Nat /\ e <= d * F
      BY <3>3, <1>2, RoundedUp
    <3>5. d * F <= (super + 1) * S
      <4>1. \A x \in Nat : x <= (super + 1) * S => ((x + F - 1) \div F) * F <= (super + 1) * S
        BY ONLY <1>2, Aligned
      <4> QED BY <4>1, <3>3
    <3>6. c \in Nat /\ n <= c * F
      BY <1>2, <1>3 DEF Stream
    <3>7. blockEnd' = Min2(c, d)
      BY <3>1 DEF FineEnd
    <3> HIDE DEF e, d, c
    <3>8. c * F \in Nat /\ d * F \in Nat /\ (c <= d => c * F <= d * F)
      BY <3>4, <3>6, <1>2, NextMultiple
    <3>9. /\ blockEnd' \in Nat /\ blockEnd' <= c
          /\ e <= blockEnd' * F /\ blockEnd' * F <= (super + 1) * S
      <4>1. CASE c < d
        <5>1. blockEnd' = c
          BY <4>1, <3>7 DEF Min2
        <5>2. c * F <= d * F
          BY <4>1, <3>4, <3>6, <3>8
        <5>3. n \in Nat /\ (super + 1) * S \in Nat
          BY <1>2, <2>2
        <5> QED BY <5>1, <5>2, <5>3, <3>3, <3>5, <3>6, <3>8
      <4>2. CASE ~(c < d)
        <5>1. blockEnd' = d
          BY <4>2, <3>7 DEF Min2
        <5> QED BY <5>1, <4>2, <3>4, <3>5, <3>6
      <4> QED BY <4>1, <4>2
    <3>10. block' <= blockEnd'
      <4>1. CASE blockEnd' < block'
        <5>1. blockEnd' * F + F <= block' * F /\ blockEnd' * F \in Nat
          BY <4>1, <3>2, <3>9, <1>2, NextMultiple
        <5>2. block' * F <= blockEnd' * F
          BY <5>1, <3>2, <3>3, <3>9, <2>2
        <5>3. F \in Nat /\ F > 0
          BY <1>2 DEF Positive
        <5>4. block' * F \in Nat
          BY <3>2, <2>2
        <5> QED BY <5>1, <5>2, <5>3, <5>4
      <4> QED BY <4>1, <3>2, <3>9
    <3>11. InRange'
      <4>1. Min2(n, super' * S) = e
        BY <2>1, <2>2, <3>3
      <4> QED BY <4>1, <3>1, <3>9, <3>10, <2>1, <2>3, <1>1 DEF InRange, c
    <3>12. At' = At
      BY <3>1, <3>2, <2>3, <1>4 DEF At
    <3>13. At \in Nat
      BY <1>4, <2>2
    <3>14. Answered'
      BY <3>12, <3>13, <1>1, <1>2, Forward
    <3> QED BY <3>1, <3>11, <3>14, <1>1, StillSearching DEF Searching
  <2> QED BY <2>4, <2>5
<1> QED BY <1>5, <1>6

\* What holds in every loop over fine blocks.
LEMMA Scanning ==
  ASSUME SearchInv, pc \in {"fine", "scan"}
  PROVE  /\ n \in Nat /\ F \in Positive /\ S \in Nat /\ super \in Nat
         /\ block \in Nat /\ blockEnd \in Nat /\ block * F \in Nat
         /\ fineBlocks \in Seq(Block) /\ Stream(fineBlocks, fine, F, n)
         /\ TypeOK /\ Written /\ Searching /\ InRange /\ Answered
<1>1. Searching
  BY DEF Searching
<1>2. TypeOK /\ Written /\ InRange /\ Answered
  BY <1>1 DEF SearchInv
<1>3. /\ n \in Nat /\ F \in Positive /\ S \in Nat /\ super \in Nat
      /\ block \in Nat /\ blockEnd \in Nat /\ fineBlocks \in Seq(Block)
  BY <1>2 DEF TypeOK
<1>4. block * F \in Nat
  BY <1>3, NextMultiple
<1>5. Stream(fineBlocks, fine, F, n)
  BY <1>2 DEF Written
<1> QED BY <1>1, <1>2, <1>3, <1>4, <1>5

LEMMA FineStep ==
  ASSUME SearchInv, TypeOK', FineBlock
  PROVE  SearchInv'
<1>1. pc = "fine" /\ Undisturbed /\ results' = results /\ blockEnd' = blockEnd /\ super' = super
  BY DEF FineBlock, Undisturbed
<1>2. /\ n \in Nat /\ F \in Positive /\ S \in Nat /\ super \in Nat
      /\ block \in Nat /\ blockEnd \in Nat /\ block * F \in Nat
      /\ fineBlocks \in Seq(Block) /\ Stream(fineBlocks, fine, F, n)
      /\ TypeOK /\ Written /\ Searching /\ InRange /\ Answered
  BY <1>1, Scanning
<1>3. At = block * F
  BY <1>1 DEF At
<1>4. S' = S /\ F' = F /\ n' = n /\ fineBlocks' = fineBlocks
  BY <1>1 DEF Undisturbed, layout, file
<1>5. /\ block <= blockEnd /\ blockEnd <= Len(fineBlocks)
      /\ S = 0 => blockEnd = Len(fineBlocks)
      /\ S # 0 => Min2(n, super * S) <= blockEnd * F /\ blockEnd * F <= super * S
  BY <1>1, <1>2 DEF InRange
<1>6. CASE block >= blockEnd \/ Enough
  <2>1. CASE S = 0
    <3>1. pc' = "ready"
      BY <1>6, <2>1 DEF FineBlock
    <3>2. Enough \/ n <= At
      <4>1. CASE block >= blockEnd
        <5>1. block = Len(fineBlocks)
          BY <4>1, <2>1, <1>2, <1>5
        <5>2. n <= Len(fineBlocks) * F
          BY <1>2 DEF Stream
        <5> QED BY <5>1, <5>2, <1>3
      <4> QED BY <4>1, <1>6
    <3> QED BY <3>1, <3>2, <1>1, <1>2, SearchEnds
  <2>2. CASE S # 0
    <3>1. pc' = "super"
      BY <1>6, <2>2 DEF FineBlock
    <3>2. At' = super * S
      BY <3>1, <1>1, <1>4 DEF At
    <3>3. super * S \in Nat /\ blockEnd * F \in Nat /\ block * F <= blockEnd * F
      BY <1>2, <1>5, <2>2, NextMultiple DEF Positive
    <3>4. At <= At'
      BY <3>2, <3>3, <1>2, <1>3, <1>5, <2>2
    <3>5. Enough \/ \A p \in 0..(n-1) : At <= p /\ p < At' => ~Matches(p)
      <4>1. CASE block >= blockEnd
        <5>1. block = blockEnd
          BY <4>1, <1>2, <1>5
        <5>2. Min2(n, At') <= At /\ At \in Nat /\ At' \in Nat
          BY <5>1, <3>2, <3>3, <1>3, <1>5, <2>2
        <5> QED BY <5>2, <1>2 DEF Min2
      <4> QED BY <4>1, <1>6
    <3>6. Answered'
      BY <3>4, <3>5, <1>1, <1>2, Forward
    <3>7. InRange'
      BY <3>1, <1>4, <2>2 DEF InRange
    <3> QED BY <3>1, <3>6, <3>7, <1>1, <1>2, StillSearching DEF Searching
  <2> QED BY <2>1, <2>2
<1>7. CASE ~(block >= blockEnd \/ Enough)
  <2>1. block < blockEnd /\ block < Len(fineBlocks)
    BY <1>7, <1>2, <1>5
  <2>2. block * F < n /\ (block + 1) * F = block * F + F
    BY <2>1, <1>2, BlockAt
  <2>3. CASE BitmapContains(fineBlocks[block + 1], query)
    <3>1. /\ pc' = "scan" /\ package' = block * F /\ block' = block
          /\ packageEnd' = package' + Min2(F, n - package')
      BY <2>3, <1>7 DEF FineBlock
    <3>2. packageEnd' = Min2(n, block * F + F) /\ package' <= packageEnd'
      BY <3>1, <2>2, <1>2 DEF Min2, Positive
    <3>3. InRange'
      BY <3>1, <3>2, <2>1, <1>1, <1>2, <1>4, <1>5 DEF InRange
    <3>4. At' = At
      BY <3>1, <1>3 DEF At
    <3>5. At \in Nat
      BY <1>2, <1>3
    <3>6. Answered'
      BY <3>4, <3>5, <1>1, <1>2, Forward
    <3> QED BY <3>1, <3>3, <3>6, <1>1, <1>2, StillSearching DEF Searching
  <2>4. CASE ~BitmapContains(fineBlocks[block + 1], query)
    <3>1. pc' = "fine" /\ block' = block + 1
      BY <2>4, <1>1, <1>7 DEF FineBlock
    <3>2. At' = block * F + F
      BY <3>1, <2>2, <1>4 DEF At
    <3>3. \A p \in 0..(n-1) : block * F <= p /\ p < block * F + F => ~Matches(p)
      BY <1>2, <2>1, <2>4, SkipsNoMatch
    <3>4. At <= At'
      BY <3>2, <1>3, <1>2 DEF Positive
    <3>5. Answered'
      BY <3>2, <3>3, <3>4, <1>1, <1>2, <1>3, Forward
    <3>6. InRange'
      <4>1. block + 1 <= blockEnd
        BY <2>1, <1>2
      <4> QED BY <4>1, <3>1, <1>1, <1>4, <1>5 DEF InRange
    <3> QED BY <3>1, <3>5, <3>6, <1>1, <1>2, StillSearching DEF Searching
  <2> QED BY <2>3, <2>4
<1> QED BY <1>6, <1>7

\* One more package found keeps the answer in order.
LEMMA OneMore ==
  ASSUME TypeOK, TypeOK', Answered, Undisturbed, ~Enough, At' = At + 1, At \in 0..(n-1),
         Matches(At), results' = Append(results, At)
  PROVE  Answered'
<1> DEFINE c == Len(results)
<1>1. /\ n \in Nat /\ At \in Nat /\ limit \in Nat /\ c \in Nat
      /\ \A i \in 1..c : results[i] \in Nat
  BY Places
<1>2. n' = n /\ limit' = limit /\ \A p : Matches(p)' <=> Matches(p)
  BY SameMatches
<1>3. results \in Seq(Nat)
  BY DEF TypeOK
<1>4. Len(results') = c + 1 /\ results'[c+1] = At /\ \A i \in 1..c : results'[i] = results[i]
  BY <1>1, <1>3
<1>5. c < limit
  BY <1>1 DEF Enough
<1>6. /\ \A i \in 1..c : results[i] < n /\ results[i] < At /\ Matches(results[i])
      /\ \A i, j \in 1..c : i < j => results[i] < results[j]
  BY DEF Answered
<1> HIDE DEF c
<1>7. Len(results') <= limit'
  BY <1>1, <1>2, <1>4, <1>5
<1>8. ASSUME NEW i \in 1..(c+1)
      PROVE  (results[i] < n /\ results[i] < At /\ Matches(results[i]))'
  <2>1. PICK v \in Nat : v = results'[i] /\ v < n /\ v < At + 1 /\ Matches(v)
    <3>1. CASE i = c + 1
      BY <3>1, <1>1, <1>4
    <3>2. CASE i # c + 1
      <4>1. i \in 1..c
        BY <3>2, <1>1
      <4>2. results[i] \in Nat /\ results[i] < n /\ results[i] < At /\ Matches(results[i])
        BY <4>1, <1>1, <1>6
      <4> QED BY <4>1, <4>2, <1>1, <1>4
    <3> QED BY <3>1, <3>2
  <2>2. Matches(v)'
    BY <2>1, <1>2
  <2>3. Matches(results[i])'
    BY <2>1, <2>2 DEF Matches
  <2> QED BY <2>1, <2>3, <1>2
<1>9. ASSUME NEW i \in 1..(c+1), NEW j \in 1..(c+1), i < j
      PROVE  results'[i] < results'[j]
  <2>1. i \in 1..c
    BY <1>1, <1>9
  <2>2. CASE j = c + 1
    BY <2>1, <2>2, <1>1, <1>4, <1>6
  <2>3. CASE j # c + 1
    <3>1. j \in 1..c
      BY <2>3, <1>1
    <3> QED BY <3>1, <2>1, <1>4, <1>6, <1>9
  <2> QED BY <2>2, <2>3
<1>10. ASSUME NEW p \in 0..(n-1), p < At', Matches(p)
       PROVE  \E i \in 1..(c+1) : results'[i] = p
  <2>1. CASE p = At
    <3>1. c + 1 \in 1..(c+1) /\ results'[c+1] = p
      BY <2>1, <1>1, <1>4
    <3> QED BY <3>1
  <2>2. CASE p # At
    <3>1. p < At
      BY <2>2, <1>1, <1>10
    <3>2. PICK i \in 1..c : results[i] = p
      BY <3>1, <1>1, <1>5, <1>10 DEF Answered, c
    <3>3. i \in 1..(c+1) /\ results'[i] = p
      BY <3>2, <1>1, <1>4
    <3> QED BY <3>3
  <2> QED BY <2>1, <2>2
<1> QED BY <1>1, <1>2, <1>4, <1>7, <1>8, <1>9, <1>10 DEF Answered

LEMMA ScanStep ==
  ASSUME SearchInv, TypeOK', ScanPackage
  PROVE  SearchInv'
<1>1. pc = "scan" /\ Undisturbed /\ blockEnd' = blockEnd /\ super' = super
      /\ packageEnd' = packageEnd
  BY DEF ScanPackage, Undisturbed
<1>2. /\ n \in Nat /\ F \in Positive /\ S \in Nat /\ super \in Nat
      /\ block \in Nat /\ blockEnd \in Nat /\ block * F \in Nat
      /\ fineBlocks \in Seq(Block) /\ Stream(fineBlocks, fine, F, n)
      /\ TypeOK /\ Written /\ Searching /\ InRange /\ Answered
  BY <1>1, Scanning
<1>3. At = package /\ package \in Nat /\ packageEnd \in Int /\ kept \in [0..(n-1) -> BOOLEAN]
  BY <1>1, <1>2 DEF At, TypeOK
<1>4. S' = S /\ F' = F /\ n' = n /\ fineBlocks' = fineBlocks
  BY <1>1 DEF Undisturbed, layout, file
<1>5. /\ block < blockEnd /\ blockEnd <= Len(fineBlocks)
      /\ S = 0 => blockEnd = Len(fineBlocks)
      /\ S # 0 => Min2(n, super * S) <= blockEnd * F /\ blockEnd * F <= super * S
      /\ block * F <= package /\ package <= packageEnd /\ packageEnd = Min2(n, block * F + F)
  BY <1>1, <1>2 DEF InRange
<1>6. CASE package >= packageEnd \/ Enough
  <2>1. pc' = "fine" /\ block' = block + 1 /\ results' = results
    BY <1>6 DEF ScanPackage
  <2>2. At' = block * F + F
    <3>1. (block + 1) * F = block * F + F
      BY <1>2, NextMultiple
    <3> QED BY <3>1, <2>1, <1>4 DEF At
  <2>3. packageEnd <= n /\ packageEnd <= block * F + F
        /\ (packageEnd = n \/ packageEnd = block * F + F)
    BY <1>2, <1>5 DEF Min2, Positive
  <2>4. At <= At' /\ At' \in Nat
    <3>1. F \in Nat /\ block * F + F \in Nat
      BY <1>2 DEF Positive
    <3> QED BY <3>1, <2>2, <2>3, <1>2, <1>3, <1>5
  <2>5. Enough \/ \A p \in 0..(n-1) : At <= p /\ p < At' => ~Matches(p)
    <3>1. CASE package >= packageEnd
      <4>1. package = packageEnd
        BY <3>1, <1>3, <1>5
      <4>2. At = n \/ At = At'
        BY <4>1, <2>2, <2>3, <1>3
      <4> QED BY <4>2, <2>4, <1>2, <1>3
    <3> QED BY <3>1, <1>6
  <2>6. Answered'
    BY <2>1, <2>4, <2>5, <1>1, <1>2, Forward
  <2>7. InRange'
    <3>1. block + 1 <= blockEnd
      BY <1>2, <1>5
    <3> QED BY <3>1, <2>1, <1>1, <1>4, <1>5 DEF InRange
  <2> QED BY <2>1, <2>6, <2>7, <1>1, <1>2, StillSearching DEF Searching
<1>7. CASE ~(package >= packageEnd \/ Enough)
  <2>1. /\ pc' = "scan" /\ block' = block /\ package' = package + 1
        /\ results' = IF Found(package) THEN Append(results, package) ELSE results
    BY <1>1, <1>7 DEF ScanPackage
  <2>2. package < packageEnd /\ ~Enough
    BY <1>3, <1>7
  <2>3. package \in 0..(n-1) /\ package < block * F + F
    BY <2>2, <1>2, <1>3, <1>5 DEF Min2, Positive
  <2>4. Found(package) <=> Matches(package)
    <3>1. package \div F = block
      BY <2>3, <1>2, <1>3, <1>5, WholeBlocks
    <3>2. ~kept[package] => Dirty(block)
      BY <2>3, <3>1 DEF Dirty
    <3>3. query # << >>
      BY <1>2 DEF SearchInv
    <3> QED BY <3>2, <3>3 DEF Found, Matches
  <2>5. At' = At + 1
    BY <2>1, <1>3 DEF At
  <2>6. InRange'
    <3>1. package + 1 <= packageEnd /\ block * F <= package + 1
      BY <2>2, <1>2, <1>3, <1>5
    <3>2. block <= blockEnd
      BY <1>2, <1>5
    <3> QED BY <3>1, <3>2, <2>1, <1>1, <1>4, <1>5 DEF InRange
  <2>7. Answered'
    <3>1. CASE Found(package)
      BY <3>1, <2>1, <2>2, <2>3, <2>4, <2>5, <1>1, <1>2, <1>3, OneMore
    <3>2. CASE ~Found(package)
      <4>1. At <= At' /\ \A p \in 0..(n-1) : At <= p /\ p < At' => p = package
        BY <2>5, <1>3
      <4>2. results' = results /\ ~Matches(package)
        BY <3>2, <2>1, <2>4
      <4> QED BY <4>1, <4>2, <1>1, <1>2, Forward
    <3> QED BY <3>1, <3>2
  <2> QED BY <2>1, <2>6, <2>7, <1>1, <1>2, StillSearching DEF Searching
<1> QED BY <1>6, <1>7

LEMMA SearchInvariant == Spec => []SearchInv
<1>1. ASSUME SearchInv, [Next]_vars PROVE SearchInv'
  <2>1. TypeOK'
    BY <1>1, StepTyped DEF SearchInv
  <2>2. CASE UNCHANGED vars
    <3>1. /\ UNCHANGED <<layout, file, writer>> /\ UNCHANGED request /\ UNCHANGED place
          /\ pc' = pc /\ results' = results
      BY <2>2 DEF vars
    <3> QED BY <3>1, <2>1, <1>1
            DEF SearchInv, Written, Searching, InRange, Answered, ExactAnswer, At, Matches,
                Stream, Sums, layout, file, writer, request, place
  <2> QED BY <1>1, <2>1, <2>2, WriteStep, LoadStep, SearchStep, SuperStep, FineStep, ScanStep
          DEF Next
<1> QED BY InitSearch, <1>1, PTL DEF Spec

\* Whatever a writer writes is loaded: the counts of the header and the places of the blocks
\* that a reader computes are those of the writer (snapshot.cpp:199-257, 556-657).
THEOREM AlwaysLoaded == Spec => []NeverRefused
<1>1. SearchInv => NeverRefused
  BY DEF SearchInv, Written, NeverRefused
<1> QED BY <1>1, SearchInvariant, PTL

\* Every search that has ended has found exactly the first packages that match, whatever
\* the blocks' sizes and the hash (search.cpp:27-213).
THEOREM SearchAlwaysExact == Spec => []ExactAnswer
<1>1. SearchInv => ExactAnswer
  BY DEF SearchInv
<1> QED BY <1>1, SearchInvariant, PTL
=============================================================================
