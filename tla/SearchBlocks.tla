---------------------------- MODULE SearchBlocks ----------------------------
(***************************************************************************)
(* The search bitmaps of a snapshot: the writer sums the texts of          *)
(* consecutive packages up in fine blocks and, with super blocks, a second *)
(* time in coarse ones; a search skips the blocks whose sums show that no  *)
(* package of theirs can match, and scans the rest.  Search and writer     *)
(* have a copy each of the arithmetic they must agree on.                  *)
(*                                                                         *)
(* Packages and blocks are numbered from 0 as in the code; block i is the  *)
(* element i + 1 of its sequence.                                          *)
(***************************************************************************)
EXTENDS Integers, Sequences

CONSTANTS
  Letters, Slots,
  Hash,         \* the slots that trigram_hash gives a trigram
  Texts,        \* the search texts of packages
  Queries,
  Limits,       \* values of max_results
  Layouts,      \* packages per fine block, and per super block or 0
  MaxPackages   \* bound: packages of a snapshot

Positive == Nat \ {0}

ASSUME SearchAssumption ==
  /\ Hash \in [Letters \X Letters \X Letters -> SUBSET Slots]
  /\ Texts \subseteq Seq(Letters) /\ Queries \subseteq Seq(Letters)
  /\ Limits \subseteq Nat /\ MaxPackages \in Nat
  \* write_snapshot throws for any other.
  /\ Layouts \subseteq Positive \X Nat
  /\ \A l \in Layouts : l[2] % l[1] = 0

VARIABLES
  n, packages,               \* the packages' texts
  F, S,                      \* search_block_packages, search_super_block_packages
  pc,
  index, fine, coarse,       \* the writer's place, and the blocks it has begun
  fineBlocks, superBlocks,   \* the blocks of the file
  query, limit, kept,        \* what is searched; the packages no overlay hides
  super, block, blockEnd, package, packageEnd,
  results

layout == <<n, packages, F, S>>
file == <<fineBlocks, superBlocks>>
writer == <<index, fine, coarse>>
request == <<query, limit, kept>>
place == <<super, block, blockEnd, package, packageEnd>>
vars == <<layout, file, writer, pc, request, place, results>>

Min2(a, b) == IF a < b THEN a ELSE b

-----------------------------------------------------------------------------
(* Blocks *)

Empty == [bytes |-> {}, bigrams |-> {}, trigrams |-> {}, first |-> 0, count |-> 0]

Bytes(t) == {t[i] : i \in 1..Len(t)}
Bigrams(t) == {<<t[i-1], t[i]>> : i \in 2..Len(t)}
Trigrams(t) == {<<t[i-2], t[i-1], t[i]>> : i \in 3..Len(t)}
SlotsOf(t) == UNION {Hash[g] : g \in Trigrams(t)}

\* A block with one more package.
Added(b, p) ==
  [bytes |-> b.bytes \cup Bytes(packages[p]),
   bigrams |-> b.bigrams \cup Bigrams(packages[p]),
   trigrams |-> b.trigrams \cup SlotsOf(packages[p]),
   first |-> IF b.count = 0 THEN p ELSE b.first,
   count |-> b.count + 1]

\* What a block must have for a package of it to match.
BitmapContains(b, q) ==
  \/ Len(q) = 1 /\ q[1] \in b.bytes
  \/ Len(q) > 1 /\ SlotsOf(q) \subseteq b.trigrams /\ Bigrams(q) \subseteq b.bigrams

Contains(t, q) ==
  \E k \in 0..(Len(t) - Len(q)) : \A i \in 1..Len(q) : t[k + i] = q[i]

BlockCount(count, per) == count \div per + (IF count % per # 0 THEN 1 ELSE 0)

Init ==
  /\ n \in 0..MaxPackages /\ packages \in [0..(n-1) -> Texts]
  /\ \E l \in Layouts : F = l[1] /\ S = l[2]
  /\ pc = "write" /\ index = 0 /\ fine = Empty /\ coarse = Empty
  /\ fineBlocks = << >> /\ superBlocks = << >>
  /\ query = << >> /\ limit = 0 /\ kept = [p \in 0..(n-1) |-> TRUE]
  /\ super = 0 /\ block = 0 /\ blockEnd = 0 /\ package = 0 /\ packageEnd = 0
  /\ results = << >>

-----------------------------------------------------------------------------
(* The writer *)

Full(b, per) == b.count = per \/ index + 1 = n

BugWritePackage ==
  /\ pc = "write" /\ index < n
  /\ index' = index + 1
  /\ LET f == Added(fine, index)
     IN IF Full(f, F) THEN fineBlocks' = Append(fineBlocks, f) /\ fine' = Empty
                      ELSE fine' = f /\ UNCHANGED fineBlocks
  /\ LET c == Added(coarse, index)
     IN IF S # 0 /\ c.count = S THEN superBlocks' = Append(superBlocks, c) /\ coarse' = Empty
        ELSE coarse' = (IF S # 0 THEN c ELSE coarse) /\ UNCHANGED superBlocks
  /\ UNCHANGED <<layout, pc, request, place, results>>
\* write_search_blocks: a block is written when it is full or the packages end.
WritePackage ==
  /\ pc = "write" /\ index < n
  /\ index' = index + 1
  /\ LET f == Added(fine, index)
     IN IF Full(f, F) THEN fineBlocks' = Append(fineBlocks, f) /\ fine' = Empty
                      ELSE fine' = f /\ UNCHANGED fineBlocks
  /\ LET c == Added(coarse, index)
     IN IF S = 0 THEN UNCHANGED <<superBlocks, coarse>>
        ELSE IF Full(c, S) THEN superBlocks' = Append(superBlocks, c) /\ coarse' = Empty
        ELSE coarse' = c /\ UNCHANGED superBlocks
  /\ UNCHANGED <<layout, pc, request, place, results>>

\* Each block begins where the one before ended, and the last ends with the packages.
Covers(blocks, per) ==
  /\ \A i \in 1..Len(blocks) :
       /\ blocks[i].first = (IF i = 1 THEN 0 ELSE blocks[i-1].first + blocks[i-1].count)
       /\ blocks[i].count \in 1..per
  /\ n = IF blocks = << >> THEN 0
         ELSE blocks[Len(blocks)].first + blocks[Len(blocks)].count

\* The counts of the header are the blocks written, and a reader finds the blocks in
\* order; otherwise one of the two throws.
Load ==
  /\ pc = "write" /\ index = n
  /\ pc' = IF /\ Len(fineBlocks) = BlockCount(n, F) /\ Covers(fineBlocks, F)
              /\ Len(superBlocks) = (IF S = 0 THEN 0 ELSE BlockCount(n, S))
              /\ S # 0 => Covers(superBlocks, S)
             THEN "ready" ELSE "refused"
  /\ UNCHANGED <<layout, file, writer, request, place, results>>

-----------------------------------------------------------------------------
(* A search *)

\* search_packages_kept; nothing is found for an empty query.
Search(q, m, k) ==
  /\ pc = "ready"
  /\ query' = q /\ limit' = m /\ kept' = k
  /\ results' = << >>
  /\ IF q = << >> \/ m = 0 THEN UNCHANGED <<pc, place>>
     ELSE IF S = 0
       THEN /\ pc' = "fine" /\ block' = 0 /\ blockEnd' = Len(fineBlocks)
            /\ UNCHANGED <<super, package, packageEnd>>
       ELSE /\ pc' = "super" /\ super' = 0
            /\ UNCHANGED <<block, blockEnd, package, packageEnd>>
  /\ UNCHANGED <<layout, file, writer>>

Enough == Len(results) >= limit

SuperFirst(s) == s * S
SuperEnd(s) == Min2(n, SuperFirst(s) + S)

BugFineEnd(s) == Min2(Len(fineBlocks), SuperEnd(s) \div F)
FineEnd(s) == Min2(Len(fineBlocks), (SuperEnd(s) + F - 1) \div F)

SuperBlock ==
  /\ pc = "super"
  /\ IF super >= Len(superBlocks) \/ Enough
       THEN pc' = "ready" /\ UNCHANGED <<super, block, blockEnd>>
     ELSE /\ super' = super + 1
          /\ IF BitmapContains(superBlocks[super + 1], query)
               THEN /\ pc' = "fine"
                    /\ block' = SuperFirst(super) \div F
                    /\ blockEnd' = FineEnd(super)
               ELSE UNCHANGED <<pc, block, blockEnd>>
  /\ UNCHANGED <<layout, file, writer, request, package, packageEnd, results>>

\* scan_blocks
FineBlock ==
  /\ pc = "fine"
  /\ IF block >= blockEnd \/ Enough
       THEN pc' = (IF S = 0 THEN "ready" ELSE "super") /\ UNCHANGED <<block, package, packageEnd>>
     ELSE IF BitmapContains(fineBlocks[block + 1], query)
       THEN /\ pc' = "scan" /\ package' = block * F
            /\ packageEnd' = package' + Min2(F, n - package')
            /\ UNCHANGED block
     ELSE block' = block + 1 /\ UNCHANGED <<pc, package, packageEnd>>
  /\ UNCHANGED <<layout, file, writer, request, super, blockEnd, results>>

\* The view marks the blocks of which an overlay hides a package; only there the
\* packages are looked up.
Dirty(b) == \E p \in 0..(n-1) : ~kept[p] /\ p \div F = b

Found(p) == (Dirty(block) => kept[p]) /\ Contains(packages[p], query)

\* scan_range
ScanPackage ==
  /\ pc = "scan"
  /\ IF package >= packageEnd \/ Enough
       THEN pc' = "fine" /\ block' = block + 1 /\ UNCHANGED <<package, results>>
       ELSE /\ package' = package + 1
            /\ results' = IF Found(package) THEN Append(results, package) ELSE results
            /\ UNCHANGED <<pc, block>>
  /\ UNCHANGED <<layout, file, writer, request, super, blockEnd, packageEnd>>

Next ==
  \/ WritePackage \/ Load
  \/ \E q \in Queries, m \in Limits : \E k \in [0..(n-1) -> BOOLEAN] : Search(q, m, k)
  \/ SuperBlock \/ FineBlock \/ ScanPackage

Spec == Init /\ [][Next]_vars

-----------------------------------------------------------------------------
(* Properties *)

Block ==
  [bytes : SUBSET Letters, bigrams : SUBSET (Letters \X Letters), trigrams : SUBSET Slots,
   first : Nat, count : Nat]

\* Every variable has its type (the type invariant).
TypeOK ==
  /\ n \in Nat /\ packages \in [0..(n-1) -> Texts]
  /\ F \in Positive /\ S \in Nat /\ <<F, S>> \in Layouts
  /\ pc \in {"write", "refused", "ready", "super", "fine", "scan"}
  /\ index \in 0..n /\ fine \in Block /\ coarse \in Block
  /\ fineBlocks \in Seq(Block) /\ superBlocks \in Seq(Block)
  /\ query \in Seq(Letters) /\ limit \in Nat /\ kept \in [0..(n-1) -> BOOLEAN]
  /\ super \in Nat /\ block \in Nat /\ blockEnd \in Nat
  /\ package \in Nat /\ packageEnd \in Int
  /\ results \in Seq(Nat)

\* What the writer wrote, no reader refuses, for any number of packages and any layout
\* (snapshot.cpp:199-257, 556-575, 622-657).
NeverRefused == pc # "refused"

Matches(p) == kept[p] /\ query # << >> /\ Contains(packages[p], query)

\* A search that has ended has found the first matching packages in their order, as
\* many as the limit allows: no block is skipped that has one, no package a hidden one
\* and none twice (search.cpp:27-64, 95-138, 169-213).
ExactAnswer ==
  pc = "ready" =>
    /\ Len(results) <= limit
    /\ \A i \in 1..Len(results) : results[i] < n /\ Matches(results[i])
    /\ \A i, j \in 1..Len(results) : i < j => results[i] < results[j]
    /\ \A p \in 0..(n-1) : Matches(p) =>
         \/ \E i \in 1..Len(results) : results[i] = p
         \/ Len(results) = limit /\ \A i \in 1..limit : results[i] < p
=============================================================================
