---------------------------- MODULE CatalogProofs ----------------------------
(***************************************************************************)
(* Catalog for every finite set of branches, every set of names and every  *)
(* .SRCINFO: however long the history of updates, what is published is     *)
(* read as a full build of the last refs, is accepted, answers as it, and  *)
(* is no overlay when the base says the same.                              *)
(*                                                                         *)
(* The invariant (CatalogInv) says that the output is a full build, or an  *)
(* overlay whose references lead to the records of one (Sound).  It is     *)
(* inductive because the three inputs of a merge are sorted, share no key  *)
(* and together hold the packages of the new refs (UpdateInputs), because  *)
(* the merge of such inputs gives every name's last package and, sorted,   *)
(* the rest (MergeExact), and because the references that are written      *)
(* lead to what was merged (OverlayReads).                                 *)
(*                                                                         *)
(* A sorted list is what it holds: two rising sequences of the same        *)
(* elements are equal (SortedOnly, AscendingOnly).  That is how lists made *)
(* in different ways are compared, and the answers of a search too: both   *)
(* list the first n of the same set (Firsts, FirstsOnly).                  *)
(***************************************************************************)
EXTENDS Catalog, FiniteSetTheorems, FunctionTheorems, TLAPS

-----------------------------------------------------------------------------
(* Induction over the natural numbers, from the fact that they are well      *)
(* founded, with a set where the library's theorem has an operator           *)

\* A set of natural numbers that is not empty has a least element.
LEMMA Least ==
  ASSUME NEW T, T \subseteq Nat, T # {}
  PROVE  \E x \in T : \A y \in T : x <= y
<1>1. PICK x \in T : \A y \in T : ~(<<y, x>> \in OpToRel(<, Nat))
  BY NatLessThanWellFounded, WFMin
<1>2. \A y \in T : ~(y < x)
  BY <1>1 DEF OpToRel
<1> QED BY <1>2

\* Induction up to n over a set.
LEMMA UpTo ==
  ASSUME NEW n \in Nat, NEW T, 0 \in T, \A i \in 0..n-1 : i \in T => i + 1 \in T
  PROVE  0..n \subseteq T
<1> SUFFICES ASSUME 0..n \ T # {} PROVE FALSE
  OBVIOUS
<1>0. 0..n \ T \subseteq Nat
  OBVIOUS
<1>1. PICK x \in 0..n \ T : \A y \in 0..n \ T : x <= y
  BY <1>0, Least
<1>2. x - 1 \in 0..n-1 /\ x - 1 \in T
  BY <1>1
<1> QED BY <1>1, <1>2

-----------------------------------------------------------------------------
(* Finite sets in a linear order                                             *)

\* R is a linear order on S.
LinearOn(R, S) ==
  /\ \A x, y \in S : <<x, y>> \in R \/ <<y, x>> \in R
  /\ \A x, y \in S : <<x, y>> \in R /\ <<y, x>> \in R => x = y
  /\ \A x, y, z \in S : <<x, y>> \in R /\ <<y, z>> \in R => <<x, z>> \in R

\* The number of elements up to x.
Place(R, S, x) == Cardinality({y \in S : <<y, x>> \in R})

\* The elements of S in the order of R.
Listing(R, S) == [k \in 1..Cardinality(S) |-> CHOOSE x \in S : Place(R, S, x) = k]

\* Each place is taken by one element, and later places by greater ones.
LEMMA Places ==
  ASSUME NEW S, IsFiniteSet(S), NEW R, LinearOn(R, S)
  PROVE  /\ \A x \in S : Place(R, S, x) \in 1..Cardinality(S)
         /\ \A x, y \in S : Place(R, S, x) <= Place(R, S, y) <=> <<x, y>> \in R
         /\ \A k \in 1..Cardinality(S) : \E x \in S : Place(R, S, x) = k
<1> DEFINE below(x) == {y \in S : <<y, x>> \in R}
<1>0. Cardinality(S) \in Nat
  BY FS_CardinalityType
<1>1. ASSUME NEW x \in S
      PROVE  /\ IsFiniteSet(below(x)) /\ x \in below(x)
             /\ Place(R, S, x) = Cardinality(below(x)) /\ Place(R, S, x) \in 1..Cardinality(S)
  <2>1. below(x) \in SUBSET S /\ x \in below(x)
    BY DEF LinearOn
  <2>2. IsFiniteSet(below(x)) /\ Cardinality(below(x)) <= Cardinality(S)
    BY <2>1, FS_Subset
  <2>3. Cardinality(below(x)) \in Nat /\ Cardinality(below(x)) # 0
    BY <2>1, <2>2, FS_CardinalityType, FS_EmptySet
  <2> QED BY <1>0, <2>1, <2>2, <2>3 DEF Place
<1>2. ASSUME NEW x \in S, NEW y \in S, <<x, y>> \in R
      PROVE  Place(R, S, x) <= Place(R, S, y)
  <2>1. below(x) \in SUBSET below(y)
    BY <1>2 DEF LinearOn
  <2>2. Cardinality(below(x)) <= Cardinality(below(y))
    BY <2>1, <1>1, FS_Subset
  <2> QED BY <2>2, <1>1
<1>3. ASSUME NEW x \in S, NEW y \in S, Place(R, S, x) <= Place(R, S, y)
      PROVE  <<x, y>> \in R
  <2> SUFFICES ASSUME <<x, y>> \notin R PROVE FALSE
    OBVIOUS
  <2>1. <<y, x>> \in R
    BY DEF LinearOn
  <2>2. below(y) \in SUBSET below(x) /\ x \in below(x) /\ x \notin below(y)
    BY <2>1, <1>1 DEF LinearOn
  <2>3. Cardinality(below(y)) <= Cardinality(below(x))
    BY <2>2, <1>1, FS_Subset
  <2>4. Cardinality(below(y)) # Cardinality(below(x))
    BY <2>2, <1>1, FS_Subset
  <2>5. Cardinality(below(x)) \in Nat /\ Cardinality(below(y)) \in Nat
    BY <1>1, FS_CardinalityType
  <2>6. Cardinality(below(x)) <= Cardinality(below(y))
    BY <1>1, <1>3
  <2> QED BY <2>3, <2>4, <2>5, <2>6
<1>4. ASSUME NEW k \in 1..Cardinality(S)
      PROVE  \E x \in S : Place(R, S, x) = k
  <2> DEFINE f == [x \in S |-> Place(R, S, x)]
             T == 1..Cardinality(S)
  <2>0. \A x \in S : Place(R, S, x) \in T /\ Place(R, S, x) \in Nat
    <3> SUFFICES ASSUME NEW x \in S PROVE Place(R, S, x) \in T /\ Place(R, S, x) \in Nat
      OBVIOUS
    <3>1. Place(R, S, x) \in 1..Cardinality(S)
      BY <1>1
    <3> QED BY <3>1, <1>0
  <2>1. f \in [S -> T]
    BY <2>0
  <2>2. \A x, y \in S : f[x] = f[y] => x = y
    <3> SUFFICES ASSUME NEW x \in S, NEW y \in S, f[x] = f[y]
                 PROVE  x = y
      OBVIOUS
    <3>1. Place(R, S, x) = Place(R, S, y)
      OBVIOUS
    <3>2. Place(R, S, x) <= Place(R, S, y) /\ Place(R, S, y) <= Place(R, S, x)
      BY <3>1, <2>0
    <3>3. <<x, y>> \in R /\ <<y, x>> \in R
      BY <3>2, <1>3
    <3> QED BY <3>3 DEF LinearOn
  <2> HIDE DEF f
  <2>3. f \in Injection(S, T)
    BY <2>1, <2>2, Fun_IsInj
  <2>4. IsFiniteSet(T) /\ Cardinality(T) = Cardinality(S)
    BY <1>0, FS_Interval
  <2>5. f \in Surjection(S, T)
    BY <2>3, <2>4, FS_Injection
  <2>6. PICK x \in S : f[x] = k
    BY <2>5 DEF Surjection
  <2> QED BY <2>6 DEF f
<1> QED BY <1>1, <1>2, <1>3, <1>4

\* The listing of a finite linear order names every element once, in the order.
LEMMA Listed ==
  ASSUME NEW S, IsFiniteSet(S), NEW R, LinearOn(R, S)
  PROVE  /\ Cardinality(S) \in Nat
         /\ Listing(R, S) \in [1..Cardinality(S) -> S]
         /\ Listing(R, S) \in Seq(S) /\ Len(Listing(R, S)) = Cardinality(S)
         /\ ToSet(Listing(R, S)) = S
         /\ \A i \in DOMAIN Listing(R, S) : Place(R, S, Listing(R, S)[i]) = i
         /\ \A i, j \in DOMAIN Listing(R, S) :
              i < j => <<Listing(R, S)[i], Listing(R, S)[j]>> \in R
                       /\ Listing(R, S)[i] # Listing(R, S)[j]
<1> DEFINE s == Listing(R, S)
           n == Cardinality(S)
<1>0. n \in Nat
  BY FS_CardinalityType
<1>1. ASSUME NEW i \in 1..n
      PROVE  s[i] \in S /\ Place(R, S, s[i]) = i
  <2>1. \E x \in S : Place(R, S, x) = i
    BY Places
  <2> QED BY <2>1 DEF Listing
<1>2. s \in [1..n -> S]
  BY <1>1 DEF Listing
<1>3. s \in Seq(S) /\ Len(s) = n
  BY <1>0, <1>2
<1> HIDE DEF s, n
<1>4. ASSUME NEW x \in S
      PROVE  \E i \in 1..n : s[i] = x
  <2>1. Place(R, S, x) \in 1..n
    BY Places DEF n
  <2>2. PICK i \in 1..n : i = Place(R, S, x)
    BY <2>1
  <2>3. Place(R, S, s[i]) <= Place(R, S, x) /\ Place(R, S, x) <= Place(R, S, s[i])
    BY <2>2, <1>0, <1>1
  <2>4. <<x, s[i]>> \in R /\ <<s[i], x>> \in R
    BY <2>3, <1>1, Places
  <2>5. s[i] = x
    BY <2>4, <1>1 DEF LinearOn
  <2> QED BY <2>5
<1>5. ToSet(s) = S
  BY <1>2, <1>4 DEF ToSet
<1>6. ASSUME NEW i \in 1..n, NEW j \in 1..n, i < j
      PROVE  <<s[i], s[j]>> \in R /\ s[i] # s[j]
  <2>1. Place(R, S, s[i]) <= Place(R, S, s[j]) /\ Place(R, S, s[i]) # Place(R, S, s[j])
    BY <1>0, <1>1, <1>6
  <2> QED BY <2>1, <1>1, Places
<1>7. DOMAIN s = 1..n
  BY <1>2
<1>8. \A i \in DOMAIN s : Place(R, S, s[i]) = i
  BY <1>1, <1>7
<1>9. \A i, j \in DOMAIN s : i < j => <<s[i], s[j]>> \in R /\ s[i] # s[j]
  BY <1>6, <1>7
<1> QED BY <1>0, <1>2, <1>3, <1>5, <1>8, <1>9 DEF s, n

\* The listing is the only one: a sequence in the order has it.
LEMMA OnlyListing ==
  ASSUME NEW E, NEW s \in Seq(E), NEW R, LinearOn(R, ToSet(s)),
         \A i, j \in DOMAIN s : i < j => <<s[i], s[j]>> \in R /\ s[i] # s[j]
  PROVE  /\ IsFiniteSet(ToSet(s)) /\ Cardinality(ToSet(s)) = Len(s)
         /\ s = Listing(R, ToSet(s))
<1> DEFINE S == ToSet(s)
           n == Len(s)
<1>1. n \in Nat /\ DOMAIN s = 1..n /\ s \in [1..n -> S]
  BY DEF ToSet
<1>2. \A i, j \in 1..n : s[i] = s[j] => i = j
  <2> SUFFICES ASSUME NEW i \in 1..n, NEW j \in 1..n, s[i] = s[j], i # j
               PROVE  FALSE
    OBVIOUS
  <2>1. i < j \/ j < i
    BY <1>1
  <2> QED BY <2>1, <1>1
<1>3. ASSUME NEW k \in 1..n
      PROVE  /\ s[k] \in S /\ Place(R, S, s[k]) = k
  <2> DEFINE low == {y \in S : <<y, s[k]>> \in R}
             f == [i \in 1..k |-> s[i]]
  <2>0. k \in 1..n /\ k \in Nat /\ 1..k \subseteq 1..n /\ s[k] \in S
    BY <1>1
  <2>1. \A i \in 1..k : s[i] \in low
    <3> SUFFICES ASSUME NEW i \in 1..k PROVE s[i] \in low
      OBVIOUS
    <3>1. i \in 1..n /\ s[i] \in S
      BY <2>0, <1>1
    <3>2. CASE i = k
      <4>1. <<s[k], s[k]>> \in R
        BY <2>0 DEF LinearOn
      <4> QED BY <3>1, <3>2, <4>1
    <3>3. CASE i < k
      BY <3>1, <3>3, <2>0, <1>1
    <3> QED BY <3>2, <3>3, <2>0
  <2>2. \A y \in low : \E i \in 1..k : s[i] = y
    <3> SUFFICES ASSUME NEW y \in S, <<y, s[k]>> \in R
                 PROVE  \E i \in 1..k : s[i] = y
      OBVIOUS
    <3>1. PICK i \in 1..n : y = s[i]
      BY <1>1 DEF ToSet
    <3>2. ASSUME k < i PROVE FALSE
      <4>1. <<s[k], y>> \in R /\ s[k] # y
        BY <3>1, <3>2, <1>1, <2>0
      <4> QED BY <4>1, <2>0 DEF LinearOn
    <3>3. i \in 1..k
      BY <3>1, <3>2, <2>0
    <3> QED BY <3>1, <3>3
  <2>3. f \in [1..k -> low] /\ (\A a, b \in 1..k : f[a] = f[b] => a = b)
    BY <2>0, <2>1, <1>2
  <2>4. \A t \in low : \E i \in 1..k : f[i] = t
    BY <2>2
  <2> HIDE DEF low, f
  <2>5. f \in Bijection(1..k, low)
    BY <2>3, <2>4, Fun_IsBij
  <2>6. ExistsBijection(1..k, low)
    BY <2>5 DEF ExistsBijection
  <2>7. Cardinality(low) = k
    BY <2>6, <2>0, FS_CountingElements
  <2> QED BY <2>7, <2>0 DEF Place, low
<1>4. IsFiniteSet(S) /\ Cardinality(S) = n
  <2>1. \A t \in S : \E i \in 1..n : s[i] = t
    BY <1>1 DEF ToSet
  <2>2. s \in Bijection(1..n, S)
    BY <1>1, <1>2, <2>1, Fun_IsBij
  <2>3. ExistsBijection(1..n, S)
    BY <2>2 DEF ExistsBijection
  <2> QED BY <2>3, <1>1, FS_CountingElements, FS_NatBijection
<1>5. ASSUME NEW k \in 1..n
      PROVE  s[k] = Listing(R, S)[k]
  <2>1. /\ Listing(R, S)[k] \in S /\ Place(R, S, Listing(R, S)[k]) = k
    BY <1>1, <1>4, Listed
  <2>2. PICK j \in 1..n : s[j] = Listing(R, S)[k]
    BY <2>1, <1>1 DEF ToSet
  <2>3. j = k
    BY <2>1, <2>2, <1>3
  <2> QED BY <2>2, <2>3
<1>6. Listing(R, S) \in [1..n -> S]
  BY <1>4, Listed
<1>7. s = Listing(R, S)
  BY <1>1, <1>5, <1>6
<1> QED BY <1>4, <1>7

-----------------------------------------------------------------------------
(* Ascending and Sorted are listings                                         *)

\* The order of integers, as a relation.
IntOrder(S) == {p \in S \X S : p[1] <= p[2]}

\* Ascending is the listing of integers by <=.
LEMMA AscendingLists ==
  ASSUME NEW S \in SUBSET Int
  PROVE  /\ LinearOn(IntOrder(S), S)
         /\ Ascending(S) = Listing(IntOrder(S), S)
<1>1. LinearOn(IntOrder(S), S)
  BY DEF LinearOn, IntOrder
<1>2. ASSUME NEW x \in S
      PROVE  {y \in S : y <= x} = {y \in S : <<y, x>> \in IntOrder(S)}
  BY DEF IntOrder
<1>3. \A x \in S : Cardinality({y \in S : y <= x}) = Place(IntOrder(S), S, x)
  BY <1>2 DEF Place
<1>4. \A k : (CHOOSE x \in S : Cardinality({y \in S : y <= x}) = k)
               = (CHOOSE x \in S : Place(IntOrder(S), S, x) = k)
  BY <1>3
<1>5. Ascending(S) = [k \in 1..Cardinality(S) |->
                        CHOOSE x \in S : Cardinality({y \in S : y <= x}) = k]
  BY DEF Ascending, InOrder
<1>6. Ascending(S) = Listing(IntOrder(S), S)
  BY <1>4, <1>5, Zenon DEF Listing
<1> QED BY <1>1, <1>6

\* Ascending names every element of a finite set once, and grows.
LEMMA AscendingFacts ==
  ASSUME NEW S \in SUBSET Int, IsFiniteSet(S)
  PROVE  /\ Cardinality(S) \in Nat
         /\ Ascending(S) \in [1..Cardinality(S) -> S]
         /\ Ascending(S) \in Seq(S) /\ Len(Ascending(S)) = Cardinality(S)
         /\ ToSet(Ascending(S)) = S
         /\ \A i, j \in 1..Cardinality(S) : i < j <=> Ascending(S)[i] < Ascending(S)[j]
<1> DEFINE s == Ascending(S)
<1>1. /\ Cardinality(S) \in Nat
      /\ s \in [1..Cardinality(S) -> S]
      /\ s \in Seq(S) /\ Len(s) = Cardinality(S) /\ ToSet(s) = S
      /\ \A i, j \in DOMAIN s : i < j => <<s[i], s[j]>> \in IntOrder(S) /\ s[i] # s[j]
  BY AscendingLists, Listed
<1> HIDE DEF s
<1>2. \A i, j \in 1..Cardinality(S) : i < j => s[i] < s[j]
  <2> SUFFICES ASSUME NEW i \in 1..Cardinality(S), NEW j \in 1..Cardinality(S), i < j
               PROVE  s[i] < s[j]
    OBVIOUS
  <2>1. <<s[i], s[j]>> \in IntOrder(S) /\ s[i] # s[j] /\ s[i] \in Int /\ s[j] \in Int
    BY <1>1
  <2> QED BY <2>1 DEF IntOrder
<1>3. \A i, j \in 1..Cardinality(S) : s[i] < s[j] => i < j
  <2> SUFFICES ASSUME NEW i \in 1..Cardinality(S), NEW j \in 1..Cardinality(S),
                      s[i] < s[j], ~(i < j)
               PROVE  FALSE
    OBVIOUS
  <2>1. i = j \/ j < i
    BY <1>1
  <2>2. s[i] \in Int /\ s[j] \in Int
    BY <1>1
  <2> QED BY <2>1, <2>2, <1>2
<1> QED BY <1>1, <1>2, <1>3 DEF s

\* A sequence that grows is Ascending of what it holds.
LEMMA AscendingOnly ==
  ASSUME NEW s \in Seq(Int), \A i, j \in 1..Len(s) : i < j => s[i] < s[j]
  PROVE  /\ IsFiniteSet(ToSet(s)) /\ Cardinality(ToSet(s)) = Len(s)
         /\ s = Ascending(ToSet(s))
<1>1. DOMAIN s = 1..Len(s) /\ \A i \in DOMAIN s : s[i] \in Int
  OBVIOUS
<1>2. ToSet(s) \in SUBSET Int
  BY <1>1 DEF ToSet
<1>3. \A i, j \in DOMAIN s : i < j => <<s[i], s[j]>> \in IntOrder(ToSet(s)) /\ s[i] # s[j]
  BY <1>1 DEF IntOrder, ToSet
<1> QED BY <1>2, <1>3, AscendingLists, OnlyListing

-----------------------------------------------------------------------------
(* Packages by (name, branch)                                                *)

\* The order of packages, and when neither is before the other.
KeyLess(p, q) == p.name < q.name \/ (p.name = q.name /\ p.branch < q.branch)
SameKey(p, q) == p.name = q.name /\ p.branch = q.branch

\* Packages that can be ordered, and such packages no two of which share their key.
Keys(S) == \A p \in S : p.name \in Int /\ p.branch \in Int
Keyed(S) == Keys(S) /\ \A p, q \in S : SameKey(p, q) => p = q

\* Sorted by (name, branch).
Rising(s) == \A i, j \in DOMAIN s : i < j => KeyLess(s[i], s[j])

\* The order of packages, as a relation.
KeyOrder(S) == {r \in S \X S : KeyLess(r[1], r[2]) \/ SameKey(r[1], r[2])}

\* Sorted is the listing of packages by (name, branch), if no two share both.
LEMMA SortedLists ==
  ASSUME NEW S, Keyed(S)
  PROVE  /\ LinearOn(KeyOrder(S), S)
         /\ Sorted(S) = Listing(KeyOrder(S), S)
<1>1. LinearOn(KeyOrder(S), S)
  BY DEF LinearOn, KeyOrder, KeyLess, SameKey, Keyed, Keys
<1> DEFINE leq(p, q) == p.name < q.name \/ (p.name = q.name /\ p.branch <= q.branch)
<1>2. ASSUME NEW x \in S
      PROVE  {y \in S : leq(y, x)} = {y \in S : <<y, x>> \in KeyOrder(S)}
  BY DEF KeyOrder, KeyLess, SameKey, Keyed, Keys
<1>3. \A x \in S : Cardinality({y \in S : leq(y, x)}) = Place(KeyOrder(S), S, x)
  BY <1>2 DEF Place
<1>4. \A k : (CHOOSE x \in S : Cardinality({y \in S : leq(y, x)}) = k)
               = (CHOOSE x \in S : Place(KeyOrder(S), S, x) = k)
  BY <1>3
<1>5. Sorted(S) = [k \in 1..Cardinality(S) |->
                     CHOOSE x \in S : Cardinality({y \in S : leq(y, x)}) = k]
  BY DEF Sorted, InOrder
<1> HIDE DEF leq
<1>6. Sorted(S) = Listing(KeyOrder(S), S)
  BY <1>4, <1>5, Zenon DEF Listing
<1> QED BY <1>1, <1>6

\* Sorted names every package of a finite set once, in the order.
LEMMA SortedFacts ==
  ASSUME NEW S, IsFiniteSet(S), Keyed(S)
  PROVE  /\ Cardinality(S) \in Nat
         /\ Sorted(S) \in [1..Cardinality(S) -> S]
         /\ Sorted(S) \in Seq(S) /\ Len(Sorted(S)) = Cardinality(S)
         /\ ToSet(Sorted(S)) = S
         /\ Rising(Sorted(S))
<1> DEFINE s == Sorted(S)
<1>1. /\ Cardinality(S) \in Nat
      /\ s \in [1..Cardinality(S) -> S]
      /\ s \in Seq(S) /\ Len(s) = Cardinality(S) /\ ToSet(s) = S
      /\ \A i, j \in DOMAIN s : i < j => <<s[i], s[j]>> \in KeyOrder(S) /\ s[i] # s[j]
  BY SortedLists, Listed
<1> HIDE DEF s
<1>2. Rising(s)
  <2> SUFFICES ASSUME NEW i \in DOMAIN s, NEW j \in DOMAIN s, i < j
               PROVE  KeyLess(s[i], s[j])
    BY DEF Rising
  <2>1. <<s[i], s[j]>> \in KeyOrder(S) /\ s[i] # s[j] /\ s[i] \in S /\ s[j] \in S
    BY <1>1
  <2>2. KeyLess(s[i], s[j]) \/ SameKey(s[i], s[j])
    BY <2>1 DEF KeyOrder
  <2> QED BY <2>1, <2>2 DEF Keyed
<1> QED BY <1>1, <1>2 DEF s

\* A sequence in the order of (name, branch) is Sorted of what it holds.
LEMMA SortedOnly ==
  ASSUME NEW E, Keys(E), NEW s \in Seq(E), Rising(s)
  PROVE  /\ IsFiniteSet(ToSet(s)) /\ Cardinality(ToSet(s)) = Len(s)
         /\ Keyed(ToSet(s)) /\ ToSet(s) \subseteq E
         /\ s = Sorted(ToSet(s))
<1>1. DOMAIN s = 1..Len(s) /\ \A i \in DOMAIN s : s[i] \in E
  OBVIOUS
<1>2. ToSet(s) \subseteq E
  BY <1>1 DEF ToSet
<1>3. Keyed(ToSet(s))
  <2> SUFFICES ASSUME NEW i \in DOMAIN s, NEW j \in DOMAIN s, SameKey(s[i], s[j])
               PROVE  s[i] = s[j]
    BY <1>2 DEF Keyed, Keys, ToSet
  <2>1. i = j \/ i < j \/ j < i
    BY <1>1
  <2> QED BY <2>1, <1>1 DEF Rising, SameKey, KeyLess, Keys
<1>4. \A i, j \in DOMAIN s : i < j => <<s[i], s[j]>> \in KeyOrder(ToSet(s)) /\ s[i] # s[j]
  <2> SUFFICES ASSUME NEW i \in DOMAIN s, NEW j \in DOMAIN s, i < j
               PROVE  <<s[i], s[j]>> \in KeyOrder(ToSet(s)) /\ s[i] # s[j]
    OBVIOUS
  <2>1. KeyLess(s[i], s[j]) /\ s[i] \in ToSet(s) /\ s[j] \in ToSet(s)
    BY DEF Rising, ToSet
  <2> QED BY <2>1, <1>3 DEF KeyOrder, Keyed, Keys, KeyLess
<1> QED BY <1>2, <1>3, <1>4, SortedLists, OnlyListing

\* The values of a function on a finite set are finitely many.
LEMMA FiniteImage ==
  ASSUME NEW f, IsFiniteSet(DOMAIN f), f = [x \in DOMAIN f |-> f[x]]
  PROVE  IsFiniteSet({f[x] : x \in DOMAIN f})
<1> DEFINE T == {f[x] : x \in DOMAIN f}
<1>1. f \in [DOMAIN f -> T] /\ \A t \in T : \E x \in DOMAIN f : f[x] = t
  OBVIOUS
<1>2. f \in Surjection(DOMAIN f, T)
  BY <1>1, Fun_IsSurj
<1> QED BY <1>2, FS_Surjection

\* A sequence holds finitely many elements.
LEMMA FiniteSeq ==
  ASSUME NEW E, NEW s \in Seq(E)
  PROVE  IsFiniteSet(ToSet(s)) /\ IsFiniteSet(DOMAIN s)
<1>1. DOMAIN s = 1..Len(s) /\ Len(s) \in Nat /\ s = [i \in DOMAIN s |-> s[i]]
  OBVIOUS
<1>2. IsFiniteSet(DOMAIN s)
  BY <1>1, FS_Interval
<1> QED BY <1>1, <1>2, FiniteImage DEF ToSet

\* What some places of a rising sequence hold, taken in their order.
LEMMA Picked ==
  ASSUME NEW E, Keys(E), NEW s \in Seq(E), Rising(s), NEW I \in SUBSET DOMAIN s
  PROVE  LET a == Ascending(I)
             r == [k \in DOMAIN a |-> s[a[k]]]
         IN /\ IsFiniteSet(I) /\ DOMAIN a = 1..Cardinality(I) /\ ToSet(a) = I
            /\ \A k \in DOMAIN a : a[k] \in I
            /\ \A i, j \in DOMAIN a : i < j => a[i] < a[j]
            /\ r \in Seq(E) /\ Len(r) = Cardinality(I)
            /\ ToSet(r) = {s[i] : i \in I} /\ Rising(r)
<1> DEFINE a == Ascending(I)
           r == [k \in DOMAIN a |-> s[a[k]]]
           n == Cardinality(I)
<1>1. DOMAIN s = 1..Len(s) /\ \A i \in DOMAIN s : s[i] \in E
  OBVIOUS
<1>2. I \in SUBSET Int /\ IsFiniteSet(I)
  BY <1>1, FiniteSeq, FS_Subset
<1>3. /\ n \in Nat /\ a \in [1..n -> I] /\ ToSet(a) = I
      /\ \A i, j \in 1..n : i < j <=> a[i] < a[j]
  BY <1>2, AscendingFacts
<1> HIDE DEF a, n
<1>4. DOMAIN a = 1..n /\ \A k \in 1..n : a[k] \in I /\ s[a[k]] \in E
  BY <1>1, <1>3
<1>5. r \in [1..n -> E] /\ r \in Seq(E) /\ Len(r) = n
  BY <1>3, <1>4
<1>6. ToSet(r) = {s[i] : i \in I}
  BY <1>3, <1>4 DEF ToSet
<1>7. Rising(r)
  <2> SUFFICES ASSUME NEW i \in 1..n, NEW j \in 1..n, i < j
               PROVE  KeyLess(s[a[i]], s[a[j]])
    BY <1>4, <1>5 DEF Rising
  <2>1. a[i] \in DOMAIN s /\ a[j] \in DOMAIN s /\ a[i] < a[j]
    BY <1>3, <1>4
  <2> QED BY <2>1 DEF Rising
<1> QED BY <1>2, <1>3, <1>4, <1>5, <1>6, <1>7 DEF a, n

-----------------------------------------------------------------------------
(* The full build                                                            *)

\* A branch of a list, and a list in the order of names.
BranchRec == [name : Branches, oid : Oids]

Ranked(list) == \A i, j \in DOMAIN list : i < j <=> list[i].name < list[j].name

\* The branch list has the branches that exist, by name, with their commits.
LEMMA BranchListFacts ==
  ASSUME NEW t \in Trees
  PROVE  /\ BranchList(t) \in Seq(BranchRec) /\ Ranked(BranchList(t))
         /\ \A e : e \in ToSet(BranchList(t)) <=>
              \E b \in Branches : t[b] # NoOid /\ e = [name |-> b, oid |-> t[b]]
<1> DEFINE live == {b \in Branches : t[b] # NoOid}
           names == Ascending(live)
           n == Cardinality(live)
<1>1. live \in SUBSET Int /\ IsFiniteSet(live) /\ t \in [Branches -> Oids \cup {NoOid}]
  BY CatalogAssumption, FS_Subset DEF Trees
<1>2. /\ n \in Nat /\ names \in [1..n -> live] /\ ToSet(names) = live
      /\ \A i, j \in 1..n : i < j <=> names[i] < names[j]
  BY <1>1, AscendingFacts
<1>3. BranchList(t) = [i \in 1..n |-> [name |-> names[i], oid |-> t[names[i]]]]
  BY <1>2 DEF BranchList
<1> HIDE DEF names, n
<1>4. \A i \in 1..n : names[i] \in Branches /\ t[names[i]] \in Oids
  BY <1>1, <1>2
<1>5. BranchList(t) \in [1..n -> BranchRec]
  BY <1>3, <1>4 DEF BranchRec
<1>6. BranchList(t) \in Seq(BranchRec)
  BY <1>2, <1>5
<1>7. Ranked(BranchList(t))
  BY <1>2, <1>3 DEF Ranked
<1>8. ASSUME NEW e
      PROVE  e \in ToSet(BranchList(t)) <=>
              \E b \in Branches : t[b] # NoOid /\ e = [name |-> b, oid |-> t[b]]
  <2>1. e \in ToSet(BranchList(t)) <=>
          \E i \in 1..n : e = [name |-> names[i], oid |-> t[names[i]]]
    BY <1>3 DEF ToSet
  <2>2. \A b : b \in live <=> \E i \in 1..n : b = names[i]
    BY <1>2 DEF ToSet
  <2> QED BY <2>1, <2>2
<1> QED BY <1>6, <1>7, <1>8

\* The packages of some branches of a list, and what they are made of.
PackageSet(list, I) == UNION {ToSet(Compiled(list, i)) : i \in I}

Package(list, i, n) == [name |-> n, branch |-> i, text |-> <<list[i].name, list[i].oid>>]

Provided(list, i) == ToSet(Provides[list[i].name][list[i].oid])

\* append_branch_packages gives each name of a commit once, so that no two packages
\* of a build share name and branch.
LEMMA PackageSets ==
  ASSUME NEW list \in Seq(BranchRec), NEW I \in SUBSET DOMAIN list
  PROVE  /\ \A p : p \in PackageSet(list, I) <=>
                     \E i \in I : \E n \in Provided(list, i) : p = Package(list, i, n)
         /\ \A i \in I : Provided(list, i) \subseteq Names
         /\ IsFiniteSet(PackageSet(list, I)) /\ Keyed(PackageSet(list, I))
<1>1. DOMAIN list = 1..Len(list)
      /\ \A i \in DOMAIN list : list[i].name \in Branches /\ list[i].oid \in Oids
  <2>1. DOMAIN list = 1..Len(list) /\ \A i \in DOMAIN list : list[i] \in BranchRec
    OBVIOUS
  <2> QED BY <2>1 DEF BranchRec
<1>2. ASSUME NEW i \in I
      PROVE  /\ Provides[list[i].name][list[i].oid] \in Seq(Names)
             /\ Provided(list, i) \subseteq Names
             /\ IsFiniteSet(ToSet(Compiled(list, i)))
             /\ ToSet(Compiled(list, i)) = {Package(list, i, n) : n \in Provided(list, i)}
  <2> DEFINE names == Provides[list[i].name][list[i].oid]
             c == [k \in DOMAIN names |-> Package(list, i, names[k])]
  <2>1. names \in Seq(Names)
    BY <1>1, CatalogAssumption
  <2>2. Provided(list, i) \subseteq Names
    BY <2>1 DEF Provided, ToSet
  <2>3. Compiled(list, i) = c
    BY DEF Compiled, Package
  <2> HIDE DEF names
  <2>4. IsFiniteSet(DOMAIN c)
    BY <2>1, FiniteSeq
  <2>5. IsFiniteSet(ToSet(c))
    BY <2>4, FiniteImage DEF ToSet
  <2>6. ToSet(c) = {Package(list, i, n) : n \in Provided(list, i)}
    BY DEF ToSet, Provided, names
  <2> QED BY <2>1, <2>2, <2>3, <2>5, <2>6 DEF names
<1>3. ASSUME NEW p
      PROVE  p \in PackageSet(list, I) <=>
               \E i \in I : \E n \in Provided(list, i) : p = Package(list, i, n)
  <2>1. p \in PackageSet(list, I) <=> \E i \in I : p \in ToSet(Compiled(list, i))
    BY DEF PackageSet
  <2> QED BY <2>1, <1>2
<1>4. IsFiniteSet(PackageSet(list, I))
  <2> DEFINE f == [i \in I |-> ToSet(Compiled(list, i))]
  <2>1. IsFiniteSet(I)
    BY FiniteSeq, FS_Subset
  <2>2. IsFiniteSet({f[i] : i \in DOMAIN f})
    BY <2>1, FiniteImage
  <2>3. {f[i] : i \in DOMAIN f} = {ToSet(Compiled(list, i)) : i \in I}
    OBVIOUS
  <2>4. \A T \in {ToSet(Compiled(list, i)) : i \in I} : IsFiniteSet(T)
    BY <1>2
  <2> QED BY <2>2, <2>3, <2>4, FS_UNION DEF PackageSet
<1>5. Keyed(PackageSet(list, I))
  <2>1. ASSUME NEW p \in PackageSet(list, I)
        PROVE  /\ p.name \in Int /\ p.branch \in Int /\ p = Package(list, p.branch, p.name)
    <3>1. PICK i \in I : \E n \in Provided(list, i) : p = Package(list, i, n)
      BY <1>3
    <3>2. PICK n \in Provided(list, i) : p = Package(list, i, n)
      BY <3>1
    <3>3. n \in Names /\ i \in Int
      BY <1>1, <1>2
    <3>4. n \in Int
      BY <3>3, CatalogAssumption
    <3> QED BY <3>2, <3>3, <3>4 DEF Package
  <2> QED BY <2>1 DEF Keyed, Keys, SameKey
<1> QED BY <1>2, <1>3, <1>4, <1>5

\* The packages no later branch contests.
Winners(P) == {p \in P : \A q \in P : q.name = p.name => q.branch <= p.branch}

\* What was taken out of such packages is such packages.
LEMMA SubsetKeyed ==
  ASSUME NEW P, IsFiniteSet(P), Keyed(P), NEW Q \in SUBSET P
  PROVE  IsFiniteSet(Q) /\ Keyed(Q)
BY FS_Subset DEF Keyed, Keys

\* In a sorted list a package wins if the next one has another name.
LEMMA WinnersInList ==
  ASSUME NEW P, IsFiniteSet(P), Keyed(P), NEW s, s = Sorted(P), NEW k \in DOMAIN s
  PROVE  s[k] \in Winners(P) <=> k = Len(s) \/ s[k + 1].name # s[k].name
<1>1. /\ s \in Seq(P) /\ DOMAIN s = 1..Len(s) /\ Len(s) \in Nat /\ ToSet(s) = P /\ Rising(s)
      /\ \A i \in DOMAIN s : s[i] \in P /\ s[i].name \in Int /\ s[i].branch \in Int
  BY SortedFacts DEF Keyed, Keys
<1>2. ASSUME s[k] \in Winners(P), k # Len(s), s[k + 1].name = s[k].name
      PROVE  FALSE
  <2>1. k + 1 \in DOMAIN s /\ k < k + 1
    BY <1>1, <1>2
  <2>2. KeyLess(s[k], s[k + 1]) /\ s[k + 1] \in P
    BY <2>1, <1>1 DEF Rising
  <2> QED BY <2>1, <2>2, <1>1, <1>2 DEF KeyLess, Winners
<1>3. ASSUME s[k] \notin Winners(P)
      PROVE  k # Len(s) /\ s[k + 1].name = s[k].name
  <2>1. PICK q \in P : q.name = s[k].name /\ s[k].branch < q.branch
    BY <1>1, <1>3 DEF Winners, Keyed, Keys
  <2>2. PICK j \in DOMAIN s : q = s[j]
    BY <1>1 DEF ToSet
  <2>3. k < j
    <3>1. ~(j < k) /\ j # k
      BY <2>1, <2>2, <1>1 DEF Rising, KeyLess
    <3> QED BY <3>1, <1>1
  <2>4. k + 1 \in DOMAIN s /\ k < k + 1 /\ (k + 1 = j \/ k + 1 < j)
    BY <2>3, <1>1
  <2>5. KeyLess(s[k], s[k + 1])
    BY <2>4, <1>1 DEF Rising
  <2>6. k + 1 < j => KeyLess(s[k + 1], s[j])
    BY <2>4, <1>1 DEF Rising
  <2> QED BY <2>1, <2>2, <2>3, <2>4, <2>5, <2>6, <1>1 DEF KeyLess
<1> QED BY <1>2, <1>3

\* All packages of the refs t.
All(t) == PackageSet(BranchList(t), DOMAIN BranchList(t))

\* partition_package_views gives, sorted, the packages no later branch contests, and
\* the rest.
LEMMA FullBuildIs ==
  ASSUME NEW t \in Trees
  PROVE  /\ IsFiniteSet(All(t)) /\ Keyed(All(t))
         /\ FullBuild(t) = Snapshot(BranchList(t), Sorted(Winners(All(t))),
                                    Sorted(All(t) \ Winners(All(t))))
<1> DEFINE P == All(t)
           s == Sorted(P)
           wins(k) == k = Len(s) \/ s[k + 1].name # s[k].name
           A == {k \in DOMAIN s : wins(k)}
           B == {k \in DOMAIN s : ~wins(k)}
           pick(I) == [k \in DOMAIN Ascending(I) |-> s[Ascending(I)[k]]]
<1>1. IsFiniteSet(P) /\ Keyed(P) /\ Keys(P)
  BY BranchListFacts, PackageSets DEF All, Keyed
<1>2. s \in Seq(P) /\ Rising(s) /\ ToSet(s) = P
  BY <1>1, SortedFacts
<1>3. FullBuild(t) = Snapshot(BranchList(t), pick(A), pick(B))
  BY DEF FullBuild, SortedPackages, PackageSet, All
<1>4. \A k \in DOMAIN s : s[k] \in P /\ (s[k] \in Winners(P) <=> wins(k))
  BY <1>1, <1>2, WinnersInList DEF ToSet
<1> HIDE DEF P, s, wins
<1>5. {s[i] : i \in A} = Winners(P) /\ {s[i] : i \in B} = P \ Winners(P)
  BY <1>2, <1>4 DEF ToSet, Winners
<1>6. A \in SUBSET DOMAIN s /\ B \in SUBSET DOMAIN s /\ Keys(P) /\ s \in Seq(P) /\ Rising(s)
  BY <1>1, <1>2
<1> HIDE DEF A, B
<1>7. pick(A) \in Seq(P) /\ Rising(pick(A)) /\ ToSet(pick(A)) = Winners(P)
  <2>1. pick(A) \in Seq(P) /\ Rising(pick(A)) /\ ToSet(pick(A)) = {s[i] : i \in A}
    BY <1>6, Picked
  <2> QED BY <2>1, <1>5
<1>8. pick(B) \in Seq(P) /\ Rising(pick(B)) /\ ToSet(pick(B)) = P \ Winners(P)
  <2>1. pick(B) \in Seq(P) /\ Rising(pick(B)) /\ ToSet(pick(B)) = {s[i] : i \in B}
    BY <1>6, Picked
  <2> QED BY <2>1, <1>5
<1>9. pick(A) = Sorted(Winners(P)) /\ pick(B) = Sorted(P \ Winners(P))
  BY <1>1, <1>7, <1>8, SortedOnly
<1> QED BY <1>1, <1>3, <1>9 DEF P

-----------------------------------------------------------------------------
(* The merge                                                                 *)

\* The head of a sorted queue is its least, and the rest is sorted.
LEMMA RisingTail ==
  ASSUME NEW E, NEW s \in Seq(E), Keys(E), Rising(s), s # <<>>
  PROVE  /\ Head(s) \in E /\ Head(s) \in ToSet(s)
         /\ Tail(s) \in Seq(E) /\ Len(Tail(s)) = Len(s) - 1
         /\ ToSet(Tail(s)) = ToSet(s) \ {Head(s)} /\ Rising(Tail(s))
         /\ \A x \in ToSet(s) : x = Head(s) \/ KeyLess(Head(s), x)
<1>1. /\ DOMAIN s = 1..Len(s) /\ Len(s) \in Nat \ {0} /\ Head(s) = s[1]
      /\ \A i \in DOMAIN s : s[i] \in E
  OBVIOUS
<1>2. /\ Tail(s) \in Seq(E) /\ Len(Tail(s)) = Len(s) - 1
      /\ DOMAIN Tail(s) = 1..Len(s) - 1
      /\ \A i \in DOMAIN Tail(s) : Tail(s)[i] = s[i + 1]
  BY <1>1
<1>3. Rising(Tail(s))
  <2> SUFFICES ASSUME NEW i \in DOMAIN Tail(s), NEW j \in DOMAIN Tail(s), i < j
               PROVE  KeyLess(s[i + 1], s[j + 1])
    BY <1>2 DEF Rising
  <2>1. i + 1 \in DOMAIN s /\ j + 1 \in DOMAIN s /\ i + 1 < j + 1
    BY <1>1, <1>2
  <2> QED BY <2>1 DEF Rising
<1>4. ASSUME NEW i \in DOMAIN s, i # 1
      PROVE  KeyLess(s[1], s[i]) /\ s[i] # s[1] /\ s[i] \in ToSet(Tail(s))
  <2>1. 1 \in DOMAIN s /\ 1 < i
    BY <1>1, <1>4
  <2>2. KeyLess(s[1], s[i])
    BY <2>1 DEF Rising
  <2>3. s[i] # s[1]
    BY <2>1, <2>2, <1>1 DEF KeyLess, Keys
  <2>4. i - 1 \in DOMAIN Tail(s) /\ Tail(s)[i - 1] = s[i]
    BY <1>1, <1>2, <1>4
  <2> QED BY <2>2, <2>3, <2>4 DEF ToSet
<1>5. ToSet(Tail(s)) = ToSet(s) \ {s[1]}
  <2>1. ASSUME NEW i \in DOMAIN Tail(s)
        PROVE  Tail(s)[i] \in ToSet(s) \ {s[1]}
    <3>1. i + 1 \in DOMAIN s /\ i + 1 # 1
      BY <1>1, <1>2
    <3> QED BY <3>1, <1>2, <1>4 DEF ToSet
  <2>2. ASSUME NEW x \in ToSet(s), x # s[1]
        PROVE  x \in ToSet(Tail(s))
    BY <2>2, <1>4 DEF ToSet
  <2> QED BY <2>1, <2>2 DEF ToSet
<1>6. \A x \in ToSet(s) : x = s[1] \/ KeyLess(s[1], x)
  BY <1>4 DEF ToSet
<1>7. s[1] \in ToSet(s) /\ s[1] \in E
  BY <1>1 DEF ToSet
<1> QED BY <1>1, <1>2, <1>3, <1>5, <1>6, <1>7

\* A sorted sequence takes one greater element at its end.
LEMMA RisingAppend ==
  ASSUME NEW E, NEW s \in Seq(E), Keys(E), Rising(s), NEW e \in E,
         \A x \in ToSet(s) : KeyLess(x, e)
  PROVE  /\ s \o <<e>> \in Seq(E) /\ Rising(s \o <<e>>)
         /\ ToSet(s \o <<e>>) = ToSet(s) \cup {e}
<1> DEFINE r == s \o <<e>>
           n == Len(s)
<1>1. /\ n \in Nat /\ DOMAIN s = 1..n /\ r \in Seq(E) /\ DOMAIN r = 1..n + 1
      /\ \A i \in 1..n : r[i] = s[i]
      /\ r[n + 1] = e
  OBVIOUS
<1> HIDE DEF r, n
<1>2. Rising(r)
  <2> SUFFICES ASSUME NEW i \in 1..n + 1, NEW j \in 1..n + 1, i < j
               PROVE  KeyLess(r[i], r[j])
    BY <1>1 DEF Rising
  <2>1. i \in DOMAIN s /\ r[i] = s[i] /\ s[i] \in ToSet(s)
    BY <1>1 DEF ToSet
  <2>2. CASE j = n + 1
    BY <2>1, <2>2, <1>1
  <2>3. CASE j # n + 1
    <3>1. j \in DOMAIN s /\ r[j] = s[j]
      BY <2>3, <1>1
    <3> QED BY <2>1, <3>1 DEF Rising
  <2> QED BY <2>2, <2>3
<1>3. ToSet(r) = ToSet(s) \cup {e}
  <2>1. ASSUME NEW i \in 1..n + 1
        PROVE  r[i] \in ToSet(s) \cup {e}
    <3>1. i = n + 1 \/ i \in 1..n
      BY <1>1
    <3> QED BY <3>1, <1>1 DEF ToSet
  <2>2. n + 1 \in DOMAIN r /\ \A i \in DOMAIN s : i \in DOMAIN r
    BY <1>1
  <2>3. ToSet(s) \cup {e} \subseteq ToSet(r)
    BY <2>2, <1>1 DEF ToSet
  <2>4. ToSet(r) \subseteq ToSet(s) \cup {e}
    BY <2>1, <1>1 DEF ToSet
  <2> QED BY <2>3, <2>4
<1> QED BY <1>1, <1>2, <1>3 DEF r, n

\* Three rising queues without a common key.
Queued(E, q) ==
  /\ q \in [1..3 -> Seq(E)]
  /\ \A s \in 1..3 : Rising(q[s])
  /\ \A s, r \in 1..3 : s # r =>
       \A x \in ToSet(q[s]), y \in ToSet(q[r]) : ~SameKey(x, y)

\* What is queued, the queues that have something, and the one with the least head.
Rest(q) == UNION {ToSet(q[s]) : s \in 1..3}

Ready(q) == {s \in 1..3 : q[s] # <<>>}

Source(q) == CHOOSE s \in Ready(q) : \A r \in Ready(q) \ {s} : Before(q, s, r)

\* merge_candidate_less finds a head below everything that is queued.
LEMMA LeastHead ==
  ASSUME NEW E, Keys(E), NEW q, Queued(E, q), Ready(q) # {}
  PROVE  /\ Source(q) \in Ready(q)
         /\ Head(q[Source(q)]) \in Rest(q) /\ Head(q[Source(q)]) \in E
         /\ \A x \in Rest(q) : x = Head(q[Source(q)]) \/ KeyLess(Head(q[Source(q)]), x)
<1>1. \A s \in Ready(q) : /\ s \in 1..3 /\ q[s] \in Seq(E) /\ q[s] # <<>>
                          /\ Head(q[s]) \in E /\ Head(q[s]) \in ToSet(q[s])
                          /\ \A x \in ToSet(q[s]) : x = Head(q[s]) \/ KeyLess(Head(q[s]), x)
  BY RisingTail DEF Ready, Queued
<1>2. ASSUME NEW s \in Ready(q), NEW r \in Ready(q), s # r
      PROVE  /\ Before(q, s, r) <=> KeyLess(Head(q[s]), Head(q[r]))
             /\ Before(q, s, r) \/ Before(q, r, s)
  <2>1. ~SameKey(Head(q[s]), Head(q[r]))
    BY <1>1, <1>2 DEF Queued
  <2>2. /\ Head(q[s]).name \in Int /\ Head(q[r]).name \in Int
        /\ Head(q[s]).branch \in Int /\ Head(q[r]).branch \in Int
    BY <1>1 DEF Keys
  <2> QED BY <2>1, <2>2 DEF Before, KeyLess, SameKey
<1>3. ASSUME NEW s \in Ready(q), NEW r \in Ready(q), NEW z \in Ready(q),
             s # r, r # z, s # z, Before(q, s, r), Before(q, r, z)
      PROVE  Before(q, s, z)
  <2>1. KeyLess(Head(q[s]), Head(q[r])) /\ KeyLess(Head(q[r]), Head(q[z]))
    BY <1>2, <1>3
  <2>2. KeyLess(Head(q[s]), Head(q[z]))
    BY <2>1, <1>1 DEF KeyLess, Keys
  <2> QED BY <2>2, <1>2, <1>3
<1>4. \E s \in Ready(q) : \A r \in Ready(q) \ {s} : Before(q, s, r)
  <2>1. PICK a \in Ready(q) : TRUE
    OBVIOUS
  <2>2. \A s \in Ready(q) : s = 1 \/ s = 2 \/ s = 3
    BY DEF Ready
  <2> QED BY <2>1, <2>2, <1>2, <1>3
<1>5. Source(q) \in Ready(q) /\ \A r \in Ready(q) \ {Source(q)} : Before(q, Source(q), r)
  BY <1>4 DEF Source
<1>6. ASSUME NEW x \in Rest(q)
      PROVE  x = Head(q[Source(q)]) \/ KeyLess(Head(q[Source(q)]), x)
  <2>1. PICK r \in 1..3 : x \in ToSet(q[r])
    BY DEF Rest
  <2>2. r \in Ready(q)
    BY <2>1 DEF Ready, ToSet
  <2>3. x = Head(q[r]) \/ KeyLess(Head(q[r]), x)
    BY <2>1, <2>2, <1>1
  <2>4. r = Source(q) \/ KeyLess(Head(q[Source(q)]), Head(q[r]))
    BY <2>2, <1>2, <1>5
  <2>5. x \in E /\ Head(q[r]) \in E /\ Head(q[Source(q)]) \in E
    <3>1. q[r] \in Seq(E)
      BY DEF Queued
    <3>2. \A i \in DOMAIN q[r] : q[r][i] \in E
      BY <3>1
    <3> QED BY <3>2, <2>1, <2>2, <1>1, <1>5 DEF ToSet
  <2> QED BY <2>3, <2>4, <2>5 DEF KeyLess, Keys
<1>7. Head(q[Source(q)]) \in Rest(q)
  BY <1>1, <1>5 DEF Rest
<1> QED BY <1>1, <1>5, <1>6, <1>7

\* The queues once the least head is taken.
LEMMA HeadTaken ==
  ASSUME NEW E, Keys(E), NEW q, Queued(E, q), Ready(q) # {}
  PROVE  LET r == [q EXCEPT ![Source(q)] = Tail(@)]
         IN Queued(E, r) /\ Rest(r) = Rest(q) \ {Head(q[Source(q)])}
            /\ Inputs(r) = Inputs(q) - 1
<1> DEFINE z == Source(q)
           e == Head(q[z])
           r == [q EXCEPT ![z] = Tail(@)]
<1>1. z \in 1..3 /\ q[z] # <<>> /\ q[z] \in Seq(E) /\ Rising(q[z]) /\ e \in E
  BY LeastHead DEF Ready, Queued
<1> HIDE DEF z
<1>2. /\ Tail(q[z]) \in Seq(E) /\ Len(Tail(q[z])) = Len(q[z]) - 1
      /\ ToSet(Tail(q[z])) = ToSet(q[z]) \ {e} /\ Rising(Tail(q[z])) /\ e \in ToSet(q[z])
  BY <1>1, RisingTail
<1>3. /\ r \in [1..3 -> Seq(E)] /\ r[z] = Tail(q[z])
      /\ \A s \in 1..3 : s # z => r[s] = q[s]
  BY <1>1, <1>2 DEF Queued
<1> HIDE DEF r, e
<1>4. \A s \in 1..3 : ToSet(r[s]) \subseteq ToSet(q[s]) /\ Rising(r[s])
  BY <1>2, <1>3 DEF Queued
<1>5. Queued(E, r)
  BY <1>3, <1>4 DEF Queued
<1>6. \A s \in 1..3 : s # z => e \notin ToSet(q[s])
  BY <1>1, <1>2 DEF Queued, SameKey
<1>7. \A s \in 1..3 : ToSet(r[s]) = ToSet(q[s]) \ {e}
  BY <1>2, <1>3, <1>6
<1>8. Rest(r) = Rest(q) \ {e}
  BY <1>7 DEF Rest
<1>9. Inputs(r) = Inputs(q) - 1
  <2>1. \A s \in 1..3 : Len(q[s]) \in Nat /\ Len(r[s]) = IF s = z THEN Len(q[s]) - 1 ELSE Len(q[s])
    <3> SUFFICES ASSUME NEW s \in 1..3
                 PROVE  /\ Len(q[s]) \in Nat
                        /\ Len(r[s]) = IF s = z THEN Len(q[s]) - 1 ELSE Len(q[s])
      OBVIOUS
    <3>1. q[s] \in Seq(E)
      BY DEF Queued
    <3>2. CASE s = z
      BY <3>1, <3>2, <1>2, <1>3
    <3>3. CASE s # z
      BY <3>1, <3>3, <1>3
    <3> QED BY <3>2, <3>3
  <2>2. z = 1 \/ z = 2 \/ z = 3
    BY <1>1
  <2>3. /\ Len(q[1]) \in Nat /\ Len(q[2]) \in Nat /\ Len(q[3]) \in Nat
        /\ Len(r[1]) = IF 1 = z THEN Len(q[1]) - 1 ELSE Len(q[1])
        /\ Len(r[2]) = IF 2 = z THEN Len(q[2]) - 1 ELSE Len(q[2])
        /\ Len(r[3]) = IF 3 = z THEN Len(q[3]) - 1 ELSE Len(q[3])
    BY <2>1
  <2>4. CASE z = 1
    BY <2>3, <2>4 DEF Inputs
  <2>5. CASE z = 2
    BY <2>3, <2>5 DEF Inputs
  <2>6. CASE z = 3
    BY <2>3, <2>6 DEF Inputs
  <2> QED BY <2>2, <2>4, <2>5, <2>6
<1> QED BY <1>5, <1>8, <1>9 DEF r, e, z

\* A package after all others of the order replaces the winner of its name only.
LEMMA WinnersGrow ==
  ASSUME NEW D, NEW e, Keys(D \cup {e}), \A x \in D : KeyLess(x, e)
  PROVE  Winners(D \cup {e}) = {x \in Winners(D) : x.name # e.name} \cup {e}
BY DEF Winners, KeyLess, Keys

\* Where the merge stands: what it has taken is M without what is queued, all of it
\* lies before the rest, and is split into the winners, the last of which waits in
\* m.winner, and the shadows.
MergeInv(E, M, m) ==
  LET D == M \ Rest(m.queues)
  IN /\ m = [queues |-> m.queues, winner |-> m.winner,
             shadows |-> m.shadows, packages |-> m.packages]
     /\ Queued(E, m.queues) /\ Rest(m.queues) \subseteq M
     /\ \A x \in D, y \in Rest(m.queues) : KeyLess(x, y)
     /\ \/ m.winner = <<>> /\ D = {}
        \/ \E w \in D : m.winner = <<w>> /\ \A x \in D : x = w \/ KeyLess(x, w)
     /\ m.packages \in Seq(E) /\ Rising(m.packages)
     /\ ToSet(m.packages) = {x \in Winners(D) : m.winner # <<x>>}
     /\ m.shadows \in Seq(E) /\ Rising(m.shadows)
     /\ ToSet(m.shadows) = D \ Winners(D)

\* One step of merge_generation_inputs keeps the invariant and takes one input.
LEMMA MergeStepKeeps ==
  ASSUME NEW E, Keys(E), NEW M \in SUBSET E, NEW m, MergeInv(E, M, m),
         Inputs(m.queues) # 0
  PROVE  /\ MergeInv(E, M, MergeStep(m))
         /\ Inputs(MergeStep(m).queues) = Inputs(m.queues) - 1
<1> DEFINE q == m.queues
           z == Source(q)
           e == Head(q[z])
           D == M \ Rest(q)
           r == [q EXCEPT ![z] = Tail(@)]
           D2 == M \ Rest(r)
           replaced == m.winner # <<>> /\ Head(m.winner).name = e.name
           n == MergeStep(m)
<1>1. Queued(E, q) /\ Rest(q) \subseteq M /\ D \subseteq E
  BY DEF MergeInv
<1>2. Ready(q) # {}
  <2> SUFFICES ASSUME Ready(q) = {} PROVE FALSE
    OBVIOUS
  <2>1. q[1] = <<>> /\ q[2] = <<>> /\ q[3] = <<>>
    BY DEF Ready
  <2> QED BY <2>1 DEF Inputs
<1>3. /\ z \in Ready(q) /\ e \in Rest(q) /\ e \in E
      /\ \A x \in Rest(q) : x = e \/ KeyLess(e, x)
  BY <1>1, <1>2, LeastHead
<1>4. Queued(E, r) /\ Rest(r) = Rest(q) \ {e} /\ Inputs(r) = Inputs(q) - 1
  BY <1>1, <1>2, HeadTaken
<1>5. n = [queues |-> r, winner |-> <<e>>,
           shadows |-> IF replaced THEN m.shadows \o m.winner ELSE m.shadows,
           packages |-> IF replaced THEN m.packages ELSE m.packages \o m.winner]
  BY DEF MergeStep, Source, Ready, Queued, MergeInv
<1> HIDE DEF n, z, e
<1>6. D2 = D \cup {e} /\ e \notin D /\ \A x \in D : KeyLess(x, e)
  BY <1>1, <1>3, <1>4 DEF MergeInv
<1>7. \A x \in D2, y \in Rest(r) : KeyLess(x, y)
  BY <1>3, <1>4, <1>6 DEF MergeInv
<1>8. Keys(D \cup {e}) /\ Winners(D2) = {x \in Winners(D) : x.name # e.name} \cup {e}
  BY <1>1, <1>3, <1>6, WinnersGrow DEF Keys
<1>9. \A x \in D2 : x = e \/ KeyLess(x, e)
  BY <1>6
<1>10. ASSUME m.winner = <<>>, D = {}
       PROVE  MergeInv(E, M, n)
  <2>1. /\ n = [queues |-> r, winner |-> <<e>>, shadows |-> m.shadows,
               packages |-> m.packages \o <<>>]
    BY <1>5, <1>10
  <2>2. /\ m.packages \in Seq(E) /\ ToSet(m.packages) = {} /\ Rising(m.packages)
        /\ m.shadows \in Seq(E) /\ Rising(m.shadows) /\ ToSet(m.shadows) = {}
    BY <1>10 DEF MergeInv, Winners
  <2>3. m.packages \o <<>> = m.packages
    BY <2>2
  <2>4. D2 = {e} /\ Winners(D2) = {e}
    BY <1>6, <1>8, <1>10 DEF Winners
  <2>5. {x \in Winners(D2) : <<e>> # <<x>>} = {} /\ D2 \ Winners(D2) = {}
    BY <2>4
  <2> QED BY <1>4, <1>7, <1>9, <1>1, <2>1, <2>2, <2>3, <2>4, <2>5 DEF MergeInv
<1>11. ASSUME NEW w \in D, m.winner = <<w>>, \A x \in D : x = w \/ KeyLess(x, w)
       PROVE  MergeInv(E, M, n)
  <2>1. /\ m.packages \in Seq(E) /\ ToSet(m.packages) = Winners(D) \ {w} /\ Rising(m.packages)
        /\ m.shadows \in Seq(E) /\ Rising(m.shadows) /\ ToSet(m.shadows) = D \ Winners(D)
        /\ w \in E /\ KeyLess(w, e) /\ w # e
    BY <1>1, <1>6, <1>11 DEF MergeInv
  <2>2. w \in Winners(D)
    BY <1>8, <1>11 DEF Winners, KeyLess, Keys
  <2>3. \A x \in Winners(D) : x # w => x.name < w.name
    BY <1>8, <1>11 DEF Winners, KeyLess, Keys
  <2>4. \A x \in D : x # w => KeyLess(x, w)
    BY <1>11
  <2>5. CASE w.name = e.name
    <3>1. n = [queues |-> r, winner |-> <<e>>, shadows |-> m.shadows \o <<w>>,
              packages |-> m.packages]
      BY <1>5, <1>11, <2>5
    <3>2. \A x \in Winners(D) : x.name # e.name <=> x # w
      BY <2>3, <2>5, <1>8 DEF Keys, Winners
    <3>3. Winners(D2) = (Winners(D) \ {w}) \cup {e}
      BY <3>2, <1>8
    <3>4. ToSet(m.packages) = {x \in Winners(D2) : <<e>> # <<x>>}
      BY <3>3, <2>1, <1>6 DEF Winners
    <3>5. /\ m.shadows \o <<w>> \in Seq(E) /\ Rising(m.shadows \o <<w>>)
          /\ ToSet(m.shadows \o <<w>>) = (D \ Winners(D)) \cup {w}
      <4>1. \A x \in ToSet(m.shadows) : KeyLess(x, w)
        BY <2>1, <2>2, <2>4
      <4> DEFINE s == m.shadows
      <4>2. s \in Seq(E) /\ Rising(s) /\ w \in E /\ \A x \in ToSet(s) : KeyLess(x, w)
        BY <4>1, <2>1
      <4> HIDE DEF s
      <4>3. /\ s \o <<w>> \in Seq(E) /\ Rising(s \o <<w>>)
            /\ ToSet(s \o <<w>>) = ToSet(s) \cup {w}
        BY <4>2, RisingAppend
      <4> QED BY <4>3, <2>1 DEF s
    <3>6. (D \ Winners(D)) \cup {w} = D2 \ Winners(D2)
      BY <3>3, <1>6, <2>1, <2>2
    <3> QED BY <1>1, <1>4, <1>6, <1>7, <1>9, <2>1, <3>1, <3>4, <3>5, <3>6 DEF MergeInv
  <2>6. CASE w.name # e.name
    <3>1. n = [queues |-> r, winner |-> <<e>>, shadows |-> m.shadows,
              packages |-> m.packages \o <<w>>]
      BY <1>5, <1>11, <2>6
    <3>2. \A x \in Winners(D) : x.name # e.name
      <4>1. w.name < e.name
        BY <2>1, <2>6 DEF KeyLess
      <4> QED BY <4>1, <2>3, <1>8 DEF Keys, Winners
    <3>3. Winners(D2) = Winners(D) \cup {e}
      BY <3>2, <1>8
    <3>4. /\ m.packages \o <<w>> \in Seq(E) /\ Rising(m.packages \o <<w>>)
          /\ ToSet(m.packages \o <<w>>) = (Winners(D) \ {w}) \cup {w}
      <4>1. \A x \in ToSet(m.packages) : KeyLess(x, w)
        BY <2>1, <2>4 DEF Winners
      <4> DEFINE s == m.packages
      <4>2. s \in Seq(E) /\ Rising(s) /\ w \in E /\ \A x \in ToSet(s) : KeyLess(x, w)
        BY <4>1, <2>1
      <4> HIDE DEF s
      <4>3. /\ s \o <<w>> \in Seq(E) /\ Rising(s \o <<w>>)
            /\ ToSet(s \o <<w>>) = ToSet(s) \cup {w}
        BY <4>2, RisingAppend
      <4> QED BY <4>3, <2>1 DEF s
    <3>5. (Winners(D) \ {w}) \cup {w} = {x \in Winners(D2) : <<e>> # <<x>>}
      BY <3>3, <1>6, <2>2 DEF Winners
    <3>6. D \ Winners(D) = D2 \ Winners(D2)
      BY <3>3, <1>6
    <3> QED BY <1>1, <1>4, <1>6, <1>7, <1>9, <2>1, <3>1, <3>4, <3>5, <3>6 DEF MergeInv
  <2> QED BY <2>5, <2>6
<1>12. MergeInv(E, M, n)
  BY <1>10, <1>11 DEF MergeInv
<1>13. Inputs(n.queues) = Inputs(q) - 1
  BY <1>4, <1>5
<1> QED BY <1>12, <1>13 DEF n

\* Where the merge begins.
MergeStart(queues) ==
  [queues |-> queues, winner |-> <<>>, shadows |-> <<>>, packages |-> <<>>]

\* f is the first n + 1 states of the merge.
Merging(queues, n, f) ==
  f = [i \in 0..n |-> IF i = 0 THEN MergeStart(queues) ELSE MergeStep(f[i - 1])]

\* The recursive function of MergeStates exists.
LEMMA MergeStatesAre ==
  ASSUME NEW q, Inputs(q) \in Nat
  PROVE  Merging(q, Inputs(q), MergeStates(q))
<1> DEFINE N == Inputs(q)
           T == {n \in 0..N : \E f : Merging(q, n, f)}
<1>1. N \in Nat
  OBVIOUS
<1>2. MergeStates(q) = CHOOSE f : Merging(q, N, f)
  BY Zenon DEF MergeStates, Merging, MergeStart
<1> HIDE DEF N
<1>3. 0 \in T
  <2> DEFINE f == [i \in 0..0 |-> MergeStart(q)]
  <2>1. f = [i \in 0..0 |-> IF i = 0 THEN MergeStart(q) ELSE MergeStep(f[i - 1])]
    <3> HIDE DEF f
    <3>1. \A i \in 0..0 : i = 0
      OBVIOUS
    <3> QED BY <3>1, Zenon DEF f
  <2>2. Merging(q, 0, f)
    BY <2>1, Zenon DEF Merging
  <2> QED BY <2>2, <1>1
<1>4. ASSUME NEW n \in 0..N-1, n \in T
      PROVE  n + 1 \in T
  <2>1. PICK f : Merging(q, n, f)
    BY <1>4
  <2> DEFINE g == [i \in 0..n+1 |-> IF i = n + 1 THEN MergeStep(f[n]) ELSE f[i]]
             h == [i \in 0..n+1 |-> IF i = 0 THEN MergeStart(q) ELSE MergeStep(g[i - 1])]
  <2>2. \A i \in 0..n : f[i] = IF i = 0 THEN MergeStart(q) ELSE MergeStep(f[i - 1])
    BY <2>1, Zenon DEF Merging
  <2>3. ASSUME NEW i \in 0..n+1 PROVE g[i] = h[i]
    <3>1. n \in Nat
      BY <1>1
    <3>2. CASE i = 0
      BY <3>1, <3>2, <2>2
    <3>3. CASE i = n + 1
      <4>1. g[i - 1] = f[n] /\ i # 0
        BY <3>1, <3>3
      <4>2. h[i] = MergeStep(g[i - 1])
        BY <4>1
      <4> QED BY <3>3, <4>1, <4>2
    <3>4. CASE i # 0 /\ i # n + 1
      <4>1. i \in 0..n /\ i - 1 \in 0..n+1 /\ i - 1 # n + 1
        BY <3>1, <3>4
      <4>2. g[i - 1] = f[i - 1] /\ g[i] = f[i]
        BY <4>1, <3>4
      <4>3. h[i] = MergeStep(g[i - 1])
        BY <3>4
      <4> QED BY <4>1, <4>2, <4>3, <2>2, <3>4
    <3> QED BY <3>2, <3>3, <3>4
  <2>4. g = h
    <3> HIDE DEF g
    <3>1. g = [i \in 0..n+1 |-> g[i]]
      BY DEF g
    <3>2. \A i \in 0..n+1 : g[i] = h[i]
      BY <2>3
    <3> QED BY <3>1, <3>2
  <2>5. Merging(q, n + 1, g)
    BY <2>4, Zenon DEF Merging
  <2>6. n + 1 \in 0..N
    BY <1>1
  <2> QED BY <2>5, <2>6
<1>5. 0..N \subseteq T
  <2> HIDE DEF T
  <2> QED BY <1>1, <1>3, <1>4, UpTo
<1>6. \E f : Merging(q, N, f)
  BY <1>1, <1>5
<1> QED BY <1>2, <1>6, Zenon DEF N

\* The inputs are used up when all three queues are.
LEMMA InputsFacts ==
  ASSUME NEW q, Len(q[1]) \in Nat, Len(q[2]) \in Nat, Len(q[3]) \in Nat
  PROVE  /\ Inputs(q) \in Nat
         /\ Inputs(q) = 0 => Len(q[1]) = 0 /\ Len(q[2]) = 0 /\ Len(q[3]) = 0
<1> DEFINE a == Len(q[1])
           b == Len(q[2])
           c == Len(q[3])
<1>1. a \in Nat /\ b \in Nat /\ c \in Nat /\ Inputs(q) = a + b + c
  BY DEF Inputs
<1> HIDE DEF a, b, c
<1>2. a + b + c \in Nat /\ (a + b + c = 0 => a = 0 /\ b = 0 /\ c = 0)
  BY <1>1
<1> QED BY <1>1, <1>2 DEF a, b, c

\* The merge of three rising queues without a common key: whatever is in them is in the
\* packages when it is the last of its name, and in the shadows when it is not.
LEMMA MergeExact ==
  ASSUME NEW E, Keys(E), NEW q, Queued(E, q), Rest(q) \subseteq E
  PROVE  /\ Merge(q) = [packages |-> Merge(q).packages, shadows |-> Merge(q).shadows]
         /\ Merge(q).packages \in Seq(E) /\ Rising(Merge(q).packages)
         /\ ToSet(Merge(q).packages) = Winners(Rest(q))
         /\ Merge(q).shadows \in Seq(E) /\ Rising(Merge(q).shadows)
         /\ ToSet(Merge(q).shadows) = Rest(q) \ Winners(Rest(q))
<1> DEFINE M == Rest(q)
           N == Inputs(q)
           ms == MergeStates(q)
           T == {i \in 0..N : MergeInv(E, M, ms[i]) /\ Inputs(ms[i].queues) = N - i}
<1>1. N \in Nat
  <2>1. q[1] \in Seq(E) /\ q[2] \in Seq(E) /\ q[3] \in Seq(E)
    BY DEF Queued
  <2>2. Len(q[1]) \in Nat /\ Len(q[2]) \in Nat /\ Len(q[3]) \in Nat
    BY <2>1
  <2> QED BY <2>2, InputsFacts
<1>2. Merging(q, N, ms)
  BY <1>1, MergeStatesAre
<1> HIDE DEF ms
<1>3. \A i \in 0..N : ms[i] = IF i = 0 THEN MergeStart(q) ELSE MergeStep(ms[i - 1])
  BY <1>2, Zenon DEF Merging
<1>4. 0 \in T
  <2>1. 0 \in 0..N
    BY <1>1
  <2>2. ms[0] = MergeStart(q)
    BY <1>3, <2>1
  <2>3. MergeInv(E, M, MergeStart(q))
    <3>1. M \ Rest(q) = {} /\ Winners({}) = {}
      BY DEF Winners
    <3>2. <<>> \in Seq(E) /\ Rising(<<>>) /\ ToSet(<<>>) = {}
      BY DEF Rising, ToSet
    <3> QED BY <3>1, <3>2 DEF MergeInv, MergeStart
  <2>4. Inputs(MergeStart(q).queues) = N - 0
    BY <1>1 DEF MergeStart
  <2> QED BY <2>1, <2>2, <2>3, <2>4
<1>5. ASSUME NEW i \in 0..N-1, i \in T
      PROVE  i + 1 \in T
  <2>1. i \in 0..N /\ i + 1 \in 0..N /\ i + 1 # 0 /\ i + 1 - 1 = i /\ N - i # 0
        /\ N - i - 1 = N - (i + 1)
    BY <1>1
  <2>2. MergeInv(E, M, ms[i]) /\ Inputs(ms[i].queues) = N - i
    BY <1>5
  <2>3. ms[i + 1] = MergeStep(ms[i])
    BY <1>3, <2>1
  <2>4. M \in SUBSET E /\ Inputs(ms[i].queues) # 0
    BY <2>1, <2>2
  <2>5. /\ MergeInv(E, M, MergeStep(ms[i]))
        /\ Inputs(MergeStep(ms[i]).queues) = Inputs(ms[i].queues) - 1
    <3> HIDE DEF M
    <3> QED BY <2>2, <2>4, MergeStepKeeps
  <2> QED BY <2>1, <2>2, <2>3, <2>5
<1>6. 0..N \subseteq T
  <2> HIDE DEF T, N
  <2> QED BY <1>1, <1>4, <1>5, UpTo
<1> DEFINE m == ms[N]
<1>7. MergeInv(E, M, m) /\ Inputs(m.queues) = 0
  <2>1. N \in T
    BY <1>1, <1>6
  <2> HIDE DEF ms
  <2> QED BY <2>1, <1>1
<1>8. Merge(q) = [packages |-> m.packages \o m.winner, shadows |-> m.shadows]
  BY DEF Merge, ms
<1> HIDE DEF m
<1>9. Rest(m.queues) = {}
  <2>1. m.queues \in [1..3 -> Seq(E)]
    BY <1>7 DEF MergeInv, Queued
  <2>2. \A s \in 1..3 : Len(m.queues[s]) \in Nat /\ m.queues[s] \in Seq(E)
    BY <2>1
  <2>3. Len(m.queues[1]) = 0 /\ Len(m.queues[2]) = 0 /\ Len(m.queues[3]) = 0
    <3>1. /\ Len(m.queues[1]) \in Nat /\ Len(m.queues[2]) \in Nat
          /\ Len(m.queues[3]) \in Nat
      BY <2>2
    <3> QED BY <3>1, <1>7, InputsFacts
  <2>4. \A s \in 1..3 : Len(m.queues[s]) = 0
    BY <2>3
  <2>5. \A s \in 1..3 : ToSet(m.queues[s]) = {}
    BY <2>2, <2>4 DEF ToSet
  <2> QED BY <2>5 DEF Rest
<1>10. /\ m.packages \in Seq(E) /\ Rising(m.packages)
       /\ ToSet(m.packages) = {x \in Winners(M) : m.winner # <<x>>}
       /\ m.shadows \in Seq(E) /\ Rising(m.shadows) /\ ToSet(m.shadows) = M \ Winners(M)
       /\ \/ m.winner = <<>> /\ M = {}
          \/ \E w \in M : m.winner = <<w>> /\ \A x \in M : x = w \/ KeyLess(x, w)
  <2>1. M \ Rest(m.queues) = M
    BY <1>9
  <2> HIDE DEF M
  <2> QED BY <2>1, <1>7 DEF MergeInv
<1>11. /\ m.packages \o m.winner \in Seq(E) /\ Rising(m.packages \o m.winner)
       /\ ToSet(m.packages \o m.winner) = Winners(M)
  <2>1. CASE m.winner = <<>> /\ M = {}
    <3>1. m.packages \o m.winner = m.packages
      BY <2>1, <1>10
    <3> QED BY <3>1, <2>1, <1>10 DEF Winners
  <2>2. ASSUME NEW w \in M, m.winner = <<w>>, \A x \in M : x = w \/ KeyLess(x, w)
        PROVE  /\ m.packages \o m.winner \in Seq(E) /\ Rising(m.packages \o m.winner)
               /\ ToSet(m.packages \o m.winner) = Winners(M)
    <3> DEFINE s == m.packages
    <3>1. s \in Seq(E) /\ Rising(s) /\ w \in E /\ ToSet(s) = Winners(M) \ {w}
      BY <1>10, <2>2
    <3>2. \A x \in ToSet(s) : KeyLess(x, w)
      BY <3>1, <2>2 DEF Winners
    <3>3. w \in Winners(M)
      BY <2>2 DEF Winners, KeyLess, Keys
    <3> HIDE DEF s
    <3>4. /\ s \o <<w>> \in Seq(E) /\ Rising(s \o <<w>>)
          /\ ToSet(s \o <<w>>) = ToSet(s) \cup {w}
      BY <3>1, <3>2, RisingAppend
    <3>5. s \o m.winner = s \o <<w>>
      BY <2>2
    <3>6. (Winners(M) \ {w}) \cup {w} = Winners(M)
      BY <3>3
    <3> QED BY <3>1, <3>4, <3>5, <3>6 DEF s
  <2> QED BY <2>1, <2>2, <1>10
<1> QED BY <1>8, <1>10, <1>11

-----------------------------------------------------------------------------
(* What an update carries over *)

\* old_to_new maps the branches that stay at their commit, in their order, and no other.
LEMMA OldToNewFacts ==
  ASSUME NEW ob \in Seq(BranchRec), NEW nb \in Seq(BranchRec), Ranked(ob), Ranked(nb)
  PROVE  LET o == OldToNew(ob, nb)
         IN /\ DOMAIN o = DOMAIN ob
            /\ \A i \in DOMAIN ob :
                 \/ o[i] = None /\ ob[i] \notin ToSet(nb)
                 \/ o[i] # None /\ o[i] \in DOMAIN nb /\ nb[o[i]] = ob[i]
            /\ \A i, j \in DOMAIN ob : o[i] # None /\ o[j] # None => (i < j <=> o[i] < o[j])
<1> DEFINE o == OldToNew(ob, nb)
<1>1. DOMAIN o = DOMAIN ob
  BY DEF OldToNew
<1>2. /\ DOMAIN ob = 1..Len(ob) /\ DOMAIN nb = 1..Len(nb) /\ Len(ob) \in Nat /\ Len(nb) \in Nat
  OBVIOUS
<1>3. ASSUME NEW i \in DOMAIN ob
      PROVE  \/ o[i] = None /\ ob[i] \notin ToSet(nb)
             \/ o[i] # None /\ o[i] \in DOMAIN nb /\ nb[o[i]] = ob[i]
  <2> DEFINE same == {j \in DOMAIN nb : nb[j] = ob[i]}
  <2>1. o[i] = IF same = {} THEN None ELSE CHOOSE j \in same : TRUE
    BY DEF OldToNew
  <2>2. same = {} => ob[i] \notin ToSet(nb)
    BY DEF ToSet
  <2>3. same # {} => o[i] \in same
    BY <2>1
  <2> HIDE DEF o
  <2>4. \A j \in same : j # None
    BY <1>2 DEF None
  <2> QED BY <2>1, <2>2, <2>3, <2>4
<1> HIDE DEF o
<1>4. ASSUME NEW i \in DOMAIN ob, NEW j \in DOMAIN ob, o[i] # None, o[j] # None
      PROVE  i < j <=> o[i] < o[j]
  <2>1. /\ o[i] \in DOMAIN nb /\ nb[o[i]] = ob[i]
        /\ o[j] \in DOMAIN nb /\ nb[o[j]] = ob[j]
    BY <1>3, <1>4
  <2>2. o[i] < o[j] <=> nb[o[i]].name < nb[o[j]].name
    BY <2>1 DEF Ranked
  <2>3. i < j <=> ob[i].name < ob[j].name
    BY DEF Ranked
  <2> QED BY <2>1, <2>2, <2>3
<1> QED BY <1>1, <1>3, <1>4 DEF o

\* A package carried over, and the places of a list that are.
Moved(p, o, loc) ==
  [name |-> p.name, branch |-> o[p.branch], text |-> p.text, location |-> loc]

Kept(s, o) == {i \in DOMAIN s : o[s[i].branch] # None}

\* A list with the branches mapped in their order is still sorted.
LEMMA CarriedFacts ==
  ASSUME NEW F, NEW s \in Seq(F), Keys(F), Rising(s), NEW locs, NEW o, NEW E, Keys(E),
         \A i \in Kept(s, o) : Moved(s[i], o, locs[i]) \in E,
         \A i, j \in Kept(s, o) : s[i].branch < s[j].branch => o[s[i].branch] < o[s[j].branch]
  PROVE  /\ Carried(s, locs, o) \in Seq(E) /\ Rising(Carried(s, locs, o))
         /\ ToSet(Carried(s, locs, o)) = {Moved(s[i], o, locs[i]) : i \in Kept(s, o)}
<1> DEFINE I == Kept(s, o)
           a == Ascending(I)
           c == [k \in DOMAIN a |-> Moved(s[a[k]], o, locs[a[k]])]
<1>1. Carried(s, locs, o) = c
  BY DEF Carried, Moved, Kept
<1>2. /\ IsFiniteSet(I) /\ DOMAIN a = 1..Cardinality(I) /\ ToSet(a) = I
      /\ \A k \in DOMAIN a : a[k] \in I
      /\ \A i, j \in DOMAIN a : i < j => a[i] < a[j]
  <2>1. I \in SUBSET DOMAIN s
    BY DEF Kept
  <2> HIDE DEF I
  <2> QED BY <2>1, Picked
<1>3. Cardinality(I) \in Nat
  BY <1>2, FS_CardinalityType
<1> HIDE DEF a
<1>4. \A k \in DOMAIN a : c[k] \in E
  BY <1>2
<1>5. c \in Seq(E) /\ DOMAIN c = DOMAIN a
  BY <1>2, <1>3, <1>4
<1>6. Rising(c)
  <2> SUFFICES ASSUME NEW i \in DOMAIN a, NEW j \in DOMAIN a, i < j
               PROVE  KeyLess(c[i], c[j])
    BY DEF Rising
  <2> DEFINE p == s[a[i]]
             q == s[a[j]]
  <2>1. a[i] \in I /\ a[j] \in I /\ a[i] < a[j]
    BY <1>2
  <2>2. a[i] \in DOMAIN s /\ a[j] \in DOMAIN s
    BY <2>1 DEF Kept
  <2>3. KeyLess(p, q)
    BY <2>1, <2>2 DEF Rising
  <2>4. c[i] = Moved(p, o, locs[a[i]]) /\ c[j] = Moved(q, o, locs[a[j]])
    OBVIOUS
  <2>5. p.branch < q.branch => o[p.branch] < o[q.branch]
    BY <2>1
  <2> HIDE DEF p, q, c
  <2> QED BY <2>3, <2>4, <2>5 DEF KeyLess, Moved
<1>7. ToSet(c) = {Moved(s[i], o, locs[i]) : i \in I}
  <2>1. \A k \in DOMAIN a : \E i \in I : c[k] = Moved(s[i], o, locs[i])
    BY <1>2
  <2>2. \A i \in I : \E k \in DOMAIN a : a[k] = i
    BY <1>2 DEF ToSet
  <2>3. \A i \in I : \E k \in DOMAIN a : c[k] = Moved(s[i], o, locs[i])
    BY <2>2
  <2> HIDE DEF c, I
  <2> QED BY <2>1, <2>3, <1>5 DEF ToSet
<1> QED BY <1>1, <1>5, <1>6, <1>7

\* A location leads to the name and the text of p, and to the branch r.
Found(b, loc, p) ==
  \/ /\ loc.source = "base_active" /\ loc.index \in DOMAIN b.active
     /\ b.active[loc.index].name = p.name /\ b.active[loc.index].text = p.text
  \/ /\ loc.source = "base_shadow" /\ loc.index \in DOMAIN b.shadow
     /\ b.shadow[loc.index].name = p.name /\ b.shadow[loc.index].text = p.text
  \/ loc.source = "inline_record"

\* A location leads to the branch r.
BranchFound(b, loc, r) ==
  \/ /\ loc.source = "base_branch" /\ loc.index \in DOMAIN b.branches
     /\ b.branches[loc.index] = r
  \/ loc.source = "inline_record"

\* The locations there are.
Sources == {"base_branch", "base_active", "base_shadow", "inline_record"}

Locs == [source : Sources, index : Int]

\* A package that is stored inline has its branch stored inline.
Placed(g, b, loc, p) ==
  /\ loc \in Locs /\ Found(b, loc, p)
  /\ loc.source = "inline_record" => BranchLocation(g, p.branch).source # "base_branch"

\* A reader of g finds what a full build of t holds.
Reads(g, b, t) ==
  /\ Shown(g, b) = [branches |-> FullBuild(t).branches, active |-> FullBuild(t).active,
                    shadow |-> FullBuild(t).shadow]
  /\ \A i \in DOMAIN FullBuild(t).branches :
       BranchLocation(g, i) \in Locs /\ BranchFound(b, BranchLocation(g, i), FullBuild(t).branches[i])
  /\ \A i \in DOMAIN FullBuild(t).active :
       Placed(g, b, ActiveLocation(g, i), FullBuild(t).active[i])
  /\ \A i \in DOMAIN FullBuild(t).shadow :
       Placed(g, b, ShadowLocation(g, i), FullBuild(t).shadow[i])

\* What a full build holds.
LEMMA FullBuildFacts ==
  ASSUME NEW t \in Trees
  PROVE  LET full == FullBuild(t)
         IN /\ full.kind = "snapshot"
            /\ full = [kind |-> "snapshot", branches |-> BranchList(t),
                       active |-> full.active, shadow |-> full.shadow]
            /\ full.branches = BranchList(t)
            /\ full.branches \in Seq(BranchRec) /\ Ranked(full.branches)
            /\ full.active \in Seq(All(t)) /\ Rising(full.active)
            /\ ToSet(full.active) = Winners(All(t)) /\ full.active = Sorted(Winners(All(t)))
            /\ full.shadow \in Seq(All(t)) /\ Rising(full.shadow)
            /\ ToSet(full.shadow) = All(t) \ Winners(All(t))
            /\ full.shadow = Sorted(All(t) \ Winners(All(t)))
            /\ Keyed(All(t))
            /\ \A p \in All(t) : /\ p.branch \in DOMAIN BranchList(t)
                                 /\ \E n \in Provided(BranchList(t), p.branch) :
                                      p = Package(BranchList(t), p.branch, n)
<1> DEFINE full == FullBuild(t)
           W == Winners(All(t))
           L == All(t) \ W
<1>1. /\ IsFiniteSet(All(t)) /\ Keyed(All(t))
      /\ full = Snapshot(BranchList(t), Sorted(W), Sorted(L))
  BY FullBuildIs
<1>2. W \in SUBSET All(t) /\ L \in SUBSET All(t)
  BY DEF Winners
<1> HIDE DEF full, W, L
<1>3. IsFiniteSet(W) /\ Keyed(W) /\ IsFiniteSet(L) /\ Keyed(L)
  BY <1>1, <1>2, SubsetKeyed
<1>4. Sorted(W) \in Seq(W) /\ ToSet(Sorted(W)) = W /\ Rising(Sorted(W))
  BY <1>3, SortedFacts
<1>5. Sorted(L) \in Seq(L) /\ ToSet(Sorted(L)) = L /\ Rising(Sorted(L))
  BY <1>3, SortedFacts
<1>6. Sorted(W) \in Seq(All(t)) /\ Sorted(L) \in Seq(All(t))
  <2>1. \A i \in DOMAIN Sorted(W) : Sorted(W)[i] \in All(t)
    BY <1>2, <1>4
  <2>2. \A i \in DOMAIN Sorted(L) : Sorted(L)[i] \in All(t)
    BY <1>2, <1>5
  <2> QED BY <2>1, <2>2, <1>4, <1>5
<1>7. /\ full.kind = "snapshot" /\ full.branches = BranchList(t) /\ full.active = Sorted(W) /\ full.shadow = Sorted(L)
      /\ full = [kind |-> "snapshot", branches |-> BranchList(t),
                 active |-> full.active, shadow |-> full.shadow]
  BY <1>1 DEF Snapshot
<1>8. BranchList(t) \in Seq(BranchRec) /\ Ranked(BranchList(t))
  BY BranchListFacts
<1>9. \A p \in All(t) : /\ p.branch \in DOMAIN BranchList(t)
                        /\ \E n \in Provided(BranchList(t), p.branch) :
                             p = Package(BranchList(t), p.branch, n)
  <2> DEFINE list == BranchList(t)
  <2>1. DOMAIN list \in SUBSET DOMAIN list /\ list \in Seq(BranchRec)
    BY <1>8
  <2> HIDE DEF list
  <2>2. \A p : p \in PackageSet(list, DOMAIN list) <=>
                 \E i \in DOMAIN list : \E n \in Provided(list, i) : p = Package(list, i, n)
    BY <2>1, PackageSets
  <2> QED BY <2>2 DEF All, list, Package
<1> QED BY <1>1, <1>4, <1>5, <1>6, <1>7, <1>8, <1>9 DEF full, W, L

\* What a package of a full build is made of.
LEMMA PackageFacts ==
  ASSUME NEW t \in Trees, NEW p \in All(t)
  PROVE  LET list == BranchList(t)
         IN /\ p.branch \in DOMAIN list /\ list[p.branch].name \in Int
            /\ p = [name |-> p.name, branch |-> p.branch, text |-> p.text]
            /\ p.text = <<list[p.branch].name, list[p.branch].oid>>
            /\ p.name \in Names
<1> DEFINE list == BranchList(t)
<1>1. list \in Seq(BranchRec)
  BY BranchListFacts
<1>2. p.branch \in DOMAIN list /\ \E n \in Provided(list, p.branch) : p = Package(list, p.branch, n)
  BY FullBuildFacts
<1> HIDE DEF list
<1>3. PICK n \in Provided(list, p.branch) : p = Package(list, p.branch, n)
  BY <1>2
<1>4. list[p.branch] \in BranchRec
  BY <1>1, <1>2
<1>5. list[p.branch].name \in Int
  BY <1>4, CatalogAssumption DEF BranchRec
<1>6. Provided(list, p.branch) \subseteq Names
  <2>1. DOMAIN list \in SUBSET DOMAIN list
    OBVIOUS
  <2> QED BY <1>1, <1>2, <2>1, PackageSets
<1> DEFINE i == p.branch
<1>7. p = [name |-> n, branch |-> i, text |-> <<list[i].name, list[i].oid>>]
  BY <1>3 DEF Package
<1> HIDE DEF i
<1>8. p.name = n /\ p.branch = i /\ p.text = <<list[i].name, list[i].oid>>
  BY <1>7
<1>9. p = [name |-> p.name, branch |-> p.branch, text |-> p.text]
  BY <1>7, <1>8
<1> QED BY <1>2, <1>5, <1>6, <1>8, <1>9 DEF i, list

\* A package with its branch at the new index.
Shift(p, o) == [name |-> p.name, branch |-> o[p.branch], text |-> p.text]

\* The packages of the branches carried over are those of the branches that stay.
LEMMA ShiftFacts ==
  ASSUME NEW told \in Trees, NEW t \in Trees
  PROVE  LET ob == BranchList(told)
             nb == BranchList(t)
             o == OldToNew(ob, nb)
             pending == {j \in DOMAIN nb : nb[j] \notin ToSet(ob)}
         IN /\ \A p \in All(told) : o[p.branch] # None =>
                 Shift(p, o) \in All(t) /\ o[p.branch] \in DOMAIN nb \ pending
            /\ \A x \in All(t) :
                 \/ x \in PackageSet(nb, pending)
                 \/ \E p \in All(told) : o[p.branch] # None /\ Shift(p, o) = x
            /\ PackageSet(nb, pending) \subseteq All(t)
            /\ \A x \in PackageSet(nb, pending) : x.branch \in pending
<1> DEFINE ob == BranchList(told)
           nb == BranchList(t)
           o == OldToNew(ob, nb)
           pending == {j \in DOMAIN nb : nb[j] \notin ToSet(ob)}
<1>1. /\ ob \in Seq(BranchRec) /\ Ranked(ob) /\ nb \in Seq(BranchRec) /\ Ranked(nb)
  BY BranchListFacts
<1>2. pending \in SUBSET DOMAIN nb /\ DOMAIN nb \in SUBSET DOMAIN nb
      /\ DOMAIN ob \in SUBSET DOMAIN ob
  OBVIOUS
<1> HIDE DEF ob, nb
<1>3. /\ \A i \in DOMAIN ob :
           \/ o[i] = None /\ ob[i] \notin ToSet(nb)
           \/ o[i] # None /\ o[i] \in DOMAIN nb /\ nb[o[i]] = ob[i]
      /\ \A i, j \in DOMAIN ob : o[i] # None /\ o[j] # None => (i < j <=> o[i] < o[j])
  BY <1>1, OldToNewFacts
<1> HIDE DEF o
<1>4. \A p : p \in PackageSet(nb, DOMAIN nb) <=>
               \E i \in DOMAIN nb : \E n \in Provided(nb, i) : p = Package(nb, i, n)
  BY <1>1, <1>2, PackageSets
<1>5. \A p : p \in PackageSet(ob, DOMAIN ob) <=>
               \E i \in DOMAIN ob : \E n \in Provided(ob, i) : p = Package(ob, i, n)
  BY <1>1, <1>2, PackageSets
<1>6. \A p : p \in PackageSet(nb, pending) <=>
               \E i \in pending : \E n \in Provided(nb, i) : p = Package(nb, i, n)
  <2> HIDE DEF pending
  <2> QED BY <1>1, <1>2, PackageSets
<1>7. All(t) = PackageSet(nb, DOMAIN nb) /\ All(told) = PackageSet(ob, DOMAIN ob)
  BY DEF All, nb, ob
<1>8. ASSUME NEW p \in All(told), o[p.branch] # None
      PROVE  Shift(p, o) \in All(t) /\ o[p.branch] \in DOMAIN nb \ pending
  <2>1. PICK i \in DOMAIN ob : \E n \in Provided(ob, i) : p = Package(ob, i, n)
    BY <1>5, <1>7
  <2>2. PICK n \in Provided(ob, i) : p = Package(ob, i, n)
    BY <2>1
  <2>3. p.branch = i /\ o[i] \in DOMAIN nb /\ nb[o[i]] = ob[i]
    BY <2>2, <1>3, <1>8 DEF Package
  <2>4. Provided(nb, o[i]) = Provided(ob, i)
    BY <2>3 DEF Provided
  <2>5. Shift(p, o) = Package(nb, o[i], n)
    BY <2>2, <2>3 DEF Shift, Package
  <2>6. o[i] \notin pending
    BY <2>3 DEF ToSet
  <2> HIDE DEF pending
  <2> QED BY <2>2, <2>3, <2>4, <2>5, <2>6, <1>4, <1>7
<1>9. ASSUME NEW x \in All(t), x \notin PackageSet(nb, pending)
      PROVE  \E p \in All(told) : o[p.branch] # None /\ Shift(p, o) = x
  <2>1. PICK j \in DOMAIN nb : \E n \in Provided(nb, j) : x = Package(nb, j, n)
    BY <1>4, <1>7
  <2>2. PICK n \in Provided(nb, j) : x = Package(nb, j, n)
    BY <2>1
  <2>3. j \notin pending
    BY <2>1, <1>6, <1>9
  <2>4. PICK i \in DOMAIN ob : ob[i] = nb[j]
    BY <2>3 DEF ToSet
  <2>5. o[i] # None /\ o[i] \in DOMAIN nb /\ nb[o[i]] = nb[j]
    BY <1>3, <2>4 DEF ToSet
  <2>6. o[i] = j
    <3>1. ~(nb[o[i]].name < nb[j].name) /\ ~(nb[j].name < nb[o[i]].name)
      <4>1. nb[j].name \in Int
        <5>1. nb[j] \in BranchRec
          BY <1>1
        <5> QED BY <5>1, CatalogAssumption DEF BranchRec
      <4> QED BY <4>1, <2>5
    <3>2. ~(o[i] < j) /\ ~(j < o[i])
      BY <3>1, <2>5, <1>1 DEF Ranked
    <3>3. o[i] \in Int /\ j \in Int
      BY <2>5, <1>1
    <3> QED BY <3>2, <3>3
  <2> DEFINE p == Package(ob, i, n)
  <2>7. Provided(ob, i) = Provided(nb, j)
    BY <2>4 DEF Provided
  <2>8. p \in All(told)
    BY <2>2, <2>7, <1>5, <1>7
  <2>9. p.branch = i /\ Shift(p, o) = x
    BY <2>2, <2>4, <2>6 DEF Package, Shift
  <2> QED BY <2>8, <2>9, <2>5
<1>10. PackageSet(nb, pending) \subseteq All(t)
  BY <1>4, <1>6, <1>7
<1>11. \A x \in PackageSet(nb, pending) : x.branch \in pending
  BY <1>6 DEF Package
<1> QED BY <1>8, <1>9, <1>10, <1>11 DEF o, ob, nb

\* What a merge is given: packages of t, each with a place it is found at.
Tagged(x, l) == [name |-> x.name, branch |-> x.branch, text |-> x.text, location |-> l]

Entries(b, t, locations) ==
  {e \in {Tagged(x, l) : x \in All(t), l \in Locs} :
     /\ Found(b, e.location, e)
     /\ e.location.source = "inline_record" => locations[e.branch].source # "base_branch"}

\* An input without the place it is found at.
Bare(e) == [name |-> e.name, branch |-> e.branch, text |-> e.text]

\* The inputs of a merge without their places are packages of the new refs.
LEMMA EntryFacts ==
  ASSUME NEW b, NEW t \in Trees, NEW locations
  PROVE  /\ Keys(Entries(b, t, locations))
         /\ \A e \in Entries(b, t, locations) : Bare(e) \in All(t)
         /\ \A x \in All(t), l \in Locs :
              /\ Bare(Tagged(x, l)) = x
              /\ Found(b, l, x) /\ (l.source = "inline_record" =>
                                      locations[x.branch].source # "base_branch")
                   => Tagged(x, l) \in Entries(b, t, locations)
<1>1. Keys(All(t)) /\ \A p \in All(t) : \E n : p = Package(BranchList(t), p.branch, n)
  BY FullBuildFacts DEF Keyed
<1>2. ASSUME NEW x \in All(t), NEW l \in Locs
      PROVE  /\ Bare(Tagged(x, l)) = x /\ Tagged(x, l).name = x.name
             /\ Tagged(x, l).branch = x.branch /\ Tagged(x, l).text = x.text
             /\ Tagged(x, l).location = l
  <2>1. \E n, i, u : x = [name |-> n, branch |-> i, text |-> u]
    BY <1>1 DEF Package
  <2> QED BY <2>1 DEF Bare, Tagged
<1>3. Keys(Entries(b, t, locations))
  BY <1>1, <1>2 DEF Entries, Keys
<1>4. \A e \in Entries(b, t, locations) : Bare(e) \in All(t)
  BY <1>2 DEF Entries
<1>5. ASSUME NEW x \in All(t), NEW l \in Locs, Found(b, l, x),
             l.source = "inline_record" => locations[x.branch].source # "base_branch"
      PROVE  Tagged(x, l) \in Entries(b, t, locations)
  <2>1. Found(b, Tagged(x, l).location, Tagged(x, l))
    BY <1>2, <1>5 DEF Found
  <2> QED BY <2>1, <1>2, <1>5 DEF Entries
<1> QED BY <1>2, <1>3, <1>4, <1>5

\* A branch that stays is found where the previous generation finds it; one that
\* moved is written inline.
LEMMA LocationFacts ==
  ASSUME NEW told \in Trees, NEW t \in Trees, NEW g, NEW b, Reads(g, b, told)
  PROVE  LET ob == BranchList(told)
             nb == BranchList(t)
             locations == BranchLocations(g, ob, nb)
         IN /\ DOMAIN locations = DOMAIN nb
            /\ \A j \in DOMAIN nb : locations[j] \in Locs /\ BranchFound(b, locations[j], nb[j])
            /\ \A i \in DOMAIN ob, j \in DOMAIN nb :
                 ob[i] = nb[j] => locations[j] = BranchLocation(g, i)
            /\ \A j \in DOMAIN nb :
                 nb[j] \notin ToSet(ob) => locations[j].source = "inline_record"
<1> DEFINE ob == BranchList(told)
           nb == BranchList(t)
           locations == BranchLocations(g, ob, nb)
<1>1. ob \in Seq(BranchRec) /\ Ranked(ob)
  BY BranchListFacts
<1>2. \A i \in DOMAIN ob :
        BranchLocation(g, i) \in Locs /\ BranchFound(b, BranchLocation(g, i), ob[i])
  <2>1. FullBuild(told).branches = ob
    BY FullBuildFacts
  <2> QED BY <2>1 DEF Reads
<1> HIDE DEF ob, nb
<1>3. DOMAIN locations = DOMAIN nb
  BY DEF BranchLocations
<1>4. ASSUME NEW i \in DOMAIN ob, NEW j \in DOMAIN ob, ob[i] = ob[j]
      PROVE  i = j
  <2>1. ~(ob[i].name < ob[i].name)
    <3>1. ob[i] \in BranchRec
      BY <1>1
    <3> QED BY <3>1, CatalogAssumption DEF BranchRec
  <2>2. ~(i < j) /\ ~(j < i)
    BY <1>1, <1>4, <2>1 DEF Ranked
  <2> QED BY <2>2, <1>1
<1>5. ASSUME NEW i \in DOMAIN ob, NEW j \in DOMAIN nb, ob[i] = nb[j]
      PROVE  locations[j] = BranchLocation(g, i)
  <2> DEFINE from == {k \in DOMAIN ob : ob[k] = nb[j]}
  <2>1. locations[j] = IF from = {} THEN Location("inline_record", None)
                       ELSE BranchLocation(g, CHOOSE k \in from : TRUE)
    BY DEF BranchLocations
  <2>2. from = {i}
    BY <1>4, <1>5
  <2>3. (CHOOSE k \in {i} : TRUE) = i
    OBVIOUS
  <2> QED BY <2>1, <2>2, <2>3
<1>6. ASSUME NEW j \in DOMAIN nb, nb[j] \notin ToSet(ob)
      PROVE  locations[j] = [source |-> "inline_record", index |-> 0]
  <2> DEFINE from == {k \in DOMAIN ob : ob[k] = nb[j]}
  <2>1. locations[j] = IF from = {} THEN Location("inline_record", None)
                       ELSE BranchLocation(g, CHOOSE k \in from : TRUE)
    BY DEF BranchLocations
  <2>2. from = {}
    BY <1>6 DEF ToSet
  <2> QED BY <2>1, <2>2 DEF Location, None
<1>7. ASSUME NEW j \in DOMAIN nb
      PROVE  locations[j] \in Locs /\ BranchFound(b, locations[j], nb[j])
  <2>1. CASE nb[j] \in ToSet(ob)
    <3>1. PICK i \in DOMAIN ob : ob[i] = nb[j]
      BY <2>1 DEF ToSet
    <3>2. locations[j] = BranchLocation(g, i)
      BY <3>1, <1>5
    <3> HIDE DEF locations
    <3> QED BY <3>1, <3>2, <1>2
  <2>2. CASE nb[j] \notin ToSet(ob)
    <3>1. locations[j] = [source |-> "inline_record", index |-> 0]
      BY <2>2, <1>6
    <3> HIDE DEF locations
    <3>2. locations[j].source = "inline_record"
      BY <3>1
    <3>3. [source |-> "inline_record", index |-> 0] \in Locs
      BY DEF Locs, Sources
    <3> QED BY <3>1, <3>2, <3>3 DEF BranchFound
  <2> QED BY <2>1, <2>2
<1>8. \A j \in DOMAIN nb : nb[j] \notin ToSet(ob) => locations[j].source = "inline_record"
  <2> HIDE DEF locations
  <2> QED BY <1>6
<1> QED BY <1>3, <1>5, <1>7, <1>8 DEF ob, nb

\* One of the two lists of the previous generation as an input of the merge.
LEMMA CarriedList ==
  ASSUME NEW told \in Trees, NEW t \in Trees, NEW g, NEW b, Reads(g, b, told),
         NEW s \in Seq(All(told)), Rising(s), NEW locs,
         \A i \in DOMAIN s : Placed(g, b, locs[i], s[i])
  PROVE  LET ob == BranchList(told)
             nb == BranchList(t)
             o == OldToNew(ob, nb)
             E == Entries(b, t, BranchLocations(g, ob, nb))
             c == Carried(s, locs, o)
         IN /\ c \in Seq(E) /\ Rising(c)
            /\ \A e \in ToSet(c) : \E p \in ToSet(s) : o[p.branch] # None /\ Bare(e) = Shift(p, o)
            /\ \A p \in ToSet(s) : o[p.branch] # None =>
                 \E e \in ToSet(c) : Bare(e) = Shift(p, o)
<1> DEFINE ob == BranchList(told)
           nb == BranchList(t)
           o == OldToNew(ob, nb)
           locations == BranchLocations(g, ob, nb)
           E == Entries(b, t, locations)
           c == Carried(s, locs, o)
<1>1. /\ ob \in Seq(BranchRec) /\ Ranked(ob) /\ nb \in Seq(BranchRec) /\ Ranked(nb)
  BY BranchListFacts
<1>2. /\ Keyed(All(told)) /\ \A p \in All(told) : p.branch \in DOMAIN ob
  BY FullBuildFacts
<1>3. \A p \in All(told) : o[p.branch] # None =>
        Shift(p, o) \in All(t) /\ o[p.branch] \in DOMAIN nb
  BY ShiftFacts
<1>4. \A i \in DOMAIN ob, j \in DOMAIN nb :
        ob[i] = nb[j] => locations[j] = BranchLocation(g, i)
  BY LocationFacts
<1> HIDE DEF ob, nb
<1>5. /\ \A i \in DOMAIN ob : o[i] # None => o[i] \in DOMAIN nb /\ nb[o[i]] = ob[i]
      /\ \A i, j \in DOMAIN ob : o[i] # None /\ o[j] # None => (i < j <=> o[i] < o[j])
  BY <1>1, OldToNewFacts
<1> HIDE DEF o, locations
<1>6. /\ Keys(E)
      /\ \A x \in All(t), l \in Locs :
           /\ Bare(Tagged(x, l)) = x
           /\ Found(b, l, x) /\ (l.source = "inline_record" =>
                                   locations[x.branch].source # "base_branch")
                => Tagged(x, l) \in E
  BY EntryFacts
<1> HIDE DEF E
<1>7. \A i \in DOMAIN s : s[i] \in All(told)
  OBVIOUS
<1>8. ASSUME NEW i \in Kept(s, o)
      PROVE  Moved(s[i], o, locs[i]) \in E /\ Bare(Moved(s[i], o, locs[i])) = Shift(s[i], o)
  <2> DEFINE p == s[i]
             l == locs[i]
  <2>1. i \in DOMAIN s /\ o[p.branch] # None /\ p \in All(told) /\ Placed(g, b, l, p)
    BY <1>7 DEF Kept
  <2>2. p.branch \in DOMAIN ob
    BY <2>1, <1>2
  <2>3. Shift(p, o) \in All(t) /\ locations[o[p.branch]] = BranchLocation(g, p.branch)
    BY <2>1, <2>2, <1>3, <1>4, <1>5
  <2> HIDE DEF p, l
  <2>4. l \in Locs /\ Found(b, l, p)
        /\ (l.source = "inline_record" => locations[o[p.branch]].source # "base_branch")
    BY <2>1, <2>3 DEF Placed
  <2>5. /\ Shift(p, o).name = p.name /\ Shift(p, o).branch = o[p.branch]
        /\ Shift(p, o).text = p.text
    BY DEF Shift
  <2>6. Found(b, l, Shift(p, o))
    BY <2>4, <2>5 DEF Found
  <2>7. Moved(p, o, l) = Tagged(Shift(p, o), l)
    BY <2>5 DEF Moved, Tagged
  <2>8. Tagged(Shift(p, o), l) \in E /\ Bare(Tagged(Shift(p, o), l)) = Shift(p, o)
    BY <2>3, <2>4, <2>5, <2>6, <1>6
  <2> QED BY <2>7, <2>8 DEF p, l
<1>9. \A i, j \in Kept(s, o) :
        s[i].branch < s[j].branch => o[s[i].branch] < o[s[j].branch]
  BY <1>2, <1>5, <1>7 DEF Kept
<1>10. Keys(All(told))
  BY <1>2 DEF Keyed
<1>11. /\ c \in Seq(E) /\ Rising(c)
       /\ ToSet(c) = {Moved(s[i], o, locs[i]) : i \in Kept(s, o)}
  BY <1>6, <1>8, <1>9, <1>10, CarriedFacts
<1> HIDE DEF c
<1>12. \A e \in ToSet(c) : \E p \in ToSet(s) : o[p.branch] # None /\ Bare(e) = Shift(p, o)
  <2> SUFFICES ASSUME NEW e \in ToSet(c)
               PROVE  \E p \in ToSet(s) : o[p.branch] # None /\ Bare(e) = Shift(p, o)
    OBVIOUS
  <2>1. PICK i \in Kept(s, o) : e = Moved(s[i], o, locs[i])
    BY <1>11
  <2>2. s[i] \in ToSet(s) /\ o[s[i].branch] # None
    BY DEF Kept, ToSet
  <2> QED BY <2>1, <2>2, <1>8
<1>13. \A p \in ToSet(s) : o[p.branch] # None => \E e \in ToSet(c) : Bare(e) = Shift(p, o)
  <2> SUFFICES ASSUME NEW p \in ToSet(s), o[p.branch] # None
               PROVE  \E e \in ToSet(c) : Bare(e) = Shift(p, o)
    OBVIOUS
  <2>1. PICK i \in DOMAIN s : s[i] = p
    BY DEF ToSet
  <2>2. i \in Kept(s, o)
    BY <2>1 DEF Kept
  <2>3. Moved(s[i], o, locs[i]) \in ToSet(c)
    BY <2>2, <1>11
  <2> QED BY <2>1, <2>2, <2>3, <1>8
<1> QED BY <1>11, <1>12, <1>13 DEF c, E, o, locations, ob, nb

\* Packages as inputs that are found nowhere.
Inlined(s) ==
  [k \in DOMAIN s |-> [name |-> s[k].name, branch |-> s[k].branch, text |-> s[k].text,
                       location |-> Location("inline_record", None)]]

\* The packages of the branches that moved, as the third input.
LEMMA ChangedList ==
  ASSUME NEW t \in Trees, NEW b, NEW locations, NEW pending \in SUBSET DOMAIN BranchList(t),
         \A j \in pending : locations[j].source = "inline_record"
  PROVE  LET c == Inlined(SortedPackages(BranchList(t), pending))
         IN /\ c \in Seq(Entries(b, t, locations)) /\ Rising(c)
            /\ \A e \in ToSet(c) : Bare(e) \in PackageSet(BranchList(t), pending)
            /\ \A p \in PackageSet(BranchList(t), pending) : \E e \in ToSet(c) : Bare(e) = p
<1> DEFINE nb == BranchList(t)
           P == PackageSet(nb, pending)
           sorted == SortedPackages(nb, pending)
           l == Location("inline_record", None)
           c == Inlined(sorted)
           E == Entries(b, t, locations)
<1>1. sorted = Sorted(P)
  BY DEF SortedPackages, PackageSet
<1>2. nb \in Seq(BranchRec)
  BY BranchListFacts
<1>3. /\ IsFiniteSet(P) /\ Keyed(P)
      /\ \A p : p \in P <=> \E i \in pending : \E n \in Provided(nb, i) : p = Package(nb, i, n)
  BY <1>2, PackageSets
<1>4. P \subseteq All(t)
  <2>1. DOMAIN nb \in SUBSET DOMAIN nb
    OBVIOUS
  <2>2. \A p : p \in PackageSet(nb, DOMAIN nb) <=>
                 \E i \in DOMAIN nb : \E n \in Provided(nb, i) : p = Package(nb, i, n)
    BY <1>2, <2>1, PackageSets
  <2> HIDE DEF P
  <2> QED BY <1>3, <2>2 DEF All
<1>5. \A p \in P : p.branch \in pending
  BY <1>3 DEF Package
<1> HIDE DEF P, nb, sorted
<1>6. sorted \in Seq(P) /\ ToSet(sorted) = P /\ Rising(sorted)
  BY <1>1, <1>3, SortedFacts
<1>7. \A k \in DOMAIN sorted : sorted[k] \in P
  BY <1>6
<1>8. l \in Locs /\ l.source = "inline_record"
  BY DEF Locs, Sources, Location, None
<1> HIDE DEF l
<1>9. /\ Keys(E)
      /\ \A x \in All(t) :
           /\ Bare(Tagged(x, l)) = x
           /\ Found(b, l, x) /\ (l.source = "inline_record" =>
                                   locations[x.branch].source # "base_branch")
                => Tagged(x, l) \in E
  BY <1>8, EntryFacts
<1> HIDE DEF E
<1>10. \A p \in P : Tagged(p, l) \in E /\ Bare(Tagged(p, l)) = p
  <2> SUFFICES ASSUME NEW p \in P
               PROVE  Tagged(p, l) \in E /\ Bare(Tagged(p, l)) = p
    OBVIOUS
  <2>1. p \in All(t) /\ locations[p.branch].source = "inline_record"
    BY <1>4, <1>5
  <2>2. Found(b, l, p) /\ locations[p.branch].source # "base_branch"
    BY <1>8, <2>1 DEF Found
  <2> QED BY <2>1, <2>2, <1>9
<1>11. c = [k \in DOMAIN sorted |-> Tagged(sorted[k], l)]
  BY DEF Tagged, Inlined, l
<1> HIDE DEF c
<1>12. c \in Seq(E)
  <2>1. \A k \in DOMAIN sorted : Tagged(sorted[k], l) \in E
    BY <1>7, <1>10
  <2>2. DOMAIN sorted = 1..Len(sorted) /\ Len(sorted) \in Nat
    BY <1>6
  <2> QED BY <2>1, <2>2, <1>11
<1>13. Rising(c)
  BY <1>6, <1>11 DEF Rising, KeyLess, Tagged
<1>14. \A e \in ToSet(c) : Bare(e) \in P
  BY <1>7, <1>10, <1>11 DEF ToSet
<1>15. \A p \in P : \E e \in ToSet(c) : Bare(e) = p
  <2> SUFFICES ASSUME NEW p \in P
               PROVE  \E e \in ToSet(c) : Bare(e) = p
    OBVIOUS
  <2>1. PICK k \in DOMAIN sorted : sorted[k] = p
    BY <1>6 DEF ToSet
  <2>2. c[k] = Tagged(p, l) /\ c[k] \in ToSet(c)
    BY <2>1, <1>11 DEF ToSet
  <2> QED BY <2>2, <1>10
<1> QED BY <1>12, <1>13, <1>14, <1>15 DEF c, E, P, nb, sorted, l

\* The three inputs are sorted, share no key, and hold the packages of the new
\* refs, each with a place it is found at.
LEMMA UpdateInputs ==
  ASSUME NEW told \in Trees, NEW t \in Trees, NEW g, NEW b, Reads(g, b, told)
  PROVE  LET ob == BranchList(told)
             nb == BranchList(t)
             E == Entries(b, t, BranchLocations(g, ob, nb))
             q == MergeInputs(g, b, nb)
         IN /\ Queued(E, q) /\ Rest(q) \subseteq E
            /\ \A x \in All(t) : \E e \in Rest(q) : Bare(e) = x
<1> DEFINE ob == BranchList(told)
           nb == BranchList(t)
           o == OldToNew(ob, nb)
           locations == BranchLocations(g, ob, nb)
           E == Entries(b, t, locations)
           full == FullBuild(told)
           act == [i \in DOMAIN g.active |-> ActiveLocation(g, i)]
           shd == [i \in DOMAIN g.shadow |-> ShadowLocation(g, i)]
           pending == {j \in DOMAIN nb : nb[j] \notin ToSet(ob)}
           sorted == SortedPackages(nb, pending)
           c1 == Carried(full.shadow, shd, o)
           c2 == Carried(full.active, act, o)
           c3 == Inlined(sorted)
           q == MergeInputs(g, b, nb)
<1>1. /\ full.branches = ob
      /\ full.active \in Seq(All(told)) /\ Rising(full.active)
      /\ ToSet(full.active) = Winners(All(told))
      /\ full.shadow \in Seq(All(told)) /\ Rising(full.shadow)
      /\ ToSet(full.shadow) = All(told) \ Winners(All(told))
      /\ Keyed(All(told)) /\ \A p \in All(told) : p.branch \in DOMAIN ob
  BY FullBuildFacts
<1>2. /\ [i \in DOMAIN g.branches |-> BranchOf(g, b, i)] = ob
      /\ [i \in DOMAIN g.active |-> ActiveOf(g, b, i)] = full.active
      /\ [i \in DOMAIN g.shadow |-> ShadowOf(g, b, i)] = full.shadow
  <2> HIDE DEF full, ob
  <2> QED BY <1>1 DEF Reads, Shown, full
<1>3. q = <<c1, c2, c3>>
  <2> HIDE DEF full, ob, nb
  <2> QED BY <1>2 DEF MergeInputs, Inlined
<1>4. DOMAIN g.active = DOMAIN full.active /\ DOMAIN g.shadow = DOMAIN full.shadow
  <2>1. /\ DOMAIN [i \in DOMAIN g.active |-> ActiveOf(g, b, i)] = DOMAIN g.active
        /\ DOMAIN [i \in DOMAIN g.shadow |-> ShadowOf(g, b, i)] = DOMAIN g.shadow
    OBVIOUS
  <2> HIDE DEF full
  <2> QED BY <1>2, <2>1
<1>5. /\ \A i \in DOMAIN full.active : Placed(g, b, act[i], full.active[i])
      /\ \A i \in DOMAIN full.shadow : Placed(g, b, shd[i], full.shadow[i])
  <2> HIDE DEF full
  <2> QED BY <1>4 DEF Reads, full
<1> HIDE DEF act, shd, full
<1>6. /\ c1 \in Seq(E) /\ Rising(c1)
      /\ \A e \in ToSet(c1) : \E p \in ToSet(full.shadow) :
           o[p.branch] # None /\ Bare(e) = Shift(p, o)
      /\ \A p \in ToSet(full.shadow) : o[p.branch] # None =>
           \E e \in ToSet(c1) : Bare(e) = Shift(p, o)
  BY <1>1, <1>5, CarriedList
<1>7. /\ c2 \in Seq(E) /\ Rising(c2)
      /\ \A e \in ToSet(c2) : \E p \in ToSet(full.active) :
           o[p.branch] # None /\ Bare(e) = Shift(p, o)
      /\ \A p \in ToSet(full.active) : o[p.branch] # None =>
           \E e \in ToSet(c2) : Bare(e) = Shift(p, o)
  BY <1>1, <1>5, CarriedList
<1>8. \A j \in pending : locations[j].source = "inline_record"
  BY LocationFacts
<1>9. /\ c3 \in Seq(E) /\ Rising(c3)
      /\ \A e \in ToSet(c3) : Bare(e) \in PackageSet(nb, pending)
      /\ \A p \in PackageSet(nb, pending) : \E e \in ToSet(c3) : Bare(e) = p
  <2>1. pending \in SUBSET DOMAIN nb
    OBVIOUS
  <2>2. \A I \in SUBSET DOMAIN nb : (\A j \in I : locations[j].source = "inline_record") =>
          LET c == Inlined(SortedPackages(nb, I))
          IN /\ c \in Seq(E) /\ Rising(c)
             /\ \A e \in ToSet(c) : Bare(e) \in PackageSet(nb, I)
             /\ \A p \in PackageSet(nb, I) : \E e \in ToSet(c) : Bare(e) = p
    <3> HIDE DEF locations
    <3> QED BY ChangedList
  <2> HIDE DEF pending, locations, nb, E
  <2> QED BY <1>8, <2>1, <2>2
<1>10. /\ \A p \in All(told) : o[p.branch] # None =>
                 Shift(p, o) \in All(t) /\ o[p.branch] \in DOMAIN nb \ pending
       /\ \A x \in All(t) :
            \/ x \in PackageSet(nb, pending)
            \/ \E p \in All(told) : o[p.branch] # None /\ Shift(p, o) = x
       /\ \A x \in PackageSet(nb, pending) : x.branch \in pending
  BY ShiftFacts
<1>11. Keys(E)
  BY EntryFacts
<1>12. \A i, j \in DOMAIN ob : o[i] # None /\ o[j] # None => (i < j <=> o[i] < o[j])
  <2>1. /\ ob \in Seq(BranchRec) /\ Ranked(ob) /\ nb \in Seq(BranchRec) /\ Ranked(nb)
    BY BranchListFacts
  <2> HIDE DEF ob, nb
  <2> QED BY <2>1, OldToNewFacts
<1>13. DOMAIN ob = 1..Len(ob) /\ Len(ob) \in Nat
  BY BranchListFacts
<1> HIDE DEF c1, c2, c3, pending, E, locations, o, q, ob, nb
<1>14. ASSUME NEW x \in ToSet(c1), NEW y \in ToSet(c2), SameKey(x, y)
       PROVE  FALSE
  <2>1. PICK p \in ToSet(full.shadow) : o[p.branch] # None /\ Bare(x) = Shift(p, o)
    BY <1>6
  <2>2. PICK r \in ToSet(full.active) : o[r.branch] # None /\ Bare(y) = Shift(r, o)
    BY <1>7
  <2>3. /\ x.name = p.name /\ x.branch = o[p.branch]
        /\ y.name = r.name /\ y.branch = o[r.branch]
    <3>1. /\ Bare(x).name = p.name /\ Bare(x).branch = o[p.branch]
          /\ Bare(y).name = r.name /\ Bare(y).branch = o[r.branch]
      BY <2>1, <2>2 DEF Shift
    <3> QED BY <3>1 DEF Bare
  <2>4. p \in All(told) /\ r \in All(told) /\ p # r
    BY <1>1 DEF Winners
  <2>5. p.branch \in DOMAIN ob /\ r.branch \in DOMAIN ob
    BY <2>4, <1>1
  <2>6. o[p.branch] = o[r.branch] /\ p.name = r.name
    BY <2>3, <1>14 DEF SameKey
  <2>7. ~(o[p.branch] < o[r.branch]) /\ ~(o[r.branch] < o[p.branch])
    <3>1. ~(p.branch < p.branch)
      BY <2>5, <1>13
    <3>2. ~(o[p.branch] < o[p.branch])
      BY <3>1, <2>1, <2>5, <1>12
    <3> QED BY <3>2, <2>6
  <2>8. p.branch = r.branch
    <3>1. ~(p.branch < r.branch) /\ ~(r.branch < p.branch)
      BY <2>1, <2>2, <2>5, <2>7, <1>12
    <3> QED BY <3>1, <2>5, <1>13
  <2> QED BY <2>4, <2>6, <2>8, <1>1 DEF Keyed, SameKey
<1>15. /\ \A x \in ToSet(c1) \cup ToSet(c2) : x.branch \notin pending
       /\ \A y \in ToSet(c3) : y.branch \in pending
  <2>1. ASSUME NEW x \in ToSet(c1) \cup ToSet(c2) PROVE x.branch \notin pending
    <3>1. PICK p \in All(told) : o[p.branch] # None /\ Bare(x) = Shift(p, o)
      BY <1>1, <1>6, <1>7 DEF Winners
    <3>2. Bare(x).branch = x.branch /\ Shift(p, o).branch = o[p.branch]
      BY DEF Bare, Shift
    <3> QED BY <3>1, <3>2, <1>10
  <2>2. ASSUME NEW y \in ToSet(c3) PROVE y.branch \in pending
    <3>1. Bare(y).branch = y.branch
      BY DEF Bare
    <3> QED BY <3>1, <1>9, <1>10
  <2> QED BY <2>1, <2>2
<1>16. Queued(E, q)
  <2>1. q \in [1..3 -> Seq(E)] /\ q[1] = c1 /\ q[2] = c2 /\ q[3] = c3
    BY <1>3, <1>6, <1>7, <1>9
  <2>2. \A s \in 1..3 : s = 1 \/ s = 2 \/ s = 3
    OBVIOUS
  <2>3. \A s \in 1..3 : Rising(q[s])
    BY <2>1, <2>2, <1>6, <1>7, <1>9
  <2>4. \A x \in ToSet(c1), y \in ToSet(c2) : ~SameKey(x, y) /\ ~SameKey(y, x)
    BY <1>14 DEF SameKey
  <2>5. \A x \in ToSet(c1) \cup ToSet(c2), y \in ToSet(c3) : ~SameKey(x, y) /\ ~SameKey(y, x)
    BY <1>15 DEF SameKey
  <2>6. ASSUME NEW s \in 1..3, NEW r \in 1..3, s # r,
               NEW x \in ToSet(q[s]), NEW y \in ToSet(q[r])
        PROVE  ~SameKey(x, y)
    BY <2>1, <2>2, <2>4, <2>5, <2>6
  <2> QED BY <2>1, <2>3, <2>6 DEF Queued
<1>17. Rest(q) = ToSet(c1) \cup ToSet(c2) \cup ToSet(c3)
  <2>1. \A s \in 1..3 : s = 1 \/ s = 2 \/ s = 3
    OBVIOUS
  <2>2. q[1] = c1 /\ q[2] = c2 /\ q[3] = c3
    BY <1>3
  <2> QED BY <2>1, <2>2 DEF Rest
<1>18. Rest(q) \subseteq E
  <2>1. /\ \A i \in DOMAIN c1 : c1[i] \in E
        /\ \A i \in DOMAIN c2 : c2[i] \in E
        /\ \A i \in DOMAIN c3 : c3[i] \in E
    BY <1>6, <1>7, <1>9
  <2> QED BY <2>1, <1>17 DEF ToSet
<1>19. ASSUME NEW x \in All(t)
       PROVE  \E e \in Rest(q) : Bare(e) = x
  <2>1. CASE x \in PackageSet(nb, pending)
    BY <2>1, <1>9, <1>17
  <2>2. ASSUME NEW p \in All(told), o[p.branch] # None, Shift(p, o) = x
        PROVE  \E e \in Rest(q) : Bare(e) = x
    <3>1. p \in ToSet(full.active) \/ p \in ToSet(full.shadow)
      BY <1>1
    <3> QED BY <3>1, <2>2, <1>6, <1>7, <1>17
  <2> QED BY <2>1, <2>2, <1>10
<1> QED BY <1>16, <1>18, <1>19 DEF E, q, locations, ob, nb

\* A merged list, expanded, is the sorted list of the packages it stands for.
LEMMA ExpandFacts ==
  ASSUME NEW E, Keys(E), NEW s \in Seq(E), Rising(s), NEW P, Keys(P), NEW W,
         \A e \in ToSet(s) : Bare(e) \in W, W \subseteq P,
         \A x \in W : \E e \in ToSet(s) : Bare(e) = x
  PROVE  /\ Expand(s) = Sorted(W) /\ Len(Expand(s)) = Len(s) /\ DOMAIN Expand(s) = DOMAIN s
         /\ \A i \in DOMAIN s : Expand(s)[i] = Bare(s[i])
<1> DEFINE r == Expand(s)
<1>1. r = [i \in DOMAIN s |-> Bare(s[i])]
  BY DEF Expand, Bare
<1> HIDE DEF r
<1>2. DOMAIN s = 1..Len(s) /\ Len(s) \in Nat /\ \A i \in DOMAIN s : s[i] \in ToSet(s)
  BY DEF ToSet
<1>3. \A i \in DOMAIN s : r[i] = Bare(s[i]) /\ r[i] \in P
  BY <1>1, <1>2
<1>4. r \in Seq(P) /\ DOMAIN r = DOMAIN s /\ Len(r) = Len(s)
  BY <1>1, <1>2, <1>3
<1>5. Rising(r)
  BY <1>3, <1>4 DEF Rising, KeyLess, Bare
<1>6. ToSet(r) = W
  <2>1. \A i \in DOMAIN r : r[i] \in W
    BY <1>2, <1>3, <1>4
  <2>2. ASSUME NEW x \in W PROVE \E i \in DOMAIN r : r[i] = x
    <3>1. PICK e \in ToSet(s) : Bare(e) = x
      OBVIOUS
    <3>2. PICK i \in DOMAIN s : s[i] = e
      BY <3>1 DEF ToSet
    <3> QED BY <3>1, <3>2, <1>3, <1>4
  <2> QED BY <2>1, <2>2 DEF ToSet
<1>7. r = Sorted(ToSet(r))
  BY <1>4, <1>5, SortedOnly
<1> QED BY <1>3, <1>4, <1>6, <1>7 DEF r

\* An update shows what a full build of the new refs holds, and knows where
\* every record of it is.
LEMMA UpdateContent ==
  ASSUME NEW told \in Trees, NEW t \in Trees, NEW g, NEW b, Reads(g, b, told)
  PROVE  LET ob == BranchList(told)
             nb == BranchList(t)
             E == Entries(b, t, BranchLocations(g, ob, nb))
             merged == Merge(MergeInputs(g, b, nb))
         IN /\ merged.packages \in Seq(E) /\ merged.shadows \in Seq(E)
            /\ Expand(merged.packages) = FullBuild(t).active
            /\ \A i \in DOMAIN merged.packages :
                 Bare(merged.packages[i]) = FullBuild(t).active[i]
            /\ DOMAIN FullBuild(t).active = DOMAIN merged.packages
            /\ Expand(merged.shadows) = FullBuild(t).shadow
            /\ \A i \in DOMAIN merged.shadows :
                 Bare(merged.shadows[i]) = FullBuild(t).shadow[i]
            /\ DOMAIN FullBuild(t).shadow = DOMAIN merged.shadows
<1> DEFINE ob == BranchList(told)
           nb == BranchList(t)
           E == Entries(b, t, BranchLocations(g, ob, nb))
           q == MergeInputs(g, b, nb)
           R == Rest(q)
           m == Merge(q)
           W == Winners(All(t))
<1>1. /\ Queued(E, q) /\ Rest(q) \subseteq E
      /\ \A x \in All(t) : \E e \in Rest(q) : Bare(e) = x
  BY UpdateInputs
<1>2. Keys(E) /\ \A e \in E : Bare(e) \in All(t)
  BY EntryFacts
<1> HIDE DEF E, q
<1>3. /\ m.packages \in Seq(E) /\ Rising(m.packages)
      /\ ToSet(m.packages) = Winners(R)
      /\ m.shadows \in Seq(E) /\ Rising(m.shadows)
      /\ ToSet(m.shadows) = R \ Winners(R)
  BY <1>1, <1>2, MergeExact
<1>4. /\ Keys(All(t)) /\ FullBuild(t).active = Sorted(W)
      /\ FullBuild(t).shadow = Sorted(All(t) \ W)
  BY FullBuildFacts DEF Keyed
<1> HIDE DEF m, R
<1>5. R \subseteq E /\ \A x \in All(t) : \E e \in R : Bare(e) = x
  BY <1>1 DEF R
<1>6. \A e : Bare(e).name = e.name /\ Bare(e).branch = e.branch
  BY DEF Bare
<1>7. ASSUME NEW e \in R
      PROVE  e \in Winners(R) <=> Bare(e) \in W
  <2>1. ASSUME e \in Winners(R) PROVE Bare(e) \in W
    <3>1. ASSUME NEW y \in All(t), y.name = Bare(e).name PROVE y.branch <= Bare(e).branch
      <4>1. PICK f \in R : Bare(f) = y
        BY <1>5
      <4> QED BY <4>1, <3>1, <2>1, <1>6 DEF Winners
    <3> QED BY <3>1, <1>2, <1>5 DEF Winners
  <2>2. ASSUME Bare(e) \in W PROVE e \in Winners(R)
    <3>1. \A f \in R : f.name = e.name => f.branch <= e.branch
      BY <2>2, <1>2, <1>5, <1>6 DEF Winners
    <3> QED BY <3>1 DEF Winners
  <2> QED BY <2>1, <2>2
<1> HIDE DEF W
<1>8. /\ \A e \in Winners(R) : Bare(e) \in W
      /\ \A x \in W : \E e \in Winners(R) : Bare(e) = x
      /\ \A e \in R \ Winners(R) : Bare(e) \in All(t) \ W
      /\ \A x \in All(t) \ W : \E e \in R \ Winners(R) : Bare(e) = x
      /\ W \subseteq All(t)
  <2>1. Winners(R) \subseteq R /\ W \subseteq All(t)
    BY DEF Winners, W
  <2> QED BY <2>1, <1>2, <1>5, <1>7
<1>9. /\ Expand(m.packages) = Sorted(W) /\ DOMAIN Expand(m.packages) = DOMAIN m.packages
      /\ \A i \in DOMAIN m.packages : Expand(m.packages)[i] = Bare(m.packages[i])
  <2> DEFINE s == m.packages
  <2>1. /\ s \in Seq(E) /\ Rising(s) /\ W \subseteq All(t)
        /\ \A e \in ToSet(s) : Bare(e) \in W
        /\ \A x \in W : \E e \in ToSet(s) : Bare(e) = x
    BY <1>3, <1>8
  <2> HIDE DEF s
  <2>2. /\ Expand(s) = Sorted(W) /\ DOMAIN Expand(s) = DOMAIN s
        /\ \A i \in DOMAIN s : Expand(s)[i] = Bare(s[i])
    BY <1>2, <1>4, <2>1, ExpandFacts
  <2> QED BY <2>2 DEF s
<1>10. /\ Expand(m.shadows) = Sorted(All(t) \ W) /\ DOMAIN Expand(m.shadows) = DOMAIN m.shadows
       /\ \A i \in DOMAIN m.shadows : Expand(m.shadows)[i] = Bare(m.shadows[i])
  <2> DEFINE s == m.shadows
             V == All(t) \ W
  <2>1. /\ s \in Seq(E) /\ Rising(s) /\ V \subseteq All(t)
        /\ \A e \in ToSet(s) : Bare(e) \in V
        /\ \A x \in V : \E e \in ToSet(s) : Bare(e) = x
    BY <1>3, <1>8
  <2> HIDE DEF s, V
  <2>2. /\ Expand(s) = Sorted(V) /\ DOMAIN Expand(s) = DOMAIN s
        /\ \A i \in DOMAIN s : Expand(s)[i] = Bare(s[i])
    BY <1>2, <1>4, <2>1, ExpandFacts
  <2> QED BY <2>2 DEF s, V
<1> QED BY <1>3, <1>4, <1>9, <1>10 DEF m, E, q

-----------------------------------------------------------------------------
(* The overlay                                                               *)

\* SelectInSeq with the wanted element for its test.
IndexIn(seq, x) ==
  LET I == {k \in 1..Len(seq) : seq[k] = x} IN IF I # {} THEN Min(I) ELSE 0

\* The place of an element in Ascending leads back to it.
LEMMA IndexInFacts ==
  ASSUME NEW I \in SUBSET Int, IsFiniteSet(I), NEW i \in I
  PROVE  IndexIn(Ascending(I), i) \in DOMAIN Ascending(I) /\ Ascending(I)[IndexIn(Ascending(I), i)] = i
<1> DEFINE a == Ascending(I)
           K == {k \in 1..Len(a) : a[k] = i}
<1>1. a \in Seq(I) /\ ToSet(a) = I
  BY AscendingFacts
<1> HIDE DEF a
<1>2. DOMAIN a = 1..Len(a) /\ Len(a) \in Nat
  BY <1>1
<1>3. K \subseteq Nat /\ K # {}
  BY <1>1, <1>2 DEF ToSet
<1>4. Min(K) \in K
  <2> HIDE DEF K
  <2>1. \E x \in K : \A y \in K : x <= y
    BY <1>3, Least
  <2> QED BY <2>1 DEF Min
<1>5. IndexIn(a, i) = Min(K)
  BY <1>3 DEF IndexIn
<1> QED BY <1>2, <1>4, <1>5 DEF a

\* What an overlay holds inline: branches, packages, and their records.
NewBranches(nb, locations) == {j \in DOMAIN nb : locations[j].source # "base_branch"}

NewPackages(s) == {i \in DOMAIN s : ~InBase(s[i].location)}

\* The reference write_generation_overlay makes to package i of s.
Ref(s, i) ==
  LET loc == IF InBase(s[i].location) THEN s[i].location
             ELSE Location("inline_record", IndexIn(Ascending(NewPackages(s)), i))
  IN [source |-> loc.source, index |-> loc.index, branch |-> s[i].branch]

\* write_generation_overlay, with its local functions named.
LEMMA OverlayIs ==
  ASSUME NEW nb, NEW locations, NEW m
  PROVE  LET s == m.packages \o m.shadows
             nbs == Ascending(NewBranches(nb, locations))
             nps == Ascending(NewPackages(s))
         IN Overlay(nb, locations, m) =
              [kind |-> "overlay",
               branches |-> [j \in DOMAIN nb |->
                               IF locations[j].source # "base_branch"
                               THEN Location("inline_record", IndexIn(nbs, j))
                               ELSE locations[j]],
               active |-> [i \in DOMAIN m.packages |-> Ref(s, i)],
               shadow |-> [i \in DOMAIN m.shadows |-> Ref(s, Len(m.packages) + i)],
               inlineBranches |-> [k \in DOMAIN nbs |-> nb[nbs[k]]],
               inlinePackages |-> [k \in DOMAIN nps |->
                                     [name |-> s[nps[k]].name, text |-> s[nps[k]].text]]]
BY Zenon DEF Overlay, NewBranches, NewPackages, Ref, SelectInSeq, IndexIn

\* The references there are.
Refs == [source : Sources, index : Int, branch : Int]

InlineRecords(s) ==
  LET nps == Ascending(NewPackages(s))
  IN [k \in DOMAIN nps |-> [name |-> s[nps[k]].name, text |-> s[nps[k]].text]]

\* The reference to package i of s is valid, and leads to it.
Stands(v, b, locations, s, i) ==
  LET ref == Ref(s, i)
      loc == Location(ref.source, ref.index)
  IN /\ ref \in Refs /\ loc \in Locs /\ ValidPackageRef(v, b, ref)
     /\ PackageAt(v, b, loc, ref.branch) = Bare(s[i])
     /\ Found(b, loc, Bare(s[i]))
     /\ ref.source = "inline_record" <=> s[i].location.source = "inline_record"
     /\ s[i].location.source # "inline_record" =>
          loc.source = s[i].location.source /\ loc.index = s[i].location.index
     /\ s[i].location.source = "inline_record" =>
          locations[s[i].branch].source # "base_branch"

\* What write_generation_overlay refers to is what the merge gave it.
LEMMA RefFacts ==
  ASSUME NEW b, NEW t \in Trees, NEW locations,
         NEW s \in Seq(Entries(b, t, locations)), NEW i \in DOMAIN s, NEW v,
         v.inlinePackages = InlineRecords(s),
         DOMAIN v.branches = DOMAIN BranchList(t)
  PROVE  Stands(v, b, locations, s, i)
<1> DEFINE e == s[i]
           ref == Ref(s, i)
           loc == Location(ref.source, ref.index)
           I == NewPackages(s)
           nps == Ascending(I)
<1>1. /\ e \in Entries(b, t, locations)
      /\ e.location \in Locs /\ Found(b, e.location, e)
      /\ e.location.source = "inline_record" => locations[e.branch].source # "base_branch"
  <2>1. e \in Entries(b, t, locations)
    OBVIOUS
  <2>2. PICK x \in All(t) : \E l \in Locs : e = Tagged(x, l)
    BY <2>1 DEF Entries
  <2>3. e.location \in Locs
    BY <2>2 DEF Tagged
  <2> HIDE DEF e
  <2> QED BY <2>1, <2>3 DEF Entries
<1>2. Bare(e) \in All(t)
  BY <1>1, EntryFacts
<1>3. Bare(e).branch \in DOMAIN BranchList(t) /\ BranchList(t) \in Seq(BranchRec)
  BY <1>2, FullBuildFacts
<1>4. e.branch \in DOMAIN BranchList(t) /\ e.branch \in Int
  <2>1. e.branch \in DOMAIN BranchList(t)
    BY <1>3 DEF Bare
  <2> QED BY <2>1, <1>3
<1>5. I \in SUBSET Int /\ IsFiniteSet(I) /\ I \subseteq DOMAIN s
  <2>1. I \in SUBSET DOMAIN s
    BY DEF NewPackages
  <2>2. IsFiniteSet(DOMAIN s)
    BY FiniteSeq
  <2>3. DOMAIN s \subseteq Int
    OBVIOUS
  <2> QED BY <2>1, <2>2, <2>3, FS_Subset
<1>6. e.location.source \in Sources /\ e.location.index \in Int
  BY <1>1 DEF Locs
<1>7. CASE InBase(e.location)
  <2>1. /\ ref = [source |-> e.location.source, index |-> e.location.index, branch |-> e.branch]
        /\ loc.source = e.location.source /\ loc.index = e.location.index
    BY <1>7 DEF Ref, Location
  <2>2. loc \in Locs
    BY <2>1, <1>6 DEF Locs, Location
  <2>3. e.location.source # "inline_record"
    BY <1>7 DEF InBase
  <2>4. /\ ref.source = e.location.source /\ ref.index = e.location.index
        /\ ref.branch = e.branch /\ ref \in Refs
    BY <2>1, <1>4, <1>6 DEF Refs
  <2> HIDE DEF Stands, ref, loc, e
  <2>5. Found(b, loc, Bare(e))
    BY <1>1, <2>1, <2>3 DEF Found, Bare
  <2>6. ValidPackageRef(v, b, ref)
    BY <1>1, <1>4, <2>3, <2>4 DEF ValidPackageRef, Found
  <2>7. RecordAt(v, b, loc).name = e.name /\ RecordAt(v, b, loc).text = e.text
    BY <1>1, <2>1, <2>3 DEF RecordAt, Found
  <2>8. PackageAt(v, b, loc, ref.branch) = Bare(e)
    BY <2>4, <2>7 DEF PackageAt, Bare
  <2> QED BY <1>1, <2>1, <2>2, <2>3, <2>4, <2>5, <2>6, <2>8 DEF Stands, ref, loc, e
<1>8. CASE ~InBase(e.location)
  <2> DEFINE k == IndexIn(nps, i)
  <2>1. i \in I
    BY <1>8 DEF NewPackages
  <2> HIDE DEF I
  <2>2. k \in DOMAIN nps /\ nps[k] = i
    BY <2>1, <1>5, IndexInFacts
  <2>3. DOMAIN nps \subseteq Int
    <3>1. nps \in Seq(I)
      BY <1>5, AscendingFacts
    <3> HIDE DEF nps
    <3> QED BY <3>1
  <2>4. ref = [source |-> "inline_record", index |-> k, branch |-> e.branch]
    BY <1>8 DEF Ref, Location, I
  <2>5. k \in Int
    BY <2>2, <2>3
  <2>6. v.inlinePackages[k] = [name |-> e.name, text |-> e.text] /\ k \in DOMAIN v.inlinePackages
    <3>1. v.inlinePackages = [j \in DOMAIN nps |-> [name |-> s[nps[j]].name, text |-> s[nps[j]].text]]
      BY DEF I, InlineRecords
    <3> HIDE DEF nps, k
    <3> QED BY <2>2, <3>1
  <2> HIDE DEF k, e, nps
  <2>7. /\ ref.source = "inline_record" /\ ref.index = k /\ ref.branch = e.branch
        /\ ref \in Refs
    BY <2>4, <2>5, <1>4 DEF Refs, Sources
  <2>8. loc = [source |-> "inline_record", index |-> k]
    BY <2>7 DEF Location
  <2>9. loc.source = "inline_record" /\ loc.index = k /\ loc \in Locs
    BY <2>8, <2>5 DEF Locs, Sources
  <2> HIDE DEF ref, loc
  <2>10. e.location.source = "inline_record"
    BY <1>1, <1>8 DEF Found, InBase
  <2>11. Found(b, loc, Bare(e))
    BY <2>9 DEF Found
  <2>12. ValidPackageRef(v, b, ref)
    BY <1>4, <2>6, <2>7 DEF ValidPackageRef
  <2>13. RecordAt(v, b, loc).name = e.name /\ RecordAt(v, b, loc).text = e.text
    BY <2>6, <2>9 DEF RecordAt
  <2>14. PackageAt(v, b, loc, ref.branch) = Bare(e)
    BY <2>7, <2>13 DEF PackageAt, Bare
  <2> QED BY <1>1, <2>7, <2>9, <2>10, <2>11, <2>12, <2>14 DEF Stands, ref, loc, e
<1> QED BY <1>7, <1>8

\* A reference to a branch that the constructor accepts.
ValidBranchRef(v, b, loc) ==
  \/ loc.source = "base_branch" /\ loc.index \in DOMAIN b.branches
  \/ loc.source = "inline_record" /\ loc.index \in DOMAIN v.inlineBranches

\* An overlay v of b that has nothing but valid references, and is read as a full
\* build of t.
Sound(v, b, t) ==
  /\ v.kind = "overlay"
  /\ v.branches \in Seq(Locs) /\ v.active \in Seq(Refs) /\ v.shadow \in Seq(Refs)
  /\ \A i \in DOMAIN v.branches : ValidBranchRef(v, b, v.branches[i])
  /\ \A i \in DOMAIN v.active : ValidPackageRef(v, b, v.active[i])
  /\ \A i \in DOMAIN v.shadow : ValidPackageRef(v, b, v.shadow[i])
  /\ Reads(v, b, t)

\* What write_generation_overlay writes is read as what it was given.
LEMMA OverlayReads ==
  ASSUME NEW told \in Trees, NEW t \in Trees, NEW g, NEW b, Reads(g, b, told)
  PROVE  LET nb == BranchList(t)
             locations == BranchLocations(g, BranchList(told), nb)
         IN Sound(Overlay(nb, locations, Merge(MergeInputs(g, b, nb))), b, t)
<1> DEFINE ob == BranchList(told)
           nb == BranchList(t)
           locations == BranchLocations(g, ob, nb)
           E == Entries(b, t, locations)
           m == Merge(MergeInputs(g, b, nb))
           v == Overlay(nb, locations, m)
           s == m.packages \o m.shadows
           NB == NewBranches(nb, locations)
           nbs == Ascending(NB)
           nps == Ascending(NewPackages(s))
           full == FullBuild(t)
<1>1. /\ m.packages \in Seq(E) /\ m.shadows \in Seq(E)
      /\ \A i \in DOMAIN m.packages : Bare(m.packages[i]) = full.active[i]
      /\ DOMAIN full.active = DOMAIN m.packages
      /\ \A i \in DOMAIN m.shadows : Bare(m.shadows[i]) = full.shadow[i]
      /\ DOMAIN full.shadow = DOMAIN m.shadows
  BY UpdateContent
<1>2. /\ DOMAIN locations = DOMAIN nb
      /\ \A j \in DOMAIN nb : locations[j] \in Locs /\ BranchFound(b, locations[j], nb[j])
  BY LocationFacts
<1>3. v = [kind |-> "overlay",
           branches |-> [j \in DOMAIN nb |->
                           IF locations[j].source # "base_branch"
                           THEN Location("inline_record", IndexIn(nbs, j)) ELSE locations[j]],
           active |-> [i \in DOMAIN m.packages |-> Ref(s, i)],
           shadow |-> [i \in DOMAIN m.shadows |-> Ref(s, Len(m.packages) + i)],
           inlineBranches |-> [k \in DOMAIN nbs |-> nb[nbs[k]]],
           inlinePackages |-> [k \in DOMAIN nps |->
                                 [name |-> s[nps[k]].name, text |-> s[nps[k]].text]]]
  BY Zenon, OverlayIs
<1>4. nb \in Seq(BranchRec)
  BY BranchListFacts
<1>5. /\ full.branches = nb /\ full.active \in Seq(All(t)) /\ full.shadow \in Seq(All(t))
  BY FullBuildFacts
<1> HIDE DEF m, v, locations, nb, ob, full
<1>6. /\ v.kind = "overlay"
      /\ v.branches = [j \in DOMAIN nb |->
                         IF locations[j].source # "base_branch"
                         THEN Location("inline_record", IndexIn(nbs, j)) ELSE locations[j]]
      /\ v.active = [i \in DOMAIN m.packages |-> Ref(s, i)]
      /\ v.shadow = [i \in DOMAIN m.shadows |-> Ref(s, Len(m.packages) + i)]
      /\ v.inlineBranches = [k \in DOMAIN nbs |-> nb[nbs[k]]]
      /\ v.inlinePackages = [k \in DOMAIN nps |->
                               [name |-> s[nps[k]].name, text |-> s[nps[k]].text]]
      /\ DOMAIN v.branches = DOMAIN nb
  <2> HIDE DEF nbs, nps, s
  <2> QED BY <1>3
<1> DEFINE n == Len(m.packages)
           k == Len(m.shadows)
<1>7. /\ n \in Nat /\ DOMAIN m.packages = 1..n
      /\ k \in Nat /\ DOMAIN m.shadows = 1..k
      /\ s \in Seq(E) /\ DOMAIN s = 1..n + k
      /\ \A i \in 1..n : s[i] = m.packages[i]
      /\ \A i \in 1..k : s[n + i] = m.shadows[i]
  <2> DEFINE x == m.packages
             y == m.shadows
  <2>1. x \in Seq(E) /\ y \in Seq(E)
    BY <1>1
  <2> HIDE DEF E, x, y
  <2>2. /\ Len(x) \in Nat /\ DOMAIN x = 1..Len(x) /\ Len(y) \in Nat /\ DOMAIN y = 1..Len(y)
    BY <2>1
  <2>3. x \o y \in Seq(E) /\ Len(x \o y) = Len(x) + Len(y)
    BY <2>1
  <2>4. DOMAIN (x \o y) = 1..Len(x) + Len(y)
    BY <2>3
  <2>5. \A i \in 1..Len(x) : (x \o y)[i] = x[i]
    BY <2>1
  <2>6. \A i \in 1..Len(y) : (x \o y)[Len(x) + i] = y[i]
    BY <2>1
  <2> QED BY <2>2, <2>3, <2>4, <2>5, <2>6 DEF x, y
<1>8. DOMAIN nb = 1..Len(nb) /\ Len(nb) \in Nat
  BY <1>4
<1> HIDE DEF s, E, n, k
<1>9. ASSUME NEW i \in DOMAIN s
      PROVE  Stands(v, b, locations, s, i)
  <2>1. v.inlinePackages = InlineRecords(s)
    BY <1>6 DEF InlineRecords
  <2>2. s \in Seq(Entries(b, t, locations)) /\ DOMAIN v.branches = DOMAIN BranchList(t)
    BY <1>6, <1>7 DEF E, nb
  <2> HIDE DEF nps
  <2> QED BY <2>1, <2>2, RefFacts
\* Branches
<1>10. ASSUME NEW j \in DOMAIN nb
       PROVE  /\ v.branches[j] \in Locs /\ ValidBranchRef(v, b, v.branches[j])
              /\ BranchFound(b, v.branches[j], nb[j])
              /\ BranchAt(v, b, v.branches[j]) = nb[j]
              /\ locations[j].source # "base_branch" <=> v.branches[j].source # "base_branch"
  <2>1. CASE locations[j].source = "base_branch"
    <3>1. v.branches[j] = locations[j]
      BY <1>6, <2>1
    <3> QED BY <3>1, <2>1, <1>2 DEF ValidBranchRef, BranchFound, BranchAt
  <2>2. CASE locations[j].source # "base_branch"
    <3> DEFINE x == IndexIn(nbs, j)
    <3>1. NB \in SUBSET DOMAIN nb /\ IsFiniteSet(DOMAIN nb) /\ DOMAIN nb \subseteq Int
      BY <1>4, <1>8, FiniteSeq DEF NewBranches
    <3>2. j \in NB
      BY <2>2 DEF NewBranches
    <3> HIDE DEF NB
    <3>3. NB \in SUBSET Int /\ IsFiniteSet(NB)
      BY <3>1, FS_Subset
    <3>4. x \in DOMAIN nbs /\ nbs[x] = j
      BY <3>2, <3>3, IndexInFacts
    <3>5. nbs \in Seq(NB)
      BY <3>3, AscendingFacts
    <3> HIDE DEF nbs
    <3>6. x \in Int
      BY <3>4, <3>5
    <3>7. v.branches[j] = [source |-> "inline_record", index |-> x]
      <4>1. v.branches[j] = Location("inline_record", x)
        BY <1>6, <2>2
      <4> QED BY <4>1 DEF Location
    <3> HIDE DEF x
    <3>8. v.branches[j].source = "inline_record" /\ v.branches[j].index = x
          /\ v.branches[j] \in Locs
      BY <3>6, <3>7 DEF Locs, Sources
    <3>9. x \in DOMAIN v.inlineBranches /\ v.inlineBranches[x] = nb[j]
      BY <3>4, <1>6
    <3> QED BY <2>2, <3>8, <3>9 DEF ValidBranchRef, BranchFound, BranchAt
  <2> QED BY <2>1, <2>2
<1> HIDE DEF nbs, nps, NB
<1>11. \A j : BranchLocation(v, j) = v.branches[j]
  BY <1>6 DEF BranchLocation
<1>12. ASSUME NEW i \in DOMAIN s
       PROVE  LET ref == Ref(s, i)
                  loc == Location(ref.source, ref.index)
              IN Placed(v, b, loc, Bare(s[i]))
  <2> DEFINE ref == Ref(s, i)
             loc == Location(ref.source, ref.index)
  <2>1. /\ loc \in Locs /\ Found(b, loc, Bare(s[i])) /\ ValidPackageRef(v, b, ref)
        /\ PackageAt(v, b, loc, ref.branch) = Bare(s[i])
        /\ ref.source = "inline_record" => locations[s[i].branch].source # "base_branch"
    BY <1>9 DEF Stands
  <2>2. loc.source = ref.source
    BY DEF Location
  <2> HIDE DEF ref, loc
  <2>3. Bare(s[i]).branch = s[i].branch /\ ref.branch = s[i].branch
    <3>1. PackageAt(v, b, loc, ref.branch).branch = ref.branch
      BY DEF PackageAt
    <3>2. Bare(s[i]).branch = s[i].branch
      BY DEF Bare
    <3> QED BY <3>1, <3>2, <2>1
  <2>4. s[i].branch \in DOMAIN nb
    BY <2>1, <2>3, <1>6 DEF ValidPackageRef
  <2>5. loc.source = "inline_record" => BranchLocation(v, Bare(s[i]).branch).source # "base_branch"
    BY <2>1, <2>2, <2>3, <2>4, <1>10, <1>11
  <2> QED BY <2>1, <2>5 DEF Placed, ref, loc
\* Active packages
<1>13. ASSUME NEW i \in DOMAIN m.packages
       PROVE  /\ v.active[i] \in Refs /\ ValidPackageRef(v, b, v.active[i])
              /\ ActiveOf(v, b, i) = full.active[i]
              /\ Placed(v, b, ActiveLocation(v, i), full.active[i])
  <2>1. i \in DOMAIN s /\ s[i] = m.packages[i]
    BY <1>7
  <2>2. v.active[i] = Ref(s, i)
    BY <1>6
  <2>3. ActiveLocation(v, i) = Location(v.active[i].source, v.active[i].index)
    BY <1>6 DEF ActiveLocation
  <2>4. full.active[i] = Bare(s[i])
    BY <2>1, <1>1
  <2> QED BY <2>1, <2>2, <2>3, <2>4, <1>9, <1>12 DEF Stands, Stands, ActiveOf
<1>14. ASSUME NEW i \in DOMAIN m.shadows
       PROVE  /\ v.shadow[i] \in Refs /\ ValidPackageRef(v, b, v.shadow[i])
              /\ ShadowOf(v, b, i) = full.shadow[i]
              /\ Placed(v, b, ShadowLocation(v, i), full.shadow[i])
  <2>1. n + i \in DOMAIN s /\ s[n + i] = m.shadows[i]
    BY <1>7
  <2>2. v.shadow[i] = Ref(s, n + i)
    BY <1>6 DEF n
  <2>3. ShadowLocation(v, i) = Location(v.shadow[i].source, v.shadow[i].index)
    BY <1>6 DEF ShadowLocation
  <2>4. full.shadow[i] = Bare(s[n + i])
    BY <2>1, <1>1
  <2> QED BY <2>1, <2>2, <2>3, <2>4, <1>9, <1>12 DEF Stands, ShadowOf
<1>15. /\ DOMAIN v.active = DOMAIN m.packages /\ DOMAIN v.shadow = DOMAIN m.shadows
       /\ v.active \in Seq(Refs) /\ v.shadow \in Seq(Refs) /\ v.branches \in Seq(Locs)
  <2>1. v.active = [i \in 1..n |-> v.active[i]] /\ DOMAIN v.active = 1..n
    BY <1>6, <1>7
  <2>2. v.shadow = [i \in 1..k |-> v.shadow[i]] /\ DOMAIN v.shadow = 1..k
    BY <1>6, <1>7
  <2>3. v.branches = [i \in 1..Len(nb) |-> v.branches[i]]
    BY <1>6, <1>8
  <2>4. /\ \A i \in 1..n : v.active[i] \in Refs
        /\ \A i \in 1..k : v.shadow[i] \in Refs
        /\ \A i \in 1..Len(nb) : v.branches[i] \in Locs
    BY <1>7, <1>8, <1>10, <1>13, <1>14
  <2> QED BY <2>1, <2>2, <2>3, <2>4, <1>7, <1>8
<1>16. Shown(v, b) = [branches |-> full.branches, active |-> full.active,
                      shadow |-> full.shadow]
  <2>1. [i \in DOMAIN v.branches |-> BranchOf(v, b, i)] = nb
    <3>1. \A i \in DOMAIN nb : BranchOf(v, b, i) = nb[i]
      BY <1>10, <1>11 DEF BranchOf
    <3> QED BY <3>1, <1>4, <1>6
  <2>2. [i \in DOMAIN v.active |-> ActiveOf(v, b, i)] = full.active
    BY <1>1, <1>5, <1>13, <1>15
  <2>3. [i \in DOMAIN v.shadow |-> ShadowOf(v, b, i)] = full.shadow
    BY <1>1, <1>5, <1>14, <1>15
  <2> QED BY <2>1, <2>2, <2>3, <1>5, Zenon DEF Shown
<1>17. Reads(v, b, t)
  <2>1. \A i \in DOMAIN full.branches :
          BranchLocation(v, i) \in Locs /\ BranchFound(b, BranchLocation(v, i), full.branches[i])
    BY <1>5, <1>10, <1>11
  <2> QED BY <2>1, <1>1, <1>13, <1>14, <1>16 DEF Reads, full
<1>18. Sound(v, b, t)
  BY <1>6, <1>10, <1>13, <1>14, <1>15, <1>17 DEF Sound
<1> QED BY <1>18 DEF v, m, locations, nb, ob

\* A snapshot reads as the full build it is.
LEMMA SnapshotReads ==
  ASSUME NEW t \in Trees
  PROVE  Reads(FullBuild(t), FullBuild(t), t)
<1> DEFINE full == FullBuild(t)
<1>1. /\ full.kind = "snapshot" /\ full.branches \in Seq(BranchRec)
      /\ full.active \in Seq(All(t)) /\ full.shadow \in Seq(All(t))
  BY FullBuildFacts
<1>2. \A p \in All(t) : p = [name |-> p.name, branch |-> p.branch, text |-> p.text]
  BY PackageFacts
<1> HIDE DEF full
<1>3. /\ \A i \in DOMAIN full.active : full.active[i] \in All(t)
      /\ \A i \in DOMAIN full.shadow : full.shadow[i] \in All(t)
  BY <1>1
<1>4. /\ DOMAIN full.active = 1..Len(full.active) /\ DOMAIN full.shadow = 1..Len(full.shadow)
      /\ DOMAIN full.branches = 1..Len(full.branches)
      /\ Len(full.active) \in Nat /\ Len(full.shadow) \in Nat /\ Len(full.branches) \in Nat
  BY <1>1
<1>5. /\ \A i : BranchLocation(full, i) = [source |-> "base_branch", index |-> i]
      /\ \A i : ActiveLocation(full, i) = [source |-> "base_active", index |-> i]
      /\ \A i : ShadowLocation(full, i) = [source |-> "base_shadow", index |-> i]
  BY <1>1 DEF BranchLocation, ActiveLocation, ShadowLocation, Location
<1>6. \A i \in DOMAIN full.branches :
        /\ BranchLocation(full, i) \in Locs
        /\ BranchFound(full, BranchLocation(full, i), full.branches[i])
        /\ BranchOf(full, full, i) = full.branches[i]
  BY <1>4, <1>5 DEF Locs, Sources, BranchFound, BranchOf, BranchAt
<1>7. \A i \in DOMAIN full.active :
        /\ Placed(full, full, ActiveLocation(full, i), full.active[i])
        /\ ActiveOf(full, full, i) = full.active[i]
  <2> SUFFICES ASSUME NEW i \in DOMAIN full.active
               PROVE  /\ Placed(full, full, ActiveLocation(full, i), full.active[i])
                      /\ ActiveOf(full, full, i) = full.active[i]
    OBVIOUS
  <2> DEFINE loc == ActiveLocation(full, i)
             p == full.active[i]
  <2>1. loc.source = "base_active" /\ loc.index = i /\ loc \in Locs
    BY <1>4, <1>5 DEF Locs, Sources
  <2>2. p \in All(t)
    BY <1>3
  <2> HIDE DEF loc
  <2>3. Placed(full, full, loc, p)
    BY <2>1 DEF Placed, Found
  <2>4. RecordAt(full, full, loc) = p
    BY <2>1 DEF RecordAt
  <2>5. PackageAt(full, full, loc, p.branch) = p
    BY <2>2, <2>4, <1>2 DEF PackageAt
  <2> QED BY <2>3, <2>5 DEF ActiveOf, loc
<1>8. \A i \in DOMAIN full.shadow :
        /\ Placed(full, full, ShadowLocation(full, i), full.shadow[i])
        /\ ShadowOf(full, full, i) = full.shadow[i]
  <2> SUFFICES ASSUME NEW i \in DOMAIN full.shadow
               PROVE  /\ Placed(full, full, ShadowLocation(full, i), full.shadow[i])
                      /\ ShadowOf(full, full, i) = full.shadow[i]
    OBVIOUS
  <2> DEFINE loc == ShadowLocation(full, i)
             p == full.shadow[i]
  <2>1. loc.source = "base_shadow" /\ loc.index = i /\ loc \in Locs
    BY <1>4, <1>5 DEF Locs, Sources
  <2>2. p \in All(t)
    BY <1>3
  <2> HIDE DEF loc
  <2>3. Placed(full, full, loc, p)
    BY <2>1 DEF Placed, Found
  <2>4. RecordAt(full, full, loc) = p
    BY <2>1 DEF RecordAt
  <2>5. PackageAt(full, full, loc, p.branch) = p
    BY <2>2, <2>4, <1>2 DEF PackageAt
  <2> QED BY <2>3, <2>5 DEF ShadowOf, loc
<1>9. Shown(full, full) = [branches |-> full.branches, active |-> full.active,
                           shadow |-> full.shadow]
  <2>1. [i \in DOMAIN full.branches |-> BranchOf(full, full, i)] = full.branches
    BY <1>1, <1>6
  <2>2. [i \in DOMAIN full.active |-> ActiveOf(full, full, i)] = full.active
    BY <1>1, <1>7
  <2>3. [i \in DOMAIN full.shadow |-> ShadowOf(full, full, i)] = full.shadow
    BY <1>1, <1>8
  <2> QED BY <2>1, <2>2, <2>3, Zenon DEF Shown
<1> QED BY <1>6, <1>7, <1>8, <1>9 DEF Reads, full

\* The text of a package says which branch it is from.
LEMMA SameText ==
  ASSUME NEW t \in Trees, NEW p \in All(t), NEW q \in All(t), p.name = q.name, p.text = q.text
  PROVE  p = q
<1> DEFINE nb == BranchList(t)
<1>1. nb \in Seq(BranchRec) /\ Ranked(nb)
  BY BranchListFacts
<1> DEFINE i == p.branch
           j == q.branch
<1>2. /\ i \in DOMAIN nb /\ nb[i].name \in Int /\ p.text = <<nb[i].name, nb[i].oid>>
      /\ p = [name |-> p.name, branch |-> i, text |-> p.text]
  BY PackageFacts
<1>3. /\ j \in DOMAIN nb /\ nb[j].name \in Int /\ q.text = <<nb[j].name, nb[j].oid>>
      /\ q = [name |-> q.name, branch |-> j, text |-> q.text]
  BY PackageFacts
<1> HIDE DEF nb, i, j
<1>4. p.text[1] = nb[i].name /\ q.text[1] = nb[j].name
  BY <1>2, <1>3
<1>5. nb[i].name = nb[j].name
  BY <1>4
<1>7. ~(nb[i].name < nb[j].name) /\ ~(nb[j].name < nb[i].name)
  BY <1>2, <1>3, <1>5
<1>8. ~(i < j) /\ ~(j < i)
  BY <1>2, <1>3, <1>7, <1>1 DEF Ranked
<1>9. i = j
  BY <1>1, <1>2, <1>3, <1>8
<1> QED BY <1>2, <1>3, <1>9

\* What an input of a merge is made of.
LEMMA EntryShape ==
  ASSUME NEW b, NEW t \in Trees, NEW locations, NEW e \in Entries(b, t, locations)
  PROVE  /\ Bare(e) \in All(t) /\ Bare(e).name = e.name /\ Bare(e).text = e.text
         /\ e.branch \in DOMAIN BranchList(t)
         /\ e.location \in Locs /\ Found(b, e.location, e)
         /\ e.location.source = "inline_record" => locations[e.branch].source # "base_branch"
<1>1. PICK x \in All(t) : \E l \in Locs : e = Tagged(x, l)
  BY DEF Entries
<1>2. e.location \in Locs
  BY <1>1 DEF Tagged
<1>3. Bare(e) \in All(t)
  BY EntryFacts
<1>4. Bare(e).branch \in DOMAIN BranchList(t)
  BY <1>3, PackageFacts
<1>5. Bare(e).branch = e.branch /\ Bare(e).name = e.name /\ Bare(e).text = e.text
  BY DEF Bare
<1> QED BY <1>2, <1>3, <1>4, <1>5 DEF Entries

\* A list found in the base, place by place, is the base's list.
LEMMA IdenticalLists ==
  ASSUME NEW b, NEW t \in Trees, NEW locations,
         NEW s \in Seq(Entries(b, t, locations)), NEW list \in Seq(All(t)),
         NEW full \in Seq(All(t)), DOMAIN full = DOMAIN s,
         \A i \in DOMAIN s : Bare(s[i]) = full[i],
         Len(s) = Len(list),
         \A i \in DOMAIN s : list[i].name = s[i].name /\ list[i].text = s[i].text
  PROVE  list = full
<1>1. /\ DOMAIN s = 1..Len(s) /\ DOMAIN list = 1..Len(list) /\ DOMAIN full = 1..Len(full)
      /\ Len(s) \in Nat /\ Len(list) \in Nat /\ Len(full) \in Nat
  OBVIOUS
<1>2. ASSUME NEW i \in DOMAIN s
      PROVE  list[i] = full[i]
  <2>1. s[i] \in Entries(b, t, locations) /\ list[i] \in All(t) /\ full[i] \in All(t)
    BY <1>1
  <2>2. Bare(s[i]).name = s[i].name /\ Bare(s[i]).text = s[i].text
    BY DEF Bare
  <2>3. list[i].name = full[i].name /\ list[i].text = full[i].text
    BY <2>2
  <2> QED BY <2>1, <2>3, SameText
<1> QED BY <1>1, <1>2

\* merge.cpp restores the base only when the base is what a full build would be.
LEMMA CollapseExact ==
  ASSUME NEW told \in Trees, NEW t \in Trees, NEW t0 \in Trees, NEW g,
         Reads(g, FullBuild(t0), told)
  PROVE  LET b == FullBuild(t0)
             nb == BranchList(t)
             locations == BranchLocations(g, BranchList(told), nb)
         IN MatchesBaseExactly(b, locations, Merge(MergeInputs(g, b, nb))) => b = FullBuild(t)
<1> DEFINE b == FullBuild(t0)
           ob == BranchList(told)
           nb == BranchList(t)
           locations == BranchLocations(g, ob, nb)
           E == Entries(b, t, locations)
           m == Merge(MergeInputs(g, b, nb))
           full == FullBuild(t)
<1>1. /\ m.packages \in Seq(E) /\ m.shadows \in Seq(E)
      /\ \A i \in DOMAIN m.packages : Bare(m.packages[i]) = full.active[i]
      /\ DOMAIN full.active = DOMAIN m.packages
      /\ \A i \in DOMAIN m.shadows : Bare(m.shadows[i]) = full.shadow[i]
      /\ DOMAIN full.shadow = DOMAIN m.shadows
  BY UpdateContent
<1>2. /\ DOMAIN locations = DOMAIN nb
      /\ \A j \in DOMAIN nb : BranchFound(b, locations[j], nb[j])
      /\ locations = [j \in DOMAIN nb |-> locations[j]]
  BY LocationFacts DEF BranchLocations
<1>3. nb \in Seq(BranchRec)
  BY BranchListFacts
<1>4. /\ full = [kind |-> "snapshot", branches |-> nb, active |-> full.active, shadow |-> full.shadow]
      /\ full.active \in Seq(All(t)) /\ full.shadow \in Seq(All(t))
  BY FullBuildFacts
<1>5. /\ b = [kind |-> "snapshot", branches |-> BranchList(t0), active |-> b.active, shadow |-> b.shadow]
      /\ b.branches = BranchList(t0) /\ b.branches \in Seq(BranchRec)
      /\ b.active \in Seq(All(t0)) /\ b.shadow \in Seq(All(t0))
  BY FullBuildFacts
<1>6. All(t0) = PackageSet(BranchList(t0), DOMAIN BranchList(t0))
      /\ All(t) = PackageSet(nb, DOMAIN nb)
  BY DEF All
<1> HIDE DEF b, ob, nb, locations, m, full
<1> SUFFICES ASSUME MatchesBaseExactly(b, locations, m)
             PROVE  b = full
  BY DEF b, ob, nb, locations, m, full
<1>7. /\ Identical(locations, b.branches, "base_branch")
      /\ Identical(Locations(m.packages), b.active, "base_active")
      /\ Identical(Locations(m.shadows), b.shadow, "base_shadow")
  BY DEF MatchesBaseExactly
<1>8. nb = b.branches
  <2>1. DOMAIN nb = 1..Len(nb) /\ Len(nb) \in Nat
    BY <1>3
  <2>2. Len(locations) = Len(nb)
    BY <1>2, <2>1
  <2>3. Len(b.branches) = Len(nb) /\ DOMAIN b.branches = 1..Len(nb)
    <3>1. Len(locations) = Len(b.branches)
      BY <1>7 DEF Identical
    <3>2. DOMAIN b.branches = 1..Len(b.branches)
      BY <1>5
    <3> QED BY <2>2, <3>1, <3>2
  <2>4. ASSUME NEW j \in DOMAIN nb
        PROVE  nb[j] = b.branches[j]
    <3>1. locations[j] = [source |-> "base_branch", index |-> j]
      BY <1>2, <1>7 DEF Identical, Location
    <3>2. locations[j].source = "base_branch" /\ locations[j].index = j
      BY <3>1
    <3> QED BY <3>2, <1>2 DEF BranchFound
  <2> QED BY <1>3, <1>5, <2>1, <2>3, <2>4
<1>9. All(t0) = All(t)
  BY <1>5, <1>6, <1>8
<1>10. ASSUME NEW s \in Seq(E), NEW list, NEW source, Identical(Locations(s), list, source)
       PROVE  /\ Len(s) = Len(list)
              /\ \A i \in DOMAIN s : s[i].location.source = source /\ s[i].location.index = i
  <2>1. DOMAIN s = 1..Len(s) /\ Len(s) \in Nat
    OBVIOUS
  <2>2. Locations(s) = [i \in 1..Len(s) |-> s[i].location]
    BY <2>1 DEF Locations
  <2>3. Len(Locations(s)) = Len(s) /\ DOMAIN Locations(s) = DOMAIN s
    BY <2>1, <2>2
  <2>4. ASSUME NEW i \in DOMAIN s
        PROVE  s[i].location.source = source /\ s[i].location.index = i
    <3>1. s[i].location = [source |-> source, index |-> i]
      BY <1>10, <2>1, <2>2, <2>3 DEF Identical, Location
    <3> QED BY <3>1
  <2> QED BY <1>10, <2>3, <2>4 DEF Identical
<1>11. \A s \in Seq(E) : \A i \in DOMAIN s : Found(b, s[i].location, s[i])
  <2> SUFFICES ASSUME NEW s \in Seq(E), NEW i \in DOMAIN s
               PROVE  Found(b, s[i].location, s[i])
    OBVIOUS
  <2>1. s[i] \in E
    OBVIOUS
  <2> QED BY <2>1, EntryShape
<1>12. b.active = full.active
  <2> DEFINE s == m.packages
  <2>1. s \in Seq(E) /\ Identical(Locations(s), b.active, "base_active")
    BY <1>1, <1>7
  <2> HIDE DEF E, s
  <2>2. /\ Len(s) = Len(b.active)
        /\ \A i \in DOMAIN s : s[i].location.source = "base_active" /\ s[i].location.index = i
    BY <1>10, <2>1
  <2>3. \A i \in DOMAIN s : b.active[i].name = s[i].name /\ b.active[i].text = s[i].text
    BY <1>11, <2>1, <2>2 DEF Found
  <2>4. /\ s \in Seq(Entries(b, t, locations)) /\ b.active \in Seq(All(t))
        /\ DOMAIN full.active = DOMAIN s /\ \A i \in DOMAIN s : Bare(s[i]) = full.active[i]
    BY <1>1, <1>5, <1>9, <2>1 DEF E, s
  <2> QED BY <1>4, <2>2, <2>3, <2>4, IdenticalLists
<1>13. b.shadow = full.shadow
  <2> DEFINE s == m.shadows
  <2>1. s \in Seq(E) /\ Identical(Locations(s), b.shadow, "base_shadow")
    BY <1>1, <1>7
  <2> HIDE DEF E, s
  <2>2. /\ Len(s) = Len(b.shadow)
        /\ \A i \in DOMAIN s : s[i].location.source = "base_shadow" /\ s[i].location.index = i
    BY <1>10, <2>1
  <2>3. \A i \in DOMAIN s : b.shadow[i].name = s[i].name /\ b.shadow[i].text = s[i].text
    BY <1>11, <2>1, <2>2 DEF Found
  <2>4. /\ s \in Seq(Entries(b, t, locations)) /\ b.shadow \in Seq(All(t))
        /\ DOMAIN full.shadow = DOMAIN s /\ \A i \in DOMAIN s : Bare(s[i]) = full.shadow[i]
    BY <1>1, <1>5, <1>9, <2>1 DEF E, s
  <2> QED BY <1>4, <2>2, <2>3, <2>4, IdenticalLists
<1> QED BY <1>4, <1>5, <1>8, <1>12, <1>13

\* Intervals from 1 have one end.
LEMMA SameInterval ==
  ASSUME NEW m \in Nat, NEW n \in Nat, 1..m = 1..n
  PROVE  m = n
<1>1. m > 0 => m \in 1..n
  <2>1. m > 0 => m \in 1..m
    OBVIOUS
  <2> QED BY <2>1
<1>2. n > 0 => n \in 1..m
  <2>1. n > 0 => n \in 1..n
    OBVIOUS
  <2> QED BY <2>1
<1> QED BY <1>1, <1>2

\* If everything is found in the base, nothing is inline.
LEMMA CountNone ==
  ASSUME NEW s, \A i \in DOMAIN s : InBase(s[i].location)
  PROVE  CountInline(s) = 0
<1>1. {i \in DOMAIN s : ~InBase(s[i].location)} = {}
  OBVIOUS
<1> QED BY <1>1, FS_EmptySet DEF CountInline

\* When the base is what the refs say and no branch of the overlay is inline,
\* every record is found in the base at its own place.
LEMMA CollapseDue ==
  ASSUME NEW told \in Trees, NEW t \in Trees, NEW t0 \in Trees, NEW g,
         Reads(g, FullBuild(t0), told),
         FullBuild(t0).branches = FullBuild(t).branches,
         FullBuild(t0).active = FullBuild(t).active,
         FullBuild(t0).shadow = FullBuild(t).shadow,
         NewBranches(BranchList(t), BranchLocations(g, BranchList(told), BranchList(t))) = {}
  PROVE  LET b == FullBuild(t0)
             nb == BranchList(t)
             locations == BranchLocations(g, BranchList(told), nb)
             merged == Merge(MergeInputs(g, b, nb))
         IN MatchesBaseExactly(b, locations, merged) /\ OverlayRecords(locations, merged) = 0
<1> DEFINE b == FullBuild(t0)
           ob == BranchList(told)
           nb == BranchList(t)
           locations == BranchLocations(g, ob, nb)
           E == Entries(b, t, locations)
           m == Merge(MergeInputs(g, b, nb))
           full == FullBuild(t)
<1>1. /\ m.packages \in Seq(E) /\ m.shadows \in Seq(E)
      /\ \A i \in DOMAIN m.packages : Bare(m.packages[i]) = full.active[i]
      /\ DOMAIN full.active = DOMAIN m.packages
      /\ \A i \in DOMAIN m.shadows : Bare(m.shadows[i]) = full.shadow[i]
      /\ DOMAIN full.shadow = DOMAIN m.shadows
  BY UpdateContent
<1>2. /\ DOMAIN locations = DOMAIN nb
      /\ \A j \in DOMAIN nb : locations[j] \in Locs /\ BranchFound(b, locations[j], nb[j])
      /\ locations = [j \in DOMAIN nb |-> locations[j]]
  BY LocationFacts DEF BranchLocations
<1>3. nb \in Seq(BranchRec) /\ Ranked(nb)
  BY BranchListFacts
<1>4. /\ full.branches = nb
      /\ full.active \in Seq(All(t)) /\ full.shadow \in Seq(All(t))
      /\ Rising(full.active) /\ Rising(full.shadow)
      /\ ToSet(full.active) = Winners(All(t))
      /\ ToSet(full.shadow) = All(t) \ Winners(All(t))
      /\ Keyed(All(t))
  BY FullBuildFacts
<1>5. b.branches = full.branches /\ b.active = full.active /\ b.shadow = full.shadow
  OBVIOUS
<1>6. \A j \in DOMAIN nb : locations[j].source = "base_branch"
  BY DEF NewBranches
<1> HIDE DEF b, ob, nb, locations, m, full
<1>7. DOMAIN nb = 1..Len(nb) /\ Len(nb) \in Nat
  BY <1>3
<1>8. Identical(locations, b.branches, "base_branch")
  <2>1. ASSUME NEW j \in DOMAIN nb
        PROVE  locations[j] = Location("base_branch", j)
    <3> DEFINE k == locations[j].index
    <3>1. k \in DOMAIN nb /\ nb[k] = nb[j]
      BY <1>2, <1>4, <1>5, <1>6 DEF BranchFound
    <3>2. ~(nb[j].name < nb[j].name)
      <4>1. nb[j] \in BranchRec
        BY <1>3
      <4> QED BY <4>1, CatalogAssumption DEF BranchRec
    <3>3. ~(k < j) /\ ~(j < k)
      BY <3>1, <3>2, <1>3 DEF Ranked
    <3>4. k = j
      BY <3>1, <3>3, <1>7
    <3>5. locations[j] = [source |-> locations[j].source, index |-> locations[j].index]
      BY <1>2 DEF Locs
    <3> QED BY <3>4, <3>5, <1>6 DEF Location
  <2>2. Len(locations) = Len(nb)
    BY <1>2, <1>7
  <2> QED BY <2>1, <2>2, <1>2, <1>4, <1>5 DEF Identical
<1>9. ASSUME NEW s \in Seq(E), NEW i \in DOMAIN s
      PROVE  \/ /\ s[i].location.source = "base_active" /\ s[i].location.index \in DOMAIN full.active
                /\ full.active[s[i].location.index] = Bare(s[i])
             \/ /\ s[i].location.source = "base_shadow" /\ s[i].location.index \in DOMAIN full.shadow
                /\ full.shadow[s[i].location.index] = Bare(s[i])
  <2> DEFINE e == s[i]
             k == e.location.index
  <2>1. e \in Entries(b, t, locations)
    BY DEF E
  <2>2. /\ Bare(e) \in All(t) /\ Bare(e).name = e.name /\ Bare(e).text = e.text
        /\ e.branch \in DOMAIN nb /\ Found(b, e.location, e)
        /\ e.location.source = "inline_record" => locations[e.branch].source # "base_branch"
    <3> HIDE DEF e
    <3> QED BY <2>1, EntryShape DEF nb
  <2> HIDE DEF e
  <2>3. e.location.source # "inline_record"
    BY <2>2, <1>6
  <2>4. CASE /\ e.location.source = "base_active" /\ k \in DOMAIN full.active
             /\ full.active[k].name = e.name /\ full.active[k].text = e.text
    <3>1. full.active[k] \in All(t)
      BY <2>4, <1>4
    <3>2. full.active[k] = Bare(e)
      BY <3>1, <2>2, <2>4, SameText
    <3> QED BY <3>2, <2>4 DEF e
  <2>5. CASE /\ e.location.source = "base_shadow" /\ k \in DOMAIN full.shadow
             /\ full.shadow[k].name = e.name /\ full.shadow[k].text = e.text
    <3>1. full.shadow[k] \in All(t)
      BY <2>5, <1>4
    <3>2. full.shadow[k] = Bare(e)
      BY <3>1, <2>2, <2>5, SameText
    <3> QED BY <3>2, <2>5 DEF e
  <2> QED BY <2>2, <2>3, <2>4, <2>5, <1>5 DEF Found
<1>10. \A i \in DOMAIN full.active, k \in DOMAIN full.shadow : full.active[i] # full.shadow[k]
  BY <1>4 DEF ToSet
<1>11. ASSUME NEW list \in Seq(All(t)), Rising(list), NEW i \in DOMAIN list, NEW k \in DOMAIN list,
              list[i] = list[k]
       PROVE  i = k
  <2>1. list[i] \in All(t)
    BY <1>11
  <2>2. ~KeyLess(list[i], list[i])
    BY <2>1, <1>4 DEF Keyed, Keys, KeyLess
  <2>3. ~(i < k) /\ ~(k < i)
    BY <2>2, <1>11 DEF Rising
  <2>4. i \in Int /\ k \in Int
    BY <1>11
  <2> QED BY <2>3, <2>4
<1>12. ASSUME NEW i \in DOMAIN m.packages
       PROVE  m.packages[i].location = Location("base_active", i) /\ InBase(m.packages[i].location)
  <2> DEFINE s == m.packages
             k == s[i].location.index
  <2>1. Bare(s[i]) = full.active[i] /\ i \in DOMAIN full.active /\ s \in Seq(E) /\ i \in DOMAIN s
    BY <1>1
  <2> HIDE DEF E, s
  <2>2. s[i].location.source = "base_active" /\ k \in DOMAIN full.active
        /\ full.active[k] = full.active[i]
    BY <2>1, <1>9, <1>10
  <2>3. k = i
    BY <2>1, <2>2, <1>4, <1>11
  <2>4. s[i].location \in Locs
    <3>1. s[i] \in Entries(b, t, locations)
      BY <2>1 DEF E
    <3> QED BY <3>1, EntryShape
  <2>5. s[i].location = [source |-> "base_active", index |-> i]
    BY <2>2, <2>3, <2>4 DEF Locs
  <2> QED BY <2>2, <2>5 DEF s, Location, InBase
<1>13. ASSUME NEW i \in DOMAIN m.shadows
       PROVE  m.shadows[i].location = Location("base_shadow", i) /\ InBase(m.shadows[i].location)
  <2> DEFINE s == m.shadows
             k == s[i].location.index
  <2>1. Bare(s[i]) = full.shadow[i] /\ i \in DOMAIN full.shadow /\ s \in Seq(E) /\ i \in DOMAIN s
    BY <1>1
  <2> HIDE DEF E, s
  <2>2. s[i].location.source = "base_shadow" /\ k \in DOMAIN full.shadow
        /\ full.shadow[k] = full.shadow[i]
    BY <2>1, <1>9, <1>10
  <2>3. k = i
    BY <2>1, <2>2, <1>4, <1>11
  <2>4. s[i].location \in Locs
    <3>1. s[i] \in Entries(b, t, locations)
      BY <2>1 DEF E
    <3> QED BY <3>1, EntryShape
  <2>5. s[i].location = [source |-> "base_shadow", index |-> i]
    BY <2>2, <2>3, <2>4 DEF Locs
  <2> QED BY <2>2, <2>5 DEF s, Location, InBase
<1>14. ASSUME NEW s \in Seq(E), NEW list \in Seq(All(t)), NEW source, DOMAIN list = DOMAIN s,
              \A i \in DOMAIN s : s[i].location = Location(source, i)
       PROVE  Identical(Locations(s), list, source)
  <2>1. DOMAIN s = 1..Len(s) /\ Len(s) \in Nat /\ DOMAIN list = 1..Len(list) /\ Len(list) \in Nat
    BY <1>14
  <2>2. Len(list) = Len(s)
    <3>1. 1..Len(list) = 1..Len(s)
      BY <2>1, <1>14
    <3> QED BY <2>1, <3>1, SameInterval
  <2>3. Locations(s) = [i \in 1..Len(s) |-> s[i].location]
    BY <2>1 DEF Locations
  <2>4. Len(Locations(s)) = Len(s) /\ DOMAIN Locations(s) = DOMAIN s
    BY <2>1, <2>3
  <2>5. \A i \in DOMAIN s : Locations(s)[i] = Location(source, i)
    BY <1>14, <2>1, <2>3
  <2> QED BY <2>2, <2>4, <2>5 DEF Identical
<1>15. Identical(Locations(m.packages), b.active, "base_active")
  <2> HIDE DEF E
  <2> QED BY <1>1, <1>4, <1>5, <1>12, <1>14
<1>16. Identical(Locations(m.shadows), b.shadow, "base_shadow")
  <2> HIDE DEF E
  <2> QED BY <1>1, <1>4, <1>5, <1>13, <1>14
<1>17. OverlayRecords(locations, m) = 0
  <2>1. CountInline(m.packages) = 0 /\ CountInline(m.shadows) = 0
    BY <1>12, <1>13, CountNone
  <2>2. {i \in DOMAIN locations : locations[i].source # "base_branch"} = {}
    BY <1>2, <1>6
  <2>3. Cardinality({i \in DOMAIN locations : locations[i].source # "base_branch"}) = 0
    BY <2>2, FS_EmptySet
  <2> QED BY <2>1, <2>3 DEF OverlayRecords
<1> QED BY <1>8, <1>15, <1>16, <1>17 DEF MatchesBaseExactly, b, ob, nb, locations, m

-----------------------------------------------------------------------------
(* The inductive invariant                                                   *)

\* The branches that an overlay stores itself are those that have moved.
MovedAreStored ==
  IF output.kind = "overlay"
    THEN \A i \in DOMAIN BranchList(tree) :
           output.branches[i].source # "base_branch" <=> BranchList(tree)[i].name \in moved
    ELSE moved = {}

\* What is published is the full build of the refs, or an overlay of some full
\* build that is read as one.
CatalogInv ==
  /\ tree \in Trees
  /\ MovedAreStored
  /\ \/ output = NoFile
     \/ output = FullBuild(tree)
     \/ (\E t \in Trees : base = FullBuild(t)) /\ Sound(output, base, tree)
  /\ CollapseIsComplete

\* A snapshot is no overlay, and neither is no file.
LEMMA Kinds ==
  /\ \A t \in Trees : FullBuild(t).kind = "snapshot" /\ FullBuild(t) # NoFile
  /\ \A v, b, t : Sound(v, b, t) => v.kind = "overlay" /\ v # NoFile
<1>1. NoFile.kind = "none"
  BY DEF NoFile
<1>2. \A t \in Trees : FullBuild(t).kind = "snapshot"
  BY FullBuildFacts
<1>3. \A v, b, t : Sound(v, b, t) => v.kind = "overlay"
  BY DEF Sound
<1> QED BY <1>1, <1>2, <1>3

\* What is published reads as the full build of its refs, over a full build.
LEMMA PublishedReads ==
  ASSUME CatalogInv, Published
  PROVE  /\ Reads(output, BaseOf(output), tree)
         /\ \E t \in Trees : BaseOf(output) = FullBuild(t)
         /\ \/ output.kind = "snapshot" /\ output = FullBuild(tree)
               /\ BaseOf(output) = FullBuild(tree)
            \/ output.kind = "overlay" /\ Sound(output, base, tree) /\ BaseOf(output) = base
<1>1. CASE output = FullBuild(tree)
  <2>1. output.kind = "snapshot" /\ tree \in Trees
    BY <1>1, Kinds DEF CatalogInv
  <2>2. BaseOf(output) = FullBuild(tree)
    BY <1>1, <2>1 DEF BaseOf
  <2> QED BY <1>1, <2>1, <2>2, SnapshotReads
<1>2. CASE (\E t \in Trees : base = FullBuild(t)) /\ Sound(output, base, tree)
  <2>1. output.kind = "overlay"
    BY <1>2, Kinds
  <2>2. BaseOf(output) = base
    BY <2>1 DEF BaseOf
  <2> QED BY <1>2, <2>1, <2>2 DEF Sound
<1> QED BY <1>1, <1>2 DEF CatalogInv, Published

\* Before the first run nothing is published.
LEMMA CatalogInit == Init => CatalogInv
<1> SUFFICES ASSUME Init PROVE CatalogInv
  OBVIOUS
<1>1. tree \in Trees /\ output = NoFile /\ moved = {}
  BY DEF Init, Trees
<1>2. MovedAreStored
  BY <1>1 DEF MovedAreStored, NoFile
<1> QED BY <1>1, <1>2 DEF CatalogInv, CollapseIsComplete, Published

\* A full build keeps the invariant, whatever was published before.
LEMMA FullRunKeeps ==
  ASSUME NEW t \in Trees, FullRun(t)
  PROVE  CatalogInv'
<1>1. tree' = t /\ output' = FullBuild(t) /\ moved' = {}
  BY DEF FullRun
<1>2. output'.kind = "snapshot"
  BY <1>1, Kinds
<1>3. CollapseIsComplete'
  BY <1>2 DEF CollapseIsComplete
<1>4. output' = FullBuild(tree')
  BY <1>1
<1>5. MovedAreStored'
  BY <1>1, <1>2 DEF MovedAreStored
<1> QED BY <1>1, <1>3, <1>4, <1>5 DEF CatalogInv

\* What an update writes into an overlay itself is what the previous generation had
\* stored itself, and what has moved since.
LEMMA StoredMoved ==
  ASSUME CatalogInv, Published, NEW t \in Trees,
         NEW j \in DOMAIN BranchList(t)
  PROVE  LET c == BranchList(t)[j].name
         IN BranchLocations(output, BranchList(tree), BranchList(t))[j].source # "base_branch"
              <=> c \in moved \cup {n \in Branches : t[n] # tree[n]}
<1> DEFINE ob == BranchList(tree)
           nb == BranchList(t)
           locations == BranchLocations(output, ob, nb)
           c == nb[j].name
           gone == moved \cup {n \in Branches : t[n] # tree[n]}
<1> SUFFICES locations[j].source # "base_branch" <=> c \in gone
  OBVIOUS
<1>1. tree \in Trees /\ MovedAreStored
  BY DEF CatalogInv
<1>2. /\ \A i \in DOMAIN ob : ob[i] = nb[j] => locations[j] = BranchLocation(output, i)
      /\ nb[j] \notin ToSet(ob) => locations[j].source = "inline_record"
  <2>1. Reads(output, BaseOf(output), tree)
    BY PublishedReads
  <2> QED BY <2>1, <1>1, LocationFacts
<1>3. c \in Branches /\ t[c] # NoOid /\ nb[j] = [name |-> c, oid |-> t[c]]
  <2>1. nb[j] \in ToSet(nb)
    BY DEF ToSet
  <2>2. PICK n \in Branches : t[n] # NoOid /\ nb[j] = [name |-> n, oid |-> t[n]]
    BY <2>1, BranchListFacts
  <2> HIDE DEF nb
  <2>3. c = n
    BY <2>2
  <2> QED BY <2>2, <2>3
<1>4. nb[j] \in ToSet(ob) <=> tree[c] = t[c]
  <2>1. nb[j] \in ToSet(ob) <=> \E n \in Branches : tree[n] # NoOid /\ nb[j] = [name |-> n, oid |-> tree[n]]
    BY <1>1, BranchListFacts
  <2> HIDE DEF nb, ob, c
  <2>2. ASSUME NEW n \in Branches, nb[j] = [name |-> n, oid |-> tree[n]]
        PROVE  n = c /\ tree[c] = t[c]
    <3>1. [name |-> n, oid |-> tree[n]].name = n /\ [name |-> n, oid |-> tree[n]].oid = tree[n]
      OBVIOUS
    <3>2. [name |-> c, oid |-> t[c]].name = c /\ [name |-> c, oid |-> t[c]].oid = t[c]
      OBVIOUS
    <3> QED BY <2>2, <3>1, <3>2, <1>3
  <2> QED BY <2>1, <2>2, <1>3
<1> HIDE DEF nb, ob, locations, c
<1>5. CASE tree[c] # t[c]
  BY <1>2, <1>3, <1>4, <1>5
<1>6. CASE tree[c] = t[c]
  <2>1. PICK i \in DOMAIN ob : ob[i] = nb[j]
    BY <1>4, <1>6 DEF ToSet
  <2>2. locations[j] = BranchLocation(output, i) /\ ob[i].name = c
    BY <2>1, <1>2 DEF c
  <2>3. c \in gone <=> c \in moved
    BY <1>6
  <2>4. CASE output.kind = "overlay"
    <3>1. BranchLocation(output, i) = output.branches[i]
      BY <2>4 DEF BranchLocation
    <3>2. output.branches[i].source # "base_branch" <=> ob[i].name \in moved
      BY <1>1, <2>4 DEF MovedAreStored, ob
    <3> QED BY <2>2, <2>3, <3>1, <3>2
  <2>5. CASE output.kind # "overlay"
    <3>1. output.kind = "snapshot" /\ moved = {}
      BY <2>5, <1>1, PublishedReads DEF MovedAreStored
    <3>2. BranchLocation(output, i).source = "base_branch"
      BY <3>1 DEF BranchLocation, Location
    <3> QED BY <2>2, <2>3, <3>1, <3>2
  <2> QED BY <2>4, <2>5
<1> QED BY <1>5, <1>6

\* An update that collapses, compacts or writes an overlay keeps the invariant.
LEMMA IncrementalRunKeeps ==
  ASSUME CatalogInv, NEW t \in Trees, IncrementalRun(t)
  PROVE  CatalogInv'
<1> DEFINE b == BaseOf(output)
           ob == BranchList(tree)
           nb == BranchList(t)
           locations == BranchLocations(output, ob, nb)
           merged == Merge(MergeInputs(output, b, nb))
           full == FullBuild(t)
           v == Overlay(nb, locations, merged)
<1>1. Published /\ tree \in Trees
  BY DEF IncrementalRun, Published, CatalogInv
<1>2. /\ Reads(output, b, tree)
      /\ \E t0 \in Trees : b = FullBuild(t0)
      /\ \/ output.kind = "snapshot" /\ b = FullBuild(tree)
         \/ output.kind = "overlay" /\ b = base
  BY <1>1, PublishedReads
<1>3. PICK t0 \in Trees : b = FullBuild(t0)
  BY <1>2
<1>4. [i \in DOMAIN output.branches |-> BranchOf(output, b, i)] = ob
  <2>1. FullBuild(tree).branches = ob
    BY <1>1, FullBuildFacts
  <2> HIDE DEF b, ob
  <2> QED BY <2>1, <1>2 DEF Reads, Shown
<1>5. /\ nb # ob /\ tree' = t
      /\ \/ /\ output.kind = "overlay" /\ MatchesBaseExactly(b, locations, merged)
            /\ output' = base /\ base' = base /\ moved' = {}
         \/ /\ output' = Snapshot(nb, Expand(merged.packages), Expand(merged.shadows))
            /\ base' = base /\ moved' = {}
         \/ /\ ~(output.kind = "overlay" /\ OverlayRecords(locations, merged) = 0
                 /\ MatchesBaseExactly(b, locations, merged))
            /\ output' = v /\ base' = b
            /\ moved' = moved \cup {n \in Branches : t[n] # tree[n]}
  BY <1>4, Zenon DEF IncrementalRun
<1>6. CASE /\ output.kind = "overlay" /\ MatchesBaseExactly(b, locations, merged)
           /\ output' = base /\ base' = base /\ moved' = {}
  <2>1. b = base
    BY <1>2, <1>6
  <2>2. b = full
    <3>1. Reads(output, FullBuild(t0), tree)
      BY <1>2, <1>3
    <3>2. MatchesBaseExactly(FullBuild(t0), BranchLocations(output, BranchList(tree), BranchList(t)),
                             Merge(MergeInputs(output, FullBuild(t0), BranchList(t))))
      BY <1>3, <1>6
    <3> QED BY <3>1, <3>2, <1>1, <1>3, CollapseExact
  <2>3. output' = FullBuild(tree')
    BY <2>1, <2>2, <1>5, <1>6
  <2>4. output'.kind = "snapshot"
    BY <2>1, <2>2, <1>6, Kinds
  <2>5. MovedAreStored'
    BY <2>4, <1>6 DEF MovedAreStored
  <2> QED BY <2>3, <2>4, <2>5, <1>5 DEF CatalogInv, CollapseIsComplete
<1>7. CASE /\ output' = Snapshot(nb, Expand(merged.packages), Expand(merged.shadows))
           /\ moved' = {}
  <2>1. Expand(merged.packages) = full.active /\ Expand(merged.shadows) = full.shadow
    BY <1>1, <1>2, UpdateContent
  <2>2. full = [kind |-> "snapshot", branches |-> nb, active |-> full.active, shadow |-> full.shadow]
    BY FullBuildFacts
  <2>3. output' = full
    BY <1>7, <2>1, <2>2 DEF Snapshot
  <2>4. output' = FullBuild(tree') /\ output'.kind = "snapshot"
    BY <2>3, <1>5, Kinds
  <2>5. MovedAreStored'
    BY <2>4, <1>7 DEF MovedAreStored
  <2> QED BY <2>4, <2>5, <1>5 DEF CatalogInv, CollapseIsComplete
<1>8. CASE /\ ~(output.kind = "overlay" /\ OverlayRecords(locations, merged) = 0
                /\ MatchesBaseExactly(b, locations, merged))
           /\ output' = v /\ base' = b
           /\ moved' = moved \cup {n \in Branches : t[n] # tree[n]}
  <2>1. Sound(v, b, t)
    BY <1>1, <1>2, OverlayReads
  <2>2. v.inlineBranches # <<>> \/ Shown(v, b) # Shown(b, b)
    <3> SUFFICES ASSUME v.inlineBranches = <<>>, Shown(v, b) = Shown(b, b)
                 PROVE  FALSE
      OBVIOUS
    <3>1. /\ Shown(v, b) = [branches |-> full.branches, active |-> full.active,
                            shadow |-> full.shadow]
          /\ Shown(b, b) = [branches |-> b.branches, active |-> b.active, shadow |-> b.shadow]
      <4>1. Reads(b, b, t0) /\ b = FullBuild(t0)
        BY <1>3, SnapshotReads
      <4> HIDE DEF v, b
      <4> QED BY <2>1, <4>1 DEF Sound, Reads
    <3>2. b.branches = full.branches /\ b.active = full.active /\ b.shadow = full.shadow
      <4> HIDE DEF v, b, full
      <4> DEFINE x == Shown(v, b)
                 y == Shown(b, b)
      <4>1. /\ x.branches = full.branches /\ x.active = full.active /\ x.shadow = full.shadow
            /\ y.branches = b.branches /\ y.active = b.active /\ y.shadow = b.shadow
        <5>1. /\ x = [branches |-> full.branches, active |-> full.active, shadow |-> full.shadow]
              /\ y = [branches |-> b.branches, active |-> b.active, shadow |-> b.shadow]
          BY <3>1
        <5> HIDE DEF x, y
        <5> QED BY <5>1
      <4>2. x = y
        OBVIOUS
      <4> HIDE DEF x, y
      <4> QED BY <4>1, <4>2
    <3>3. NewBranches(nb, locations) = {}
      <4> DEFINE I == NewBranches(nb, locations)
      <4>1. [k \in DOMAIN Ascending(I) |-> nb[Ascending(I)[k]]] = <<>>
        <5>1. v.inlineBranches = [k \in DOMAIN Ascending(I) |-> nb[Ascending(I)[k]]]
          <6> HIDE DEF nb, locations, merged
          <6> QED BY OverlayIs
        <5> QED BY <5>1
      <4>2. nb \in Seq(BranchRec) /\ I \subseteq DOMAIN nb
        BY BranchListFacts DEF NewBranches
      <4> HIDE DEF I, nb
      <4>3. I \in SUBSET Int /\ IsFiniteSet(I)
        BY <4>2, FiniteSeq, FS_Subset
      <4>4. ToSet(Ascending(I)) = I
        BY <4>3, AscendingFacts
      <4>5. DOMAIN Ascending(I) = {}
        BY <4>1
      <4> QED BY <4>4, <4>5 DEF ToSet, I
    <3>4. CASE output.kind = "snapshot" /\ b = FullBuild(tree)
      <4>1. FullBuild(tree).branches = ob /\ full.branches = nb
        BY <1>1, FullBuildFacts
      <4> QED BY <3>2, <3>4, <4>1, <1>5
    <3>5. CASE output.kind = "overlay"
      <4>1. /\ Reads(output, FullBuild(t0), tree)
            /\ FullBuild(t0).branches = FullBuild(t).branches
            /\ FullBuild(t0).active = FullBuild(t).active
            /\ FullBuild(t0).shadow = FullBuild(t).shadow
        BY <1>2, <1>3, <3>2
      <4>2. NewBranches(BranchList(t),
                        BranchLocations(output, BranchList(tree), BranchList(t))) = {}
        BY <3>3
      <4>3. LET m == Merge(MergeInputs(output, FullBuild(t0), BranchList(t)))
                l == BranchLocations(output, BranchList(tree), BranchList(t))
            IN MatchesBaseExactly(FullBuild(t0), l, m) /\ OverlayRecords(l, m) = 0
        BY <4>1, <4>2, <1>1, CollapseDue
      <4> QED BY <4>3, <1>3, <1>8, <3>5
    <3> QED BY <3>4, <3>5, <1>2
  <2>3. Sound(output', base', tree') /\ base' = FullBuild(t0) /\ tree' \in Trees
    BY <2>1, <1>3, <1>5, <1>8
  <2>4. \A j \in DOMAIN nb :
          v.branches[j].source # "base_branch" <=> locations[j].source # "base_branch"
    <3>1. v.branches = [j \in DOMAIN nb |->
                          IF locations[j].source # "base_branch"
                          THEN Location("inline_record", IndexIn(Ascending(NewBranches(nb, locations)), j))
                          ELSE locations[j]]
      <4> HIDE DEF nb, locations, merged
      <4> QED BY OverlayIs
    <3> HIDE DEF v, nb, locations
    <3> QED BY <3>1 DEF Location
  <2>5. MovedAreStored'
    <3>1. \A j \in DOMAIN nb : locations[j].source # "base_branch" <=> nb[j].name \in moved'
      BY <1>1, <1>8, StoredMoved
    <3>2. output' = v /\ tree' = t /\ output'.kind = "overlay"
      BY <2>1, <1>5, <1>8 DEF Sound
    <3>3. BranchList(tree') = nb
      BY <3>2
    <3> HIDE DEF v, nb, locations
    <3> QED BY <2>4, <3>1, <3>2, <3>3 DEF MovedAreStored
  <2>6. CollapseIsComplete'
    <3>1. StoresWhatMoved'
      <4>1. [i \in DOMAIN v.branches |-> BranchOf(v, b, i)] = nb
        <5>1. FullBuild(t).branches = nb
          BY FullBuildFacts
        <5> HIDE DEF v, b, nb
        <5> QED BY <5>1, <2>1 DEF Sound, Reads, Shown
      <4>2. \A i \in DOMAIN v.branches :
              v.branches[i].source \in {"base_branch", "inline_record"}
        <5> HIDE DEF v, b
        <5> QED BY <2>1 DEF Sound, ValidBranchRef
      <4>3. output' = v /\ base' = b /\ tree' = t /\ output'.kind = "overlay"
        BY <2>1, <1>5, <1>8 DEF Sound
      <4>4. BranchList(tree') = nb
        BY <4>3
      <4>5. DOMAIN v.branches = DOMAIN nb /\ \A i \in DOMAIN v.branches : BranchOf(v, b, i) = nb[i]
        <5> HIDE DEF v, b, nb
        <5> QED BY <4>1
      <4> HIDE DEF v, b, nb
      <4> QED BY <4>2, <4>3, <4>4, <4>5, <2>5 DEF MovedAreStored, StoresWhatMoved
    <3>2. v.inlineBranches # <<>> => \E c \in moved' : tree'[c] # NoOid
      <4>1. v.inlineBranches = [k \in DOMAIN Ascending(NewBranches(nb, locations)) |->
                                  nb[Ascending(NewBranches(nb, locations))[k]]]
        <5> HIDE DEF nb, locations, merged
        <5> QED BY OverlayIs
      <4>2. ASSUME NewBranches(nb, locations) = {} PROVE v.inlineBranches = <<>>
        <5>1. Ascending({}) = <<>>
          BY AscendingFacts, FS_EmptySet
        <5> HIDE DEF v, nb, locations
        <5> QED BY <4>1, <4>2, <5>1
      <4>3. ASSUME NEW j \in NewBranches(nb, locations)
            PROVE  nb[j].name \in moved' /\ tree'[nb[j].name] # NoOid
        <5>1. j \in DOMAIN nb /\ nb[j].name \in moved'
          BY <1>1, <1>8, <4>3, StoredMoved DEF NewBranches
        <5>2. nb[j] \in ToSet(nb)
          BY <5>1 DEF ToSet
        <5>3. PICK n \in Branches : t[n] # NoOid /\ nb[j] = [name |-> n, oid |-> t[n]]
          BY <5>2, BranchListFacts
        <5> HIDE DEF nb
        <5> QED BY <5>1, <5>3, <1>5
      <4> QED BY <4>2, <4>3
    <3> HIDE DEF v, b
    <3> QED BY <2>2, <3>1, <3>2, <1>8 DEF CollapseIsComplete
  <2> QED BY <2>3, <2>5, <2>6 DEF CatalogInv
<1> QED BY <1>5, <1>6, <1>7, <1>8

\* Every run keeps the invariant, and no run changes nothing.
LEMMA CatalogStep == CatalogInv /\ [Next]_vars => CatalogInv'
<1> SUFFICES ASSUME CatalogInv, [Next]_vars
             PROVE  CatalogInv'
  OBVIOUS
<1>1. CASE UNCHANGED vars
  BY <1>1 DEF vars, CatalogInv, CollapseIsComplete, Published, MovedAreStored, StoresWhatMoved
<1>2. ASSUME NEW t \in Trees, FullRun(t) \/ IncrementalRun(t)
      PROVE  CatalogInv'
  BY <1>2, FullRunKeeps, IncrementalRunKeeps
<1> QED BY <1>1, <1>2 DEF Next

\* After any number of full builds and updates of any refs, what is published is
\* the full build of the last refs or an overlay that is read as one (indexer.cpp:508-686).
THEOREM Invariance == Spec => []CatalogInv
<1> QED BY CatalogInit, CatalogStep, PTL DEF Spec

\* However many updates, compactions and collapses lie behind it, what is published
\* shows what a full build of the same refs would show, in the same order, for every set
\* of branches, names and commits and every limit of overlay records (merge.cpp:252-278,
\* indexer.cpp:508-686, generation.cpp:782-876).
THEOREM FullBuildShown == Spec => []ShowsFullBuild
<1>1. CatalogInv => ShowsFullBuild
  <2> SUFFICES ASSUME CatalogInv, Published PROVE ShowsFullBuild
    BY DEF ShowsFullBuild
  <2>1. Reads(output, BaseOf(output), tree)
    BY PublishedReads
  <2> QED BY <2>1 DEF Reads, ShowsFullBuild
<1> QED BY <1>1, Invariance, PTL

\* An overlay stores itself exactly the branches that have moved since its base was written,
\* and one that shows no more than its base has such a branch among those it shows: when
\* only additions are deleted again, the base is restored (indexer.cpp:535-542, 598-635).
THEOREM CollapseComplete == Spec => []CollapseIsComplete
<1>1. CatalogInv => CollapseIsComplete
  BY DEF CatalogInv
<1> QED BY <1>1, Invariance, PTL

-----------------------------------------------------------------------------
(* What a reader checks                                                      *)

\* The first n names grow.
Climbing(names, n) ==
  /\ \A i \in 1..n : names[i] \in Int
  /\ \A i, j \in 1..n : i < j => names[i] < names[j]

\* References that lead to growing names pass the check of their order.
LEMMA OrderedRefs ==
  ASSUME NEW R, NEW refs \in Seq(R), NEW source, NEW names, Climbing(names, Len(refs)),
         NEW n \in Nat, NEW bases, Climbing(bases, n),
         \A i \in DOMAIN refs : refs[i].source = source =>
           refs[i].index \in 1..n /\ bases[refs[i].index] = names[i]
  PROVE  Ordered(refs, source, names)
<1>1. DOMAIN refs = 1..Len(refs) /\ Len(refs) \in Nat
  OBVIOUS
<1>2. ASSUME NEW i \in DOMAIN refs, NEW j \in DOMAIN refs, i < j,
             refs[i].source = source, refs[j].source = source
      PROVE  refs[i].index < refs[j].index
  <2> DEFINE k == refs[i].index
             l == refs[j].index
  <2>1. k \in 1..n /\ l \in 1..n /\ bases[k] = names[i] /\ bases[l] = names[j]
    BY <1>2
  <2>2. names[i] < names[j] /\ names[i] \in Int /\ names[j] \in Int
    BY <1>1, <1>2 DEF Climbing
  <2> HIDE DEF k, l
  <2>3. l < k => bases[l] < bases[k]
    BY <2>1 DEF Climbing
  <2>4. k # l /\ ~(l < k)
    BY <2>1, <2>2, <2>3
  <2>5. k < l
    BY <2>1, <2>4
  <2> QED BY <2>5 DEF k, l
<1>3. ASSUME NEW i \in DOMAIN refs
      PROVE  /\ i > 1 => names[i - 1] < names[i]
             /\ i < Len(refs) => names[i] < names[i + 1]
  <2>1. i > 1 => i - 1 \in 1..Len(refs) /\ i - 1 < i
    BY <1>1
  <2>2. i < Len(refs) => i + 1 \in 1..Len(refs) /\ i < i + 1
    BY <1>1
  <2> QED BY <1>1, <2>1, <2>2 DEF Climbing
<1> QED BY <1>2, <1>3 DEF Ordered

\* The names of branches and of active packages of a full build grow, those of
\* shadows do not fall.
LEMMA FullBuildClimbs ==
  ASSUME NEW t \in Trees
  PROVE  LET full == FullBuild(t)
         IN /\ Climbing([i \in DOMAIN full.branches |-> full.branches[i].name], Len(full.branches))
            /\ Climbing([i \in DOMAIN full.active |-> full.active[i].name], Len(full.active))
            /\ \A i \in 2..Len(full.shadow) : full.shadow[i - 1].name <= full.shadow[i].name
            /\ Len(full.branches) \in Nat /\ DOMAIN full.branches = 1..Len(full.branches)
            /\ Len(full.active) \in Nat /\ DOMAIN full.active = 1..Len(full.active)
            /\ Len(full.shadow) \in Nat /\ DOMAIN full.shadow = 1..Len(full.shadow)
            /\ \A i \in DOMAIN full.active : full.active[i].branch \in DOMAIN full.branches
            /\ \A i \in DOMAIN full.shadow : full.shadow[i].branch \in DOMAIN full.branches
<1> DEFINE full == FullBuild(t)
<1>1. /\ full.branches = BranchList(t)
      /\ full.branches \in Seq(BranchRec) /\ Ranked(full.branches)
      /\ full.active \in Seq(All(t)) /\ Rising(full.active)
      /\ ToSet(full.active) = Winners(All(t))
      /\ full.shadow \in Seq(All(t)) /\ Rising(full.shadow)
      /\ Keyed(All(t))
      /\ \A p \in All(t) : p.branch \in DOMAIN BranchList(t)
  BY FullBuildFacts
<1> HIDE DEF full
<1>2. /\ Len(full.branches) \in Nat /\ DOMAIN full.branches = 1..Len(full.branches)
      /\ Len(full.active) \in Nat /\ DOMAIN full.active = 1..Len(full.active)
      /\ Len(full.shadow) \in Nat /\ DOMAIN full.shadow = 1..Len(full.shadow)
  BY <1>1
<1>3. /\ \A i \in DOMAIN full.active : full.active[i] \in All(t)
      /\ \A i \in DOMAIN full.shadow : full.shadow[i] \in All(t)
      /\ \A i \in DOMAIN full.branches : full.branches[i] \in BranchRec
  BY <1>1
<1>4. Climbing([i \in DOMAIN full.branches |-> full.branches[i].name], Len(full.branches))
  <2>1. \A i \in DOMAIN full.branches : full.branches[i].name \in Int
    BY <1>3, CatalogAssumption DEF BranchRec
  <2> QED BY <2>1, <1>1, <1>2 DEF Ranked, Climbing
<1>5. Climbing([i \in DOMAIN full.active |-> full.active[i].name], Len(full.active))
  <2>1. \A i \in DOMAIN full.active : full.active[i].name \in Int /\ full.active[i].branch \in Int
    BY <1>1, <1>3 DEF Keyed, Keys
  <2>2. ASSUME NEW i \in DOMAIN full.active, NEW j \in DOMAIN full.active, i < j
        PROVE  full.active[i].name < full.active[j].name
    <3>1. KeyLess(full.active[i], full.active[j])
      BY <1>1, <2>2 DEF Rising
    <3>2. full.active[i] \in Winners(All(t)) /\ full.active[j] \in All(t)
      BY <1>1, <1>3 DEF ToSet
    <3>3. full.active[j].name = full.active[i].name => full.active[j].branch <= full.active[i].branch
      BY <3>2 DEF Winners
    <3> QED BY <2>1, <3>1, <3>3 DEF KeyLess
  <2> QED BY <2>1, <2>2, <1>2 DEF Climbing
<1>6. \A i \in 2..Len(full.shadow) : full.shadow[i - 1].name <= full.shadow[i].name
  <2> SUFFICES ASSUME NEW i \in 2..Len(full.shadow)
               PROVE  full.shadow[i - 1].name <= full.shadow[i].name
    OBVIOUS
  <2>1. i \in DOMAIN full.shadow /\ i - 1 \in DOMAIN full.shadow /\ i - 1 < i
    BY <1>2
  <2>2. KeyLess(full.shadow[i - 1], full.shadow[i])
    BY <1>1, <2>1 DEF Rising
  <2>3. full.shadow[i - 1].name \in Int /\ full.shadow[i].name \in Int
    BY <1>1, <1>3, <2>1 DEF Keyed, Keys
  <2> QED BY <2>2, <2>3 DEF KeyLess
<1> QED BY <1>1, <1>2, <1>3, <1>4, <1>5, <1>6 DEF full

\* The constructor accepts a full build.
LEMMA FullBuildValid ==
  ASSUME NEW t \in Trees
  PROVE  ValidSnapshot(FullBuild(t))
<1> DEFINE full == FullBuild(t)
           n == Len(full.branches)
<1>1. /\ Climbing([i \in DOMAIN full.branches |-> full.branches[i].name], n)
      /\ n \in Nat /\ DOMAIN full.branches = 1..n
      /\ \A i \in DOMAIN full.active : full.active[i].branch \in DOMAIN full.branches
      /\ \A i \in DOMAIN full.shadow : full.shadow[i].branch \in DOMAIN full.branches
  BY FullBuildClimbs
<1> HIDE DEF full, n
<1>2. \A i \in 2..n : full.branches[i - 1].name < full.branches[i].name
  <2> SUFFICES ASSUME NEW i \in 2..n PROVE full.branches[i - 1].name < full.branches[i].name
    OBVIOUS
  <2>1. i \in 1..n /\ i - 1 \in 1..n /\ i - 1 < i
    BY <1>1
  <2> QED BY <2>1, <1>1 DEF Climbing
<1> QED BY <1>1, <1>2 DEF ValidSnapshot, full, n

\* The constructor accepts an overlay that is read as a full build.
LEMMA SoundValid ==
  ASSUME NEW t0 \in Trees, NEW t \in Trees, NEW v, Sound(v, FullBuild(t0), t)
  PROVE  ValidOverlay(v, FullBuild(t0))
<1> DEFINE b == FullBuild(t0)
           full == FullBuild(t)
           bnames == [i \in DOMAIN v.branches |-> BranchOf(v, b, i).name]
           anames == [i \in DOMAIN v.active |-> ActiveOf(v, b, i).name]
           bbases == [i \in DOMAIN b.branches |-> b.branches[i].name]
           abases == [i \in DOMAIN b.active |-> b.active[i].name]
<1>1. /\ Climbing([i \in DOMAIN full.branches |-> full.branches[i].name], Len(full.branches))
      /\ Climbing([i \in DOMAIN full.active |-> full.active[i].name], Len(full.active))
      /\ \A i \in 2..Len(full.shadow) : full.shadow[i - 1].name <= full.shadow[i].name
      /\ Len(full.branches) \in Nat /\ DOMAIN full.branches = 1..Len(full.branches)
      /\ Len(full.active) \in Nat /\ DOMAIN full.active = 1..Len(full.active)
      /\ Len(full.shadow) \in Nat /\ DOMAIN full.shadow = 1..Len(full.shadow)
  BY FullBuildClimbs
<1>2. /\ Climbing(bbases, Len(b.branches)) /\ Climbing(abases, Len(b.active))
      /\ Len(b.branches) \in Nat /\ DOMAIN b.branches = 1..Len(b.branches)
      /\ Len(b.active) \in Nat /\ DOMAIN b.active = 1..Len(b.active)
  BY FullBuildClimbs
<1> HIDE DEF b, full
<1>3. /\ v.branches \in Seq(Locs) /\ v.active \in Seq(Refs) /\ v.shadow \in Seq(Refs)
      /\ \A i \in DOMAIN v.branches : ValidBranchRef(v, b, v.branches[i])
      /\ \A i \in DOMAIN v.active : ValidPackageRef(v, b, v.active[i])
      /\ \A i \in DOMAIN v.shadow : ValidPackageRef(v, b, v.shadow[i])
      /\ Reads(v, b, t) /\ v.kind = "overlay"
  BY DEF Sound, b
<1>4. /\ [i \in DOMAIN v.branches |-> BranchOf(v, b, i)] = full.branches
      /\ [i \in DOMAIN v.active |-> ActiveOf(v, b, i)] = full.active
      /\ [i \in DOMAIN v.shadow |-> ShadowOf(v, b, i)] = full.shadow
  BY <1>3 DEF Reads, Shown, full
<1>5. /\ DOMAIN v.branches = DOMAIN full.branches /\ DOMAIN v.active = DOMAIN full.active
      /\ DOMAIN v.shadow = DOMAIN full.shadow
  <2>1. /\ DOMAIN [i \in DOMAIN v.branches |-> BranchOf(v, b, i)] = DOMAIN v.branches
        /\ DOMAIN [i \in DOMAIN v.active |-> ActiveOf(v, b, i)] = DOMAIN v.active
        /\ DOMAIN [i \in DOMAIN v.shadow |-> ShadowOf(v, b, i)] = DOMAIN v.shadow
    OBVIOUS
  <2> QED BY <2>1, <1>4
<1>6. /\ \A i \in DOMAIN v.branches : BranchOf(v, b, i) = full.branches[i]
      /\ \A i \in DOMAIN v.active : ActiveOf(v, b, i) = full.active[i]
      /\ \A i \in DOMAIN v.shadow : ShadowOf(v, b, i) = full.shadow[i]
  <2>1. /\ \A i \in DOMAIN v.branches : [j \in DOMAIN v.branches |-> BranchOf(v, b, j)][i] = BranchOf(v, b, i)
        /\ \A i \in DOMAIN v.active : [j \in DOMAIN v.active |-> ActiveOf(v, b, j)][i] = ActiveOf(v, b, i)
        /\ \A i \in DOMAIN v.shadow : [j \in DOMAIN v.shadow |-> ShadowOf(v, b, j)][i] = ShadowOf(v, b, i)
    OBVIOUS
  <2> QED BY <2>1, <1>4
<1>7. Len(v.branches) = Len(full.branches) /\ Len(v.active) = Len(full.active)
      /\ Len(v.shadow) = Len(full.shadow)
  <2>1. /\ DOMAIN v.branches = 1..Len(v.branches) /\ Len(v.branches) \in Nat
        /\ DOMAIN v.active = 1..Len(v.active) /\ Len(v.active) \in Nat
        /\ DOMAIN v.shadow = 1..Len(v.shadow) /\ Len(v.shadow) \in Nat
    BY <1>3
  <2> QED BY <2>1, <1>1, <1>5, SameInterval
<1>8. Ordered(v.branches, "base_branch", bnames)
  <2>1. bnames = [i \in DOMAIN full.branches |-> full.branches[i].name]
    BY <1>5, <1>6
  <2>2. Climbing(bnames, Len(v.branches))
    BY <2>1, <1>1, <1>7
  <2>3. ASSUME NEW i \in DOMAIN v.branches, v.branches[i].source = "base_branch"
        PROVE  /\ v.branches[i].index \in 1..Len(b.branches)
               /\ bbases[v.branches[i].index] = bnames[i]
    <3>1. v.branches[i].index \in DOMAIN b.branches
      BY <2>3, <1>3 DEF ValidBranchRef
    <3>2. BranchOf(v, b, i) = b.branches[v.branches[i].index]
      BY <2>3, <1>3 DEF BranchOf, BranchAt, BranchLocation
    <3> QED BY <3>1, <3>2, <1>2
  <2> HIDE DEF bnames, bbases
  <2> QED BY <2>2, <2>3, <1>2, <1>3, OrderedRefs
<1>9. Ordered(v.active, "base_active", anames)
  <2>1. anames = [i \in DOMAIN full.active |-> full.active[i].name]
    BY <1>5, <1>6
  <2>2. Climbing(anames, Len(v.active))
    BY <2>1, <1>1, <1>7
  <2>3. ASSUME NEW i \in DOMAIN v.active, v.active[i].source = "base_active"
        PROVE  /\ v.active[i].index \in 1..Len(b.active)
               /\ abases[v.active[i].index] = anames[i]
    <3>1. v.active[i].index \in DOMAIN b.active
      BY <2>3, <1>3 DEF ValidPackageRef
    <3>2. ActiveOf(v, b, i).name = b.active[v.active[i].index].name
      BY <2>3, <1>3 DEF ActiveOf, PackageAt, RecordAt, ActiveLocation, Location
    <3> QED BY <3>1, <3>2, <1>2
  <2> HIDE DEF anames, abases
  <2> QED BY <2>2, <2>3, <1>2, <1>3, OrderedRefs
<1>10. \A i \in 2..Len(v.shadow) : ShadowOf(v, b, i - 1).name <= ShadowOf(v, b, i).name
  <2> SUFFICES ASSUME NEW i \in 2..Len(v.shadow)
               PROVE  ShadowOf(v, b, i - 1).name <= ShadowOf(v, b, i).name
    OBVIOUS
  <2>1. i \in DOMAIN v.shadow /\ i - 1 \in DOMAIN v.shadow
    BY <1>1, <1>5, <1>7
  <2> QED BY <2>1, <1>1, <1>6, <1>7
<1> QED BY <1>3, <1>8, <1>9, <1>10 DEF ValidOverlay, ValidBranchRef, b

\* No reader refuses what any number of runs have published: no reference leaves the
\* base or the branch list, and names and references are in their order
\* (generation.cpp:281-398).
THEOREM Acceptance == Spec => []ReaderAccepts
<1>1. CatalogInv => ReaderAccepts
  <2> SUFFICES ASSUME CatalogInv, Published PROVE Accepted(output, BaseOf(output))
    BY DEF ReaderAccepts
  <2>1. tree \in Trees
    BY DEF CatalogInv
  <2>2. CASE output.kind = "snapshot" /\ BaseOf(output) = FullBuild(tree)
    BY <2>1, <2>2, FullBuildValid DEF Accepted
  <2>3. CASE output.kind = "overlay" /\ Sound(output, base, tree) /\ BaseOf(output) = base
    <3>1. PICK t0 \in Trees : base = FullBuild(t0)
      BY <2>3, PublishedReads
    <3>2. ValidSnapshot(base) /\ ValidOverlay(output, base)
      BY <2>1, <2>3, <3>1, FullBuildValid, SoundValid
    <3> QED BY <2>3, <3>2 DEF Accepted
  <2> QED BY <2>2, <2>3, PublishedReads
<1> QED BY <1>1, Invariance, PTL

-----------------------------------------------------------------------------
(* Lists of results                                                          *)

\* A sequence of growing elements.
Climbs(s) == \A i, j \in DOMAIN s : i < j => s[i] < s[j]

\* s lists the first of W, at most n of them.
Firsts(s, W, n) ==
  /\ s \in Seq(Int) /\ Climbs(s) /\ ToSet(s) \subseteq W /\ Len(s) <= n
  /\ \A w \in W \ ToSet(s) : Len(s) = n /\ \A x \in ToSet(s) : x < w

\* A sequence of growing integers, by its elements.
LEMMA ListFacts ==
  ASSUME NEW s \in Seq(Int), Climbs(s)
  PROVE  /\ DOMAIN s = 1..Len(s) /\ Len(s) \in Nat
         /\ \A i \in 1..Len(s) : s[i] \in Int /\ s[i] \in ToSet(s)
         /\ \A x \in ToSet(s) : x \in Int /\ \E i \in 1..Len(s) : s[i] = x
         /\ \A i, j \in 1..Len(s) : i < j => s[i] < s[j]
         /\ \A i, j \in 1..Len(s) : i <= j => s[i] <= s[j]
         /\ \A i, j \in 1..Len(s) : s[i] < s[j] => i < j
         /\ IsFiniteSet(ToSet(s)) /\ Cardinality(ToSet(s)) = Len(s)
         /\ s = Ascending(ToSet(s))
<1>1. DOMAIN s = 1..Len(s) /\ Len(s) \in Nat /\ \A i \in 1..Len(s) : s[i] \in Int
  OBVIOUS
<1>2. \A i, j \in 1..Len(s) : i < j => s[i] < s[j]
  BY <1>1 DEF Climbs
<1>3. \A i, j \in 1..Len(s) : i <= j => s[i] <= s[j]
  <2> SUFFICES ASSUME NEW i \in 1..Len(s), NEW j \in 1..Len(s), i <= j
               PROVE  s[i] <= s[j]
    OBVIOUS
  <2>1. CASE i = j
    BY <2>1, <1>1
  <2>2. CASE i < j
    BY <2>2, <1>1, <1>2
  <2> QED BY <2>1, <2>2
<1>4. \A i, j \in 1..Len(s) : s[i] < s[j] => i < j
  <2> SUFFICES ASSUME NEW i \in 1..Len(s), NEW j \in 1..Len(s), s[i] < s[j], ~(i < j)
               PROVE  FALSE
    OBVIOUS
  <2>1. j <= i
    OBVIOUS
  <2> QED BY <2>1, <1>1, <1>3
<1>5. /\ IsFiniteSet(ToSet(s)) /\ Cardinality(ToSet(s)) = Len(s)
      /\ s = Ascending(ToSet(s))
  BY <1>2, AscendingOnly
<1>6. \A x \in ToSet(s) : x \in Int /\ \E i \in 1..Len(s) : s[i] = x
  BY <1>1 DEF ToSet
<1>7. \A i \in 1..Len(s) : s[i] \in ToSet(s)
  BY <1>1 DEF ToSet
<1> QED BY <1>1, <1>2, <1>3, <1>4, <1>5, <1>6, <1>7

\* The first n of a set are one list only.
LEMMA FirstsOnly ==
  ASSUME NEW W, NEW n \in Nat, NEW s, NEW r, Firsts(s, W, n), Firsts(r, W, n)
  PROVE  s = r
<1>1. /\ s \in Seq(Int) /\ Climbs(s) /\ r \in Seq(Int) /\ Climbs(r)
  BY DEF Firsts
<1>2. /\ IsFiniteSet(ToSet(s)) /\ Cardinality(ToSet(s)) = Len(s) /\ s = Ascending(ToSet(s))
      /\ \A x \in ToSet(s) : x \in Int
      /\ Len(s) \in Nat
  BY <1>1, ListFacts
<1>3. /\ IsFiniteSet(ToSet(r)) /\ Cardinality(ToSet(r)) = Len(r) /\ r = Ascending(ToSet(r))
      /\ \A x \in ToSet(r) : x \in Int
      /\ Len(r) \in Nat
  BY <1>1, ListFacts
<1>4. ASSUME NEW w, w \in ToSet(s), w \notin ToSet(r)
      PROVE  FALSE
  <2>1. Len(r) = n /\ \A x \in ToSet(r) : x < w
    BY <1>4 DEF Firsts
  <2>2. Len(s) <= n
    BY DEF Firsts
  <2>3. PICK y \in ToSet(r) : y \notin ToSet(s)
    <3>1. CASE ToSet(r) \subseteq ToSet(s)
      <4>1. Cardinality(ToSet(r)) < Cardinality(ToSet(s))
        <5>1. ToSet(r) # ToSet(s)
          BY <1>4
        <5>2. Cardinality(ToSet(r)) <= Cardinality(ToSet(s))
          BY <3>1, <1>2, FS_Subset
        <5>3. Cardinality(ToSet(r)) = Cardinality(ToSet(s)) => ToSet(r) = ToSet(s)
          BY <3>1, <1>2, FS_Subset
        <5> QED BY <5>1, <5>2, <5>3, <1>2, <1>3
      <4> QED BY <4>1, <2>1, <2>2, <1>2, <1>3
    <3> QED BY <3>1
  <2>4. y \in W /\ y \notin ToSet(s)
    BY <2>3 DEF Firsts
  <2>5. w < y
    BY <2>4, <1>4 DEF Firsts
  <2>6. y < w
    BY <2>1, <2>3
  <2> QED BY <2>3, <2>5, <2>6, <1>2, <1>3, <1>4
<1>5. ASSUME NEW w, w \in ToSet(r), w \notin ToSet(s)
      PROVE  FALSE
  <2>1. Len(s) = n /\ \A x \in ToSet(s) : x < w
    BY <1>5 DEF Firsts
  <2>2. Len(r) <= n
    BY DEF Firsts
  <2>3. PICK y \in ToSet(s) : y \notin ToSet(r)
    <3>1. CASE ToSet(s) \subseteq ToSet(r)
      <4>1. Cardinality(ToSet(s)) < Cardinality(ToSet(r))
        <5>1. ToSet(r) # ToSet(s)
          BY <1>5
        <5>2. Cardinality(ToSet(s)) <= Cardinality(ToSet(r))
          BY <3>1, <1>3, FS_Subset
        <5>3. Cardinality(ToSet(r)) = Cardinality(ToSet(s)) => ToSet(r) = ToSet(s)
          BY <3>1, <1>3, FS_Subset
        <5> QED BY <5>1, <5>2, <5>3, <1>2, <1>3
      <4> QED BY <4>1, <2>1, <2>2, <1>2, <1>3
    <3> QED BY <3>1
  <2>4. y \in W /\ y \notin ToSet(r)
    BY <2>3 DEF Firsts
  <2>5. w < y
    BY <2>4, <1>5 DEF Firsts
  <2>6. y < w
    BY <2>1, <2>3
  <2> QED BY <2>3, <2>5, <2>6, <1>2, <1>3, <1>5
<1>6. ToSet(s) = ToSet(r)
  BY <1>4, <1>5
<1> QED BY <1>2, <1>3, <1>6

\* A sequence is one of any set its elements are in.
LEMMA SeqTyped ==
  ASSUME NEW E, NEW F, NEW s \in Seq(E), \A i \in DOMAIN s : s[i] \in F
  PROVE  s \in Seq(F)
<1>1. s = [i \in 1..Len(s) |-> s[i]] /\ Len(s) \in Nat /\ DOMAIN s = 1..Len(s)
  OBVIOUS
<1> QED BY <1>1

\* Ascending, cut off after n, lists the first n.
LEMMA TruncatedFirsts ==
  ASSUME NEW W \in SUBSET Int, IsFiniteSet(W), NEW n \in Nat
  PROVE  Firsts(Truncated(Ascending(W), n), W, n)
<1> DEFINE a == Ascending(W)
           m == Len(a)
           k == IF Len(a) < n THEN Len(a) ELSE n
           s == Truncated(a, n)
<1>1. /\ a \in Seq(W) /\ Len(a) = Cardinality(W) /\ Cardinality(W) \in Nat /\ ToSet(a) = W
      /\ \A i, j \in 1..Cardinality(W) : i < j <=> a[i] < a[j]
  BY AscendingFacts
<1> HIDE DEF a
<1>2. m \in Nat /\ DOMAIN a = 1..m /\ \A i \in 1..m : a[i] \in W
  BY <1>1
<1>3. k \in Nat /\ k <= m /\ k <= n /\ (k = n \/ k = m)
  <2>1. k = IF m < n THEN m ELSE n
    OBVIOUS
  <2> HIDE DEF m, k
  <2> QED BY <1>2, <2>1
<1>4. s = SubSeq(a, 1, k)
  BY DEF Truncated
<1> HIDE DEF m, k, s
<1>9. \A i \in 1..k : i \in 1..m
  BY <1>2, <1>3
<1>5. s \in Seq(Int) /\ Len(s) = k /\ DOMAIN s = 1..k /\ \A i \in 1..k : s[i] = a[i]
  <2>1. a \in Seq(Int)
    <3>1. W \subseteq Int
      OBVIOUS
    <3> HIDE DEF a
    <3>2. \A i \in DOMAIN a : a[i] \in Int
      BY <3>1, <1>2
    <3> QED BY <3>2, <1>1, SeqTyped
  <2>2. s \in Seq(Int) /\ Len(s) = k
    BY <2>1, <1>2, <1>3, <1>4, <1>9
  <2>3. DOMAIN s = 1..k
    BY <2>2
  <2>4. \A i \in 1..k : s[i] = a[i]
    BY <2>1, <1>2, <1>3, <1>4, <1>9
  <2> QED BY <2>2, <2>3, <2>4
<1>6. Climbs(s)
  <2> SUFFICES ASSUME NEW i \in 1..k, NEW j \in 1..k, i < j PROVE s[i] < s[j]
    BY <1>5 DEF Climbs
  <2>1. i \in 1..m /\ j \in 1..m
    BY <1>9
  <2> QED BY <2>1, <1>1, <1>5 DEF m
<1>7. ToSet(s) \subseteq W
  <2> QED BY <1>9, <1>2, <1>5 DEF ToSet
<1>8. ASSUME NEW w \in W \ ToSet(s)
      PROVE  k = n /\ \A x \in ToSet(s) : x < w
  <2>1. PICK j \in 1..m : a[j] = w
    BY <1>1, <1>2 DEF ToSet
  <2>2. j \notin 1..k
    BY <2>1, <1>5, <1>8 DEF ToSet
  <2>3. k = n
    BY <2>1, <2>2, <1>2, <1>3
  <2>4. ASSUME NEW x \in ToSet(s) PROVE x < w
    <3>1. PICK i \in 1..k : s[i] = x
      BY <1>5 DEF ToSet
    <3>2. i \in 1..m /\ i < j
      BY <2>1, <2>2, <1>2, <1>3, <1>9
    <3> QED BY <3>1, <3>2, <2>1, <1>1, <1>5 DEF m
  <2> QED BY <2>3, <2>4
<1> QED BY <1>3, <1>5, <1>6, <1>7, <1>8 DEF Firsts, s, a

\* The places of r with something below i, and the place i belongs at.
Below(r, i) == {p \in DOMAIN r : r[p] < i}

\* The elements below i are at the front of a growing sequence.
LEMMA SplitAt ==
  ASSUME NEW r \in Seq(Int), Climbs(r), NEW i \in Int
  PROVE  /\ Cardinality(Below(r, i)) \in 0..Len(r)
         /\ Below(r, i) = 1..Cardinality(Below(r, i))
<1> DEFINE n == Len(r)
           C == Below(r, i)
           T == {c \in 0..n : \A p \in 1..n : r[p] < i => p <= c}
<1>1. /\ n \in Nat /\ DOMAIN r = 1..n /\ \A p \in 1..n : r[p] \in Int
      /\ \A p, q \in 1..n : p <= q => r[p] <= r[q]
  BY ListFacts
<1> HIDE DEF n
<1>2. T \subseteq Nat /\ n \in T
  BY <1>1
<1>3. PICK c \in T : \A d \in T : c <= d
  <2> HIDE DEF T
  <2> QED BY <1>2, Least
<1>4. c \in 0..n /\ \A p \in 1..n : r[p] < i => p <= c
  OBVIOUS
<1>5. ASSUME c # 0
      PROVE  r[c] < i
  <2> SUFFICES ASSUME ~(r[c] < i) PROVE FALSE
    OBVIOUS
  <2>1. c - 1 \in 0..n
    BY <1>1, <1>4, <1>5
  <2>2. ASSUME NEW p \in 1..n, r[p] < i
        PROVE  p <= c - 1
    <3>1. p <= c /\ p # c
      BY <2>2, <1>4
    <3> QED BY <3>1, <1>1, <1>4
  <2>3. c - 1 \in T
    BY <2>1, <2>2
  <2>4. c <= c - 1
    BY <2>3, <1>3
  <2> QED BY <2>4, <1>4, <1>1
<1>6. C = 1..c
  <2>1. ASSUME NEW p \in 1..c PROVE p \in C
    <3>1. c # 0 /\ c \in 1..n /\ p \in 1..n /\ p <= c
      BY <1>1, <1>4
    <3>2. r[p] <= r[c] /\ r[c] < i
      BY <3>1, <1>1, <1>5
    <3>3. r[p] < i
      BY <3>1, <3>2, <1>1
    <3> QED BY <3>1, <3>3, <1>1 DEF Below
  <2>2. ASSUME NEW p \in C PROVE p \in 1..c
    <3>1. p \in 1..n /\ r[p] < i
      BY <1>1 DEF Below
    <3> QED BY <3>1, <1>1, <1>4
  <2> QED BY <2>1, <2>2
<1>7. Cardinality(C) = c
  <2>1. c \in Nat
    BY <1>1, <1>4
  <2>2. Cardinality(1..c) = c
    <3>1. Cardinality(1..c) = IF 1 > c THEN 0 ELSE c - 1 + 1
      BY <2>1, FS_Interval
    <3> QED BY <2>1, <3>1
  <2> QED BY <2>2, <1>6
<1> QED BY <1>4, <1>6, <1>7 DEF n

\* What a concatenation holds at each place.
LEMMA Joins ==
  ASSUME NEW z \in Seq(Int), NEW y \in Seq(Int)
  PROVE  /\ z \o y \in Seq(Int) /\ Len(z \o y) = Len(z) + Len(y)
         /\ \A p \in 1..Len(z) : (z \o y)[p] = z[p]
         /\ \A p \in 1..Len(y) : (z \o y)[Len(z) + p] = y[p]
OBVIOUS

\* InsertAt, as a concatenation of three parts.
LEMMA InsertAtIs ==
  ASSUME NEW r, NEW k, NEW i
  PROVE  InsertAt(r, k, i) = (SubSeq(r, 1, k - 1) \o <<i>>) \o SubSeq(r, k, Len(r))
BY DEF InsertAt

\* Inserting i after what is below it keeps the sequence growing.
LEMMA Inserted ==
  ASSUME NEW r \in Seq(Int), Climbs(r), NEW i \in Int, i \notin ToSet(r)
  PROVE  LET s == InsertAt(r, 1 + Cardinality(Below(r, i)), i)
         IN s \in Seq(Int) /\ Climbs(s) /\ ToSet(s) = ToSet(r) \cup {i} /\ Len(s) = Len(r) + 1
<1> DEFINE n == Len(r)
           c == Cardinality(Below(r, i))
           x == SubSeq(r, 1, c)
           y == SubSeq(r, c + 1, n)
           s == InsertAt(r, 1 + c, i)
<1>1. /\ n \in Nat /\ DOMAIN r = 1..n /\ \A p \in 1..n : r[p] \in Int /\ r[p] \in ToSet(r)
      /\ \A p, q \in 1..n : p < q => r[p] < r[q]
  BY ListFacts
<1>2. c \in 0..n /\ Below(r, i) = 1..c
  BY SplitAt
<1> HIDE DEF c
<1>3. s = (x \o <<i>>) \o y
  <2> DEFINE k == 1 + c
  <2>2. s = (SubSeq(r, 1, k - 1) \o <<i>>) \o SubSeq(r, k, n)
    <3> HIDE DEF k
    <3>1. s = InsertAt(r, k, i)
      BY DEF k
    <3> HIDE DEF s
    <3> QED BY <3>1, InsertAtIs
  <2>3. k - 1 = c /\ k = c + 1
    BY <1>1, <1>2
  <2> HIDE DEF k, s
  <2> QED BY <2>2, <2>3
<1> HIDE DEF n
<1>4. n = Len(r)
  BY DEF n
<1>5. x \in Seq(Int) /\ Len(x) = c /\ \A p \in 1..c : x[p] = r[p]
  BY <1>1, <1>2, <1>4
<1>6. y \in Seq(Int) /\ Len(y) = n - c /\ \A p \in 1..n - c : y[p] = r[c + p]
  <2>1. c + 1 \in 1..n + 1 /\ c \in Nat
    BY <1>1, <1>2
  <2>2. \A p \in c + 1..n : r[p] \in Int
    BY <1>1, <2>1
  <2>3. y \in Seq(Int)
    BY <2>1, <2>2, <1>1, <1>4
  <2>4. Len(y) = n - c
    <3>1. Len(y) = IF c + 1 <= n THEN n - (c + 1) + 1 ELSE 0
      BY <2>1, <2>2, <1>1, <1>4
    <3> QED BY <3>1, <1>1, <1>2
  <2>5. ASSUME NEW p \in 1..n - c PROVE y[p] = r[c + p]
    <3>1. p \in 1..n - (c + 1) + 1 /\ c + 1 + p - 1 = c + p
      BY <1>1, <2>1
    <3> QED BY <3>1, <2>1, <1>1, <1>4
  <2> QED BY <2>3, <2>4, <2>5
<1> HIDE DEF x, y, s
<1> DEFINE z == x \o <<i>>
<1>7. /\ z \in Seq(Int) /\ Len(z) = c + 1 /\ z[c + 1] = i
      /\ \A p \in 1..c : z[p] = r[p]
  BY <1>5, <1>2, <1>1
<1> HIDE DEF z
<1>8. /\ s \in Seq(Int) /\ Len(s) = n + 1
      /\ \A p \in 1..c + 1 : s[p] = z[p]
      /\ \A p \in 1..n - c : s[c + 1 + p] = y[p]
  <2>1. s = z \o y
    BY <1>3 DEF z
  <2>2. /\ s \in Seq(Int) /\ Len(s) = Len(z) + Len(y)
        /\ \A p \in 1..Len(z) : s[p] = z[p]
        /\ \A p \in 1..Len(y) : s[Len(z) + p] = y[p]
    BY <2>1, <1>6, <1>7, Joins
  <2>3. Len(s) = n + 1
    BY <2>2, <1>1, <1>2, <1>6, <1>7
  <2> QED BY <2>2, <2>3, <1>6, <1>7
<1>9. /\ DOMAIN s = 1..n + 1
      /\ \A p \in 1..c : s[p] = r[p]
      /\ s[c + 1] = i
      /\ \A p \in c + 2..n + 1 : s[p] = r[p - 1] /\ p - 1 \in c + 1..n
  <2>1. \A p \in 1..c : s[p] = r[p]
    <3>1. \A p \in 1..c : p \in 1..c + 1
      BY <1>2
    <3> QED BY <3>1, <1>7, <1>8
  <2>2. s[c + 1] = i
    <3>1. c + 1 \in 1..c + 1
      BY <1>2
    <3> QED BY <3>1, <1>7, <1>8
  <2>3. ASSUME NEW p \in c + 2..n + 1 PROVE s[p] = r[p - 1] /\ p - 1 \in c + 1..n
    <3> DEFINE o == p - (c + 1)
    <3>1. o \in 1..n - c /\ c + 1 + o = p /\ c + o = p - 1 /\ p - 1 \in c + 1..n
      BY <1>1, <1>2
    <3> HIDE DEF o
    <3> QED BY <3>1, <1>6, <1>8
  <2>4. DOMAIN s = 1..n + 1
    BY <1>8
  <2> QED BY <2>1, <2>2, <2>3, <2>4
<1>10. /\ \A p \in 1..c : p \in 1..n /\ r[p] < i
       /\ \A p \in c + 1..n : p \in 1..n /\ i < r[p]
  <2>1. ASSUME NEW p \in 1..c PROVE p \in 1..n /\ r[p] < i
    BY <1>2, <1>1 DEF Below
  <2>2. ASSUME NEW p \in c + 1..n PROVE p \in 1..n /\ i < r[p]
    <3>1. p \in 1..n /\ p \notin 1..c
      BY <1>1, <1>2
    <3>2. ~(r[p] < i)
      BY <3>1, <1>1, <1>2 DEF Below
    <3>3. r[p] # i /\ r[p] \in Int
      BY <3>1, <1>1
    <3> QED BY <3>1, <3>2, <3>3
  <2> QED BY <2>1, <2>2
<1>11. Climbs(s)
  <2> SUFFICES ASSUME NEW p \in 1..n + 1, NEW q \in 1..n + 1, p < q
               PROVE  s[p] < s[q]
    BY <1>9 DEF Climbs
  <2>1. p \in 1..c \/ p = c + 1 \/ p \in c + 2..n + 1
    BY <1>1, <1>2
  <2>2. q \in 1..c \/ q = c + 1 \/ q \in c + 2..n + 1
    BY <1>1, <1>2
  <2>3. CASE p \in 1..c /\ q \in 1..c
    BY <2>3, <1>1, <1>9, <1>10
  <2>4. CASE p \in 1..c /\ q = c + 1
    BY <2>4, <1>9, <1>10
  <2>5. CASE p \in 1..c /\ q \in c + 2..n + 1
    <3>1. s[p] = r[p] /\ r[p] < i /\ s[q] = r[q - 1] /\ i < r[q - 1] /\ q - 1 \in 1..n /\ p \in 1..n
      BY <2>5, <1>9, <1>10
    <3> QED BY <3>1, <1>1
  <2>6. CASE p = c + 1 /\ q \in c + 2..n + 1
    BY <2>6, <1>9, <1>10
  <2>7. CASE p \in c + 2..n + 1 /\ q \in c + 2..n + 1
    <3>1. s[p] = r[p - 1] /\ s[q] = r[q - 1] /\ p - 1 \in 1..n /\ q - 1 \in 1..n
      BY <2>7, <1>9, <1>10
    <3>2. p - 1 < q - 1
      BY <1>1
    <3> QED BY <3>1, <3>2, <1>1
  <2>8. CASE q \in 1..c + 1 /\ p \notin 1..c
    BY <2>8, <1>1, <1>2
  <2>9. CASE q = c + 1 /\ p = c + 1
    BY <2>9, <1>2
  <2>10. CASE p \in c + 2..n + 1 /\ q \in 1..c + 1
    BY <2>10, <1>2, <1>1
  <2>11. q = c + 1 \/ q \in 1..c => q \in 1..c + 1
    BY <1>2, <1>1
  <2> QED BY <2>1, <2>2, <2>3, <2>4, <2>5, <2>6, <2>7, <2>8, <2>9, <2>10, <2>11
<1>12. ToSet(s) = ToSet(r) \cup {i}
  <2>1. ASSUME NEW p \in 1..n + 1 PROVE s[p] \in ToSet(r) \cup {i}
    <3>1. p \in 1..c \/ p = c + 1 \/ p \in c + 2..n + 1
      BY <1>1, <1>2
    <3> QED BY <3>1, <1>1, <1>9, <1>10
  <2>2. ASSUME NEW p \in 1..n PROVE \E q \in 1..n + 1 : s[q] = r[p]
    <3>1. CASE p \in 1..c
      BY <3>1, <1>1, <1>9
    <3>2. CASE p \notin 1..c
      <4>1. p + 1 \in c + 2..n + 1 /\ p + 1 \in 1..n + 1 /\ p + 1 - 1 = p
        BY <3>2, <1>1, <1>2
      <4> QED BY <4>1, <1>9
    <3> QED BY <3>1, <3>2
  <2>3. c + 1 \in 1..n + 1
    BY <1>1, <1>2
  <2>4. ToSet(s) \subseteq ToSet(r) \cup {i}
    BY <2>1, <1>9 DEF ToSet
  <2>5. \A p \in 1..n : r[p] \in ToSet(s)
    BY <2>2, <1>9 DEF ToSet
  <2>6. i \in ToSet(s)
    BY <2>3, <1>9 DEF ToSet
  <2>7. ToSet(r) \subseteq ToSet(s)
    BY <2>5, <1>1 DEF ToSet
  <2> QED BY <2>4, <2>6, <2>7
<1> QED BY <1>4, <1>8, <1>11, <1>12 DEF s, c

\* A growing sequence without its last element has lost its greatest.
LEMMA FrontFacts ==
  ASSUME NEW r \in Seq(Int), Climbs(r), Len(r) # 0
  PROVE  LET f == Front(r)
             last == r[Len(r)]
         IN /\ f \in Seq(Int) /\ Climbs(f) /\ Len(f) = Len(r) - 1
            /\ last \in ToSet(r) /\ last \in Int
            /\ ToSet(f) = ToSet(r) \ {last} /\ \A x \in ToSet(f) : x < last
<1> DEFINE n == Len(r)
           f == Front(r)
<1>1. /\ n \in Nat /\ DOMAIN r = 1..n /\ \A p \in 1..n : r[p] \in Int /\ r[p] \in ToSet(r)
      /\ \A p, q \in 1..n : p < q => r[p] < r[q]
      /\ n # 0
  BY ListFacts
<1>2. f = SubSeq(r, 1, n - 1)
  BY DEF Front
<1> HIDE DEF f, n
<1>3. f \in Seq(Int) /\ Len(f) = n - 1
  <2>1. \A p \in 1..n - 1 : p \in 1..n
    BY <1>1
  <2>2. n - 1 \in Nat
    BY <1>1
  <2> QED BY <2>1, <2>2, <1>1, <1>2
<1>4. DOMAIN f = 1..n - 1 /\ \A p \in 1..n - 1 : f[p] = r[p] /\ p \in 1..n /\ p < n /\ n \in 1..n
  <2>1. DOMAIN f = 1..n - 1
    BY <1>3
  <2>2. \A p \in 1..n - 1 : p \in 1..n /\ p < n /\ n \in 1..n
    BY <1>1
  <2>3. \A p \in 1..n - 1 : f[p] = r[p]
    BY <2>2, <1>1, <1>2
  <2> QED BY <2>1, <2>2, <2>3
<1>5. Climbs(f)
  BY <1>1, <1>4 DEF Climbs
<1>6. n \in 1..n
  BY <1>1
<1>7. \A x \in ToSet(f) : x < r[n] /\ x \in ToSet(r) /\ x # r[n]
  <2> SUFFICES ASSUME NEW p \in 1..n - 1
               PROVE  f[p] < r[n] /\ f[p] \in ToSet(r) /\ f[p] # r[n]
    BY <1>4 DEF ToSet
  <2>1. f[p] = r[p] /\ p \in 1..n /\ p < n
    BY <1>4
  <2>2. r[p] < r[n]
    BY <2>1, <1>1, <1>6
  <2> QED BY <2>1, <2>2, <1>1, <1>6
<1>8. ASSUME NEW x \in ToSet(r), x # r[n]
      PROVE  x \in ToSet(f)
  <2>1. PICK p \in 1..n : r[p] = x
    BY <1>1 DEF ToSet
  <2>2. p \in 1..n - 1
    BY <2>1, <1>1, <1>8
  <2> QED BY <2>1, <2>2, <1>4 DEF ToSet
<1>9. ToSet(f) = ToSet(r) \ {r[n]}
  BY <1>7, <1>8
<1> QED BY <1>1, <1>3, <1>5, <1>6, <1>7, <1>9 DEF f, n

Spot(r, i) == 1 + Cardinality(Below(r, i))

\* One more element joins the first n of W.
Joining(r, i, n) ==
  IF Len(r) < n THEN InsertAt(r, Spot(r, i), i)
  ELSE IF Spot(r, i) <= Len(r) THEN InsertAt(Front(r), Spot(Front(r), i), i)
  ELSE r

\* The first n of a set and one more element, from the first n of the set alone: the
\* last gives way when the new one comes before it.
LEMMA Joined ==
  ASSUME NEW W \in SUBSET Int, NEW n \in Nat, NEW r, Firsts(r, W, n), NEW i \in Int, i \notin W
  PROVE  Firsts(Joining(r, i, n), W \cup {i}, n)
<1> DEFINE l == Len(r)
           s == Joining(r, i, n)
           V == W \cup {i}
<1> SUFFICES Firsts(s, V, n)
  OBVIOUS
<1>1. /\ r \in Seq(Int) /\ Climbs(r) /\ ToSet(r) \subseteq W /\ l <= n
      /\ \A w \in W \ ToSet(r) : l = n /\ \A x \in ToSet(r) : x < w
      /\ i \notin ToSet(r)
  BY DEF Firsts
<1>2. /\ l \in Nat /\ DOMAIN r = 1..l /\ \A p \in 1..l : r[p] \in Int /\ r[p] \in ToSet(r)
      /\ \A p, q \in 1..l : p <= q => r[p] <= r[q]
      /\ \A x \in ToSet(r) : x \in Int /\ \E p \in 1..l : r[p] = x
  BY <1>1, ListFacts
<1>3. Cardinality(Below(r, i)) \in 0..l /\ Below(r, i) = 1..Cardinality(Below(r, i))
  BY <1>1, SplitAt
<1> DEFINE c == Cardinality(Below(r, i))
<1> HIDE DEF l, c
<1>7. c \in 0..l /\ Below(r, i) = 1..c /\ Spot(r, i) = 1 + c
  BY <1>3 DEF l, c, Spot
<1>8. n = l \/ l < n
  BY <1>1, <1>2
<1>4. CASE l < n
  <2>1. s = InsertAt(r, 1 + Cardinality(Below(r, i)), i)
    BY <1>4 DEF Joining, Spot, l
  <2>2. s \in Seq(Int) /\ Climbs(s) /\ ToSet(s) = ToSet(r) \cup {i} /\ Len(s) = l + 1
    BY <2>1, <1>1, Inserted DEF l
  <2>3. W \ ToSet(r) = {}
    <3>1. l # n
      BY <1>2, <1>4
    <3> QED BY <3>1, <1>1
  <2>4. V \ ToSet(s) = {} /\ ToSet(s) \subseteq V
    BY <2>2, <2>3, <1>1
  <2>5. Len(s) <= n
    BY <2>2, <1>2, <1>4
  <2> HIDE DEF s, V
  <2> QED BY <2>2, <2>4, <2>5 DEF Firsts
<1>5. CASE ~(l < n) /\ Spot(r, i) <= l
  <2> DEFINE f == Front(r)
             last == r[l]
  <2>1. l = n /\ c + 1 \in 1..l /\ c + 1 \notin Below(r, i)
    <3>1. l = n /\ 1 + c <= l /\ c \in 0..l
      BY <1>5, <1>7, <1>8
    <3>2. c + 1 \in 1..l /\ c + 1 \notin 1..c
      BY <3>1, <1>2
    <3> QED BY <3>1, <3>2, <1>7
  <2>2. l # 0
    BY <2>1, <1>2
  <2>3. /\ f \in Seq(Int) /\ Climbs(f) /\ Len(f) = l - 1
        /\ last \in ToSet(r) /\ last \in Int
        /\ ToSet(f) = ToSet(r) \ {last} /\ \A x \in ToSet(f) : x < last
    BY <2>2, <1>1, FrontFacts DEF l
  <2>4. s = InsertAt(f, 1 + Cardinality(Below(f, i)), i)
    BY <1>5 DEF Joining, Spot, l
  <2>5. i < last
    <3>1. ~(r[c + 1] < i) /\ r[c + 1] # i /\ r[c + 1] \in Int
      BY <2>1, <1>1, <1>2 DEF Below
    <3>2. l \in 1..l /\ c + 1 <= l
      BY <2>1, <2>2, <1>2
    <3>3. r[c + 1] <= last
      BY <2>1, <3>2, <1>2
    <3> QED BY <2>3, <3>1, <3>3
  <2> HIDE DEF f, last, s
  <2>6. s \in Seq(Int) /\ Climbs(s) /\ ToSet(s) = ToSet(f) \cup {i} /\ Len(s) = Len(f) + 1
    BY <2>3, <2>4, <1>1, Inserted
  <2>7. Len(s) = n
    BY <2>1, <2>3, <2>6, <1>2
  <2>8. ToSet(s) \subseteq V
    BY <2>3, <2>6, <1>1
  <2>9. ASSUME NEW w \in V \ ToSet(s), NEW x \in ToSet(s)
        PROVE  x < w
    <3>1. x \in Int /\ x < last
      BY <2>3, <2>5, <2>6, <1>2
    <3>2. w = last \/ w \in W \ ToSet(r)
      BY <2>3, <2>6
    <3>3. w = last \/ last < w
      BY <2>3, <3>2, <1>1
    <3>4. w \in Int
      <4>1. W \subseteq Int
        OBVIOUS
      <4> QED BY <4>1, <2>3, <3>2
    <3> QED BY <2>3, <3>1, <3>3, <3>4
  <2>10. Len(s) <= n
    BY <2>7
  <2> HIDE DEF V
  <2> QED BY <2>6, <2>7, <2>8, <2>9, <2>10 DEF Firsts
<1>6. CASE ~(l < n) /\ ~(Spot(r, i) <= l)
  <2>1. s = r
    BY <1>6 DEF Joining, l
  <2>2. l = n /\ Below(r, i) = 1..l
    <3>1. l = n /\ ~(1 + c <= l) /\ c \in 0..l
      BY <1>6, <1>7, <1>8
    <3>2. c = l
      BY <3>1, <1>2
    <3> QED BY <3>1, <3>2, <1>7
  <2>3. \A x \in ToSet(r) : x < i
    BY <2>2, <1>2 DEF Below
  <2>4. /\ r \in Seq(Int) /\ Climbs(r) /\ ToSet(r) \subseteq V /\ Len(r) <= n
        /\ \A w \in V \ ToSet(r) : Len(r) = n /\ \A x \in ToSet(r) : x < w
    BY <2>2, <2>3, <1>1 DEF l
  <2> HIDE DEF s, V
  <2> QED BY <2>1, <2>4 DEF Firsts
<1> QED BY <1>4, <1>5, <1>6

-----------------------------------------------------------------------------
(* The tables of a view                                                      *)

\* A and B are the names of the active packages of the view and of its base.
Viewed(v, b, A, n, B, m) ==
  /\ v.kind = "overlay" /\ n \in Nat /\ m \in Nat
  /\ DOMAIN v.active = 1..n /\ DOMAIN b.active = 1..m
  /\ Climbing(A, n) /\ Climbing(B, m)
  /\ \A i \in 1..n : ActiveOf(v, b, i).name = A[i]
  /\ \A k \in 1..m : b.active[k].name = B[k]
  /\ \A i \in 1..n : v.active[i].source = "base_active" =>
       v.active[i].index \in 1..m /\ B[v.active[i].index] = A[i]

\* Growing names are in the order of their places.
LEMMA ClimbingFacts ==
  ASSUME NEW A, NEW n \in Nat, Climbing(A, n)
  PROVE  /\ \A i, j \in 1..n : A[i] = A[j] => i = j
         /\ \A i, j \in 1..n : A[i] < A[j] <=> i < j
<1>1. ASSUME NEW i \in 1..n, NEW j \in 1..n
      PROVE  (A[i] = A[j] => i = j) /\ (A[i] < A[j] <=> i < j)
  <2>1. A[i] \in Int /\ A[j] \in Int /\ (i < j => A[i] < A[j]) /\ (j < i => A[j] < A[i])
    BY DEF Climbing
  <2>2. i < j \/ i = j \/ j < i
    OBVIOUS
  <2> QED BY <2>1, <2>2
<1> QED BY <1>1

\* An overlay that is read as a full build, by the names of its packages.
LEMMA SoundViewed ==
  ASSUME NEW t0 \in Trees, NEW t \in Trees, NEW v, Sound(v, FullBuild(t0), t)
  PROVE  LET full == FullBuild(t)
             b == FullBuild(t0)
         IN Viewed(v, b, [i \in DOMAIN full.active |-> full.active[i].name], Len(full.active),
                         [i \in DOMAIN b.active |-> b.active[i].name], Len(b.active))
<1> DEFINE b == FullBuild(t0)
           full == FullBuild(t)
           A == [i \in DOMAIN full.active |-> full.active[i].name]
           B == [i \in DOMAIN b.active |-> b.active[i].name]
<1>1. Climbing(A, Len(full.active)) /\ Len(full.active) \in Nat
      /\ DOMAIN full.active = 1..Len(full.active)
  BY FullBuildClimbs
<1>2. Climbing(B, Len(b.active)) /\ Len(b.active) \in Nat /\ DOMAIN b.active = 1..Len(b.active)
  BY FullBuildClimbs
<1> HIDE DEF b, full
<1>3. v.kind = "overlay" /\ Reads(v, b, t) /\ \A i \in DOMAIN v.active : ValidPackageRef(v, b, v.active[i])
  BY DEF Sound, b
<1>4. [i \in DOMAIN v.active |-> ActiveOf(v, b, i)] = full.active
  BY <1>3 DEF Reads, Shown, full
<1>5. DOMAIN v.active = DOMAIN full.active
  <2>1. DOMAIN [i \in DOMAIN v.active |-> ActiveOf(v, b, i)] = DOMAIN v.active
    OBVIOUS
  <2> QED BY <2>1, <1>4
<1>6. \A i \in DOMAIN v.active : ActiveOf(v, b, i) = full.active[i]
  <2>1. \A i \in DOMAIN v.active : [j \in DOMAIN v.active |-> ActiveOf(v, b, j)][i] = ActiveOf(v, b, i)
    OBVIOUS
  <2> QED BY <2>1, <1>4
<1>7. ASSUME NEW i \in DOMAIN v.active, v.active[i].source = "base_active"
      PROVE  v.active[i].index \in DOMAIN b.active /\ B[v.active[i].index] = A[i]
  <2>1. v.active[i].index \in DOMAIN b.active
    BY <1>7, <1>3 DEF ValidPackageRef
  <2>2. ActiveOf(v, b, i).name = b.active[v.active[i].index].name
    BY <1>7, <1>3 DEF ActiveOf, PackageAt, RecordAt, ActiveLocation, Location
  <2> QED BY <2>1, <2>2, <1>5, <1>6
<1>8. \A i \in DOMAIN v.active : ActiveOf(v, b, i).name = A[i]
  BY <1>5, <1>6
<1>9. \A k \in DOMAIN b.active : b.active[k].name = B[k]
  OBVIOUS
<1> HIDE DEF A, B
<1>10. Viewed(v, b, A, Len(full.active), B, Len(b.active))
  BY <1>1, <1>2, <1>3, <1>5, <1>7, <1>8, <1>9 DEF Viewed
<1> QED BY <1>10 DEF A, B, b, full

\* base_to_current_ leads from a kept package of the base to its place in the
\* overlay, and back.
LEMMA CurrentFacts ==
  ASSUME NEW v, NEW b, NEW A, NEW n, NEW B, NEW m, Viewed(v, b, A, n, B, m)
  PROVE  LET cur == BaseToCurrent(v, b)
         IN /\ \A k \in 1..m : cur[k] # None =>
                 /\ cur[k] \in 1..n /\ v.active[cur[k]].source = "base_active"
                 /\ v.active[cur[k]].index = k /\ A[cur[k]] = B[k]
            /\ \A i \in 1..n : v.active[i].source = "base_active" =>
                 /\ cur[v.active[i].index] = i /\ i # None
<1> DEFINE cur == BaseToCurrent(v, b)
           Places_(k) == {i \in DOMAIN v.active :
                           v.active[i].source = "base_active" /\ v.active[i].index = k}
<1>1. /\ n \in Nat /\ m \in Nat /\ DOMAIN v.active = 1..n /\ DOMAIN b.active = 1..m
      /\ Climbing(A, n)
      /\ \A i \in 1..n : v.active[i].source = "base_active" =>
           v.active[i].index \in 1..m /\ B[v.active[i].index] = A[i]
  BY DEF Viewed
<1>2. \A k \in 1..m : cur[k] = IF Places_(k) = {} THEN None ELSE CHOOSE i \in Places_(k) : TRUE
  BY <1>1 DEF BaseToCurrent
<1> HIDE DEF cur
<1>3. ASSUME NEW k \in 1..m, cur[k] # None
      PROVE  /\ cur[k] \in 1..n /\ v.active[cur[k]].source = "base_active"
             /\ v.active[cur[k]].index = k /\ A[cur[k]] = B[k]
  <2>1. cur[k] \in Places_(k)
    BY <1>2, <1>3
  <2> QED BY <2>1, <1>1
<1>4. ASSUME NEW i \in 1..n, v.active[i].source = "base_active"
      PROVE  cur[v.active[i].index] = i /\ i # None
  <2> DEFINE k == v.active[i].index
  <2>1. k \in 1..m /\ B[k] = A[i] /\ i # None
    BY <1>1, <1>4 DEF None
  <2>2. i \in Places_(k)
    BY <1>1, <1>4
  <2>3. cur[k] \in Places_(k)
    BY <2>1, <2>2, <1>2
  <2>4. cur[k] \in 1..n /\ v.active[cur[k]].index = k /\ v.active[cur[k]].source = "base_active"
    BY <2>3, <1>1
  <2>5. A[cur[k]] = A[i]
    BY <2>1, <2>4, <1>1
  <2> QED BY <2>1, <2>4, <2>5, <1>1, ClimbingFacts
<1> QED BY <1>3, <1>4 DEF cur

\* extra_active_ has the places that are not kept from the base, each once.
LEMMA ExtraFacts ==
  ASSUME NEW v, NEW b, NEW A, NEW n, NEW B, NEW m, Viewed(v, b, A, n, B, m)
  PROVE  LET X == {i \in 1..n : v.active[i].source # "base_active"}
             e == ExtraActive(v)
         IN /\ ToSet(e) = X /\ Len(e) \in Nat /\ DOMAIN e = 1..Len(e)
            /\ \A j \in 1..Len(e) : e[j] \in X
            /\ \A j, k \in 1..Len(e) : e[j] = e[k] => j = k
<1> DEFINE X == {i \in 1..n : v.active[i].source # "base_active"}
           e == ExtraActive(v)
<1>1. e = Ascending(X) /\ n \in Nat
  BY DEF ExtraActive, Viewed
<1>2. X \in SUBSET Int /\ IsFiniteSet(X)
  <2>1. IsFiniteSet(1..n)
    BY <1>1, FS_Interval
  <2>2. X \subseteq 1..n
    OBVIOUS
  <2> QED BY <1>1, <2>1, <2>2, FS_Subset
<1> HIDE DEF X, e
<1>3. /\ Cardinality(X) \in Nat /\ e \in [1..Cardinality(X) -> X] /\ e \in Seq(X)
      /\ Len(e) = Cardinality(X) /\ ToSet(e) = X
      /\ \A i, j \in 1..Cardinality(X) : i < j <=> e[i] < e[j]
  BY <1>1, <1>2, AscendingFacts
<1>4. ASSUME NEW j \in 1..Cardinality(X), NEW k \in 1..Cardinality(X), e[j] = e[k]
      PROVE  j = k
  <2>1. e[j] \in Int
    BY <1>2, <1>3
  <2>2. ~(e[j] < e[k]) /\ ~(e[k] < e[j])
    BY <2>1, <1>4
  <2>3. ~(j < k) /\ ~(k < j)
    BY <2>2, <1>3
  <2> QED BY <2>3, <1>3
<1> QED BY <1>3, <1>4 DEF X, e

-----------------------------------------------------------------------------
(* find_package                                                              *)

\* The active packages of s have these names.
Named(s, names, n) ==
  DOMAIN s.active = 1..n /\ \A i \in 1..n : s.active[i].name = names[i]

\* The search among sorted names finds the name or finds none.
LEMMA BaseIndexFacts ==
  ASSUME NEW s, NEW names, NEW n, n \in Nat, Climbing(names, n), Named(s, names, n), NEW w
  PROVE  /\ BaseIndex(s, w) = None => \A i \in 1..n : names[i] # w
         /\ BaseIndex(s, w) # None => BaseIndex(s, w) \in 1..n /\ names[BaseIndex(s, w)] = w
         /\ \A i \in 1..n : names[i] = w => BaseIndex(s, w) = i
<1>0. DOMAIN s.active = 1..n /\ \A i \in 1..n : s.active[i].name = names[i]
  BY DEF Named
<1> DEFINE hits == {k \in DOMAIN s.active : s.active[k].name = w}
           k == BaseIndex(s, w)
<1>1. k = IF hits = {} THEN None ELSE CHOOSE i \in hits : TRUE
  BY DEF BaseIndex
<1>2. hits # {} => k \in hits /\ k # None
  <2>1. \A i \in 1..n : i # None
    BY DEF None
  <2> HIDE DEF k
  <2> QED BY <2>1, <1>0, <1>1
<1> HIDE DEF k
<1>3. \A i \in 1..n : names[i] = w => i \in hits
  BY <1>0
<1>4. k # None => k \in 1..n /\ names[k] = w
  BY <1>0, <1>1, <1>2
<1>5. k = None => \A i \in 1..n : names[i] # w
  BY <1>2, <1>3
<1>6. \A i \in 1..n : names[i] = w => k = i
  BY <1>4, <1>5, ClimbingFacts
<1> QED BY <1>4, <1>5, <1>6 DEF k

\* find_package of an overlay finds what a search of the whole list finds: a name of
\* the base that is not kept is among the extra packages or nowhere.
LEMMA FindExact ==
  ASSUME NEW v, NEW b, NEW A, NEW n, NEW B, NEW m, Viewed(v, b, A, n, B, m),
         NEW full, Named(full, A, n),
         NEW w
  PROVE  FindPackage(v, b, w) = BaseIndex(full, w)
<1> DEFINE cur == BaseToCurrent(v, b)
           k == BaseIndex(b, w)
           hits == {i \in ToSet(ExtraActive(v)) : ActiveOf(v, b, i).name = w}
           x == ExtraIndex(v, b, w)
           f == BaseIndex(full, w)
<1>1. /\ n \in Nat /\ m \in Nat /\ Climbing(A, n) /\ Climbing(B, m) /\ DOMAIN b.active = 1..m
      /\ \A i \in 1..m : b.active[i].name = B[i]
      /\ \A i \in 1..n : ActiveOf(v, b, i).name = A[i]
      /\ v.kind = "overlay"
      /\ \A i \in 1..n : v.active[i].source = "base_active" =>
           v.active[i].index \in 1..m /\ B[v.active[i].index] = A[i]
  BY DEF Viewed
<1>2. /\ k # None => k \in 1..m /\ B[k] = w
      /\ \A i \in 1..m : B[i] = w => k = i
  <2>1. m \in Nat /\ Climbing(B, m) /\ Named(b, B, m)
    BY <1>1 DEF Named
  <2>2. /\ BaseIndex(b, w) # None => BaseIndex(b, w) \in 1..m /\ B[BaseIndex(b, w)] = w
        /\ \A i \in 1..m : B[i] = w => BaseIndex(b, w) = i
    BY <2>1, BaseIndexFacts
  <2> QED BY <2>2
<1>3. /\ f = None => \A i \in 1..n : A[i] # w
      /\ f # None => f \in 1..n /\ A[f] = w
      /\ \A i \in 1..n : A[i] = w => f = i
  <2>1. /\ BaseIndex(full, w) = None => \A i \in 1..n : A[i] # w
        /\ BaseIndex(full, w) # None => BaseIndex(full, w) \in 1..n /\ A[BaseIndex(full, w)] = w
        /\ \A i \in 1..n : A[i] = w => BaseIndex(full, w) = i
    BY <1>1, BaseIndexFacts
  <2> QED BY <2>1
<1>4. /\ \A i \in 1..m : cur[i] # None =>
           /\ cur[i] \in 1..n /\ A[cur[i]] = B[i]
      /\ \A i \in 1..n : v.active[i].source = "base_active" =>
           cur[v.active[i].index] = i /\ i # None
  BY CurrentFacts
<1>5. ToSet(ExtraActive(v)) = {i \in 1..n : v.active[i].source # "base_active"}
  BY ExtraFacts
<1>6. x = IF hits = {} THEN None ELSE CHOOSE i \in hits : TRUE
  BY DEF ExtraIndex
<1>7. FindPackage(v, b, w) = IF k # None /\ cur[k] # None THEN cur[k] ELSE x
  BY <1>1 DEF FindPackage
<1> SUFFICES FindPackage(v, b, w) = f
  OBVIOUS
<1> HIDE DEF cur, k, x, f
<1>8. CASE k # None /\ cur[k] # None
  BY <1>2, <1>3, <1>4, <1>7, <1>8
<1>9. CASE ~(k # None /\ cur[k] # None)
  <2>1. FindPackage(v, b, w) = x
    BY <1>7, <1>9
  <2>2. \A i \in hits : i \in 1..n /\ A[i] = w
    BY <1>1, <1>5
  <2>3. CASE f = None
    <3>1. hits = {}
      BY <2>2, <2>3, <1>3
    <3> QED BY <3>1, <2>1, <2>3, <1>6
  <2>4. CASE f # None
    <3>1. f \in 1..n /\ A[f] = w
      BY <2>4, <1>3
    <3>2. v.active[f].source # "base_active"
      <4> SUFFICES ASSUME v.active[f].source = "base_active" PROVE FALSE
        OBVIOUS
      <4>1. v.active[f].index \in 1..m /\ B[v.active[f].index] = w
        BY <3>1, <1>1
      <4>2. k = v.active[f].index
        BY <4>1, <1>2
      <4>3. cur[k] = f
        BY <4>2, <3>1, <1>4
      <4>4. k # None
        BY <4>1, <4>2 DEF None
      <4> QED BY <4>3, <4>4, <2>4, <1>9
    <3>3. f \in hits
      BY <3>1, <3>2, <1>1, <1>5
    <3>4. x \in hits
      BY <3>3, <1>6
    <3>5. x = f
      BY <3>4, <2>2, <1>3
    <3> QED BY <3>5, <2>1
  <2> QED BY <2>3, <2>4
<1> QED BY <1>8, <1>9

-----------------------------------------------------------------------------
(* search                                                                    *)

\* The first n of a set, taken through a growing map, are the first n of its values.
LEMMA FirstsMapped ==
  ASSUME NEW K \in SUBSET Int, NEW c, \A k \in K : c[k] \in Int,
         \A k, l \in K : k < l => c[k] < c[l],
         NEW N \in Nat, NEW s, Firsts(s, K, N)
  PROVE  Firsts([p \in DOMAIN s |-> c[s[p]]], {c[k] : k \in K}, N)
<1> DEFINE l == Len(s)
           q == [p \in DOMAIN s |-> c[s[p]]]
           W == {c[k] : k \in K}
<1>1. /\ s \in Seq(Int) /\ Climbs(s) /\ ToSet(s) \subseteq K /\ l <= N
      /\ \A k \in K \ ToSet(s) : l = N /\ \A x \in ToSet(s) : x < k
  BY DEF Firsts
<1>2. /\ l \in Nat /\ DOMAIN s = 1..l /\ \A p \in 1..l : s[p] \in ToSet(s)
      /\ \A p, p2 \in 1..l : p < p2 => s[p] < s[p2]
      /\ \A x \in ToSet(s) : \E p \in 1..l : s[p] = x
  BY <1>1, ListFacts
<1> HIDE DEF l
<1>3. \A p \in 1..l : s[p] \in K
  BY <1>1, <1>2
<1>4. /\ q = [p \in 1..l |-> c[s[p]]] /\ \A p \in 1..l : c[s[p]] \in Int
  BY <1>2, <1>3
<1>5. q \in Seq(Int) /\ Len(q) = l /\ DOMAIN q = 1..l /\ \A p \in 1..l : q[p] = c[s[p]]
  BY <1>2, <1>4
<1> HIDE DEF q
<1>6. Climbs(q)
  <2> SUFFICES ASSUME NEW p \in 1..l, NEW p2 \in 1..l, p < p2 PROVE q[p] < q[p2]
    BY <1>5 DEF Climbs
  <2>1. s[p] < s[p2] /\ s[p] \in K /\ s[p2] \in K
    BY <1>2, <1>3
  <2>2. c[s[p]] < c[s[p2]]
    BY <2>1
  <2> QED BY <2>2, <1>5
<1>7. \A w \in ToSet(q) : \E p \in 1..l : w = c[s[p]]
  BY <1>5 DEF ToSet
<1>8. ToSet(q) \subseteq W
  BY <1>3, <1>7
<1>9. ASSUME NEW w \in W \ ToSet(q) PROVE l = N /\ \A x \in ToSet(q) : x < w
  <2>1. PICK k \in K : w = c[k]
    OBVIOUS
  <2>2. k \notin ToSet(s)
    <3> SUFFICES ASSUME k \in ToSet(s) PROVE FALSE
      OBVIOUS
    <3>1. PICK p \in 1..l : s[p] = k
      BY <1>2
    <3>2. q[p] = w /\ q[p] \in ToSet(q)
      BY <2>1, <3>1, <1>5 DEF ToSet
    <3> QED BY <3>2
  <2>3. l = N /\ \A x \in ToSet(s) : x < k
    BY <2>2, <1>1
  <2>4. ASSUME NEW x \in ToSet(q) PROVE x < w
    <3>1. PICK p \in 1..l : x = c[s[p]]
      BY <1>7
    <3>2. s[p] < k /\ s[p] \in K
      BY <2>3, <1>2, <1>3
    <3> QED BY <3>1, <3>2, <2>1
  <2> QED BY <2>3, <2>4
<1> HIDE DEF W
<1>10. Firsts(q, W, N)
  BY <1>1, <1>5, <1>6, <1>8, <1>9 DEF Firsts
<1> QED BY <1>10 DEF q, W

\* The lower bound among the names of the results is the one among their places.
LEMMA LowerBoundIs ==
  ASSUME NEW v, NEW b, NEW A, NEW n, NEW B, NEW m, Viewed(v, b, A, n, B, m),
         NEW r, DOMAIN r = 1..Len(r), \A p \in 1..Len(r) : r[p] \in 1..n, NEW i \in 1..n
  PROVE  LowerBound(v, b, r, ActiveOf(v, b, i).name) = Spot(r, i)
<1>1. n \in Nat /\ Climbing(A, n) /\ \A k \in 1..n : ActiveOf(v, b, k).name = A[k]
  BY DEF Viewed
<1>2. \A k, l \in 1..n : A[k] < A[l] <=> k < l
  BY <1>1, ClimbingFacts
<1>3. {p \in DOMAIN r : ActiveOf(v, b, r[p]).name < ActiveOf(v, b, i).name} = Below(r, i)
  BY <1>1, <1>2 DEF Below
<1> QED BY <1>3 DEF LowerBound, Spot

\* An extra package that matches joins the results, at the place of its name.
LEMMA AddExtraIs ==
  ASSUME NEW v, NEW b, NEW A, NEW n, NEW B, NEW m, Viewed(v, b, A, n, B, m),
         NEW r \in Seq(Int), Climbs(r), ToSet(r) \subseteq 1..n, NEW i \in 1..n,
         NEW query, NEW N \in Nat
  PROVE  AddExtra(v, b, query, N, r, i) = IF A[i] \notin query THEN r ELSE Joining(r, i, N)
<1> DEFINE name == ActiveOf(v, b, i).name
           l == Len(r)
           f == Front(r)
<1>1. name = A[i] /\ n \in Nat
  BY DEF Viewed
<1>2. /\ l \in Nat /\ DOMAIN r = 1..l
      /\ \A p \in 1..l : r[p] \in 1..n
  BY ListFacts
<1>3. LowerBound(v, b, r, name) = Spot(r, i)
  BY <1>2, LowerBoundIs
<1>4. ASSUME Spot(r, i) <= l PROVE LowerBound(v, b, f, name) = Spot(f, i)
  <2>1. Cardinality(Below(r, i)) \in 0..l
    BY SplitAt
  <2>2. l # 0
    BY <2>1, <1>2, <1>4 DEF Spot
  <2>3. f \in Seq(Int) /\ Climbs(f) /\ ToSet(f) \subseteq ToSet(r)
    BY <2>2, FrontFacts
  <2> HIDE DEF f
  <2>4. DOMAIN f = 1..Len(f) /\ \A p \in 1..Len(f) : f[p] \in ToSet(f)
    BY <2>3, ListFacts
  <2>5. \A p \in 1..Len(f) : f[p] \in 1..n
    BY <2>3, <2>4
  <2> QED BY <2>4, <2>5, LowerBoundIs
<1>5. AddExtra(v, b, query, N, r, i) =
        IF name \notin query THEN r
        ELSE IF l < N THEN InsertAt(r, LowerBound(v, b, r, name), i)
        ELSE IF LowerBound(v, b, r, name) <= l
          THEN InsertAt(f, LowerBound(v, b, f, name), i)
        ELSE r
  BY DEF AddExtra
<1>6. Joining(r, i, N) = IF l < N THEN InsertAt(r, Spot(r, i), i)
                         ELSE IF Spot(r, i) <= l THEN InsertAt(f, Spot(f, i), i)
                         ELSE r
  BY DEF Joining
<1> HIDE DEF name, l, f
<1> QED BY <1>1, <1>3, <1>4, <1>5, <1>6

\* Only the places whose base record is kept are matched in the base: a block
\* that is not dirty has no other.
LEMMA BaseMatchesAre ==
  ASSUME NEW v, NEW b, NEW A, NEW n, NEW B, NEW m, Viewed(v, b, A, n, B, m),
         NEW query, NEW N \in Nat
  PROVE  BaseMatches(v, b, query, N) =
           Truncated(Ascending({k \in 1..m : B[k] \in query /\ BaseToCurrent(v, b)[k] # None}), N)
<1> DEFINE cur == BaseToCurrent(v, b)
           found == {k \in DOMAIN b.active :
                 /\ b.active[k].name \in query
                 /\ v.kind = "overlay" /\ BlockOf(k) \in DirtyBlocks(v, b) => cur[k] # None}
           K == {k \in 1..m : B[k] \in query /\ cur[k] # None}
<1>1. v.kind = "overlay" /\ DOMAIN b.active = 1..m /\ \A k \in 1..m : b.active[k].name = B[k]
  BY DEF Viewed
<1>2. \A k \in DOMAIN b.active : cur[k] = None => BlockOf(k) \in DirtyBlocks(v, b)
  BY DEF DirtyBlocks
<1>3. BaseMatches(v, b, query, N) = Truncated(Ascending(found), N)
  BY DEF BaseMatches
<1> HIDE DEF cur
<1>4. found = K
  BY <1>1, <1>2
<1> QED BY <1>3, <1>4 DEF cur

\* f holds the results after the first n of the extra packages.
Extending(g, b, query, N, start, n, f) ==
  f = [j \in 0..n |-> IF j = 0 THEN start
                      ELSE AddExtra(g, b, query, N, f[j - 1], ExtraActive(g)[j])]

\* The recursive function of WithExtras exists.
LEMMA WithExtrasAre ==
  ASSUME NEW v, NEW b, NEW query, NEW M, NEW start, Len(ExtraActive(v)) \in Nat
  PROVE  Extending(v, b, query, M, start, Len(ExtraActive(v)), WithExtras(v, b, query, M, start))
<1> DEFINE N == Len(ExtraActive(v))
           F(f, n) == Extending(v, b, query, M, start, n, f)
           T == {n \in 0..N : \E f : F(f, n)}
           Step(x, j) == AddExtra(v, b, query, M, x, ExtraActive(v)[j])
<1>1. N \in Nat
  OBVIOUS
<1>2. WithExtras(v, b, query, M, start) = CHOOSE f : F(f, N)
  BY Zenon DEF WithExtras, Extending
<1>21. \A f, n : F(f, n) <=> f = [j \in 0..n |-> IF j = 0 THEN start ELSE Step(f[j - 1], j)]
  BY Zenon DEF Extending
<1> SUFFICES F(WithExtras(v, b, query, M, start), N)
  OBVIOUS
<1> HIDE DEF N, Step, F
<1>3. 0 \in T
  <2> DEFINE f == [i \in 0..0 |-> start]
  <2>1. f = [i \in 0..0 |-> IF i = 0 THEN start ELSE Step(f[i - 1], i)]
    <3> HIDE DEF f
    <3>1. \A i \in 0..0 : i = 0
      OBVIOUS
    <3> QED BY <3>1, Zenon DEF f
  <2>2. F(f, 0)
    BY <2>1, <1>21, Zenon
  <2> QED BY <2>2, <1>1
<1>4. ASSUME NEW n \in 0..N-1, n \in T
      PROVE  n + 1 \in T
  <2>1. PICK f : F(f, n)
    BY <1>4
  <2> DEFINE g == [i \in 0..n+1 |-> IF i = n + 1 THEN Step(f[n], i) ELSE f[i]]
             h == [i \in 0..n+1 |-> IF i = 0 THEN start ELSE Step(g[i - 1], i)]
  <2>2. \A i \in 0..n : f[i] = IF i = 0 THEN start ELSE Step(f[i - 1], i)
    BY <2>1, <1>21, Zenon
  <2>3. ASSUME NEW i \in 0..n+1 PROVE g[i] = h[i]
    <3>1. n \in Nat
      BY <1>1
    <3>2. CASE i = 0
      BY <3>1, <3>2, <2>2
    <3>3. CASE i = n + 1
      <4>1. g[i - 1] = f[n] /\ i # 0
        BY <3>1, <3>3
      <4>2. h[i] = Step(g[i - 1], i)
        BY <4>1
      <4> QED BY <3>3, <4>1, <4>2
    <3>4. CASE i # 0 /\ i # n + 1
      <4>1. i \in 0..n /\ i - 1 \in 0..n+1 /\ i - 1 # n + 1
        BY <3>1, <3>4
      <4>2. g[i - 1] = f[i - 1] /\ g[i] = f[i]
        BY <4>1, <3>4
      <4>3. h[i] = Step(g[i - 1], i)
        BY <3>4
      <4> QED BY <4>1, <4>2, <4>3, <2>2, <3>4
    <3> QED BY <3>2, <3>3, <3>4
  <2>4. g = h
    <3> HIDE DEF g
    <3>1. g = [i \in 0..n+1 |-> g[i]]
      BY DEF g
    <3>2. \A i \in 0..n+1 : g[i] = h[i]
      BY <2>3
    <3> QED BY <3>1, <3>2
  <2>5. F(g, n + 1)
    BY <2>4, <1>21, Zenon
  <2>6. n + 1 \in 0..N
    BY <1>1
  <2> QED BY <2>5, <2>6
<1>5. 0..N \subseteq T
  <2> HIDE DEF T
  <2> QED BY <1>1, <1>3, <1>4, UpTo
<1>6. N \in T
  BY <1>1, <1>5
<1> QED BY <1>2, <1>6

\* What WithExtras does in each step.
LEMMA WithExtrasSteps ==
  ASSUME NEW v, NEW b, NEW query, NEW M, NEW start, NEW l \in Nat, l = Len(ExtraActive(v))
  PROVE  LET R == WithExtras(v, b, query, M, start)
         IN /\ R[0] = start
            /\ \A j \in 0..l - 1 :
                 R[j + 1] = AddExtra(v, b, query, M, R[j], ExtraActive(v)[j + 1])
<1> DEFINE R == WithExtras(v, b, query, M, start)
           Step(x, j) == AddExtra(v, b, query, M, x, ExtraActive(v)[j])
<1>0. Extending(v, b, query, M, start, l, R)
  BY WithExtrasAre
<1>1. R = [j \in 0..l |-> IF j = 0 THEN start ELSE Step(R[j - 1], j)]
  <2> HIDE DEF R
  <2> QED BY <1>0, Zenon DEF Extending
<1> HIDE DEF Step, R
<1>2. R[0] = start
  <2>1. 0 \in 0..l
    OBVIOUS
  <2> QED BY <1>1, <2>1
<1>3. ASSUME NEW j \in 0..l - 1 PROVE R[j + 1] = Step(R[j], j + 1)
  <2>1. j + 1 \in 0..l /\ j + 1 # 0 /\ j + 1 - 1 = j
    OBVIOUS
  <2>2. R[j + 1] = Step(R[j + 1 - 1], j + 1)
    BY <1>1, <2>1
  <2> QED BY <2>1, <2>2
<1> QED BY <1>2, <1>3 DEF R, Step

\* What the base gives, moved to the overlay, is the first n matches that are kept.
LEMMA SearchStart ==
  ASSUME NEW v, NEW b, NEW A, NEW n, NEW B, NEW m, Viewed(v, b, A, n, B, m),
         NEW query, NEW N \in Nat
  PROVE  LET inBase == BaseMatches(v, b, query, N)
             current == [p \in DOMAIN inBase |-> BaseToCurrent(v, b)[inBase[p]]]
         IN Firsts(current, {i \in 1..n : v.active[i].source = "base_active" /\ A[i] \in query}, N)
<1> DEFINE cur == BaseToCurrent(v, b)
           inBase == BaseMatches(v, b, query, N)
           K == {k \in 1..m : B[k] \in query /\ cur[k] # None}
           W == {i \in 1..n : v.active[i].source = "base_active" /\ A[i] \in query}
<1>1. inBase = Truncated(Ascending(K), N)
  BY BaseMatchesAre
<1>2. /\ n \in Nat /\ m \in Nat /\ Climbing(A, n) /\ Climbing(B, m)
      /\ \A i \in 1..n : v.active[i].source = "base_active" =>
           v.active[i].index \in 1..m /\ B[v.active[i].index] = A[i]
  BY DEF Viewed
<1>3. /\ \A k \in 1..m : cur[k] # None =>
           /\ cur[k] \in 1..n /\ v.active[cur[k]].source = "base_active"
           /\ v.active[cur[k]].index = k /\ A[cur[k]] = B[k]
      /\ \A i \in 1..n : v.active[i].source = "base_active" =>
           /\ cur[v.active[i].index] = i /\ i # None
  BY CurrentFacts
<1> HIDE DEF cur, inBase
<1>4. K \in SUBSET Int /\ IsFiniteSet(K)
  <2>1. K \subseteq 1..m /\ IsFiniteSet(1..m)
    BY <1>2, FS_Interval
  <2> QED BY <2>1, <1>2, FS_Subset
<1>5. Firsts(inBase, K, N)
  <2> HIDE DEF K
  <2> QED BY <1>1, <1>4, TruncatedFirsts
<1>6. ASSUME NEW k \in K, NEW l \in K, k < l PROVE cur[k] < cur[l]
  <2>1. B[k] < B[l]
    BY <1>6, <1>2, ClimbingFacts
  <2>2. /\ cur[k] \in 1..n /\ A[cur[k]] = B[k]
        /\ cur[l] \in 1..n /\ A[cur[l]] = B[l]
    BY <1>3
  <2>3. A[cur[k]] < A[cur[l]]
    BY <2>1, <2>2
  <2> QED BY <2>2, <2>3, <1>2, ClimbingFacts
<1>7. \A k \in K : cur[k] \in Int
  BY <1>3, <1>2
<1>8. {cur[k] : k \in K} = W
  <2>1. ASSUME NEW k \in K PROVE cur[k] \in W
    BY <1>3
  <2>2. ASSUME NEW i \in W PROVE \E k \in K : cur[k] = i
    <3>1. v.active[i].index \in 1..m /\ B[v.active[i].index] \in query
          /\ cur[v.active[i].index] = i /\ i # None
      BY <1>2, <1>3
    <3> QED BY <3>1
  <2> QED BY <2>1, <2>2
<1> HIDE DEF K, W
<1>9. Firsts([p \in DOMAIN inBase |-> cur[inBase[p]]], {cur[k] : k \in K}, N)
  BY <1>4, <1>5, <1>6, <1>7, FirstsMapped
<1> QED BY <1>8, <1>9 DEF W, inBase, cur

\* A search of an overlay gives the first of all that match.
LEMMA SearchFirsts ==
  ASSUME NEW v, NEW b, NEW A, NEW n, NEW B, NEW m, Viewed(v, b, A, n, B, m),
         NEW query, NEW N \in Nat
  PROVE  Search(v, b, query, N) = Truncated(Ascending({i \in 1..n : A[i] \in query}), N)
<1> DEFINE inBase == BaseMatches(v, b, query, N)
           current == [p \in DOMAIN inBase |-> BaseToCurrent(v, b)[inBase[p]]]
           e == ExtraActive(v)
           R == WithExtras(v, b, query, N, current)
           l == Len(e)
           X == {i \in 1..n : v.active[i].source # "base_active"}
           W0 == {i \in 1..n : v.active[i].source = "base_active" /\ A[i] \in query}
           W(j) == W0 \cup {i \in {e[p] : p \in 1..j} : A[i] \in query}
           T == {j \in 0..l : Firsts(R[j], W(j), N)}
           Matching == {i \in 1..n : A[i] \in query}
<1>1. v.kind = "overlay" /\ n \in Nat
  BY DEF Viewed
<1>2. Search(v, b, query, N) = R[l]
  BY <1>1 DEF Search
<1>3. /\ l \in Nat /\ ToSet(e) = X /\ DOMAIN e = 1..l
      /\ \A j \in 1..l : e[j] \in X
      /\ \A j, k \in 1..l : e[j] = e[k] => j = k
  BY ExtraFacts
<1>4. Firsts(current, W0, N)
  BY SearchStart
<1>5. /\ R[0] = current
      /\ \A j \in 0..l - 1 : R[j + 1] = AddExtra(v, b, query, N, R[j], e[j + 1])
  BY <1>3, WithExtrasSteps
<1> SUFFICES R[l] = Truncated(Ascending(Matching), N)
  BY <1>2
<1> HIDE DEF current, R, e, l, inBase
<1>6. 0 \in T
  <2>1. W(0) = W0
    OBVIOUS
  <2>2. 0 \in 0..l
    BY <1>3
  <2> HIDE DEF W, W0
  <2>3. Firsts(R[0], W(0), N)
    BY <2>1, <1>4, <1>5
  <2> QED BY <2>2, <2>3
<1>7. ASSUME NEW j \in 0..l - 1, j \in T PROVE j + 1 \in T
  <2> DEFINE i == e[j + 1]
             r == R[j]
             V == W(j)
  <2>1. i \in 1..n /\ v.active[i].source # "base_active" /\ j + 1 \in 1..l /\ j \in Nat
    BY <1>3
  <2>2. V \subseteq 1..n
    BY <1>3
  <2>3. Firsts(r, V, N)
    BY <1>7
  <2>4. i \notin V
    <3>1. \A p \in 1..j : p \in 1..l /\ p # j + 1
      BY <1>3
    <3>2. \A p \in 1..j : e[p] # i
      BY <3>1, <2>1, <1>3
    <3> QED BY <3>2, <2>1
  <2>5. W(j + 1) = IF A[i] \in query THEN V \cup {i} ELSE V
    <3>1. 1..j + 1 = (1..j) \cup {j + 1}
      BY <1>3
    <3> QED BY <3>1
  <2>6. r \in Seq(Int) /\ Climbs(r) /\ ToSet(r) \subseteq V
    BY <2>3 DEF Firsts
  <2>7. R[j + 1] = AddExtra(v, b, query, N, r, i)
    BY <1>5
  <2> SUFFICES Firsts(R[j + 1], W(j + 1), N)
    BY <1>3
  <2> HIDE DEF i, r, V, W
  <2>8. R[j + 1] = IF A[i] \notin query THEN r ELSE Joining(r, i, N)
    <3>1. ToSet(r) \subseteq 1..n
      BY <2>2, <2>6
    <3> QED BY <3>1, <2>1, <2>6, <2>7, AddExtraIs
  <2>9. CASE A[i] \notin query
    BY <2>9, <2>3, <2>5, <2>8
  <2>10. CASE A[i] \in query
    <3>1. V \in SUBSET Int /\ i \in Int
      BY <2>1, <2>2
    <3>2. Firsts(Joining(r, i, N), V \cup {i}, N)
      BY <3>1, <2>3, <2>4, Joined
    <3> QED BY <3>2, <2>5, <2>8, <2>10
  <2> QED BY <2>9, <2>10
<1>8. l \in T
  <2> HIDE DEF T
  <2>1. 0..l \subseteq T
    BY <1>3, <1>6, <1>7, UpTo
  <2> QED BY <2>1, <1>3
<1>9. W(l) = Matching
  <2>1. {e[p] : p \in 1..l} = X
    BY <1>3 DEF ToSet
  <2> QED BY <2>1
<1>10. Firsts(R[l], Matching, N)
  BY <1>8, <1>9
<1>11. Firsts(Truncated(Ascending(Matching), N), Matching, N)
  <2>1. Matching \subseteq 1..n /\ IsFiniteSet(1..n)
    BY <1>1, FS_Interval
  <2>2. Matching \in SUBSET Int /\ IsFiniteSet(Matching)
    BY <2>1, <1>1, FS_Subset
  <2> HIDE DEF Matching
  <2> QED BY <2>2, TruncatedFirsts
<1> QED BY <1>10, <1>11, FirstsOnly

-----------------------------------------------------------------------------
(* Answers                                                                   *)

\* A snapshot answers from itself.
LEMMA SnapshotAnswers ==
  ASSUME NEW g, g.kind = "snapshot"
  PROVE  /\ \A w : FindPackage(g, g, w) = BaseIndex(g, w)
         /\ \A query, n : Search(g, g, query, n) =
              Truncated(Ascending({i \in DOMAIN g.active : g.active[i].name \in query}), n)
<1>1. \A w : FindPackage(g, g, w) = BaseIndex(g, w)
  BY DEF FindPackage
<1>2. ASSUME NEW query, NEW n
      PROVE  Search(g, g, query, n) =
               Truncated(Ascending({i \in DOMAIN g.active : g.active[i].name \in query}), n)
  <2>1. g.kind # "overlay"
    OBVIOUS
  <2>2. {k \in DOMAIN g.active : /\ g.active[k].name \in query
                                 /\ g.kind = "overlay" /\ BlockOf(k) \in DirtyBlocks(g, g)
                                      => BaseToCurrent(g, g)[k] # None}
        = {i \in DOMAIN g.active : g.active[i].name \in query}
    BY <2>1
  <2>3. Search(g, g, query, n) = BaseMatches(g, g, query, n)
    BY DEF Search
  <2> QED BY <2>2, <2>3, Zenon DEF BaseMatches
<1> QED BY <1>1, <1>2

\* An overlay answers as the full build it is read as.
LEMMA OverlayAnswers ==
  ASSUME NEW t0 \in Trees, NEW t \in Trees, NEW v, Sound(v, FullBuild(t0), t)
  PROVE  /\ \A w : FindPackage(v, FullBuild(t0), w) = BaseIndex(FullBuild(t), w)
         /\ \A query, n : n \in Nat =>
              Search(v, FullBuild(t0), query, n) =
                Truncated(Ascending({i \in DOMAIN FullBuild(t).active :
                                       FullBuild(t).active[i].name \in query}), n)
<1> DEFINE b == FullBuild(t0)
           full == FullBuild(t)
           A == [i \in DOMAIN full.active |-> full.active[i].name]
           B == [i \in DOMAIN b.active |-> b.active[i].name]
           n == Len(full.active)
           m == Len(b.active)
<1>1. Viewed(v, b, A, n, B, m)
  BY SoundViewed
<1>2. n \in Nat /\ DOMAIN full.active = 1..n
  BY FullBuildClimbs
<1> HIDE DEF b, full, n, m
<1>3. \A i \in 1..n : full.active[i].name = A[i]
  BY <1>2
<1> HIDE DEF A, B
<1>4. Named(full, A, n)
  BY <1>2, <1>3 DEF Named
<1>5. \A w : FindPackage(v, b, w) = BaseIndex(full, w)
  BY <1>1, <1>4, FindExact
<1>6. ASSUME NEW query, NEW N \in Nat
      PROVE  Search(v, b, query, N) =
               Truncated(Ascending({i \in DOMAIN full.active : full.active[i].name \in query}), N)
  <2>1. {i \in DOMAIN full.active : full.active[i].name \in query} = {i \in 1..n : A[i] \in query}
    BY <1>2, <1>3
  <2>2. Search(v, b, query, N) = Truncated(Ascending({i \in 1..n : A[i] \in query}), N)
    BY <1>1, SearchFirsts
  <2> QED BY <2>1, <2>2
<1> QED BY <1>5, <1>6 DEF b, full

\* Whatever was published, a lookup finds what is active, and a search gives the first
\* matches of the whole generation for every set of matching packages and every limit,
\* as the full build of the same refs would (generation.cpp:592-627, 697-742).
THEOREM AnswersExact == Spec => []AnswersAreExact
<1>1. CatalogInv => AnswersAreExact
  <2> SUFFICES ASSUME CatalogInv, Published PROVE AnswersAreExact
    BY DEF AnswersAreExact, FindsActive, SearchIsExact
  <2> DEFINE g == output
             b == BaseOf(output)
             full == FullBuild(tree)
             Matching(query) == {i \in DOMAIN full.active : full.active[i].name \in query}
  <2>1. tree \in Trees
    BY DEF CatalogInv
  <2>2. \A k \in 0..MaxResults : k \in Nat
    BY CatalogAssumption
  <2>3. /\ \A w : FindPackage(g, b, w) = BaseIndex(full, w)
        /\ \A query, k : k \in Nat =>
             Search(g, b, query, k) = Truncated(Ascending(Matching(query)), k)
    <3>1. CASE output.kind = "snapshot" /\ output = full /\ b = full
      <4> HIDE DEF full, b
      <4> QED BY <3>1, SnapshotAnswers
    <3>2. CASE output.kind = "overlay" /\ Sound(output, base, tree) /\ b = base
      <4>1. PICK t0 \in Trees : base = FullBuild(t0)
        BY <3>2, PublishedReads
      <4> HIDE DEF b
      <4> QED BY <2>1, <3>2, <4>1, OverlayAnswers
    <3> QED BY <3>1, <3>2, PublishedReads
  <2> QED BY <2>2, <2>3, Zenon DEF AnswersAreExact, FindsActive, SearchIsExact
<1> QED BY <1>1, Invariance, PTL
=============================================================================
