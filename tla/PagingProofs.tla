----------------------------- MODULE PagingProofs -----------------------------
(***************************************************************************)
(* Theorems about Paging, for any rows, queries, writers and page size:    *)
(* what a client that reads page by page can miss of a list that changes,  *)
(* what it can be shown twice, and in which order rows are listed.         *)
(***************************************************************************)
EXTENDS Paging, Integers, FiniteSetTheorems, SequenceTheorems, TLAPS

----------------------------------------------------------------------------
(* Finite sets. *)

\* A set that covers another has at least as many elements.
LEMMA CardMono ==
  ASSUME NEW T, IsFiniteSet(T), NEW S, S \subseteq T
  PROVE  /\ IsFiniteSet(S) /\ Cardinality(S) \in Nat /\ Cardinality(T) \in Nat
         /\ Cardinality(S) <= Cardinality(T)
BY FS_Subset, FS_CardinalityType

LEMMA CardUnion ==
  ASSUME NEW S, IsFiniteSet(S), NEW T, IsFiniteSet(T)
  PROVE  /\ IsFiniteSet(S \cup T)
         /\ Cardinality(S \cup T) \in Nat /\ Cardinality(S) \in Nat /\ Cardinality(T) \in Nat
         /\ Cardinality(S \cup T) <= Cardinality(S) + Cardinality(T)
         /\ S \cap T = {} => Cardinality(S \cup T) = Cardinality(S) + Cardinality(T)
<1>1. IsFiniteSet(S \cup T) /\ IsFiniteSet(S \cap T)
  BY FS_Union, FS_Intersection
<1>2. /\ Cardinality(S) \in Nat /\ Cardinality(T) \in Nat
      /\ Cardinality(S \cup T) \in Nat /\ Cardinality(S \cap T) \in Nat
  BY <1>1, FS_CardinalityType
<1>3. Cardinality(S \cup T) = Cardinality(S) + Cardinality(T) - Cardinality(S \cap T)
  BY FS_Union
<1>4. S \cap T = {} => Cardinality(S \cap T) = 0
  BY FS_EmptySet
<1> QED
  BY <1>1, <1>2, <1>3, <1>4

\* The image of a finite set under a function.
LEMMA CardImage ==
  ASSUME NEW S, IsFiniteSet(S), NEW f, DOMAIN f = S, f = [x \in S |-> f[x]]
  PROVE  /\ IsFiniteSet({f[x] : x \in S})
         /\ Cardinality({f[x] : x \in S}) \in Nat /\ Cardinality(S) \in Nat
         /\ Cardinality({f[x] : x \in S}) <= Cardinality(S)
         /\ (\A x, y \in S : f[x] = f[y] => x = y) =>
              Cardinality({f[x] : x \in S}) = Cardinality(S)
<1> DEFINE T == {f[x] : x \in S}
<1>1. f \in Surjection(S, T)
  BY DEF Surjection
<1>2. /\ IsFiniteSet(T) /\ Cardinality(T) <= Cardinality(S)
      /\ Cardinality(T) = Cardinality(S) <=> f \in Injection(S, T)
  BY <1>1, FS_Surjection
<1>3. (\A x, y \in S : f[x] = f[y] => x = y) => f \in Injection(S, T)
  BY DEF Injection, IsInjective
<1>4. Cardinality(T) \in Nat /\ Cardinality(S) \in Nat
  BY <1>2, FS_CardinalityType
<1> QED
  BY <1>2, <1>3, <1>4

----------------------------------------------------------------------------
(* Lists: sets of rows [id, key], and their rows above and below a key. *)

IsList(L) ==
  /\ IsFiniteSet(L)
  /\ \A x \in L : x.key \in Int
  /\ \A x, y \in L : x.id = y.id => x = y

IdsIn(L)    == {x.id : x \in L}
Above(L, c) == {x.id : x \in {y \in L : y.key >= c}}
Below(L, c) == {x.id : x \in {y \in L : y.key < c}}

LEMMA CardIds ==
  ASSUME NEW L, IsFiniteSet(L)
  PROVE  /\ IsFiniteSet(IdsIn(L)) /\ Cardinality(IdsIn(L)) \in Nat
         /\ Cardinality(L) \in Nat /\ Cardinality(IdsIn(L)) <= Cardinality(L)
<1> DEFINE f == [x \in L |-> x.id]
<1>1. IdsIn(L) = {f[x] : x \in L}
  BY DEF IdsIn
<1>2. DOMAIN f = L /\ f = [x \in L |-> f[x]]
  OBVIOUS
<1> HIDE DEF f
<1> QED
  BY <1>1, <1>2, CardImage

LEMMA AboveBelow ==
  ASSUME NEW L, IsList(L), NEW c \in Int
  PROVE  /\ Above(L, c) \subseteq IdsIn(L) /\ Below(L, c) \subseteq IdsIn(L)
         /\ Below(L, c) = IdsIn(L) \ Above(L, c)
         /\ IsFiniteSet(IdsIn(L)) /\ IsFiniteSet(Above(L, c)) /\ IsFiniteSet(Below(L, c))
<1>1. Above(L, c) \subseteq IdsIn(L) /\ Below(L, c) \subseteq IdsIn(L)
  BY DEF Above, Below, IdsIn
<1>2. Below(L, c) = IdsIn(L) \ Above(L, c)
  BY DEF Above, Below, IdsIn, IsList
<1> QED
  BY <1>1, <1>2, CardIds, CardMono DEF IsList

----------------------------------------------------------------------------
(* A listing without ties is the list from its highest key down. *)

Ordered(L, s, n) ==
  /\ n \in Nat /\ n = Cardinality(L)
  /\ s \in [1..n -> L]
  /\ \A i, j \in 1..n : i < j => s[i].key > s[j].key
  /\ \A x \in L : \E i \in 1..n : s[i] = x

\* The ids of the first k rows.
Cut(s, k) == {s[i].id : i \in 1..k}

LEMMA ListingOrdered ==
  ASSUME NEW L, IsList(L), ~Ties(L), NEW s \in Listings(L)
  PROVE  Ordered(L, s, Cardinality(L))
<1> DEFINE n == Cardinality(L)
<1>1. n \in Nat /\ IsFiniteSet(L)
  BY FS_CardinalityType DEF IsList
<1>2. /\ s \in [1..n -> L]
      /\ \A i, j \in 1..n : i < j => s[i] # s[j] /\ s[i].key >= s[j].key
  BY DEF Listings, InOrder
<1> HIDE DEF n
<1>3. s \in Injection(1..n, L)
  <2>1. \A i, j \in 1..n : s[i] = s[j] => i = j
    <3> SUFFICES ASSUME NEW i \in 1..n, NEW j \in 1..n, s[i] = s[j], i # j PROVE FALSE
      OBVIOUS
    <3>1. i < j \/ j < i
      BY <1>1
    <3> QED BY <1>2, <3>1
  <2> QED BY <1>2, <2>1 DEF Injection, IsInjective
<1>4. Cardinality(1..n) = n
  BY <1>1, FS_Interval
<1>5. s \in Surjection(1..n, L)
  BY <1>1, <1>3, <1>4, FS_Injection DEF n
<1>6. \A x \in L : \E i \in 1..n : s[i] = x
  BY <1>5 DEF Surjection
<1>7. ASSUME NEW i \in 1..n, NEW j \in 1..n, i < j PROVE s[i].key > s[j].key
  <2>1. s[i] \in L /\ s[j] \in L /\ s[i] # s[j] /\ s[i].key >= s[j].key
    BY <1>2, <1>7
  <2>2. s[i].key # s[j].key
    BY <2>1 DEF Ties
  <2>3. s[i].key \in Int /\ s[j].key \in Int
    BY <2>1 DEF IsList
  <2> QED BY <2>1, <2>2, <2>3
<1> QED
  BY <1>1, <1>2, <1>6, <1>7 DEF Ordered, n

\* A cut of k rows has k ids.
LEMMA CutSize ==
  ASSUME NEW L, IsList(L), NEW s, NEW n, Ordered(L, s, n), NEW k \in 0..n
  PROVE  /\ IsFiniteSet(Cut(s, k)) /\ Cardinality(Cut(s, k)) = k
         /\ Cut(s, k) \subseteq IdsIn(L)
         /\ Cut(s, n) = IdsIn(L)
<1> DEFINE f == [i \in 1..k |-> s[i].id]
<1>0. n \in Nat /\ k \in Nat /\ k <= n
  BY DEF Ordered
<1>1. Cut(s, k) = {f[i] : i \in 1..k}
  BY DEF Cut
<1>2. \A i, j \in 1..k : f[i] = f[j] => i = j
  <2> SUFFICES ASSUME NEW i \in 1..k, NEW j \in 1..k, s[i].id = s[j].id, i # j PROVE FALSE
    OBVIOUS
  <2>1. i \in 1..n /\ j \in 1..n /\ s[i] \in L /\ s[j] \in L
    BY <1>0 DEF Ordered
  <2>2. s[i] = s[j]
    BY <2>1 DEF IsList
  <2>3. i < j \/ j < i
    BY <1>0
  <2>4. s[i].key > s[j].key \/ s[j].key > s[i].key
    BY <2>1, <2>3 DEF Ordered
  <2>5. s[i].key \in Int
    BY <2>1 DEF IsList
  <2> QED BY <2>2, <2>4, <2>5
<1>3. DOMAIN f = 1..k /\ f = [i \in 1..k |-> f[i]]
  OBVIOUS
<1>4. IsFiniteSet(1..k) /\ Cardinality(1..k) = k
  BY <1>0, FS_Interval
<1>5. Cut(s, k) \subseteq IdsIn(L) /\ Cut(s, n) = IdsIn(L)
  BY <1>0 DEF Cut, IdsIn, Ordered
<1> HIDE DEF f
<1>6. /\ IsFiniteSet({f[i] : i \in 1..k})
      /\ Cardinality({f[i] : i \in 1..k}) = Cardinality(1..k)
  <2> DEFINE K == 1..k
  <2>1. IsFiniteSet(K) /\ DOMAIN f = K /\ f = [i \in K |-> f[i]]
    BY <1>3, <1>4
  <2>2. \A i, j \in K : f[i] = f[j] => i = j
    BY <1>2
  <2> HIDE DEF K
  <2>3. IsFiniteSet({f[i] : i \in K}) /\ Cardinality({f[i] : i \in K}) = Cardinality(K)
    BY <2>1, <2>2, CardImage
  <2> QED BY <2>3 DEF K
<1> QED
  BY <1>1, <1>4, <1>5, <1>6

\* The rows above a key come first.
LEMMA CutOrder ==
  ASSUME NEW L, IsList(L), NEW s, NEW n, Ordered(L, s, n), NEW k \in 0..n, NEW c \in Int
  PROVE  Above(L, c) \subseteq Cut(s, k) \/ Cut(s, k) \subseteq Above(L, c)
<1>0. n \in Nat /\ k \in Nat /\ k <= n /\ \A i \in 1..n : s[i] \in L /\ s[i].key \in Int
  BY DEF Ordered, IsList
<1>1. CASE \E j \in 1..k : s[j].key < c
  <2>1. PICK j \in 1..k : s[j].key < c
    BY <1>1
  <2>2. ASSUME NEW x \in L, x.key >= c PROVE \E i \in 1..k : s[i].id = x.id
    <3>1. PICK i \in 1..n : s[i] = x
      BY DEF Ordered
    <3>2. i <= k
      <4> SUFFICES ASSUME i > k PROVE FALSE
        BY <1>0
      <4>1. j < i /\ j \in 1..n
        BY <1>0, <2>1
      <4>2. s[j].key > s[i].key
        BY <4>1 DEF Ordered
      <4> QED BY <1>0, <2>1, <2>2, <3>1, <4>1, <4>2
    <3> QED BY <1>0, <3>1, <3>2
  <2> QED BY <2>2 DEF Above, Cut
<1>2. CASE \A j \in 1..k : s[j].key >= c
  BY <1>0, <1>2 DEF Above, Cut
<1> QED
  BY <1>0, <1>1, <1>2

\* A cut is all that lies above some key.
LEMMA CutIsAbove ==
  ASSUME NEW L, IsList(L), NEW s, NEW n, Ordered(L, s, n), NEW k \in 0..n
  PROVE  \E c \in Int : Above(L, c) = Cut(s, k)
<1>0. /\ n \in Nat /\ k \in Nat /\ k <= n /\ \A i \in 1..n : s[i] \in L /\ s[i].key \in Int
      /\ \A x \in L : x.key \in Int
  BY DEF Ordered, IsList
<1>1. ASSUME NEW c \in Int, \A i \in 1..n : s[i].key >= c <=> i \in 1..k
      PROVE  Above(L, c) = Cut(s, k)
  <2>1. ASSUME NEW x \in L, x.key >= c PROVE \E i \in 1..k : s[i].id = x.id
    <3>1. PICK i \in 1..n : s[i] = x
      BY DEF Ordered
    <3> QED BY <1>1, <2>1, <3>1
  <2>2. ASSUME NEW i \in 1..k PROVE s[i] \in L /\ s[i].key >= c
    BY <1>0, <1>1
  <2> QED BY <2>1, <2>2 DEF Above, Cut
<1>2. CASE k < n
  <2> DEFINE c == s[k+1].key + 1
  <2>1. c \in Int /\ k + 1 \in 1..n /\ s[k+1].key \in Int
    BY <1>0, <1>2
  <2>2. ASSUME NEW i \in 1..n PROVE s[i].key >= c <=> i \in 1..k
    <3>1. CASE i <= k
      <4>1. s[i].key > s[k+1].key
        BY <1>0, <2>1, <3>1 DEF Ordered
      <4> QED BY <1>0, <2>1, <3>1, <4>1
    <3>2. CASE i = k + 1
      BY <1>0, <2>1, <3>2
    <3>3. CASE i > k + 1
      <4>1. s[k+1].key > s[i].key
        BY <1>0, <2>1, <3>3 DEF Ordered
      <4> QED BY <1>0, <2>1, <3>3, <4>1
    <3> QED BY <1>0, <3>1, <3>2, <3>3
  <2> HIDE DEF c
  <2> QED BY <1>1, <2>1, <2>2
<1>3. CASE k = n /\ n > 0
  <2> DEFINE c == s[n].key
  <2>1. c \in Int /\ n \in 1..n
    BY <1>0, <1>3
  <2>2. ASSUME NEW i \in 1..n PROVE s[i].key >= c
    <3>1. CASE i = n BY <2>1, <3>1
    <3>2. CASE i < n
      <4>1. s[i].key > s[n].key
        BY <2>1, <3>2 DEF Ordered
      <4> QED BY <1>0, <2>1, <4>1
    <3> QED BY <1>0, <3>1, <3>2
  <2> HIDE DEF c
  <2> QED BY <1>1, <1>3, <2>1, <2>2
<1>4. CASE k = n /\ n = 0
  <2>1. 0 \in Int /\ \A i \in 1..n : FALSE
    BY <1>4
  <2> QED BY <1>1, <2>1
<1> QED
  BY <1>0, <1>2, <1>3, <1>4

Least(a, b) == IF a < b THEN a ELSE b

PageIds(s, skip) == {Page(s, skip)[i].id : i \in DOMAIN Page(s, skip)}

\* A page is the rows from one cut of a listing of n rows to another.
Ends(n, skip, a, b) == a = Least(skip, n) /\ b = Least(skip + Limit, n)

IsPage(s, n, skip, a, b) ==
  /\ a \in 0..n /\ b \in 0..n /\ a <= b
  /\ Cut(s, a) \subseteq Cut(s, b)
  /\ PageIds(s, skip) = Cut(s, b) \ Cut(s, a)
  /\ Len(Page(s, skip)) = b - a

\* What is answered lies between the two ends of the page.
LEMMA PageCut ==
  ASSUME NEW L, IsList(L), NEW s, NEW n, Ordered(L, s, n), NEW skip \in Nat,
         NEW a, NEW b, Ends(n, skip, a, b)
  PROVE  IsPage(s, n, skip, a, b)
<1> DEFINE m == skip + 1
<1>0. n \in Nat /\ Limit \in Nat /\ Limit > 0 /\ s \in [1..n -> L]
  BY PagingAssumption DEF Ordered
<1>1. a \in Nat /\ b \in Nat /\ a <= b /\ b <= n /\ (a = skip \/ (a = n /\ b = n /\ n < skip))
  BY <1>0 DEF Ends, Least
<1>2. s \in Seq(L) /\ Len(s) = n
  BY <1>0
<1>3. Page(s, skip) = SubSeq(s, m, b)
  BY <1>0, <1>2 DEF Page, Rows, Ends, Least
<1>4. \A i \in m..b : s[i] \in L
  BY <1>0, <1>1
<1>5. /\ Page(s, skip) \in Seq(L)
      /\ Len(Page(s, skip)) = IF m <= b THEN b - m + 1 ELSE 0
      /\ \A i \in 1..b - m + 1 : Page(s, skip)[i] = s[m + i - 1]
  <2>1. m \in Int /\ b \in Int
    BY <1>1
  <2> HIDE DEF m
  <2> QED BY <1>3, <1>4, <2>1, SubSeqProperties
<1>6. Len(Page(s, skip)) = b - a
  BY <1>1, <1>5
<1>7. DOMAIN Page(s, skip) = 1..b - a
  BY <1>5, <1>6
<1>8. \A i \in 1..b - a : Page(s, skip)[i] = s[a + i]
  <2> SUFFICES ASSUME NEW i \in 1..b - a PROVE Page(s, skip)[i] = s[a + i]
    OBVIOUS
  <2>1. a = skip /\ i \in 1..b - m + 1 /\ m + i - 1 = a + i
    BY <1>1
  <2> QED BY <1>5, <2>1
<1>9. PageIds(s, skip) = {s[j].id : j \in (a + 1)..b}
  <2>1. \A i \in 1..b - a : a + i \in (a + 1)..b
    BY <1>1
  <2>2. \A j \in (a + 1)..b : j - a \in 1..b - a /\ a + (j - a) = j
    BY <1>1
  <2> QED BY <1>7, <1>8, <2>1, <2>2 DEF PageIds
<1>10. \A i, j \in 1..n : s[i].id = s[j].id => i = j
  <2> SUFFICES ASSUME NEW i \in 1..n, NEW j \in 1..n, s[i].id = s[j].id, i # j PROVE FALSE
    OBVIOUS
  <2>1. s[i] \in L /\ s[j] \in L /\ s[i] = s[j] /\ s[i].key \in Int
    BY <1>0 DEF IsList
  <2>2. i < j \/ j < i
    BY <1>0
  <2>3. s[i].key > s[j].key \/ s[j].key > s[i].key
    BY <2>2 DEF Ordered
  <2> QED BY <2>1, <2>3
<1>11. Cut(s, a) \subseteq Cut(s, b)
  BY <1>1 DEF Cut
<1>12. {s[j].id : j \in (a + 1)..b} = Cut(s, b) \ Cut(s, a)
  <2>1. ASSUME NEW j \in (a + 1)..b PROVE s[j].id \in Cut(s, b) \ Cut(s, a)
    <3>1. j \in 1..b /\ j \in 1..n /\ \A i \in 1..a : i \in 1..n /\ i # j
      BY <1>0, <1>1
    <3> QED BY <1>10, <3>1 DEF Cut
  <2>2. ASSUME NEW x \in Cut(s, b) \ Cut(s, a) PROVE x \in {s[j].id : j \in (a + 1)..b}
    <3>1. PICK j \in 1..b : x = s[j].id
      BY DEF Cut
    <3>2. j \notin 1..a
      BY <3>1 DEF Cut
    <3> QED BY <1>1, <3>1, <3>2
  <2> QED BY <2>1, <2>2
<1>13. a \in 0..n /\ b \in 0..n
  BY <1>0, <1>1
<1> QED
  BY <1>1, <1>6, <1>9, <1>11, <1>12, <1>13 DEF IsPage

----------------------------------------------------------------------------
(* What a walk has missed, counted above every key.  Either no more are    *)
(* missing there than have left the list, or those that are will still be  *)
(* answered: counted with them, the next page does not begin after the     *)
(* last row above the key.                                                 *)

MissedBound(L, U, skip, left) ==
  \A c \in Int :
    \/ Cardinality(Above(L, c) \cap U) <= left
    \/ Cardinality(Above(L, c) \cap U) + skip <= left + Cardinality(Above(L, c))

\* At a cut that a page begins at or after, only rows that left are missing.
LEMMA MissedAboveCut ==
  ASSUME NEW L, IsList(L), NEW s, NEW n, Ordered(L, s, n), NEW k \in 0..n,
         NEW skip \in Nat, k <= skip, NEW left \in Nat, NEW U,
         MissedBound(L, U, skip, left)
  PROVE  Cardinality(Cut(s, k) \cap U) <= left
<1>1. PICK c \in Int : Above(L, c) = Cut(s, k)
  BY CutIsAbove
<1>2. Cardinality(Cut(s, k)) = k /\ IsFiniteSet(Cut(s, k)) /\ k \in Nat
  BY CutSize DEF Ordered
<1>3. Cardinality(Cut(s, k) \cap U) \in Nat
  BY <1>2, CardMono
<1> QED
  BY <1>1, <1>2, <1>3 DEF MissedBound

\* A page keeps the bound; when it comes short, nothing is left to answer.
LEMMA MissedByRead ==
  ASSUME NEW L, IsList(L), NEW s, NEW n, Ordered(L, s, n), NEW skip \in Nat,
         NEW left \in Nat, NEW U, U \subseteq IdsIn(L), MissedBound(L, U, skip, left)
  PROVE  /\ MissedBound(L, U \ PageIds(s, skip), skip + Limit, left)
         /\ Len(Page(s, skip)) < Limit => Cardinality(U \ PageIds(s, skip)) <= left
<1>p. PICK a, b : Ends(n, skip, a, b)
  BY DEF Ends
<1> DEFINE P == PageIds(s, skip)
           Top == Cut(s, a)
           TP  == Cut(s, b)
<1>0. n \in Nat /\ Limit \in Nat /\ Limit > 0
  BY PagingAssumption DEF Ordered
<1>1. /\ a \in 0..n /\ b \in 0..n /\ a <= b /\ Top \subseteq TP /\ P = TP \ Top
      /\ Len(Page(s, skip)) = b - a
  <2>1. IsPage(s, n, skip, a, b)
    BY <1>p, PageCut
  <2> QED BY <2>1 DEF IsPage
<1>2. a <= skip /\ (b = n \/ b = skip + Limit) /\ (b - a < Limit => b = n)
  BY <1>0, <1>p DEF Ends, Least
<1>3. /\ IsFiniteSet(Top) /\ IsFiniteSet(TP) /\ Cardinality(TP) = b
      /\ TP \subseteq IdsIn(L) /\ (b = n => TP = IdsIn(L))
  BY <1>1, CutSize
<1> HIDE DEF P, Top, TP
<1>4. Cardinality(Top \cap U) <= left /\ Cardinality(Top \cap U) \in Nat /\ IsFiniteSet(Top \cap U)
  BY <1>1, <1>2, <1>3, MissedAboveCut, CardMono DEF Top
<1>5. b = n => Cardinality(U \ P) \in Nat /\ Cardinality(U \ P) <= left
  <2> SUFFICES ASSUME b = n PROVE Cardinality(U \ P) \in Nat /\ Cardinality(U \ P) <= left
    OBVIOUS
  <2>1. U \ P \subseteq Top \cap U
    BY <1>1, <1>3
  <2>2. Cardinality(U \ P) \in Nat /\ Cardinality(U \ P) <= Cardinality(Top \cap U)
    BY <1>4, <2>1, CardMono
  <2> QED BY <1>4, <2>2
<1>6. ASSUME NEW c \in Int
      PROVE  \/ Cardinality(Above(L, c) \cap (U \ P)) <= left
             \/ Cardinality(Above(L, c) \cap (U \ P)) + (skip + Limit)
                  <= left + Cardinality(Above(L, c))
  <2> DEFINE A == Above(L, c)
             M == A \cap (U \ P)
  <2>1. A \subseteq TP \/ TP \subseteq A
    BY <1>1, CutOrder DEF TP
  <2>2. A \subseteq IdsIn(L) /\ IsFiniteSet(A) /\ IsFiniteSet(M)
    BY AboveBelow, CardMono
  <2> HIDE DEF A
  <2>3. CASE M \subseteq Top \cap U
    <3>1. Cardinality(M) \in Nat /\ Cardinality(M) <= Cardinality(Top \cap U)
      BY <1>4, <2>3, CardMono
    <3> QED BY <1>4, <3>1 DEF A
  <2>4. CASE TP \subseteq A /\ b = skip + Limit
    <3>1. M \subseteq (Top \cap U) \cup (A \ TP)
      BY <1>1
    <3>2. A = TP \cup (A \ TP) /\ TP \cap (A \ TP) = {} /\ IsFiniteSet(A \ TP)
      BY <2>2, <2>4, CardMono
    <3>3. /\ Cardinality(A) = Cardinality(TP) + Cardinality(A \ TP)
          /\ Cardinality(A \ TP) \in Nat /\ Cardinality(A) \in Nat
      BY <1>3, <3>2, CardUnion
    <3>4. /\ IsFiniteSet((Top \cap U) \cup (A \ TP))
          /\ Cardinality((Top \cap U) \cup (A \ TP)) \in Nat
          /\ Cardinality((Top \cap U) \cup (A \ TP)) <= Cardinality(Top \cap U) + Cardinality(A \ TP)
      BY <1>4, <3>2, CardUnion
    <3>5. Cardinality(M) \in Nat /\ Cardinality(M) <= Cardinality((Top \cap U) \cup (A \ TP))
      BY <3>1, <3>4, CardMono
    <3>6. Cardinality(M) + b <= left + Cardinality(A)
      BY <1>0, <1>1, <1>3, <1>4, <3>3, <3>4, <3>5
    <3> QED BY <2>4, <3>6 DEF A
  <2>5. A \subseteq TP => M \subseteq Top \cap U
    BY <1>1
  <2>6. b = n => A \subseteq TP
    BY <1>3, <2>2
  <2> QED BY <1>2, <2>1, <2>3, <2>4, <2>5, <2>6
<1>7. MissedBound(L, U \ P, skip + Limit, left)
  BY <1>6 DEF MissedBound
<1> QED
  BY <1>1, <1>2, <1>5, <1>7 DEF P

----------------------------------------------------------------------------
(* What a walk was answered twice (over: more than came into the list      *)
(* meanwhile).  Those to be answered again are counted below every key.    *)

RepeatBound(L, seen, skip, over) ==
  \A c \in Int :
    \/ over + Cardinality(Below(L, c) \cap seen) <= 0
    \/ over + Cardinality(Below(L, c) \cap seen) + Cardinality(Above(L, c)) <= skip

\* Below a cut that a page begins at, only rows that came are seen already.
LEMMA RepeatsBelowCut ==
  ASSUME NEW L, IsList(L), NEW s, NEW n, Ordered(L, s, n), NEW k \in 0..n,
         NEW skip \in Nat, k = skip, NEW over \in Int, NEW seen,
         RepeatBound(L, seen, skip, over)
  PROVE  over + Cardinality((IdsIn(L) \ Cut(s, k)) \cap seen) <= 0
<1>1. PICK c \in Int : Above(L, c) = Cut(s, k)
  BY CutIsAbove
<1>2. Cardinality(Cut(s, k)) = k /\ k \in Nat
  BY CutSize DEF Ordered
<1>3. Below(L, c) = IdsIn(L) \ Cut(s, k)
  BY <1>1, AboveBelow
<1>4. IsFiniteSet(Below(L, c)) /\ Cardinality(Below(L, c) \cap seen) \in Nat
  BY AboveBelow, CardMono
<1>5. \/ over + Cardinality(Below(L, c) \cap seen) <= 0
      \/ over + Cardinality(Below(L, c) \cap seen) + Cardinality(Above(L, c)) <= skip
  BY DEF RepeatBound
<1> QED
  BY <1>1, <1>2, <1>3, <1>4, <1>5

\* A page keeps the bound, whatever of it was seen already.
LEMMA RepeatedByRead ==
  ASSUME NEW L, IsList(L), NEW s, NEW n, Ordered(L, s, n), NEW skip \in Nat,
         NEW over \in Int, over <= 0, NEW seen, IsFiniteSet(seen),
         RepeatBound(L, seen, skip, over)
  PROVE  LET P == PageIds(s, skip) IN
         /\ IsFiniteSet(P) /\ Cardinality(P) = Len(Page(s, skip))
         /\ over + Cardinality(P \cap seen) <= 0
         /\ RepeatBound(L, seen \cup P, skip + Limit, over + Cardinality(P \cap seen))
<1>p. PICK a, b : Ends(n, skip, a, b)
  BY DEF Ends
<1> DEFINE P == PageIds(s, skip)
           Top == Cut(s, a)
           TP  == Cut(s, b)
           rest == IdsIn(L) \ Top
<1>0. n \in Nat /\ Limit \in Nat /\ Limit > 0
  BY PagingAssumption DEF Ordered
<1>1. /\ a \in 0..n /\ b \in 0..n /\ a <= b /\ Top \subseteq TP /\ P = TP \ Top
      /\ Len(Page(s, skip)) = b - a
  <2>1. IsPage(s, n, skip, a, b)
    BY <1>p, PageCut
  <2> QED BY <2>1 DEF IsPage
<1>2. a \in Nat /\ b \in Nat /\ a <= skip /\ b <= skip + Limit /\ (a = b \/ a = skip)
  BY <1>0, <1>1, <1>p DEF Ends, Least
<1>3. /\ IsFiniteSet(Top) /\ Cardinality(Top) = a
      /\ IsFiniteSet(TP) /\ Cardinality(TP) = b /\ TP \subseteq IdsIn(L)
  BY <1>1, CutSize
<1>4. a = skip => over + Cardinality(rest \cap seen) <= 0
  BY <1>1, RepeatsBelowCut
<1> HIDE DEF P, Top, TP
<1>5. IsFiniteSet(P) /\ Cardinality(P) = b - a
  <2>1. IsFiniteSet(P) /\ TP = Top \cup P /\ Top \cap P = {}
    BY <1>1, <1>3, CardMono
  <2>2. Cardinality(TP) = Cardinality(Top) + Cardinality(P) /\ Cardinality(P) \in Nat
    BY <1>3, <2>1, CardUnion
  <2> QED BY <1>2, <1>3, <2>1, <2>2
<1>6. IsFiniteSet(IdsIn(L)) /\ IsFiniteSet(rest \cap seen) /\ Cardinality(rest \cap seen) \in Nat
  BY CardIds, CardMono DEF IsList
<1>7. /\ IsFiniteSet(P \cap seen) /\ Cardinality(P \cap seen) \in Nat
      /\ Cardinality(P \cap seen) <= Cardinality(rest \cap seen)
  <2>1. P \cap seen \subseteq rest \cap seen
    BY <1>1, <1>3
  <2> QED BY <1>6, <2>1, CardMono
<1> HIDE DEF rest
<1>8. a = b => P = {}
  BY <1>2, <1>5, FS_EmptySet
<1>9. over + Cardinality(P \cap seen) <= 0
  <2>1. CASE a = skip
    BY <1>4, <1>6, <1>7, <2>1
  <2>2. CASE a = b
    <3>1. P \cap seen = {} /\ Cardinality({}) = 0
      BY <1>8, <2>2, FS_EmptySet
    <3> QED BY <3>1
  <2> QED BY <1>2, <2>1, <2>2
<1>10. ASSUME NEW c \in Int
       PROVE  LET now_over == over + Cardinality(P \cap seen)
                  again == Cardinality(Below(L, c) \cap (seen \cup P))
              IN  \/ now_over + again <= 0
                  \/ now_over + again + Cardinality(Above(L, c)) <= skip + Limit
  <2> DEFINE A == Above(L, c)
             B == Below(L, c)
             x == Cardinality(P \cap seen)
             g == Cardinality(B \cap seen)
             again == Cardinality(B \cap (seen \cup P))
             sizeA == Cardinality(A)
  <2>1. /\ IsFiniteSet(A) /\ IsFiniteSet(B) /\ B = IdsIn(L) \ A /\ A \subseteq IdsIn(L)
        /\ sizeA \in Nat
    BY AboveBelow, CardMono
  <2>2. (A \subseteq Top \/ Top \subseteq A) /\ (A \subseteq TP \/ TP \subseteq A)
    BY <1>1, CutOrder DEF Top, TP
  <2>3. over + g <= 0 \/ over + g + sizeA <= skip
    BY DEF RepeatBound
  <2> HIDE DEF A, B
  <2>4. /\ IsFiniteSet(B \cap seen) /\ g \in Nat
        /\ IsFiniteSet(B \cap (seen \cup P)) /\ again \in Nat
        /\ IsFiniteSet((B \cap seen) \ P) /\ Cardinality((B \cap seen) \ P) \in Nat
    BY <2>1, CardMono
  <2>5. x \in Nat
    BY <1>7
  <2>6. CASE P = {}
    <3>1. B \cap (seen \cup P) = B \cap seen /\ P \cap seen = {} /\ x = 0
      BY <2>6, FS_EmptySet
    <3>2. again = g
      BY <3>1
    <3> HIDE DEF x, g, again, sizeA
    <3>3. over + x + again <= 0 \/ over + x + again + sizeA <= skip + Limit
      BY <1>0, <2>1, <2>3, <2>4, <3>1, <3>2
    <3> QED BY <3>3 DEF x, g, again, sizeA, A, B
  <2>7. CASE a = skip /\ TP \subseteq A
    <3>1. B \cap (seen \cup P) = B \cap seen
      BY <1>1, <2>1, <2>7
    <3>2. (P \cap seen) \cup (B \cap seen) \subseteq rest \cap seen
      BY <1>1, <1>3, <2>1, <2>7 DEF rest
    <3>3. (P \cap seen) \cap (B \cap seen) = {}
      BY <1>1, <2>1, <2>7
    <3>4. Cardinality((P \cap seen) \cup (B \cap seen)) = x + g
      BY <1>7, <2>4, <3>3, CardUnion
    <3>5. x + g <= Cardinality(rest \cap seen)
      BY <1>6, <3>2, <3>4, CardMono
    <3>6. again = g
      BY <3>1
    <3> HIDE DEF x, g, again, sizeA
    <3>7. over + x + again <= 0
      BY <1>4, <1>6, <2>4, <2>5, <2>7, <3>5, <3>6
    <3> QED BY <3>7 DEF x, g, again, sizeA, A, B
  <2>8. CASE a = skip /\ Top \subseteq A /\ A \subseteq TP
    <3> DEFINE y == Cardinality((B \cap seen) \ P)
               z == Cardinality(B \cap P)
    <3>1. B \cap (seen \cup P) = ((B \cap seen) \ P) \cup (B \cap P)
      OBVIOUS
    <3>2. IsFiniteSet(B \cap P) /\ z \in Nat
      BY <2>1, CardMono
    <3>3. again <= y + z
      BY <2>4, <3>1, <3>2, CardUnion
    <3>4. TP = A \cup (B \cap P) /\ A \cap (B \cap P) = {}
      BY <1>1, <1>3, <2>1, <2>8
    <3>5. b = sizeA + z
      BY <1>3, <2>1, <3>2, <3>4, CardUnion
    <3>6. (P \cap seen) \cup ((B \cap seen) \ P) \subseteq rest \cap seen
      BY <1>1, <1>3, <2>1, <2>8 DEF rest
    <3>7. Cardinality((P \cap seen) \cup ((B \cap seen) \ P)) = x + y
      <4>1. (P \cap seen) \cap ((B \cap seen) \ P) = {}
        OBVIOUS
      <4> QED BY <1>7, <2>4, <4>1, CardUnion
    <3>8. x + y <= Cardinality(rest \cap seen)
      BY <1>6, <3>6, <3>7, CardMono
    <3>9. y \in Nat
      BY <2>4
    <3> HIDE DEF x, y, z, g, again, sizeA
    <3>10. over + x + again + sizeA <= skip + Limit
      BY <1>0, <1>2, <1>4, <1>6, <2>1, <2>4, <2>5, <2>8, <3>2, <3>3, <3>5, <3>8, <3>9
    <3> QED BY <3>10 DEF x, g, again, sizeA, A, B
  <2>9. CASE A \subseteq Top
    <3> DEFINE y == Cardinality((B \cap seen) \ P)
    <3>1. B \cap (seen \cup P) = ((B \cap seen) \ P) \cup P
      BY <1>1, <1>3, <2>1, <2>9
    <3>2. again <= y + (b - a)
      BY <1>5, <2>4, <3>1, CardUnion
    <3>3. /\ B \cap seen = (P \cap seen) \cup ((B \cap seen) \ P)
          /\ (P \cap seen) \cap ((B \cap seen) \ P) = {}
      BY <1>1, <1>3, <2>1, <2>9
    <3>4. g = x + y
      BY <1>7, <2>4, <3>3, CardUnion
    <3>5. sizeA <= a
      BY <1>3, <2>9, CardMono
    <3>6. y \in Nat
      BY <2>4
    <3> HIDE DEF x, y, g, again, sizeA
    <3>7. over + x + again + sizeA <= skip + Limit
      BY <1>0, <1>2, <2>1, <2>3, <2>4, <2>5, <3>2, <3>4, <3>5, <3>6
    <3> QED BY <3>7 DEF x, g, again, sizeA, A, B
  <2> QED BY <1>2, <1>8, <2>2, <2>6, <2>7, <2>8, <2>9
<1>11. RepeatBound(L, seen \cup P, skip + Limit, over + Cardinality(P \cap seen))
  BY <1>10 DEF RepeatBound
<1> QED
  BY <1>1, <1>5, <1>9, <1>11 DEF P

----------------------------------------------------------------------------
(* The list changes between two pages: rows are gone, rows came.           *)

\* Rows that left pull others up: as many are missed at most.
LEMMA MissedByChange ==
  ASSUME NEW L, IsList(L), NEW M, IsList(M), NEW U, U \subseteq IdsIn(L),
         NEW skip \in Nat, NEW left \in Nat, MissedBound(L, U, skip, left)
  PROVE  MissedBound(M, U \ IdsIn(L \ M), skip, left + Cardinality(L \ M))
<1> DEFINE gone == IdsIn(L \ M)
<1>1. /\ IsFiniteSet(L \ M) /\ IsFiniteSet(gone) /\ Cardinality(gone) \in Nat
      /\ Cardinality(L \ M) \in Nat /\ Cardinality(gone) <= Cardinality(L \ M)
  <2>1. IsFiniteSet(L \ M)
    BY CardMono DEF IsList
  <2> QED BY <2>1, CardIds
<1>2. ASSUME NEW c \in Int
      PROVE  LET m == Cardinality(Above(M, c) \cap (U \ gone)) IN
             \/ m <= left + Cardinality(L \ M)
             \/ m + skip <= left + Cardinality(L \ M) + Cardinality(Above(M, c))
  <2> DEFINE A == Above(L, c)
             B == Above(M, c)
             m0 == Cardinality(A \cap U)
             m1 == Cardinality(B \cap (U \ gone))
  <2>1. /\ IsFiniteSet(A) /\ Cardinality(A) \in Nat
        /\ IsFiniteSet(B) /\ Cardinality(B) \in Nat
    BY AboveBelow, CardMono
  <2>2. B \cap (U \ gone) \subseteq A \cap U
    <3> SUFFICES ASSUME NEW i \in B \cap (U \ gone) PROVE i \in A
      OBVIOUS
    <3>1. PICK x \in M : x.id = i /\ x.key >= c
      BY DEF Above
    <3>2. PICK y \in L : y.id = i
      BY DEF IdsIn
    <3>3. y \in M
      BY <3>2 DEF IdsIn
    <3>4. y = x
      BY <3>1, <3>2, <3>3 DEF IsList
    <3> QED BY <3>1, <3>2, <3>4 DEF Above
  <2>3. A \subseteq B \cup gone
    BY DEF Above, IdsIn
  <2> HIDE DEF A, B
  <2>4. m0 \in Nat /\ m1 \in Nat /\ m1 <= m0
    <3>1. IsFiniteSet(A \cap U)
      BY <2>1, CardMono
    <3> QED BY <2>2, <3>1, CardMono
  <2>5. Cardinality(A) <= Cardinality(B) + Cardinality(gone)
    <3>1. IsFiniteSet(B \cup gone) /\ Cardinality(B \cup gone) \in Nat
          /\ Cardinality(B \cup gone) <= Cardinality(B) + Cardinality(gone)
      BY <1>1, <2>1, CardUnion
    <3>2. Cardinality(A) <= Cardinality(B \cup gone)
      BY <2>3, <3>1, CardMono
    <3> QED BY <1>1, <2>1, <3>1, <3>2
  <2>6. m0 <= left \/ m0 + skip <= left + Cardinality(A)
    BY DEF MissedBound, A
  <2> HIDE DEF m0, m1, gone
  <2>7. \/ m1 <= left + Cardinality(L \ M)
        \/ m1 + skip <= left + Cardinality(L \ M) + Cardinality(B)
    BY <1>1, <2>1, <2>4, <2>5, <2>6
  <2> QED BY <2>7 DEF m1, B
<1> QED
  BY <1>2 DEF MissedBound

\* Rows that came push others down: as many are answered again at most.
LEMMA RepeatedByChange ==
  ASSUME NEW L, IsList(L), NEW M, IsList(M), NEW seen, IsFiniteSet(seen),
         NEW skip \in Nat, NEW over \in Int, RepeatBound(L, seen, skip, over)
  PROVE  RepeatBound(M, seen, skip, over - Cardinality(M \ L))
<1>1. ASSUME NEW c \in Int
      PROVE  LET g == Cardinality(Below(M, c) \cap seen)
                 over1 == over - Cardinality(M \ L)
             IN  over1 + g <= 0 \/ over1 + g + Cardinality(Above(M, c)) <= skip
  <2> DEFINE came == M \ L
             high == {x \in came : x.key >= c}
             low  == {x \in came : x.key < c}
             A == Above(L, c)
             B == Below(L, c)
             A1 == Above(M, c)
             B1 == Below(M, c)
             g == Cardinality(B \cap seen)
             g1 == Cardinality(B1 \cap seen)
  <2>1. /\ IsFiniteSet(A) /\ Cardinality(A) \in Nat /\ IsFiniteSet(B \cap seen) /\ g \in Nat
        /\ IsFiniteSet(A1) /\ Cardinality(A1) \in Nat /\ IsFiniteSet(B1 \cap seen) /\ g1 \in Nat
    BY AboveBelow, CardMono
  <2>2. came = high \cup low /\ high \cap low = {}
    BY DEF IsList
  <2>3. IsFiniteSet(came) /\ IsFiniteSet(high) /\ IsFiniteSet(low)
    BY CardMono DEF IsList
  <2>4. A1 \subseteq A \cup IdsIn(high)
    BY DEF Above, IdsIn
  <2>5. B1 \cap seen \subseteq (B \cap seen) \cup IdsIn(low)
    BY DEF Below, IdsIn
  <2>6. over + g <= 0 \/ over + g + Cardinality(A) <= skip
    BY DEF RepeatBound
  <2> HIDE DEF high, low, came, A, B, A1, B1
  <2>7. /\ Cardinality(came) = Cardinality(high) + Cardinality(low)
        /\ Cardinality(high) \in Nat /\ Cardinality(low) \in Nat
    BY <2>2, <2>3, CardUnion
  <2>8. /\ IsFiniteSet(IdsIn(high)) /\ Cardinality(IdsIn(high)) \in Nat
        /\ Cardinality(IdsIn(high)) <= Cardinality(high)
        /\ IsFiniteSet(IdsIn(low)) /\ Cardinality(IdsIn(low)) \in Nat
        /\ Cardinality(IdsIn(low)) <= Cardinality(low)
    BY <2>3, CardIds
  <2>9. Cardinality(A1) <= Cardinality(A) + Cardinality(high)
    <3>1. /\ IsFiniteSet(A \cup IdsIn(high)) /\ Cardinality(A \cup IdsIn(high)) \in Nat
          /\ Cardinality(A \cup IdsIn(high)) <= Cardinality(A) + Cardinality(IdsIn(high))
      BY <2>1, <2>8, CardUnion
    <3>2. Cardinality(A1) <= Cardinality(A \cup IdsIn(high))
      BY <2>4, <3>1, CardMono
    <3> QED BY <2>1, <2>7, <2>8, <3>1, <3>2
  <2>10. g1 <= g + Cardinality(low)
    <3>1. /\ IsFiniteSet((B \cap seen) \cup IdsIn(low))
          /\ Cardinality((B \cap seen) \cup IdsIn(low)) \in Nat
          /\ Cardinality((B \cap seen) \cup IdsIn(low)) <= g + Cardinality(IdsIn(low))
      BY <2>1, <2>8, CardUnion
    <3>2. g1 <= Cardinality((B \cap seen) \cup IdsIn(low))
      BY <2>5, <3>1, CardMono
    <3> QED BY <2>1, <2>7, <2>8, <3>1, <3>2
  <2> HIDE DEF g, g1
  <2>11. \/ (over - Cardinality(came)) + g1 <= 0
         \/ (over - Cardinality(came)) + g1 + Cardinality(A1) <= skip
    BY <2>1, <2>6, <2>7, <2>9, <2>10
  <2> QED BY <2>11 DEF g1, A1, B1, came
<1> QED
  BY <1>1 DEF RepeatBound

----------------------------------------------------------------------------
(* The tables.                                                             *)

DbType ==
  /\ now \in Time
  /\ tasks \subseteq Task /\ history \cup comments \subseteq Child
  /\ notes \subseteq Note /\ members \subseteq {Reader}
  /\ writer \in [Writers -> [pc: {"idle", "open", "closed"}, began: Time, ended: Time]]
  /\ query \in Queries

\* An id belongs to one row; a row a request inserted is there when that
\* request has committed, and carries the time it began.
Unique(R) == \A x, y \in R : x.id = y.id => x = y
Written(R) ==
  \A x \in R : x.id \in Writers =>
    writer[x.id].pc = "closed" /\ x.created = writer[x.id].began
Transactions ==
  \A w \in Writers :
    writer[w].began <= now /\ (writer[w].pc = "closed" => writer[w].began <= writer[w].ended)

DbInv ==
  /\ IsFiniteSet(tasks) /\ IsFiniteSet(history) /\ IsFiniteSet(comments) /\ IsFiniteSet(notes)
  /\ Unique(tasks \cup history \cup comments) /\ Unique(notes)
  /\ Written(tasks \cup history \cup comments) /\ Written(notes)
  /\ Transactions

LEMMA DraftedTask ==
  ASSUME NEW t \in Task, NEW d \in Drafts, NotNull(Drafted(t, d))
  PROVE  Drafted(t, d) \in Task /\ Drafted(t, d).id = t.id /\ Drafted(t, d).created = t.created
BY PagingAssumption DEF Drafted, NotNull, Task

LEMMA NewTaskRow ==
  ASSUME NEW w \in Writers, NEW c \in Time, NEW d \in Drafts,
         NotNull(Drafted(NewTask(w, c), d))
  PROVE  /\ Drafted(NewTask(w, c), d) \in Task
         /\ Drafted(NewTask(w, c), d).id = w /\ Drafted(NewTask(w, c), d).created = c
BY PagingAssumption DEF Drafted, NotNull, NewTask, Task, Ids, TaskStatus, TaskPriority

LEMMA DbStart == Init => DbType /\ DbInv
<1> SUFFICES ASSUME Init PROVE DbType /\ DbInv
  OBVIOUS
<1> USE PagingAssumption DEF Init
<1>1. DbType
  BY DEF DbType, Time
<1>2. IsFiniteSet({})
  BY FS_EmptySet
<1>3. Unique(tasks \cup history \cup comments) /\ Unique(notes)
  BY DEF Unique
<1>4. Written(tasks \cup history \cup comments) /\ Written(notes)
  BY DEF Written
<1>5. Transactions
  BY DEF Transactions, Time
<1> QED
  BY <1>1, <1>2, <1>3, <1>4, <1>5 DEF DbInv

\* One row is taken out of a table, one is put in.
LEMMA Swap ==
  ASSUME NEW S, IsFiniteSet(S), NEW x, NEW y
  PROVE  IsFiniteSet(S \cup {y}) /\ IsFiniteSet(S \ {x}) /\ IsFiniteSet((S \ {x}) \cup {y})
<1>1. IsFiniteSet(S \ {x})
  BY CardMono
<1>2. IsFiniteSet({y})
  BY FS_Singleton
<1> QED
  BY <1>1, <1>2, FS_Union

\* A request inserts rows with its own id, and keeps the ids and times of others.
From(w, R, S) ==
  \A x \in S : \/ x.id = w /\ x.created = writer[w].began
               \/ \E y \in R : y.id = x.id /\ y.created = x.created

Stepped(w) ==
  /\ tasks' \subseteq Task /\ history' \cup comments' \subseteq Child
  /\ notes' \subseteq Note /\ members' \subseteq {Reader}
  /\ IsFiniteSet(tasks') /\ IsFiniteSet(history') /\ IsFiniteSet(comments') /\ IsFiniteSet(notes')
  /\ Unique(tasks' \cup history' \cup comments') /\ Unique(notes')
  /\ From(w, tasks \cup history \cup comments, tasks' \cup history' \cup comments')
  /\ From(w, notes, notes')

LEMMA TaskIsNoChild ==
  ASSUME NEW t \in Task, NEW c \in Child PROVE t # c
<1>1. "status" \in DOMAIN t /\ "status" \notin DOMAIN c
  BY DEF Task, Child
<1> QED BY <1>1

\* An open request has inserted nothing yet.
LEMMA Fresh ==
  ASSUME DbInv, NEW w \in Writers, writer[w].pc = "open"
  PROVE  /\ \A x \in tasks \cup history \cup comments : x.id # w
         /\ \A x \in notes : x.id # w
BY DEF DbInv, Written

\* The requests that write tasks, history or comments.
LEMMA SteppedTable ==
  ASSUME DbType, DbInv, NEW w \in Writers, writer[w].pc = "open",
         \/ Create(w) \/ Patch \/ ChangeStatus(w) \/ Delete(w) \/ Comment(w) \/ Uncomment
  PROVE  Stepped(w)
<1>0. /\ \A x \in tasks \cup history \cup comments : x.id # w
      /\ w \in Ids /\ writer[w].began \in Time
      /\ \A t \in tasks : \A c \in history \cup comments : t # c
  BY Fresh, TaskIsNoChild DEF DbType, Ids
<1>1. \A x, y \in tasks \cup history \cup comments : x.id = y.id => x = y
  BY DEF DbInv, Unique
<1>2. CASE Create(w)
  <2>1. PICK d \in Drafts :
          /\ NotNull(Drafted(NewTask(w, writer[w].began), d))
          /\ tasks' = tasks \cup {Drafted(NewTask(w, writer[w].began), d)}
    BY <1>2 DEF Create, CreatedAt
  <2> DEFINE row == Drafted(NewTask(w, writer[w].began), d)
  <2>2. row \in Task /\ row.id = w /\ row.created = writer[w].began
    BY <1>0, <2>1, NewTaskRow
  <2> HIDE DEF row
  <2>3. /\ tasks' = tasks \cup {row}
        /\ history' = history /\ comments' = comments /\ notes' = notes /\ members' = members
    BY <1>2, <2>1 DEF Create, row
  <2>4. IsFiniteSet(tasks')
    BY <2>3, Swap DEF DbInv
  <2>5. Unique(tasks' \cup history' \cup comments')
    BY <1>0, <1>1, <2>2, <2>3 DEF Unique
  <2>6. From(w, tasks \cup history \cup comments, tasks' \cup history' \cup comments')
    BY <2>2, <2>3 DEF From
  <2> QED BY <2>2, <2>3, <2>4, <2>5, <2>6 DEF Stepped, DbType, DbInv, From
<1>3. CASE Patch \/ ChangeStatus(w)
  <2>1. PICK t, row, added :
          /\ t \in tasks /\ row \in Task
          /\ added \subseteq {[id |-> w, task |-> t.id, created |-> writer[w].began]}
          /\ row.id = t.id /\ row.created = t.created
          /\ tasks' = (tasks \ {t}) \cup {row}
          /\ history' = history \cup added
          /\ IsFiniteSet(added) /\ \A x, y \in added : x = y
    <3>1. CASE Patch
      <4>1. PICK t \in tasks, d \in Drafts :
              NotNull(Drafted(t, d)) /\ tasks' = (tasks \ {t}) \cup {Drafted(t, d)}
        BY <3>1 DEF Patch
      <4>2. /\ Drafted(t, d) \in Task
            /\ Drafted(t, d).id = t.id /\ Drafted(t, d).created = t.created
        BY <4>1, DraftedTask DEF DbType
      <4>3. history' = history \cup {} /\ IsFiniteSet({})
        BY <3>1, FS_EmptySet DEF Patch
      <4> QED BY <4>1, <4>2, <4>3
    <3>2. CASE ChangeStatus(w)
      <4>1. PICK t \in tasks, s \in TaskStatus :
              /\ tasks' = (tasks \ {t}) \cup {[t EXCEPT !.status = s]}
              /\ history' = history \cup
                   {[id |-> w, task |-> t.id, created |-> writer[w].began]}
        BY <3>2 DEF ChangeStatus, CreatedAt
      <4> DEFINE row == [t EXCEPT !.status = s]
                 added == {[id |-> w, task |-> t.id, created |-> writer[w].began]}
      <4>2. row \in Task /\ row.id = t.id /\ row.created = t.created
        BY DEF DbType, Task
      <4>3. /\ added \subseteq {[id |-> w, task |-> t.id, created |-> writer[w].began]}
            /\ IsFiniteSet(added) /\ \A x, y \in added : x = y
        BY FS_Singleton
      <4>4. tasks' = (tasks \ {t}) \cup {row} /\ history' = history \cup added
        BY <4>1
      <4> HIDE DEF row, added
      <4> QED BY <4>2, <4>3, <4>4
    <3> QED BY <1>3, <3>1, <3>2
  <2>2. comments' = comments /\ notes' = notes /\ members' = members
    BY <1>3 DEF Patch, ChangeStatus
  <2>3. \A x \in added : x \in Child /\ x.id = w /\ x.created = writer[w].began
    <3>1. t.id \in Ids
      BY <2>1 DEF DbType, Task
    <3>2. [id |-> w, task |-> t.id, created |-> writer[w].began] \in Child
      BY <1>0, <3>1 DEF Child
    <3> QED BY <2>1, <3>2
  <2>4. IsFiniteSet(tasks') /\ IsFiniteSet(history')
    BY <2>1, Swap, FS_Union DEF DbInv
  <2>5. Unique(tasks' \cup history' \cup comments')
    <3> SUFFICES ASSUME NEW x \in tasks' \cup history' \cup comments',
                        NEW y \in tasks' \cup history' \cup comments', x.id = y.id
                 PROVE  x = y
      BY DEF Unique
    <3> DEFINE old == (tasks \cup history \cup comments) \ {t}
    <3>1. (x \in old \/ x = row \/ x \in added) /\ (y \in old \/ y = row \/ y \in added)
      BY <1>0, <2>1, <2>2
    <3>2. \A z \in old : z.id # row.id /\ z.id # w
      BY <1>0, <1>1, <2>1
    <3>3. row.id # w
      BY <1>0, <2>1
    <3>4. \A z, v \in old : z.id = v.id => z = v
      BY <1>1
    <3> HIDE DEF old
    <3> QED BY <2>1, <2>3, <3>1, <3>2, <3>3, <3>4
  <2>6. From(w, tasks \cup history \cup comments, tasks' \cup history' \cup comments')
    BY <2>1, <2>2, <2>3 DEF From
  <2>7. tasks' \subseteq Task /\ history' \cup comments' \subseteq Child
    BY <2>1, <2>2, <2>3 DEF DbType
  <2> QED BY <2>2, <2>4, <2>5, <2>6, <2>7 DEF Stepped, DbType, DbInv, From
<1>4. CASE Delete(w) \/ Uncomment
  <2>1. /\ tasks' \subseteq tasks /\ history' \subseteq history /\ comments' \subseteq comments
        /\ notes' = notes /\ members' = members
    BY <1>4 DEF Delete, Uncomment
  <2>2. IsFiniteSet(tasks') /\ IsFiniteSet(history') /\ IsFiniteSet(comments')
    BY <2>1, CardMono DEF DbInv
  <2>3. Unique(tasks' \cup history' \cup comments')
    BY <1>1, <2>1 DEF Unique
  <2>4. From(w, tasks \cup history \cup comments, tasks' \cup history' \cup comments')
    BY <2>1 DEF From
  <2> QED BY <2>1, <2>2, <2>3, <2>4 DEF Stepped, DbType, DbInv, From
<1>5. CASE Comment(w)
  <2>1. PICK t \in tasks :
          comments' = comments \cup {[id |-> w, task |-> t.id, created |-> writer[w].began]}
    BY <1>5 DEF Comment, CreatedAt
  <2> DEFINE row == [id |-> w, task |-> t.id, created |-> writer[w].began]
  <2>2. row \in Child /\ row.id = w /\ row.created = writer[w].began
    BY <1>0 DEF DbType, Task, Child
  <2> HIDE DEF row
  <2>3. /\ comments' = comments \cup {row}
        /\ history' = history /\ tasks' = tasks /\ notes' = notes /\ members' = members
    BY <1>5, <2>1 DEF Comment, row
  <2>4. IsFiniteSet(comments')
    BY <2>3, Swap DEF DbInv
  <2>5. Unique(tasks' \cup history' \cup comments')
    BY <1>0, <1>1, <2>2, <2>3 DEF Unique
  <2>6. From(w, tasks \cup history \cup comments, tasks' \cup history' \cup comments')
    BY <2>2, <2>3 DEF From
  <2> QED BY <2>2, <2>3, <2>4, <2>5, <2>6 DEF Stepped, DbType, DbInv, From
<1> QED
  BY <1>2, <1>3, <1>4, <1>5

\* Those that write notifications or members.
LEMMA SteppedOther ==
  ASSUME DbType, DbInv, NEW w \in Writers, writer[w].pc = "open",
         Notify(w) \/ MarkNotificationRead \/ RemoveMember
  PROVE  Stepped(w)
<1>0. (\A x \in notes : x.id # w) /\ w \in Ids /\ writer[w].began \in Time
  BY Fresh DEF DbType, Ids
<1>1. /\ tasks' = tasks /\ history' = history /\ comments' = comments
      /\ members' \subseteq members
  BY DEF Notify, MarkNotificationRead, mark_as_read, RemoveMember
<1>2. /\ Unique(tasks' \cup history' \cup comments')
      /\ From(w, tasks \cup history \cup comments, tasks' \cup history' \cup comments')
  BY <1>1 DEF DbInv, Unique, From
<1>3. /\ notes' \subseteq Note /\ IsFiniteSet(notes') /\ Unique(notes')
      /\ From(w, notes, notes')
  <2>1. CASE Notify(w)
    <3> DEFINE row == [id |-> w, is_read |-> FALSE, created |-> writer[w].began]
    <3>1. row \in Note /\ row.id = w /\ row.created = writer[w].began
      BY <1>0 DEF Note
    <3> HIDE DEF row
    <3>2. notes' = notes \cup {row}
      BY <2>1 DEF Notify, CreatedAt, row
    <3>3. IsFiniteSet(notes')
      BY <3>2, Swap DEF DbInv
    <3> QED BY <1>0, <3>1, <3>2, <3>3 DEF DbType, DbInv, Unique, From
  <2>2. CASE MarkNotificationRead
    <3>1. PICK n \in notes : notes' = (notes \ {n}) \cup {[n EXCEPT !.is_read = TRUE]}
      BY <2>2 DEF MarkNotificationRead, mark_as_read
    <3> DEFINE row == [n EXCEPT !.is_read = TRUE]
    <3>2. row \in Note /\ row.id = n.id /\ row.created = n.created
      BY DEF DbType, Note
    <3> HIDE DEF row
    <3>3. notes' = (notes \ {n}) \cup {row}
      BY <3>1 DEF row
    <3>4. IsFiniteSet(notes')
      BY <3>3, Swap DEF DbInv
    <3> QED BY <3>2, <3>3, <3>4 DEF DbType, DbInv, Unique, From
  <2>3. CASE RemoveMember
    <3>1. notes' = notes
      BY <2>3 DEF RemoveMember
    <3> QED BY <3>1 DEF DbType, DbInv, Unique, From
  <2> QED BY <2>1, <2>2, <2>3
<1> QED
  BY <1>1, <1>2, <1>3 DEF Stepped, DbType, DbInv

LEMMA DbStep ==
  ASSUME DbType, DbInv, [Next]_vars
  PROVE  DbType' /\ DbInv'
<1>1. CASE ReadPage \/ Refuse \/ UNCHANGED vars
  <2>1. UNCHANGED <<now, db, writer, query>>
    BY <1>1 DEF ReadPage, Refuse, vars
  <2> QED BY <2>1 DEF DbType, DbInv, db, Unique, Written, Transactions
<1>2. CASE Tick
  <2>1. UNCHANGED <<db, writer, query>> /\ now' = now + 1 /\ now < MaxTime
    BY <1>2 DEF Tick
  <2>2. now' \in Time /\ now <= now'
    BY <2>1, PagingAssumption DEF DbType, Time
  <2>3. Transactions'
    <3>1. \A w \in Writers : writer[w].began \in 0..MaxTime
      BY DEF DbType, Time
    <3> QED BY <2>1, <2>2, <3>1, PagingAssumption DEF DbInv, Transactions, DbType, Time
  <2> QED BY <2>1, <2>2, <2>3 DEF DbType, DbInv, db, Unique, Written
<1>3. ASSUME NEW w \in Writers, Begin(w) PROVE DbType' /\ DbInv'
  <2>1. /\ writer[w].pc = "idle"
        /\ writer' = [writer EXCEPT ![w] = [pc |-> "open", began |-> now, ended |-> now]]
        /\ UNCHANGED <<now, db, query>>
    BY <1>3 DEF Begin
  <2>2. DbType'
    BY <2>1 DEF DbType, db
  <2>3. /\ \A x \in tasks \cup history \cup comments \cup notes : x.id # w
        /\ \A v \in Writers : v # w => writer'[v] = writer[v]
    BY <2>1 DEF DbInv, Written, DbType
  <2>4. Written(tasks \cup history \cup comments)' /\ Written(notes)'
    BY <2>1, <2>3 DEF DbInv, Written, db
  <2>5. Transactions'
    <3>1. writer'[w] = [pc |-> "open", began |-> now, ended |-> now] /\ now <= now
      BY <2>1, PagingAssumption DEF DbType, Time
    <3> QED BY <2>1, <2>3, <3>1 DEF DbInv, Transactions
  <2> QED BY <2>1, <2>2, <2>4, <2>5 DEF DbInv, db, Unique
<1>4. ASSUME NEW w \in Writers, Commit(w) PROVE DbType' /\ DbInv'
  <2>1. /\ writer[w].pc = "open"
        /\ writer' = [writer EXCEPT ![w].pc = "closed", ![w].ended = now]
        /\ UNCHANGED <<now, query>>
    BY <1>4 DEF Commit
  <2>2. Stepped(w)
    BY <1>4, <2>1, SteppedTable, SteppedOther DEF Commit
  <2>3. /\ writer'[w].pc = "closed" /\ writer'[w].began = writer[w].began
        /\ writer'[w].ended = now
        /\ \A v \in Writers : v # w => writer'[v] = writer[v]
        /\ writer' \in [Writers -> [pc: {"idle", "open", "closed"}, began: Time, ended: Time]]
    BY <2>1 DEF DbType
  <2>4. DbType'
    BY <2>1, <2>2, <2>3 DEF DbType, Stepped
  <2>5. ASSUME NEW R, Written(R), \A x \in R : x.id # w, NEW S, From(w, R, S)
        PROVE  \A x \in S : x.id \in Writers =>
                 writer'[x.id].pc = "closed" /\ x.created = writer'[x.id].began
    BY <2>3, <2>5 DEF Written, From
  <2>6. Written(tasks \cup history \cup comments)'
    <3>1. \A x \in tasks' \cup history' \cup comments' : x.id \in Writers =>
            writer'[x.id].pc = "closed" /\ x.created = writer'[x.id].began
      BY <2>1, <2>2, <2>5, Fresh DEF DbInv, Stepped
    <3> QED BY <3>1 DEF Written
  <2>7. Written(notes)'
    <3>1. \A x \in notes' : x.id \in Writers =>
            writer'[x.id].pc = "closed" /\ x.created = writer'[x.id].began
      BY <2>1, <2>2, <2>5, Fresh DEF DbInv, Stepped
    <3> QED BY <3>1 DEF Written
  <2>8. Transactions'
    BY <2>1, <2>3 DEF DbInv, Transactions
  <2> QED BY <2>2, <2>4, <2>6, <2>7, <2>8 DEF DbInv, Stepped, Unique
<1> QED
  BY <1>1, <1>2, <1>3, <1>4 DEF Next

\* The tables keep their types, one row for an id, and the times of requests.
LEMMA Tables == Spec => [](DbType /\ DbInv)
<1>1. Init => DbType /\ DbInv
  BY DbStart
<1>2. DbType /\ DbInv /\ [Next]_vars => (DbType /\ DbInv)'
  BY DbStep
<1> QED
  BY <1>1, <1>2, PTL DEF Spec

----------------------------------------------------------------------------
(* What may be asked for is a list.                                        *)

ListsOK == \A q \in Queries : IsList(List(q)) /\ IdsIn(List(q)) \subseteq Ids

Selected(R) == IsFiniteSet(R) /\ Unique(R) /\ \A x \in R : x.id \in Ids
Places(f, R) ==
  /\ DOMAIN f = R /\ f = [x \in R |-> f[x]]
  /\ \A x \in R : f[x].id = x.id /\ f[x].key \in Int

LEMMA ListOfRows ==
  ASSUME NEW R, Selected(R), NEW f, Places(f, R), NEW L, L = {f[x] : x \in R}
  PROVE  IsList(L) /\ IdsIn(L) \subseteq Ids
<1>1. IsFiniteSet(L)
  BY CardImage DEF Selected, Places
<1>2. \A a, b \in L : a.id = b.id => a = b
  BY DEF Selected, Places, Unique
<1> QED
  BY <1>1, <1>2 DEF IsList, IdsIn, Selected, Places

LEMMA ListsAreLists == DbType /\ DbInv => ListsOK
<1> SUFFICES ASSUME DbType, DbInv, NEW q \in Queries
             PROVE  IsList(List(q)) /\ IdsIn(List(q)) \subseteq Ids
  BY DEF ListsOK
<1>0. /\ \A x \in tasks : x.id \in Ids /\ x.created \in Int /\ x.priority \in TaskPriority
           /\ x.deadline \in Deadlines \cup {Null}
      /\ \A x \in history \cup comments : x.id \in Ids /\ x.created \in Int
      /\ \A x \in notes : x.id \in Ids /\ x.created \in Int
  BY DEF DbType, Task, Child, Note, Time
<1>1. CASE q.of = "tasks"
  <2> DEFINE R == apply_task_filters(tasks, q)
             f == [t \in R |-> Listed(t, SortKey(t, q.sort_by))]
  <2>1. R \subseteq tasks
    BY DEF apply_task_filters
  <2>2. IsFiniteSet(R) /\ Unique(R)
    BY <2>1, CardMono DEF DbInv, Unique
  <2>3. \A t \in R : SortKey(t, q.sort_by) \in Int
    <3> SUFFICES ASSUME NEW t \in R PROVE SortKey(t, q.sort_by) \in Int
      OBVIOUS
    <3>1. t.created \in Int /\ t.priority \in TaskPriority /\ t.deadline \in Deadlines \cup {Null}
      BY <1>0, <2>1
    <3>2. q.sort_by = "created_at" \/ q.sort_by = "deadline" \/ q.sort_by = "priority"
      BY PagingAssumption
    <3> HIDE DEF R, f
    <3> QED BY <3>1, <3>2 DEF SortKey, priority_order, TaskPriority, Deadlines
  <2>4. \A t \in R : t.id \in Ids
    BY <1>0, <2>1
  <2>5. /\ DOMAIN f = R /\ f = [x \in R |-> f[x]]
        /\ \A x \in R : f[x].id = x.id /\ f[x].key \in Int
    BY <2>3 DEF Listed
  <2>6. List(q) = {f[t] : t \in R}
    BY <1>1 DEF List, get_tasks
  <2> HIDE DEF R, f
  <2>7. Selected(R) /\ Places(f, R)
    BY <2>2, <2>4, <2>5 DEF Selected, Places
  <2> QED BY <2>6, <2>7, ListOfRows
<1>2. ASSUME NEW R, IsFiniteSet(R), Unique(R), \A x \in R : x.id \in Ids /\ x.created \in Int
      PROVE  LET S == {Listed(x, x.created) : x \in R} IN IsList(S) /\ IdsIn(S) \subseteq Ids
  <2> DEFINE f == [x \in R |-> Listed(x, x.created)]
  <2>1. /\ DOMAIN f = R /\ f = [x \in R |-> f[x]]
        /\ \A x \in R : f[x].id = x.id /\ f[x].key \in Int
    BY <1>2 DEF Listed
  <2>2. {Listed(x, x.created) : x \in R} = {f[x] : x \in R}
    OBVIOUS
  <2> HIDE DEF f
  <2>3. Selected(R) /\ Places(f, R)
    BY <1>2, <2>1 DEF Selected, Places
  <2> QED BY <2>2, <2>3, ListOfRows
<1>3. CASE q.of = "search"
  <2> DEFINE R == {x \in tasks : x.match}
  <2>1. IsFiniteSet(R) /\ Unique(R) /\ \A x \in R : x.id \in Ids /\ x.created \in Int
    BY <1>0, CardMono DEF DbInv, Unique
  <2>2. List(q) = {Listed(x, x.created) : x \in R}
    BY <1>3 DEF List, search_tasks
  <2> HIDE DEF R
  <2> QED BY <1>2, <2>1, <2>2
<1>4. CASE q.of = "activity"
  <2> DEFINE R == tasks \cup {c \in history \cup comments : \E t \in tasks : t.id = c.task}
  <2>1. R \subseteq tasks \cup history \cup comments
    OBVIOUS
  <2>2. IsFiniteSet(tasks \cup history \cup comments)
    BY FS_Union DEF DbInv
  <2>3. List(q) = {Listed(x, x.created) : x \in R}
    BY <1>4 DEF List, get_project_activity
  <2> HIDE DEF R
  <2>4. IsFiniteSet(R) /\ Unique(R) /\ \A x \in R : x.id \in Ids /\ x.created \in Int
    BY <1>0, <2>1, <2>2, CardMono DEF DbInv, Unique
  <2> QED BY <1>2, <2>3, <2>4
<1>5. CASE q.of = "comments"
  <2> DEFINE R == {x \in comments : x.task = q.task}
             f == [c \in R |-> Listed(c, MaxTime - c.created)]
  <2>1. IsFiniteSet(R) /\ Unique(R) /\ \A x \in R : x.id \in Ids /\ x.created \in Int
    BY <1>0, CardMono DEF DbInv, Unique
  <2>2. /\ DOMAIN f = R /\ f = [x \in R |-> f[x]]
        /\ \A x \in R : f[x].id = x.id /\ f[x].key \in Int
    BY <2>1, PagingAssumption DEF Listed
  <2>3. List(q) = {f[x] : x \in R}
    BY <1>5 DEF List, get_task_comments
  <2> HIDE DEF R, f
  <2>4. Selected(R) /\ Places(f, R)
    BY <2>1, <2>2 DEF Selected, Places
  <2> QED BY <2>3, <2>4, ListOfRows
<1>6. CASE q.of = "unread"
  <2> DEFINE R == {x \in notes : ~x.is_read}
  <2>1. IsFiniteSet(R) /\ Unique(R) /\ \A x \in R : x.id \in Ids /\ x.created \in Int
    BY <1>0, CardMono DEF DbInv, Unique
  <2>2. List(q) = {Listed(x, x.created) : x \in R}
    BY <1>6 DEF List, get_unread_for_user
  <2> HIDE DEF R
  <2> QED BY <1>2, <2>1, <2>2
<1> QED
  BY <1>1, <1>3, <1>4, <1>5, <1>6, PagingAssumption

----------------------------------------------------------------------------
(* The walk.                                                               *)

NewWalk ==
  [state |-> "new", skip |-> 0, seen |-> {}, got |-> 0, stayed |-> {},
   left |-> 0, entered |-> 0, tied |-> FALSE]

ListOK == IsList(List(query)) /\ IdsIn(List(query)) \subseteq Ids

WalkBounds(L, w) ==
  /\ w.stayed \subseteq IdsIn(L)
  /\ MissedBound(L, w.stayed \ w.seen, w.skip, w.left)
  /\ RepeatBound(L, w.seen, w.skip, w.got - Cardinality(w.seen) - w.entered)

Walked(L, w) ==
  /\ w \in Walk /\ IsFiniteSet(w.seen)
  /\ w.state = "new" => w = NewWalk
  /\ ~w.tied => w.got <= w.entered + Cardinality(w.seen)
  /\ ~w.tied /\ w.state = "done" => Cardinality(w.stayed \ w.seen) <= w.left
  /\ ~w.tied /\ w.state = "reading" => WalkBounds(L, w)

WalkInv == Walked(List(query), walk)

LEMMA SameList ==
  ASSUME UNCHANGED <<db, query>> PROVE List(query)' = List(query)
BY DEF db, List, get_tasks, search_tasks, get_project_activity, get_task_comments,
       get_unread_for_user

\* A page of any listing, ties or not, answers rows of the list.
LEMMA PageType ==
  ASSUME NEW L, IsList(L), NEW s \in Listings(L), NEW skip \in Nat
  PROVE  /\ Len(Page(s, skip)) \in Nat
         /\ PageIds(s, skip) \subseteq IdsIn(L) /\ IsFiniteSet(PageIds(s, skip))
<1> DEFINE n == Cardinality(L)
           m == skip + 1
           to == IF skip + Limit < n THEN skip + Limit ELSE n
<1>1. n \in Nat /\ IsFiniteSet(L) /\ Limit \in Nat
  BY FS_CardinalityType, PagingAssumption DEF IsList
<1>2. s \in [1..n -> L]
  BY DEF Listings
<1> HIDE DEF n
<1>3. Len(s) = n
  BY <1>1, <1>2
<1>4. Page(s, skip) = SubSeq(s, m, to)
  BY <1>1, <1>3 DEF Page, Rows
<1>5. m \in Int /\ to \in Int /\ \A i \in m..to : s[i] \in L
  BY <1>1, <1>2
<1> HIDE DEF m, to
<1>6. Page(s, skip) \in Seq(L)
  BY <1>4, <1>5, SubSeqProperties
<1>7. PageIds(s, skip) \subseteq IdsIn(L)
  BY <1>6 DEF PageIds, IdsIn
<1>8. IsFiniteSet(IdsIn(L))
  BY <1>1, CardIds
<1> QED
  BY <1>6, <1>7, <1>8, CardMono

\* The record a page leads to.
Turned(w, L, s) ==
  [w EXCEPT !.state = IF Len(Page(s, w.skip)) < Limit THEN "done" ELSE "reading",
            !.skip = @ + Limit, !.seen = @ \cup PageIds(s, w.skip),
            !.got = @ + Len(Page(s, w.skip)),
            !.stayed = IF w.state = "new" THEN IdsIn(L) ELSE @,
            !.tied = @ \/ Ties(L)]

\* ReadPage preserves what is known of the walk.
LEMMA WalkedByRead ==
  ASSUME NEW L, IsList(L), IdsIn(L) \subseteq Ids, NEW s \in Listings(L),
         NEW w, Walked(L, w), w.state \in {"new", "reading"}
  PROVE  Walked(L, Turned(w, L, s))
<1> DEFINE P == PageIds(s, w.skip)
           len == Len(Page(s, w.skip))
           stayed == IF w.state = "new" THEN IdsIn(L) ELSE w.stayed
           v == Turned(w, L, s)
           over == w.got - Cardinality(w.seen) - w.entered
<1>1. w \in Walk /\ w.skip \in Nat /\ w.left \in Nat /\ w.got \in Nat /\ w.entered \in Nat
      /\ IsFiniteSet(w.seen) /\ Cardinality(w.seen) \in Nat /\ Limit \in Nat
  BY FS_CardinalityType, PagingAssumption DEF Walked, Walk
<1>2. len \in Nat /\ P \subseteq IdsIn(L) /\ IsFiniteSet(P)
  BY <1>1, PageType
<1>3. /\ v.state = (IF len < Limit THEN "done" ELSE "reading")
      /\ v.skip = w.skip + Limit /\ v.seen = w.seen \cup P /\ v.got = w.got + len
      /\ v.stayed = stayed /\ v.left = w.left /\ v.entered = w.entered
      /\ v.tied = (w.tied \/ Ties(L))
  BY <1>1 DEF Turned, Walk
<1>4. v \in Walk
  <2>1. stayed \in SUBSET Ids /\ w.seen \cup P \in SUBSET Ids
    BY <1>1, <1>2 DEF Walk
  <2>2. w.skip + Limit \in Nat /\ w.got + len \in Nat
    BY <1>1, <1>2
  <2>3. (w.tied \/ Ties(L)) \in BOOLEAN
    BY DEF Walk
  <2> HIDE DEF len, stayed
  <2> QED BY <1>1, <2>1, <2>2, <2>3 DEF Turned, Walk, len, stayed
<1>5. IsFiniteSet(v.seen)
  BY <1>1, <1>2, <1>3, CardUnion
<1>6. v.state # "new"
  BY <1>3
<1>7. ASSUME ~v.tied
      PROVE  /\ v.got <= v.entered + Cardinality(v.seen)
             /\ v.state = "done" => Cardinality(v.stayed \ v.seen) <= v.left
             /\ v.state = "reading" => WalkBounds(L, v)
  <2>1. ~w.tied /\ ~Ties(L)
    BY <1>3, <1>7
  <2>2. Ordered(L, s, Cardinality(L))
    BY <2>1, ListingOrdered
  <2>3. /\ stayed \subseteq IdsIn(L)
        /\ MissedBound(L, stayed \ w.seen, w.skip, w.left)
        /\ RepeatBound(L, w.seen, w.skip, over) /\ over \in Int /\ over <= 0
    <3>1. CASE w.state = "reading"
      BY <1>1, <2>1, <3>1 DEF Walked, WalkBounds
    <3>2. CASE w.state = "new"
      <4>1. w.skip = 0 /\ w.seen = {} /\ w.left = 0 /\ over = 0 /\ stayed = IdsIn(L)
        BY <3>2, FS_EmptySet DEF Walked, NewWalk
      <4>2. MissedBound(L, IdsIn(L), 0, 0)
        <5> SUFFICES ASSUME NEW c \in Int
                     PROVE  Cardinality(Above(L, c) \cap IdsIn(L)) + 0
                              <= 0 + Cardinality(Above(L, c))
          BY DEF MissedBound
        <5>1. Above(L, c) \cap IdsIn(L) = Above(L, c) /\ Cardinality(Above(L, c)) \in Nat
          BY AboveBelow, CardMono
        <5> QED BY <5>1
      <4>3. RepeatBound(L, {}, 0, 0)
        <5>1. \A c \in Int : Below(L, c) \cap {} = {} /\ Cardinality({}) = 0
          BY FS_EmptySet
        <5> QED BY <5>1 DEF RepeatBound
      <4>4. stayed \ w.seen = IdsIn(L)
        BY <4>1
      <4> HIDE DEF stayed, over
      <4> QED BY <4>1, <4>2, <4>3, <4>4
    <3> QED BY <3>1, <3>2
  <2> HIDE DEF stayed, over, P, len
  <2>4. v.stayed \ v.seen = (stayed \ w.seen) \ P
    BY <1>3
  <2>5. /\ MissedBound(L, v.stayed \ v.seen, v.skip, v.left)
        /\ len < Limit => Cardinality(v.stayed \ v.seen) <= v.left
    <3> DEFINE U == stayed \ w.seen
    <3>1. U \subseteq IdsIn(L) /\ MissedBound(L, U, w.skip, w.left)
      BY <2>3
    <3> HIDE DEF U
    <3>2. /\ MissedBound(L, U \ P, w.skip + Limit, w.left)
          /\ len < Limit => Cardinality(U \ P) <= w.left
      BY <1>1, <2>2, <3>1, MissedByRead DEF P, len
    <3> QED BY <1>3, <2>4, <3>2 DEF U
  <2>6. /\ Cardinality(P) = len
        /\ over + Cardinality(P \cap w.seen) <= 0
        /\ RepeatBound(L, w.seen \cup P, w.skip + Limit, over + Cardinality(P \cap w.seen))
    BY <1>1, <2>2, <2>3, RepeatedByRead DEF P, len
  <2>7. over + Cardinality(P \cap w.seen) = v.got - Cardinality(v.seen) - v.entered
        /\ Cardinality(v.seen) \in Nat
    <3>1. /\ Cardinality(w.seen \cup P)
               = Cardinality(w.seen) + Cardinality(P) - Cardinality(w.seen \cap P)
          /\ Cardinality(w.seen \cap P) \in Nat
      BY <1>1, <1>2, FS_Union, CardMono
    <3>2. w.seen \cap P = P \cap w.seen
      OBVIOUS
    <3>3. Cardinality(v.seen) \in Nat
      BY <1>5, FS_CardinalityType
    <3>4. v.got = w.got + Cardinality(P) /\ v.entered = w.entered /\ v.seen = w.seen \cup P
      BY <1>3, <2>6
    <3>5. Cardinality(P) \in Nat
      BY <1>2, <2>6
    <3> HIDE DEF v
    <3>6. Cardinality(v.seen) = Cardinality(w.seen) + Cardinality(P) - Cardinality(P \cap w.seen)
          /\ Cardinality(P \cap w.seen) \in Nat
      BY <3>1, <3>2, <3>4
    <3> QED BY <1>1, <3>3, <3>4, <3>5, <3>6 DEF over
  <2> HIDE DEF v
  <2>8. v.got <= v.entered + Cardinality(v.seen)
    BY <1>1, <1>2, <1>3, <2>6, <2>7
  <2>9. v.stayed \subseteq IdsIn(L)
    BY <1>3, <2>3
  <2>10. RepeatBound(L, v.seen, v.skip, v.got - Cardinality(v.seen) - v.entered)
    BY <1>3, <2>6, <2>7
  <2>11. v.state = "done" => len < Limit
    BY <1>3
  <2> QED BY <2>5, <2>8, <2>9, <2>10, <2>11 DEF WalkBounds
<1> HIDE DEF v
<1>8. Walked(L, v)
  BY <1>4, <1>5, <1>6, <1>7 DEF Walked
<1> QED
  BY <1>8 DEF v

\* The record after the list has changed from L to M.
Watched(w, L, M) ==
  IF w.state # "reading" THEN w
  ELSE [w EXCEPT !.stayed = @ \ {x.id : x \in L \ M},
                 !.left = @ + Cardinality(L \ M),
                 !.entered = @ + Cardinality(M \ L)]

\* So does a commit, whatever it does to the list.
LEMMA WalkedByChange ==
  ASSUME NEW L, IsList(L), NEW M, IsList(M), NEW w, Walked(L, w)
  PROVE  Walked(M, Watched(w, L, M))
<1>1. CASE w.state # "reading"
  <2>1. Watched(w, L, M) = w
    BY <1>1 DEF Watched
  <2> QED BY <1>1, <2>1 DEF Walked
<1>2. CASE w.state = "reading"
  <2> DEFINE v == Watched(w, L, M)
             gone == Cardinality(L \ M)
             came == Cardinality(M \ L)
             over == w.got - Cardinality(w.seen) - w.entered
  <2>1. gone \in Nat /\ came \in Nat
    BY CardMono DEF IsList
  <2>2. /\ w \in Walk /\ w.skip \in Nat /\ w.left \in Nat /\ w.got \in Nat /\ w.entered \in Nat
        /\ IsFiniteSet(w.seen) /\ Cardinality(w.seen) \in Nat
    BY FS_CardinalityType DEF Walked, Walk
  <2>3. v = [w EXCEPT !.stayed = @ \ IdsIn(L \ M), !.left = @ + gone, !.entered = @ + came]
    BY <1>2 DEF Watched, IdsIn
  <2> HIDE DEF gone, came
  <2>4. /\ v.state = "reading" /\ v.skip = w.skip /\ v.seen = w.seen /\ v.got = w.got
        /\ v.stayed = w.stayed \ IdsIn(L \ M) /\ v.left = w.left + gone
        /\ v.entered = w.entered + came /\ v.tied = w.tied
    BY <1>2, <2>2, <2>3 DEF Walk
  <2>5. v \in Walk
    <3>1. w.left + gone \in Nat /\ w.entered + came \in Nat
      BY <2>1, <2>2
    <3>2. w.stayed \ IdsIn(L \ M) \in SUBSET Ids
      BY <2>2 DEF Walk
    <3> QED BY <2>2, <2>3, <3>1, <3>2 DEF Walk
  <2> HIDE DEF v
  <2>6. ASSUME ~v.tied PROVE v.got <= v.entered + Cardinality(v.seen) /\ WalkBounds(M, v)
    <3>1. ~w.tied /\ w.got <= w.entered + Cardinality(w.seen) /\ WalkBounds(L, w)
      BY <1>2, <2>4, <2>6 DEF Walked
    <3>2. v.got <= v.entered + Cardinality(v.seen)
      BY <2>1, <2>2, <2>4, <3>1
    <3>3. v.stayed \subseteq IdsIn(M)
      BY <2>4, <3>1 DEF WalkBounds, IdsIn
    <3>4. MissedBound(M, v.stayed \ v.seen, v.skip, v.left)
      <4> DEFINE U == w.stayed \ w.seen
      <4>1. U \subseteq IdsIn(L) /\ MissedBound(L, U, w.skip, w.left)
        BY <3>1 DEF WalkBounds
      <4> HIDE DEF U
      <4>2. MissedBound(M, U \ IdsIn(L \ M), w.skip, w.left + gone)
        BY <2>2, <4>1, MissedByChange DEF gone
      <4>3. v.stayed \ v.seen = U \ IdsIn(L \ M)
        BY <2>4 DEF U
      <4> QED BY <2>4, <4>2, <4>3
    <3>5. RepeatBound(M, v.seen, v.skip, v.got - Cardinality(v.seen) - v.entered)
      <4>1. over \in Int /\ RepeatBound(L, w.seen, w.skip, over)
        BY <2>2, <3>1 DEF WalkBounds
      <4> HIDE DEF over
      <4>2. RepeatBound(M, w.seen, w.skip, over - came)
        BY <2>2, <4>1, RepeatedByChange DEF came
      <4>3. v.got - Cardinality(v.seen) - v.entered = over - came
        BY <2>1, <2>2, <2>4 DEF over
      <4> QED BY <2>4, <4>2, <4>3
    <3> QED BY <3>2, <3>3, <3>4, <3>5 DEF WalkBounds
  <2>7. Walked(M, v)
    BY <2>2, <2>4, <2>5, <2>6 DEF Walked
  <2> QED BY <2>7 DEF v
<1> QED
  BY <1>1, <1>2

LEMMA WalkStart == Init /\ DbType => WalkInv
<1> SUFFICES ASSUME Init PROVE WalkInv
  OBVIOUS
<1>1. walk = NewWalk /\ NewWalk \in Walk
  BY DEF Init, NewWalk, Walk
<1>2. /\ walk.seen = {} /\ walk.state = "new" /\ walk.got = 0 /\ walk.entered = 0
      /\ IsFiniteSet({}) /\ Cardinality({}) = 0
  BY <1>1, FS_EmptySet DEF NewWalk
<1> QED
  BY <1>1, <1>2 DEF WalkInv, Walked

LEMMA WalkStep ==
  ASSUME ListOK, ListOK', WalkInv, [Next]_vars
  PROVE  WalkInv'
<1>1. CASE ReadPage
  <2>1. PICK s \in Listings(List(query)) : walk' = Turned(walk, List(query), s)
    BY <1>1 DEF ReadPage, Turned, PageIds, IdsIn
  <2>2. List(query)' = List(query)
    BY <1>1, SameList DEF ReadPage
  <2>3. walk.state \in {"new", "reading"}
    BY <1>1 DEF ReadPage, Reading
  <2>4. Walked(List(query), walk')
    BY <2>1, <2>3, WalkedByRead DEF ListOK, WalkInv
  <2> QED BY <2>2, <2>4 DEF WalkInv
<1>2. CASE Refuse
  <2>1. List(query)' = List(query)
    BY <1>2, SameList DEF Refuse
  <2>2. walk \in Walk /\ walk' = [walk EXCEPT !.state = "refused"]
    BY <1>2 DEF Refuse, WalkInv, Walked
  <2>3. /\ walk' \in Walk /\ walk'.state = "refused" /\ walk'.seen = walk.seen
        /\ walk'.tied = walk.tied /\ walk'.got = walk.got /\ walk'.entered = walk.entered
    BY <2>2 DEF Walk
  <2>4. Walked(List(query), walk')
    BY <2>3 DEF WalkInv, Walked
  <2> QED BY <2>1, <2>4 DEF WalkInv
<1>3. ASSUME Tick \/ (\E w \in Writers : Begin(w)) \/ UNCHANGED vars PROVE WalkInv'
  <2>1. UNCHANGED <<db, query, walk>>
    BY <1>3 DEF Tick, Begin, vars
  <2>2. List(query)' = List(query)
    BY <2>1, SameList
  <2> QED BY <2>1, <2>2 DEF WalkInv
<1>4. ASSUME NEW w \in Writers, Commit(w) PROVE WalkInv'
  <2>1. walk' = Watched(walk, List(query), List(query)')
    BY <1>4 DEF Commit, Watch, Watched
  <2>2. Walked(List(query)', walk')
    BY <2>1, WalkedByChange DEF ListOK, WalkInv
  <2> QED BY <2>2 DEF WalkInv
<1> QED
  BY <1>1, <1>2, <1>3, <1>4 DEF Next

----------------------------------------------------------------------------
(* Theorems. *)

\* The invariant: of the tables, and of the walk over the list they make.
LEMMA Walks == Spec => [](DbType /\ DbInv /\ WalkInv)
<1>1. DbType /\ DbInv => ListOK
  BY ListsAreLists DEF ListsOK, ListOK, DbType
<1>2. Init /\ DbType => WalkInv
  BY WalkStart
<1>3. ListOK /\ ListOK' /\ WalkInv /\ [Next]_vars => WalkInv'
  BY WalkStep
<1> QED
  BY <1>1, <1>2, <1>3, Tables, PTL DEF Spec

\* TypeOK: rows, transactions and walks have their types.
THEOREM TypeCorrect == Spec => []TypeOK
<1>1. DbType /\ DbInv /\ WalkInv => TypeOK
  BY DEF DbType, WalkInv, Walked, TypeOK
<1> QED
  BY <1>1, Walks, PTL

\* MissedAtMostLeft: a walk to the end (the pages of tasks, of a search, of
\* the activity, of comments, of unread notifications) misses no more of the
\* rows that stayed than rows have left the list.
THEOREM MissesAreBounded == Spec => []MissedAtMostLeft
<1>1. WalkInv => MissedAtMostLeft
  BY DEF WalkInv, Walked, MissedAtMostLeft
<1>2. DbType /\ DbInv /\ WalkInv => MissedAtMostLeft
  BY <1>1
<1> QED
  BY <1>2, Walks, PTL

\* RepeatsAtMostEntered: nor does it answer more rows twice than came into it.
THEOREM RepeatsAreBounded == Spec => []RepeatsAtMostEntered
<1>1. WalkInv => RepeatsAtMostEntered
  <2> SUFFICES ASSUME WalkInv, ~walk.tied
               PROVE  walk.got - Cardinality(walk.seen) <= walk.entered
    BY DEF RepeatsAtMostEntered
  <2>1. /\ walk.got \in Nat /\ walk.entered \in Nat /\ Cardinality(walk.seen) \in Nat
        /\ walk.got <= walk.entered + Cardinality(walk.seen)
    BY FS_CardinalityType DEF WalkInv, Walked, Walk
  <2> QED BY <2>1
<1>2. DbType /\ DbInv /\ WalkInv => RepeatsAtMostEntered
  BY <1>1
<1> QED
  BY <1>2, Walks, PTL

\* A row is listed at the time its request began.
LEMMA PlaceIsTime ==
  ASSUME DbType, DbInv, NEW q \in Queries, q.of # "tasks" \/ q.sort_by = "created_at",
         NEW x \in List(q), x.id \in Writers
  PROVE  /\ writer[x.id].pc = "closed"
         /\ x.key = IF q.of = "comments" THEN MaxTime - writer[x.id].began
                                         ELSE writer[x.id].began
<1>1. \A r \in tasks \cup history \cup comments \cup notes : r.id \in Writers =>
        writer[r.id].pc = "closed" /\ r.created = writer[r.id].began
  BY DEF DbInv, Written
<1>2. CASE q.of = "tasks"
  <2>1. x \in get_tasks(q) /\ q.sort_by = "created_at"
    BY <1>2 DEF List
  <2>2. PICK t \in tasks : x = Listed(t, SortKey(t, "created_at"))
    BY <2>1 DEF get_tasks, apply_task_filters
  <2>3. x.id = t.id /\ x.key = t.created
    BY <2>2 DEF Listed, SortKey
  <2> QED BY <1>1, <1>2, <2>3
<1>3. CASE q.of = "search"
  <2>1. x \in search_tasks
    BY <1>3 DEF List
  <2>2. PICK t \in tasks : x.id = t.id /\ x.key = t.created
    BY <2>1 DEF search_tasks, Listed
  <2> QED BY <1>1, <1>3, <2>2
<1>4. CASE q.of = "activity"
  <2>1. x \in get_project_activity
    BY <1>4 DEF List
  <2>2. PICK t \in tasks \cup history \cup comments : x.id = t.id /\ x.key = t.created
    BY <2>1 DEF get_project_activity, Listed
  <2> QED BY <1>1, <1>4, <2>2
<1>5. CASE q.of = "comments"
  <2>1. x \in get_task_comments(q.task)
    BY <1>5 DEF List
  <2>2. PICK c \in comments : x.id = c.id /\ x.key = MaxTime - c.created
    BY <2>1 DEF get_task_comments, Listed
  <2> QED BY <1>1, <1>5, <2>2
<1>6. CASE q.of = "unread"
  <2>1. x \in get_unread_for_user
    BY <1>6 DEF List
  <2>2. PICK n \in notes : x.id = n.id /\ x.key = n.created
    BY <2>1 DEF get_unread_for_user, Listed
  <2> QED BY <1>1, <1>6, <2>2
<1> QED
  BY <1>2, <1>3, <1>4, <1>5, <1>6, PagingAssumption

\* ListedAsTheyCame: rows of requests that did not overlap are listed in the
\* order they came, although created_at is when a request began.
THEOREM OrderOfArrival == Spec => []ListedAsTheyCame
<1>1. ASSUME DbType, DbInv PROVE ListedAsTheyCame
  <2> SUFFICES ASSUME NEW q \in Queries, q.of # "tasks" \/ q.sort_by = "created_at",
                      NEW s \in Listings(List(q)), NEW i \in DOMAIN s, NEW j \in DOMAIN s,
                      s[i].id \in Writers, s[j].id \in Writers,
                      writer[s[i].id].ended < writer[s[j].id].began
               PROVE  IF q.of = "comments" THEN i < j ELSE j < i
    BY DEF ListedAsTheyCame
  <2> DEFINE a == writer[s[i].id]
             b == writer[s[j].id]
  <2>1. /\ s[i] \in List(q) /\ s[j] \in List(q) /\ i \in Int /\ j \in Int
        /\ i < j => s[i].key >= s[j].key
        /\ j < i => s[j].key >= s[i].key
    <3>1. Cardinality(List(q)) \in Nat
      BY <1>1, ListsAreLists, FS_CardinalityType DEF ListsOK, IsList
    <3>2. s \in [1..Cardinality(List(q)) -> List(q)]
      BY DEF Listings
    <3> QED BY <3>1, <3>2 DEF Listings, InOrder
  <2>2. /\ a.pc = "closed"
        /\ s[i].key = IF q.of = "comments" THEN MaxTime - a.began ELSE a.began
        /\ s[j].key = IF q.of = "comments" THEN MaxTime - b.began ELSE b.began
    BY <1>1, <2>1, PlaceIsTime
  <2>3. a.began <= a.ended
    BY <1>1, <2>2 DEF DbInv, Transactions
  <2>4. a.began \in Int /\ a.ended \in Int /\ b.began \in Int /\ MaxTime \in Int
    BY <1>1, PagingAssumption DEF DbType, Time
  <2> HIDE DEF a, b
  <2>5. a.ended < b.began
    BY DEF a, b
  <2>6. i # j
    BY <2>3, <2>4, <2>5 DEF a, b
  <2>7. CASE q.of = "comments"
    BY <2>1, <2>2, <2>3, <2>4, <2>5, <2>6, <2>7
  <2>8. CASE q.of # "comments"
    BY <2>1, <2>2, <2>3, <2>4, <2>5, <2>6, <2>8
  <2> QED BY <2>7, <2>8
<1>2. DbType /\ DbInv /\ WalkInv => ListedAsTheyCame
  BY <1>1
<1> QED
  BY <1>2, Walks, PTL
===============================================================================
