---------------------------- MODULE BuildsProofs ----------------------------
(* Theorems about Builds, and so about Locks, which adds no step of its    *)
(* own to them: for any specs, digests, registries, stores and bounds; and *)
(* behind them about Catalogue, which puts sets in an order as they do, so *)
(* that what is proved of an order here serves both: for any names,        *)
(* catalogues, forgeries and questions.                                    *)
EXTENDS Locks, Catalogue, FiniteSetTheorems, SequenceTheorems, TLAPS

-----------------------------------------------------------------------------
(* Numbers and sequences.                                                  *)

(* Every set of naturals that is not empty has a least element.            *)
LEMMA Least ==
  ASSUME NEW T, T \subseteq Nat, T # {}
  PROVE  \E x \in T : \A y \in T : x <= y
<1> DEFINE R == {p \in Nat \X Nat : p[1] < p[2]}
<1>1. IsWellFoundedOn(R, Nat)
  <2>1. OpToRel(<, Nat) = R
    BY DEF OpToRel
  <2>2. QED
    BY <2>1, NatLessThanWellFounded, Zenon
<1>2. \E x \in T : \A y \in T : <<y, x>> \notin R
  <2> HIDE DEF R
  <2> QED
    BY <1>1, WFMin
<1>3. PICK x \in T : \A y \in T : <<y, x>> \notin R
  BY <1>2
<1>4. ASSUME NEW y \in T PROVE x <= y
  <2>1. ~(y < x)
    BY <1>3, <1>4
  <2>2. x \in Nat /\ y \in Nat
    OBVIOUS
  <2>3. QED
    BY <2>1, <2>2
<1>5. QED
  BY <1>4

(* A finite set of naturals that is not empty has a greatest element: the  *)
(* least finite set without one would have one less.                       *)
LEMMA Greatest ==
  ASSUME NEW T, T \subseteq Nat, IsFiniteSet(T), T # {}
  PROVE  \E x \in T : \A y \in T : y <= x
<1> DEFINE Without(S) == S # {} /\ \A x \in S : \E y \in S : ~(y <= x)
           sizes == {Cardinality(S) : S \in {X \in SUBSET T : Without(X)}}
<1> SUFFICES ASSUME Without(T) PROVE FALSE
  OBVIOUS
<1>1. sizes # {} /\ sizes \subseteq Nat
  <2>1. \A S \in SUBSET T : Cardinality(S) \in Nat
    BY FS_Subset, FS_CardinalityType
  <2>2. T \in {X \in SUBSET T : Without(X)}
    OBVIOUS
  <2> HIDE DEF Without
  <2>3. QED
    BY <2>1, <2>2
<1>2. PICK n \in sizes : \A m \in sizes : n <= m
  BY <1>1, Least
<1>3. PICK S \in SUBSET T : Without(S) /\ Cardinality(S) = n
  OBVIOUS
<1>4. PICK x \in S : TRUE
  BY <1>3
<1>5. IsFiniteSet(S) /\ IsFiniteSet(S \ {x}) /\ S \ {x} \in SUBSET T
  BY FS_Subset
<1>6. Cardinality(S \ {x}) = Cardinality(S) - 1
  BY <1>4, <1>5, FS_RemoveElement
<1>7. ~ Without(S \ {x})
  <2> SUFFICES ASSUME Without(S \ {x}) PROVE FALSE
    OBVIOUS
  <2>1. Cardinality(S \ {x}) \in sizes
    BY <1>5
  <2> HIDE DEF sizes, Without
  <2>2. n \in Nat /\ n <= n - 1
    BY <1>1, <1>2, <1>3, <1>6, <2>1
  <2>3. QED
    BY <2>2
<1>8. CASE S \ {x} = {}
  BY <1>3, <1>4, <1>8
<1>9. CASE \E y \in S \ {x} : \A z \in S \ {x} : z <= y
  <2>1. PICK y \in S \ {x} : \A z \in S \ {x} : z <= y
    BY <1>9
  <2>2. x \in Nat /\ y \in Nat /\ \A z \in S : z \in Nat
    BY <1>3, <1>4
  <2>3. CASE x <= y
    <3>1. \A z \in S : z <= y
      BY <2>1, <2>3
    <3>2. QED
      BY <1>3, <2>1, <3>1
  <2>4. CASE y <= x
    <3>1. \A z \in S : z <= x
      BY <2>1, <2>2, <2>4
    <3>2. QED
      BY <1>3, <1>4, <3>1
  <2>5. QED
    BY <2>2, <2>3, <2>4
<1>10. QED
  BY <1>7, <1>8, <1>9

(* The maximum of a set is its greatest element.                           *)
LEMMA MaxIs ==
  ASSUME NEW T, T \subseteq Nat, IsFiniteSet(T), T # {}
  PROVE  Max(T) \in T /\ \A y \in T : y <= Max(T)
<1>1. PICK x \in T : \A y \in T : y <= x
  BY Greatest
<1>2. \A y \in T : x >= y
  BY <1>1
<1>3. Max(T) \in T /\ \A y \in T : Max(T) >= y
  BY <1>2, Zenon DEF Max
<1>4. QED
  BY <1>3

(* Two sequences that differ do so first at some place.                    *)
LEMMA FirstDifference ==
  ASSUME NEW S, NEW g \in Seq(S), NEW h \in Seq(S), g # h
  PROVE  \E i \in Nat \ {0} :
           /\ i \in DOMAIN g \/ i \in DOMAIN h
           /\ i \in DOMAIN g /\ i \in DOMAIN h => g[i] # h[i]
           /\ \A j \in 1 .. i-1 : j \in DOMAIN g /\ j \in DOMAIN h /\ g[j] = h[j]
<1> DEFINE Same(i) == i \in DOMAIN g /\ i \in DOMAIN h /\ g[i] = h[i]
           T == {i \in DOMAIN g \cup DOMAIN h : ~Same(i)}
<1>1. T # {}
  <2> SUFFICES ASSUME T = {} PROVE g = h
    OBVIOUS
  <2>1. Len(g) = Len(h)
    <3>1. DOMAIN g = DOMAIN h
      OBVIOUS
    <3>2. DOMAIN g = 1 .. Len(g) /\ DOMAIN h = 1 .. Len(h)
      OBVIOUS
    <3>3. Len(g) \in Nat /\ Len(h) \in Nat
      OBVIOUS
    <3>4. \A m, k \in Nat : 1 .. m = 1 .. k => m = k
      <4> SUFFICES ASSUME NEW m \in Nat, NEW k \in Nat, 1 .. m = 1 .. k, m # k PROVE FALSE
        OBVIOUS
      <4>1. m \in 1 .. m <=> m \in 1 .. k
        OBVIOUS
      <4>2. k \in 1 .. m <=> k \in 1 .. k
        OBVIOUS
      <4>3. QED
        BY <4>1, <4>2
    <3>5. 1 .. Len(g) = 1 .. Len(h)
      BY <3>1, <3>2, Zenon
    <3>6. QED
      BY <3>3, <3>4, <3>5
  <2>2. QED
    BY <2>1
<1>2. T \subseteq Nat
  OBVIOUS
<1>3. PICK i \in T : \A j \in T : i <= j
  BY <1>1, <1>2, Least
<1>4. \A j \in 1 .. i-1 : Same(j)
  <2> SUFFICES ASSUME NEW j \in 1 .. i-1 PROVE Same(j)
    OBVIOUS
  <2>1. i \in 1 .. Len(g) \/ i \in 1 .. Len(h)
    OBVIOUS
  <2>2. j \in DOMAIN g \cup DOMAIN h /\ j < i /\ i \in Nat
    BY <2>1
  <2>3. j \notin T
    BY <1>3, <2>2
  <2>4. QED
    BY <2>2, <2>3
<1>5. /\ i \in Nat \ {0}
      /\ i \in DOMAIN g \/ i \in DOMAIN h
      /\ i \in DOMAIN g /\ i \in DOMAIN h => g[i] # h[i]
  <2>1. DOMAIN g \subseteq Nat \ {0} /\ DOMAIN h \subseteq Nat \ {0}
    OBVIOUS
  <2>2. (i \in DOMAIN g \/ i \in DOMAIN h) /\ ~Same(i)
    BY Zenon
  <2>3. QED
    BY <2>1, <2>2
<1> HIDE DEF T
<1>6. QED
  BY <1>4, <1>5

-----------------------------------------------------------------------------
(* The order of hashes.                                                    *)

(* No hash is before itself.                                               *)
LEMMA HashIrreflexive ==
  ASSUME NEW h \in Seq(Nat)
  PROVE  ~HashBefore(h, h)
  BY DEF HashBefore

(* One of two different hashes is before the other.                        *)
LEMMA HashTotal ==
  ASSUME NEW g \in Seq(Nat), NEW h \in Seq(Nat), g # h
  PROVE  HashBefore(g, h) \/ HashBefore(h, g)
<1>1. PICK i \in Nat \ {0} :
        /\ i \in DOMAIN g \/ i \in DOMAIN h
        /\ i \in DOMAIN g /\ i \in DOMAIN h => g[i] # h[i]
        /\ \A j \in 1 .. i-1 : j \in DOMAIN g /\ j \in DOMAIN h /\ g[j] = h[j]
  BY FirstDifference, SMTT(30)
<1>2. CASE i \in DOMAIN g /\ i \in DOMAIN h
  <2>1. g[i] < h[i] \/ h[i] < g[i]
    BY <1>1, <1>2
  <2>2. QED
    BY <1>1, <1>2, <2>1 DEF HashBefore
<1>3. CASE i \in DOMAIN g /\ i \notin DOMAIN h
  BY <1>1, <1>3 DEF HashBefore
<1>4. CASE i \notin DOMAIN g /\ i \in DOMAIN h
  BY <1>1, <1>4 DEF HashBefore
<1>5. QED
  BY <1>1, <1>2, <1>3, <1>4

(* What is before a hash is before what comes after it.                    *)
LEMMA HashTransitive ==
  ASSUME NEW f \in Seq(Nat), NEW g \in Seq(Nat), NEW h \in Seq(Nat),
         HashBefore(f, g), HashBefore(g, h)
  PROVE  HashBefore(f, h)
<1>1. PICK i \in DOMAIN g :
        /\ \A j \in 1 .. i-1 : j \in DOMAIN f /\ f[j] = g[j]
        /\ i \in DOMAIN f => f[i] < g[i]
  BY DEF HashBefore
<1>2. PICK k \in DOMAIN h :
        /\ \A j \in 1 .. k-1 : j \in DOMAIN g /\ g[j] = h[j]
        /\ k \in DOMAIN g => g[k] < h[k]
  BY DEF HashBefore
<1>3. i \in Nat \ {0} /\ k \in Nat \ {0}
  OBVIOUS
<1>4. CASE i < k
  <2>1. i \in 1 .. k-1
    BY <1>3, <1>4
  <2>2. i \in DOMAIN h
    BY <1>3, <1>4
  <2>3. \A j \in 1 .. i-1 : j \in 1 .. k-1
    BY <1>3, <1>4
  <2>4. QED
    BY <1>1, <1>2, <2>1, <2>2, <2>3 DEF HashBefore
<1>5. CASE k <= i
  <2>1. k \in DOMAIN g
    BY <1>3, <1>5
  <2>2. \A j \in 1 .. k-1 : j \in 1 .. i-1
    BY <1>3, <1>5
  <2>3. k \in DOMAIN f => f[k] < h[k]
    <3> SUFFICES ASSUME k \in DOMAIN f PROVE f[k] < h[k]
      OBVIOUS
    <3>1. f[k] \in Nat /\ g[k] \in Nat /\ h[k] \in Nat
      BY <2>1
    <3>2. g[k] < h[k]
      BY <1>2, <2>1
    <3>3. f[k] <= g[k]
      <4>1. CASE k = i
        BY <1>1, <3>1, <4>1
      <4>2. CASE k < i
        <5>1. k \in 1 .. i-1
          BY <1>3, <4>2
        <5>2. k \in DOMAIN f /\ f[k] = g[k]
          BY <1>1, <5>1
        <5>3. QED
          BY <3>1, <5>2
      <4>3. QED
        BY <1>3, <1>5, <4>1, <4>2
    <3> DEFINE x == f[k]
               y == g[k]
               z == h[k]
    <3>4. /\ x \in Nat /\ y \in Nat /\ z \in Nat
          /\ x <= y /\ y < z
      BY <3>1, <3>2, <3>3, Zenon
    <3> HIDE DEF x, y, z
    <3>5. x < z
      BY <3>4
    <3>6. QED
      BY <3>5, Zenon DEF x, z
  <2>4. QED
    BY <1>1, <1>2, <2>2, <2>3 DEF HashBefore
<1>6. QED
  BY <1>3, <1>4, <1>5

-----------------------------------------------------------------------------
(* The rows of a listing.                                                  *)

(* What an order has to be for a set to have one arrangement.              *)
Orders(S, before) ==
  /\ \A x \in S : <<x, x>> \notin before
  /\ \A x, y \in S : x # y => <<x, y>> \in before \/ <<y, x>> \in before
  /\ \A x, y, z \in S : <<x, y>> \in before /\ <<y, z>> \in before => <<x, z>> \in before

(* Ranked has every element, once, in order.                               *)
LEMMA RankedSorts ==
  ASSUME NEW S, IsFiniteSet(S), NEW before, Orders(S, before)
  PROVE  /\ Ranked(S, before) \in [1 .. Cardinality(S) -> S]
         /\ Cardinality(S) \in Nat
         /\ \A r \in S : \E i \in 1 .. Cardinality(S) : Ranked(S, before)[i] = r
         /\ \A i, j \in 1 .. Cardinality(S) :
              i < j => <<Ranked(S, before)[i], Ranked(S, before)[j]>> \in before
<1> DEFINE Ahead(r) == {q \in S : <<q, r>> \in before}
           n == Cardinality(S)
           rank == [r \in S |-> Cardinality(Ahead(r)) + 1]
<1>1. n \in Nat
  BY FS_CardinalityType
<1>2. /\ \A r \in S : Ahead(r) \in SUBSET S
      /\ \A q, r \in S : q \in Ahead(r) <=> <<q, r>> \in before
      /\ rank = [r \in S |-> Cardinality(Ahead(r)) + 1]
      /\ Cardinality(S) = n
      /\ \A k \in 1 .. n :
           Ranked(S, before)[k] = CHOOSE q \in S : Cardinality(Ahead(q)) = k - 1
      /\ Ranked(S, before) = [k \in 1 .. n |-> Ranked(S, before)[k]]
  <2>1. Ranked(S, before)
          = [k \in 1 .. n |-> CHOOSE q \in S : Cardinality(Ahead(q)) = k - 1]
    BY DEF Ranked
  <2>2. \A r \in S : Ahead(r) \in SUBSET S
    OBVIOUS
  <2>3. \A q, r \in S : q \in Ahead(r) <=> <<q, r>> \in before
    OBVIOUS
  <2> HIDE DEF Ahead
  <2>4. QED
    BY <2>1, <2>2, <2>3
<1> HIDE DEF Ahead, n, rank
<1>3. \A r \in S : IsFiniteSet(Ahead(r)) /\ Cardinality(Ahead(r)) \in Nat
  BY <1>2, FS_Subset, FS_CardinalityType
<1>4. ASSUME NEW q \in S, NEW r \in S, <<q, r>> \in before
      PROVE  Cardinality(Ahead(q)) < Cardinality(Ahead(r))
  <2>1. Ahead(q) \in SUBSET Ahead(r)
    <3> SUFFICES ASSUME NEW p \in Ahead(q) PROVE p \in Ahead(r)
      OBVIOUS
    <3>1. p \in S /\ <<p, q>> \in before
      BY <1>2
    <3>2. QED
      BY <1>2, <1>4, <3>1 DEF Orders
  <2>2. q \in Ahead(r) /\ q \notin Ahead(q)
    BY <1>2, <1>4 DEF Orders
  <2>3. /\ Cardinality(Ahead(q)) <= Cardinality(Ahead(r))
        /\ Cardinality(Ahead(q)) # Cardinality(Ahead(r))
    BY <1>3, <2>1, <2>2, FS_Subset
  <2>4. QED
    BY <1>3, <2>3
<1>5. \A q, r \in S : Cardinality(Ahead(q)) = Cardinality(Ahead(r)) => q = r
  <2> SUFFICES ASSUME NEW q \in S, NEW r \in S, q # r,
                      Cardinality(Ahead(q)) = Cardinality(Ahead(r))
               PROVE  FALSE
    OBVIOUS
  <2>1. <<q, r>> \in before \/ <<r, q>> \in before
    BY DEF Orders
  <2>2. Cardinality(Ahead(q)) < Cardinality(Ahead(r))
          \/ Cardinality(Ahead(r)) < Cardinality(Ahead(q))
    BY <1>4, <2>1
  <2>3. QED
    BY <1>3, <2>2
<1>6. rank \in Surjection(S, 1 .. n)
  <2>1. ASSUME NEW r \in S PROVE rank[r] \in 1 .. n
    <3>1. Ahead(r) \in SUBSET S /\ r \notin Ahead(r)
      BY <1>2 DEF Orders
    <3>2. Cardinality(Ahead(r)) <= n /\ Cardinality(Ahead(r)) # n
      BY <1>2, <3>1, FS_Subset
    <3>3. QED
      BY <1>1, <1>2, <1>3, <3>2
  <2>2. rank \in [S -> 1 .. n]
    BY <1>2, <2>1
  <2>3. \A q, r \in S : rank[q] = rank[r] => q = r
    BY <1>2, <1>3, <1>5
  <2>4. rank \in Injection(S, 1 .. n)
    BY <2>2, <2>3 DEF Injection, IsInjective
  <2>5. IsFiniteSet(1 .. n) /\ Cardinality(1 .. n) = n
    BY <1>1, FS_Interval
  <2>6. QED
    BY <1>2, <2>4, <2>5, FS_Injection
<1>7. ASSUME NEW k \in 1 .. n PROVE \E r \in S : Cardinality(Ahead(r)) = k - 1
  <2>1. PICK r \in S : rank[r] = k
    BY <1>6 DEF Surjection
  <2>2. QED
    BY <1>2, <1>3, <2>1
<1>8. ASSUME NEW k \in 1 .. n
      PROVE  /\ Ranked(S, before)[k] \in S
             /\ Cardinality(Ahead(Ranked(S, before)[k])) = k - 1
  BY <1>2, <1>7
<1>9. Ranked(S, before) \in [1 .. n -> S]
  BY <1>2, <1>8
<1>10. ASSUME NEW r \in S PROVE \E i \in 1 .. n : Ranked(S, before)[i] = r
  <2>1. rank[r] \in 1 .. n /\ rank[r] - 1 = Cardinality(Ahead(r))
    BY <1>2, <1>3, <1>6 DEF Surjection
  <2>2. Ranked(S, before)[rank[r]] = r
    BY <1>5, <1>8, <2>1
  <2>3. QED
    BY <2>1, <2>2
<1>11. ASSUME NEW i \in 1 .. n, NEW j \in 1 .. n, i < j
       PROVE  <<Ranked(S, before)[i], Ranked(S, before)[j]>> \in before
  <2>1. PICK q \in S : q = Ranked(S, before)[i]
    BY <1>8
  <2>2. PICK r \in S : r = Ranked(S, before)[j]
    BY <1>8
  <2>3. Cardinality(Ahead(q)) = i - 1 /\ Cardinality(Ahead(r)) = j - 1
    BY <1>8, <2>1, <2>2
  <2>4. q # r /\ ~(Cardinality(Ahead(r)) < Cardinality(Ahead(q)))
    BY <1>11, <2>3
  <2>5. <<q, r>> \in before \/ <<r, q>> \in before
    BY <2>4 DEF Orders
  <2>6. QED
    BY <1>4, <2>1, <2>2, <2>4, <2>5
<1>12. QED
  BY <1>1, <1>2, <1>9, <1>10, <1>11

(* There is one arrangement of a set.                                      *)
Follows(before, s) == \A i, j \in DOMAIN s : i < j => <<s[i], s[j]>> \in before

LEMMA OneArrangement ==
  ASSUME NEW S, NEW before, Orders(S, before), NEW s \in Seq(S), NEW t \in Seq(S),
         ToSet(s) = ToSet(t), Follows(before, s), Follows(before, t)
  PROVE  s = t
<1> SUFFICES ASSUME s # t PROVE FALSE
  OBVIOUS
<1>1. PICK i \in Nat \ {0} :
        /\ i \in DOMAIN s \/ i \in DOMAIN t
        /\ i \in DOMAIN s /\ i \in DOMAIN t => s[i] # t[i]
        /\ \A j \in 1 .. i-1 : j \in DOMAIN s /\ j \in DOMAIN t /\ s[j] = t[j]
  BY FirstDifference
<1> DEFINE Ahead(q, r) == i \in DOMAIN q => i \in DOMAIN r /\ <<r[i], q[i]>> \in before
<1>2. ASSUME NEW q \in Seq(S), NEW r \in Seq(S),
             ToSet(q) = ToSet(r), Follows(before, q), Follows(before, r), i \in DOMAIN q,
             i \in DOMAIN r => q[i] # r[i],
             \A j \in 1 .. i-1 : j \in DOMAIN q /\ j \in DOMAIN r /\ q[j] = r[j]
      PROVE  i \in DOMAIN r /\ <<r[i], q[i]>> \in before
  <2>1. PICK j \in DOMAIN r : r[j] = q[i]
    BY <1>2 DEF ToSet
  <2>2. ~(j < i)
    <3> SUFFICES ASSUME j < i PROVE FALSE
      OBVIOUS
    <3>1. j \in 1 .. i-1
      OBVIOUS
    <3>2. j \in DOMAIN q /\ q[j] = q[i]
      BY <1>2, <2>1, <3>1
    <3>3. <<q[j], q[i]>> \in before /\ q[i] \in S
      BY <1>2, <3>2 DEF Follows
    <3>4. QED
      BY <3>2, <3>3 DEF Orders
  <2>3. i \in DOMAIN r /\ i < j
    <3>1. j \in Nat /\ DOMAIN r = 1 .. Len(r) /\ Len(r) \in Nat
      OBVIOUS
    <3>2. i \in DOMAIN r
      BY <2>2, <3>1
    <3>3. i # j
      BY <1>2, <2>1, <3>2
    <3>4. QED
      BY <2>2, <3>1, <3>2, <3>3
  <2>4. QED
    BY <1>2, <2>1, <2>3 DEF Follows
<1>3. CASE i \in DOMAIN s
  <2>1. i \in DOMAIN t /\ <<t[i], s[i]>> \in before
    BY <1>1, <1>2, <1>3
  <2>2. <<s[i], t[i]>> \in before
    BY <1>1, <1>2, <1>3, <2>1
  <2>3. s[i] \in S /\ t[i] \in S
    BY <1>3, <2>1
  <2>4. QED
    BY <2>1, <2>2, <2>3 DEF Orders
<1>4. CASE i \in DOMAIN t
  <2>1. i \in DOMAIN s
    BY <1>1, <1>2, <1>4
  <2>2. QED
    BY <1>3, <2>1
<1>5. QED
  BY <1>1, <1>3, <1>4

(* Collect has every row, once, in the order of the hashes.                *)
LEMMA CollectSorts ==
  ASSUME NEW rows, IsFiniteSet(rows),
         \A r \in rows : r.hash \in Seq(Nat),
         \A q, r \in rows : q.hash = r.hash => q = r
  PROVE  /\ Collect(rows) \in [1 .. Cardinality(rows) -> rows]
         /\ Cardinality(rows) \in Nat
         /\ \A r \in rows : \E i \in 1 .. Cardinality(rows) : Collect(rows)[i] = r
         /\ \A i, j \in 1 .. Cardinality(rows) :
              i < j => HashBefore(Collect(rows)[i].hash, Collect(rows)[j].hash)
<1> DEFINE before == {p \in rows \X rows : HashBefore(p[1].hash, p[2].hash)}
<1>1. \A q, r \in rows : <<q, r>> \in before <=> HashBefore(q.hash, r.hash)
  OBVIOUS
<1>2. Collect(rows) = Ranked(rows, before)
  BY DEF Collect
<1> HIDE DEF before
<1>3. Orders(rows, before)
  <2>1. \A q \in rows : <<q, q>> \notin before
    BY <1>1, HashIrreflexive
  <2>2. \A q, r \in rows : q # r => <<q, r>> \in before \/ <<r, q>> \in before
    BY <1>1, HashTotal
  <2>3. \A p, q, r \in rows :
          <<p, q>> \in before /\ <<q, r>> \in before => <<p, r>> \in before
    BY <1>1, HashTransitive
  <2>4. QED
    BY <2>1, <2>2, <2>3 DEF Orders
<1>4. /\ Collect(rows) \in [1 .. Cardinality(rows) -> rows]
      /\ Cardinality(rows) \in Nat
      /\ \A r \in rows : \E i \in 1 .. Cardinality(rows) : Collect(rows)[i] = r
      /\ \A i, j \in 1 .. Cardinality(rows) :
           i < j => <<Collect(rows)[i], Collect(rows)[j]>> \in before
  <2>1. Ranked(rows, before) \in [1 .. Cardinality(rows) -> rows] /\ Cardinality(rows) \in Nat
    BY <1>3, RankedSorts
  <2>2. \A r \in rows : \E i \in 1 .. Cardinality(rows) : Ranked(rows, before)[i] = r
    BY <1>3, RankedSorts
  <2>3. \A i, j \in 1 .. Cardinality(rows) :
          i < j => <<Ranked(rows, before)[i], Ranked(rows, before)[j]>> \in before
    BY <1>3, RankedSorts
  <2>4. QED
    BY <1>2, <2>1, <2>2, <2>3
<1>5. \A i, j \in 1 .. Cardinality(rows) :
        i < j => HashBefore(Collect(rows)[i].hash, Collect(rows)[j].hash)
  BY <1>1, <1>4
<1>6. QED
  BY <1>4, <1>5

-----------------------------------------------------------------------------
(* Words, and what stands at some places of a sequence.                    *)

(* A word is known by its place among the words.                           *)
LEMMA WordsOrder ==
  /\ \A w \in ToSet(Words) : Order(w) \in Nat \ {0}
  /\ \A v, w \in ToSet(Words) : Order(v) = Order(w) => v = w
<1>1. DOMAIN Words \subseteq Nat \ {0}
  BY BuildsAssumption
<1>2. ASSUME NEW w \in ToSet(Words) PROVE Order(w) \in DOMAIN Words /\ Words[Order(w)] = w
  <2>1. \E i \in DOMAIN Words : Words[i] = w
    BY DEF ToSet
  <2>2. QED
    BY <2>1, Zenon DEF Order
<1>3. \A w \in ToSet(Words) : Order(w) \in Nat \ {0}
  BY <1>1, <1>2
<1>4. \A v, w \in ToSet(Words) : Order(v) = Order(w) => v = w
  BY <1>2
<1>5. QED
  BY <1>3, <1>4

(* Names has every name.                                                   *)
LEMMA NamesAre ==
  ASSUME NEW S, IsFiniteSet(S), S \subseteq ToSet(Words)
  PROVE  /\ Names(S) \in [1 .. Cardinality(S) -> S] /\ Cardinality(S) \in Nat
         /\ \A n \in S : \E i \in 1 .. Cardinality(S) : Names(S)[i] = n
<1> DEFINE before == {p \in S \X S : Order(p[1]) < Order(p[2])}
<1>1. \A v, w \in S : <<v, w>> \in before <=> Order(v) < Order(w)
  OBVIOUS
<1>2. Names(S) = Ranked(S, before)
  BY DEF Names
<1> HIDE DEF before
<1>3. /\ \A w \in S : Order(w) \in Nat
      /\ \A v, w \in S : Order(v) = Order(w) => v = w
  BY WordsOrder
<1>4. Orders(S, before)
  BY <1>1, <1>3 DEF Orders
<1>5. /\ Ranked(S, before) \in [1 .. Cardinality(S) -> S] /\ Cardinality(S) \in Nat
      /\ \A n \in S : \E i \in 1 .. Cardinality(S) : Ranked(S, before)[i] = n
  BY <1>4, RankedSorts
<1>6. QED
  BY <1>2, <1>5

(* Kept has what stands at the places, in that order.                      *)
IsKept(q, s, at) ==
  \E n \in Nat :
    /\ q \in [1 .. n -> {s[i] : i \in at}]
    /\ \A i \in at : \E k \in 1 .. n : q[k] = s[i]
    /\ \A k, l \in 1 .. n : k < l => \E i, j \in at : i < j /\ q[k] = s[i] /\ q[l] = s[j]

LEMMA KeptIs ==
  ASSUME NEW s, NEW at, IsFiniteSet(at), at \subseteq Nat
  PROVE  IsKept(Kept(s, at), s, at)
<1> DEFINE before == {p \in at \X at : p[1] < p[2]}
           places == Ranked(at, before)
           n == Cardinality(at)
<1>1. \A i, j \in at : <<i, j>> \in before <=> i < j
  OBVIOUS
<1>2. Kept(s, at) = [k \in 1 .. n |-> s[places[k]]]
  BY DEF Kept
<1> HIDE DEF before
<1>3. Orders(at, before)
  BY <1>1 DEF Orders
<1>4. /\ places \in [1 .. n -> at] /\ n \in Nat
      /\ \A i \in at : \E k \in 1 .. n : places[k] = i
  BY <1>3, RankedSorts
<1>5. \A k, l \in 1 .. n : k < l => <<places[k], places[l]>> \in before
  BY <1>3, RankedSorts
<1> HIDE DEF places, n
<1>6. \A k \in 1 .. n : Kept(s, at)[k] = s[places[k]]
  BY <1>2
<1>8. \A i \in at : \E k \in 1 .. n : Kept(s, at)[k] = s[i]
  BY <1>4, <1>6
<1>9. \A k, l \in 1 .. n : k < l => places[k] \in at /\ places[l] \in at /\ places[k] < places[l]
  BY <1>1, <1>4, <1>5
<1>10. \A k, l \in 1 .. n :
         k < l => \E i, j \in at : i < j /\ Kept(s, at)[k] = s[i] /\ Kept(s, at)[l] = s[j]
  BY <1>6, <1>9
<1>11. Kept(s, at) \in [1 .. n -> {s[i] : i \in at}]
  BY <1>2, <1>4
<1>12. QED
  BY <1>4, <1>8, <1>10, <1>11 DEF IsKept

LEMMA ByBytesIs ==
  ASSUME NEW s, NEW i \in DOMAIN s, NEW j \in DOMAIN s
  PROVE  <<i, j>> \in ByBytes(s) <=> Order(s[i]) < Order(s[j]) \/ (s[i] = s[j] /\ i < j)
BY DEF ByBytes

(* There are as many numbers up to a number as it says.                    *)
LEMMA CountTo ==
  ASSUME NEW m \in Nat
  PROVE  IsFiniteSet(1 .. m) /\ Cardinality(1 .. m) = m
  BY FS_Interval

(* SortedWords has the words of a sequence, each as often as that, in      *)
(* order.                                                                  *)
LEMMA SortedIs ==
  ASSUME NEW s \in Seq(ToSet(Words))
  PROVE  /\ SortedWords(s) \in Seq(ToSet(Words)) /\ Len(SortedWords(s)) = Len(s)
         /\ \A k \in 1 .. Len(s) : \E i \in 1 .. Len(s) : SortedWords(s)[k] = s[i]
         /\ \A i \in 1 .. Len(s) : \E k \in 1 .. Len(s) : SortedWords(s)[k] = s[i]
         /\ \A k, l \in 1 .. Len(s) : k < l =>
              /\ Order(SortedWords(s)[k]) <= Order(SortedWords(s)[l])
              /\ \E i, j \in 1 .. Len(s) :
                   i # j /\ SortedWords(s)[k] = s[i] /\ SortedWords(s)[l] = s[j]
<1> DEFINE n == Len(s)
           at == DOMAIN s
           before == ByBytes(s)
           places == Ranked(at, before)
<1>1. n \in Nat /\ at = 1 .. n /\ \A i \in at : s[i] \in ToSet(Words)
  OBVIOUS
<1>2. \A i \in at : Order(s[i]) \in Nat /\ i \in Nat
  BY <1>1, WordsOrder
<1>3. \A i, j \in at :
        <<i, j>> \in before <=> Order(s[i]) < Order(s[j]) \/ (s[i] = s[j] /\ i < j)
  BY ByBytesIs
<1>4. SortedWords(s) = [k \in at |-> s[places[k]]]
  BY DEF SortedWords
<1> HIDE DEF n, at, before
<1>5. IsFiniteSet(at) /\ Cardinality(at) = n
  BY <1>1, FS_Interval
<1>6. Orders(at, before)
  <2>1. \A i \in at : <<i, i>> \notin before
    BY <1>2, <1>3
  <2>2. \A i, j \in at : Order(s[i]) = Order(s[j]) => s[i] = s[j]
    BY <1>1, WordsOrder
  <2>3. \A i, j \in at : i # j => <<i, j>> \in before \/ <<j, i>> \in before
    BY <1>2, <1>3, <2>2
  <2>4. ASSUME NEW i \in at, NEW j \in at, NEW k \in at,
               <<i, j>> \in before, <<j, k>> \in before
        PROVE  <<i, k>> \in before
    <3> DEFINE a == Order(s[i])
               b == Order(s[j])
               e == Order(s[k])
    <3>1. /\ a < b \/ (s[i] = s[j] /\ i < j)
          /\ b < e \/ (s[j] = s[k] /\ j < k)
      BY <1>3, <2>4
    <3>2. a \in Nat /\ b \in Nat /\ e \in Nat /\ i \in Nat /\ j \in Nat /\ k \in Nat
      BY <1>2
    <3>3. (s[i] = s[j] => a = b) /\ (s[j] = s[k] => b = e)
      OBVIOUS
    <3> HIDE DEF a, b, e
    <3>4. a < e \/ (s[i] = s[k] /\ i < k)
      BY <3>1, <3>2, <3>3
    <3>5. QED
      BY <1>3, <3>4 DEF a, e
  <2>5. QED
    BY <2>1, <2>3, <2>4 DEF Orders
<1>7. places \in [1 .. n -> at] /\ \A i \in at : \E k \in 1 .. n : places[k] = i
  BY <1>5, <1>6, RankedSorts
<1>8. \A k, l \in 1 .. n : k < l => <<places[k], places[l]>> \in before
  BY <1>5, <1>6, RankedSorts
<1> HIDE DEF places
<1>9. \A k \in 1 .. n : SortedWords(s)[k] = s[places[k]] /\ places[k] \in at
  BY <1>1, <1>4, <1>7
<1>10. SortedWords(s) \in Seq(ToSet(Words)) /\ Len(SortedWords(s)) = n
  <2>1. SortedWords(s) \in [1 .. n -> ToSet(Words)]
    BY <1>1, <1>4, <1>7
  <2>2. QED
    BY <1>1, <2>1
<1>11. \A i \in at : \E k \in 1 .. n : SortedWords(s)[k] = s[i]
  BY <1>7, <1>9
<1>12. \A k, l \in 1 .. n : k < l =>
         /\ Order(SortedWords(s)[k]) <= Order(SortedWords(s)[l])
         /\ places[k] # places[l]
  <2> SUFFICES ASSUME NEW k \in 1 .. n, NEW l \in 1 .. n, k < l
               PROVE  /\ Order(SortedWords(s)[k]) <= Order(SortedWords(s)[l])
                      /\ places[k] # places[l]
    OBVIOUS
  <2>1. places[k] \in at /\ places[l] \in at /\ <<places[k], places[l]>> \in before
    BY <1>8, <1>9
  <2> DEFINE i == places[k]
             j == places[l]
  <2>4. \/ Order(s[i]) < Order(s[j])
        \/ s[i] = s[j] /\ i < j
    BY <1>3, <2>1
  <2>5. Order(s[i]) \in Nat /\ Order(s[j]) \in Nat /\ i \in Nat /\ j \in Nat
    BY <1>2, <2>1
  <2> HIDE DEF i, j
  <2>6. Order(s[i]) <= Order(s[j]) /\ i # j
    BY <2>4, <2>5
  <2>2. Order(s[places[k]]) <= Order(s[places[l]]) /\ places[k] # places[l]
    BY <2>6 DEF i, j
  <2>3. QED
    BY <1>9, <2>2
<1>13. \A k \in 1 .. n : \E i \in at : SortedWords(s)[k] = s[i]
  BY <1>9
<1>14. \A k, l \in 1 .. n : k < l =>
         /\ Order(SortedWords(s)[k]) <= Order(SortedWords(s)[l])
         /\ \E i, j \in at : i # j /\ SortedWords(s)[k] = s[i] /\ SortedWords(s)[l] = s[j]
  BY <1>9, <1>12
<1>15. SortedWords(s) \in Seq(ToSet(Words)) /\ Len(SortedWords(s)) = Len(s)
  BY <1>10 DEF n
<1>16. /\ \A k \in 1 .. Len(s) : \E i \in 1 .. Len(s) : SortedWords(s)[k] = s[i]
       /\ \A i \in 1 .. Len(s) : \E k \in 1 .. Len(s) : SortedWords(s)[k] = s[i]
  BY <1>1, <1>11, <1>13, Zenon DEF n
<1>17. \A k, l \in 1 .. Len(s) : k < l =>
         /\ Order(SortedWords(s)[k]) <= Order(SortedWords(s)[l])
         /\ \E i, j \in 1 .. Len(s) :
              i # j /\ SortedWords(s)[k] = s[i] /\ SortedWords(s)[l] = s[j]
  BY <1>1, <1>14, Zenon DEF n
<1>18. QED
  BY <1>15, <1>16, <1>17, Zenon

LEMMA SortedSet ==
  ASSUME NEW s \in Seq(ToSet(Words))
  PROVE  ToSet(SortedWords(s)) = ToSet(s)
<1> DEFINE u == SortedWords(s)
           n == Len(s)
<1>1. u \in Seq(ToSet(Words)) /\ Len(u) = n
  BY SortedIs
<1>2. \A k \in 1 .. n : \E i \in 1 .. n : u[k] = s[i]
  BY SortedIs
<1>3. \A i \in 1 .. n : \E k \in 1 .. n : u[k] = s[i]
  BY SortedIs
<1> HIDE DEF u
<1>4. DOMAIN u = 1 .. n /\ DOMAIN s = 1 .. n
  BY <1>1
<1> HIDE DEF n
<1>5. ToSet(u) = {u[k] : k \in 1 .. n} /\ ToSet(s) = {s[i] : i \in 1 .. n}
  BY <1>4 DEF ToSet
<1>6. ToSet(u) = ToSet(s)
  <2>1. \A x \in ToSet(u) : x \in ToSet(s)
    BY <1>2, <1>5
  <2>2. \A x \in ToSet(s) : x \in ToSet(u)
    BY <1>3, <1>5
  <2>3. QED
    BY <2>1, <2>2
<1>7. QED
  BY <1>6 DEF u

(* Without repetitions, the words that there are and their number say how  *)
(* they are sorted.                                                        *)
LEMMA SortedAlike ==
  ASSUME NEW s \in Seq(ToSet(Words)), NEW t \in Seq(ToSet(Words)), ToSet(s) \subseteq ToSet(t),
         Len(s) = Len(t), \A i, j \in DOMAIN s : s[i] = s[j] => i = j
  PROVE  SortedWords(s) = SortedWords(t)
<1> DEFINE n == Len(s)
           W == ToSet(Words)
           u == SortedWords(s)
           v == SortedWords(t)
<1>1. /\ n \in Nat /\ DOMAIN s = 1 .. n /\ DOMAIN t = 1 .. n /\ Len(t) = n
      /\ s = [i \in 1 .. n |-> s[i]] /\ t = [i \in 1 .. n |-> t[i]]
  OBVIOUS
<1>2. ToSet(s) = {s[i] : i \in 1 .. n} /\ ToSet(t) = {t[i] : i \in 1 .. n}
  BY <1>1 DEF ToSet
<1>3. /\ DOMAIN u = 1 .. n /\ DOMAIN v = 1 .. n
      /\ \A k \in 1 .. n : \E i \in 1 .. n : u[k] = s[i]
      /\ \A i \in 1 .. n : \E k \in 1 .. n : u[k] = s[i]
      /\ \A k \in 1 .. n : \E i \in 1 .. n : v[k] = t[i]
      /\ \A i \in 1 .. n : \E k \in 1 .. n : v[k] = t[i]
  <2>1. u \in Seq(W) /\ v \in Seq(W) /\ Len(u) = n /\ Len(v) = Len(t)
    BY SortedIs
  <2>2. DOMAIN u = 1 .. n /\ DOMAIN v = 1 .. n
    BY <1>1, <2>1
  <2>3. /\ \A k \in 1 .. n : \E i \in 1 .. n : u[k] = s[i]
        /\ \A i \in 1 .. n : \E k \in 1 .. n : u[k] = s[i]
    BY SortedIs
  <2>4. /\ \A k \in 1 .. Len(t) : \E i \in 1 .. Len(t) : v[k] = t[i]
        /\ \A i \in 1 .. Len(t) : \E k \in 1 .. Len(t) : v[k] = t[i]
    BY SortedIs
  <2> HIDE DEF n, u, v
  <2>5. /\ \A k \in 1 .. n : \E i \in 1 .. n : v[k] = t[i]
        /\ \A i \in 1 .. n : \E k \in 1 .. n : v[k] = t[i]
    BY <1>1, <2>4, Zenon
  <2>6. QED
    BY <2>2, <2>3, <2>5, Zenon
<1>4. \A k, l \in 1 .. n : k < l =>
        /\ Order(u[k]) <= Order(u[l])
        /\ \E i, j \in 1 .. n : i # j /\ u[k] = s[i] /\ u[l] = s[j]
  BY SortedIs
<1>5. \A k, l \in 1 .. n : k < l =>
        /\ Order(v[k]) <= Order(v[l])
        /\ \E i, j \in 1 .. n : i # j /\ v[k] = t[i] /\ v[l] = t[j]
  <2>1. \A k, l \in 1 .. Len(t) : k < l =>
          /\ Order(v[k]) <= Order(v[l])
          /\ \E i, j \in 1 .. Len(t) : i # j /\ v[k] = t[i] /\ v[l] = t[j]
    BY SortedIs
  <2> HIDE DEF n, v
  <2>2. QED
    BY <1>1, <2>1
<1>21. u \in Seq(W) /\ v \in Seq(W)
  BY SortedIs
<1> HIDE DEF n, u, v, W
<1>6. IsFiniteSet(1 .. n) /\ Cardinality(1 .. n) = n
  <2>1. n \in Nat
    BY <1>1
  <2>2. QED
    BY <2>1, CountTo, Zenon
<1>7. s \in Injection(1 .. n, ToSet(t)) /\ t \in Surjection(1 .. n, ToSet(t))
  <2>1. s \in [1 .. n -> ToSet(t)] /\ t \in [1 .. n -> ToSet(t)]
    <3>1. \A i \in 1 .. n : s[i] \in ToSet(t) /\ t[i] \in ToSet(t)
      BY <1>2
    <3>2. s = [i \in 1 .. n |-> s[i]] /\ t = [i \in 1 .. n |-> t[i]]
      BY <1>1
    <3>3. QED
      BY <3>1, <3>2, Zenon
  <2>2. \A i, j \in 1 .. n : s[i] = s[j] => i = j
    BY <1>1
  <2>3. \A w \in ToSet(t) : \E i \in 1 .. n : t[i] = w
    BY <1>2
  <2>4. QED
    BY <2>1, <2>2, <2>3 DEF Injection, Surjection, IsInjective
<1>8. IsFiniteSet(ToSet(t)) /\ Cardinality(ToSet(t)) = n
  <2>1. IsFiniteSet(ToSet(t)) /\ Cardinality(ToSet(t)) <= n
    BY <1>6, <1>7, FS_Surjection
  <2>2. n <= Cardinality(ToSet(t)) /\ Cardinality(ToSet(t)) \in Nat
    BY <1>6, <1>7, <2>1, FS_Injection, FS_CardinalityType
  <2>3. QED
    BY <1>1, <2>1, <2>2
<1>9. \A i, j \in 1 .. n : t[i] = t[j] => i = j
  <2>1. t \in Injection(1 .. n, ToSet(t))
    BY <1>6, <1>7, <1>8, FS_Surjection
  <2>2. QED
    BY <1>1, <2>1 DEF Injection, IsInjective
<1>10. \A w \in ToSet(t) : \E i \in 1 .. n : s[i] = w
  <2>1. s \in Surjection(1 .. n, ToSet(t))
    BY <1>6, <1>7, <1>8, FS_Injection
  <2>2. QED
    BY <2>1 DEF Surjection
<1>11. ToSet(u) = ToSet(v)
  <2>1. DOMAIN u = 1 .. n /\ DOMAIN v = 1 .. n
    BY <1>3
  <2>2. ASSUME NEW w PROVE w \in ToSet(u) <=> (\E i \in 1 .. n : w = s[i])
    <3>1. w \in ToSet(u) <=> (\E k \in 1 .. n : w = u[k])
      BY <2>1 DEF ToSet
    <3>2. /\ \A k \in 1 .. n : \E i \in 1 .. n : u[k] = s[i]
          /\ \A i \in 1 .. n : \E k \in 1 .. n : u[k] = s[i]
      BY <1>3
    <3>3. QED
      BY <3>1, <3>2
  <2>3. ASSUME NEW w PROVE w \in ToSet(v) <=> (\E i \in 1 .. n : w = t[i])
    <3>1. w \in ToSet(v) <=> (\E k \in 1 .. n : w = v[k])
      BY <2>1 DEF ToSet
    <3>2. /\ \A k \in 1 .. n : \E i \in 1 .. n : v[k] = t[i]
          /\ \A i \in 1 .. n : \E k \in 1 .. n : v[k] = t[i]
      BY <1>3
    <3>3. QED
      BY <3>1, <3>2
  <2>4. \A w : (\E i \in 1 .. n : w = s[i]) <=> (\E i \in 1 .. n : w = t[i])
    <3>1. \A i \in 1 .. n : s[i] \in ToSet(t) /\ t[i] \in ToSet(t)
      BY <1>2
    <3>2. \A w \in ToSet(t) : (\E i \in 1 .. n : w = s[i]) /\ (\E i \in 1 .. n : w = t[i])
      BY <1>2, <1>10
    <3>3. QED
      BY <3>1, <3>2, Zenon
  <2>5. QED
    BY <2>2, <2>3, <2>4
<1> DEFINE before == {p \in W \X W : Order(p[1]) < Order(p[2])}
<1>12. \A x, y \in W : <<x, y>> \in before <=> Order(x) < Order(y)
  OBVIOUS
<1>13. /\ \A w \in W : Order(w) \in Nat
       /\ \A x, y \in W : Order(x) = Order(y) => x = y
  BY WordsOrder DEF W
<1> HIDE DEF before
<1>14. Orders(W, before)
  BY <1>12, <1>13 DEF Orders
<1>15. DOMAIN u = 1 .. n /\ DOMAIN v = 1 .. n /\ \A k \in 1 .. n : u[k] \in W /\ v[k] \in W
  <2>1. \A k \in DOMAIN u : u[k] \in W
    BY <1>21
  <2>2. \A k \in DOMAIN v : v[k] \in W
    BY <1>21
  <2>3. QED
    BY <1>3, <2>1, <2>2
<1>16. ASSUME NEW k \in 1 .. n, NEW l \in 1 .. n, k < l
       PROVE  u[k] # u[l] /\ v[k] # v[l]
  <2>1. u[k] # u[l]
    BY <1>1, <1>4, <1>16
  <2>2. v[k] # v[l]
    BY <1>5, <1>9, <1>16
  <2>3. QED
    BY <2>1, <2>2
<1>17. ASSUME NEW k \in 1 .. n, NEW l \in 1 .. n, k < l
       PROVE  Order(u[k]) < Order(u[l]) /\ Order(v[k]) < Order(v[l])
  <2>1. u[k] \in W /\ u[l] \in W /\ v[k] \in W /\ v[l] \in W
    BY <1>15
  <2>2. u[k] # u[l] /\ v[k] # v[l]
    BY <1>16, <1>17
  <2>3. Order(u[k]) <= Order(u[l]) /\ Order(v[k]) <= Order(v[l])
    BY <1>4, <1>5, <1>17
  <2>4. /\ Order(u[k]) \in Nat /\ Order(u[l]) \in Nat /\ Order(u[k]) # Order(u[l])
        /\ Order(v[k]) \in Nat /\ Order(v[l]) \in Nat /\ Order(v[k]) # Order(v[l])
    BY <1>13, <2>1, <2>2
  <2>5. QED
    BY <2>3, <2>4
<1>18. Follows(before, u) /\ Follows(before, v)
  BY <1>12, <1>15, <1>17 DEF Follows
<1>19. u = v
  BY <1>21, <1>11, <1>14, <1>18, OneArrangement
<1>20. QED
  BY <1>19 DEF u, v

-----------------------------------------------------------------------------
(* What holds between the steps of a listing.                              *)

Numbered(rows) == \E n \in Nat : DOMAIN rows = 1 .. n

HashesOf(S) == {t.hash : t \in {u \in S : u.raw = Version}}

IsRow(r) ==
  /\ r = [hash |-> r.hash, time |-> r.time, published |-> r.published, spec |-> r.spec]
  /\ r.hash \in Seq(Nat) /\ r.published \in BOOLEAN

AnyAnnotation == Annotations \cup UNION {{w.registry[t] : t \in DOMAIN w.registry} : w \in Worlds}

(* Tags and directories have names, and an installed build has a time.     *)
SourcesInv ==
  /\ IsFiniteSet(DOMAIN registry) /\ IsFiniteSet(DOMAIN store)
  /\ \A t \in DOMAIN registry \cup DOMAIN store : IsName(t)
  /\ \A d \in DOMAIN store : store[d] \in Nat \ {0}
  /\ \A t \in DOMAIN registry : registry[t] \in AnyAnnotation

(* What a listing started from is still there, and it knows of every build *)
(* that part of a hash has named before.                                   *)
CallInv ==
  /\ call = [at |-> call.at, rows |-> call.rows, next |-> call.next,
             had |-> call.had, saw |-> call.saw]
  /\ call.at = "idle" => call.rows = <<>>
  /\ call.at # "idle" =>
       /\ DOMAIN call.had \subseteq DOMAIN store
       /\ \A d \in DOMAIN call.had : IsName(d) /\ call.had[d] \in Nat \ {0}
       /\ call.saw \subseteq DOMAIN registry
       /\ \A m \in named : m[2] \in HashesOf(DOMAIN call.had \cup call.saw)

(* The rows stand by hash, and those with a time are the installed ones.   *)
InstalledRows(rows, had) ==
  /\ rows = [i \in DOMAIN rows |-> rows[i]]
  /\ IsFiniteSet(DOMAIN rows) /\ DOMAIN rows \subseteq Nat /\ Numbered(rows)
  /\ \A i \in DOMAIN rows : IsRow(rows[i])
  /\ \A i, j \in DOMAIN rows : i < j => HashBefore(rows[i].hash, rows[j].hash)
  /\ \A d \in DOMAIN had : d.raw = Version =>
       \E i \in DOMAIN rows : rows[i].hash = d.hash /\ rows[i].time = had[d]
  /\ \A i \in DOMAIN rows : rows[i].time # 0 =>
       \E d \in DOMAIN had : d.raw = Version /\ d.hash = rows[i].hash /\ had[d] = rows[i].time

(* Another spelling of a build, that a listing may show in its stead.      *)
StandsIn(u, t) ==
  /\ u.raw # t.raw /\ u.hash = t.hash /\ NumberOf(u.raw) = NumberOf(t.raw)
  /\ t.hash = NoHash => PrecisionOf(t.raw) <= PrecisionOf(u.raw)

(* A build with a hash is published under one spelling of its version.     *)
SpeltOnce == \A t, u \in DOMAIN registry : t.hash # NoHash /\ OneBuild(t, u) => t = u

(* Nothing is known to be published before the registry answers; then all  *)
(* is that was when the listing started, or another spelling of it, and    *)
(* nothing that is not, unless the second distribution has it.             *)
PublishedRows(at, rows, saw) ==
  /\ at \in {"listing", "failed", "panicked"} =>
       \A i \in DOMAIN rows : ~rows[i].published /\ rows[i].time # 0
  /\ at \in {"describing", "done"} =>
       /\ \A t \in saw : t.raw = Version =>
            \/ \E i \in DOMAIN rows : rows[i].published /\ rows[i].hash = t.hash
            \/ \E u \in DOMAIN registry : StandsIn(u, t)
       /\ \A i \in DOMAIN rows :
            /\ rows[i].published => \/ rows[i].hash \in HashesOf(DOMAIN registry)
                                   \/ (rows[i].hash = NoHash /\ saw = {})
            /\ rows[i].published \/ rows[i].time # 0

(* What is known of a row was verified against its hash.                   *)
DescribedRows(rows) ==
  \A i \in DOMAIN rows :
     \/ rows[i].spec = NoSpec
     \/ \E a \in AnyAnnotation : rows[i].spec \in VerifySpec(a, rows[i].hash)

RowsInv ==
  call.at # "idle" =>
    /\ call.at \in {"listing", "failed", "panicked", "describing", "done"}
    /\ DescribedRows(call.rows)
    /\ InstalledRows(call.rows, call.had)
    /\ PublishedRows(call.at, call.rows, call.saw)

(* What part of a hash named has that part, is there, and is all it named. *)
NamedInv ==
  /\ \A m \in named : /\ m = <<m[1], m[2]>> /\ IsPrefix(m[1], m[2]) /\ m[2] # NoHash
                       /\ m[2] \in HashesOf(DOMAIN store \cup DOMAIN registry)
  /\ NamesHold

IInv == SourcesInv /\ CallInv /\ RowsInv /\ NamedInv

-----------------------------------------------------------------------------
(* The rows that a listing makes.                                          *)

LEMMA FiniteImage ==
  ASSUME NEW S, IsFiniteSet(S), NEW f
  PROVE  IsFiniteSet({f[x] : x \in S})
<1> DEFINE T == {f[x] : x \in S}
<1>1. [x \in S |-> f[x]] \in Surjection(S, T)
  BY DEF Surjection
<1>2. QED
  BY <1>1, FS_Surjection

LEMMA CollectRows ==
  ASSUME NEW S, IsFiniteSet(S), \A r \in S : r.hash \in Seq(Nat),
         \A q, r \in S : q.hash = r.hash => q = r
  PROVE  /\ Collect(S) = [i \in DOMAIN Collect(S) |-> Collect(S)[i]]
         /\ IsFiniteSet(DOMAIN Collect(S)) /\ DOMAIN Collect(S) \subseteq Nat /\ Numbered(Collect(S))
         /\ \A i \in DOMAIN Collect(S) : Collect(S)[i] \in S
         /\ \A r \in S : \E i \in DOMAIN Collect(S) : Collect(S)[i] = r
         /\ \A i, j \in DOMAIN Collect(S) :
              i < j => HashBefore(Collect(S)[i].hash, Collect(S)[j].hash)
<1>1. Collect(S) \in [1 .. Cardinality(S) -> S] /\ Cardinality(S) \in Nat
  BY CollectSorts
<1>2. IsFiniteSet(1 .. Cardinality(S))
  BY <1>1, FS_Interval
<1>3. DOMAIN Collect(S) = 1 .. Cardinality(S)
  BY <1>1
<1>4. /\ \A r \in S : \E i \in 1 .. Cardinality(S) : Collect(S)[i] = r
      /\ \A i, j \in 1 .. Cardinality(S) :
           i < j => HashBefore(Collect(S)[i].hash, Collect(S)[j].hash)
  BY CollectSorts
<1>5. QED
  BY <1>1, <1>2, <1>3, <1>4 DEF Numbered

(* A listing starts with a row for every directory of the version.         *)
LEMMA InstalledAreRows ==
  ASSUME SourcesInv
  PROVE  LET rows == Collect({Row(d.hash, store[d], FALSE) : d \in InstalledHere})
         IN  /\ InstalledRows(rows, store) /\ DescribedRows(rows)
             /\ \A i \in DOMAIN rows : ~rows[i].published /\ rows[i].time # 0
<1> DEFINE f == [d \in InstalledHere |-> Row(d.hash, store[d], FALSE)]
           S == {Row(d.hash, store[d], FALSE) : d \in InstalledHere}
           rows == Collect(S)
<1>1. IsFiniteSet(S)
  <2>1. InstalledHere \in SUBSET DOMAIN store
    BY DEF InstalledHere
  <2>2. IsFiniteSet(InstalledHere)
    BY <2>1, FS_Subset DEF SourcesInv
  <2>3. S = {f[d] : d \in InstalledHere}
    OBVIOUS
  <2> HIDE DEF S, f
  <2>4. QED
    BY <2>2, <2>3, FiniteImage
<1>2. \A d \in InstalledHere :
        /\ d = [raw |-> Version, hash |-> d.hash] /\ d.hash \in Seq(Nat)
        /\ d \in DOMAIN store /\ store[d] # 0 /\ d.raw = Version
  BY DEF InstalledHere, SourcesInv, IsName
<1>3. \A r \in S : \E d \in InstalledHere : r = Row(d.hash, store[d], FALSE)
  OBVIOUS
<1>4. \A d \in InstalledHere : Row(d.hash, store[d], FALSE) \in S
  OBVIOUS
<1> HIDE DEF S
<1>5. \A r \in S : r.hash \in Seq(Nat)
  BY <1>2, <1>3 DEF Row
<1>6. \A q, r \in S : q.hash = r.hash => q = r
  <2> SUFFICES ASSUME NEW q \in S, NEW r \in S, q.hash = r.hash PROVE q = r
    OBVIOUS
  <2>1. PICK d \in InstalledHere : q = Row(d.hash, store[d], FALSE)
    BY <1>3
  <2>2. PICK e \in InstalledHere : r = Row(e.hash, store[e], FALSE)
    BY <1>3
  <2>3. d.hash = e.hash
    BY <2>1, <2>2 DEF Row
  <2>4. d = e
    BY <1>2, <2>3
  <2>5. QED
    BY <2>1, <2>2, <2>4
<1>7. /\ rows = [i \in DOMAIN rows |-> rows[i]]
      /\ IsFiniteSet(DOMAIN rows) /\ DOMAIN rows \subseteq Nat /\ Numbered(rows)
      /\ \A i \in DOMAIN rows : rows[i] \in S
      /\ \A r \in S : \E i \in DOMAIN rows : rows[i] = r
      /\ \A i, j \in DOMAIN rows : i < j => HashBefore(rows[i].hash, rows[j].hash)
  BY <1>1, <1>5, <1>6, CollectRows
<1> HIDE DEF rows
<1>8. ASSUME NEW i \in DOMAIN rows
      PROVE  /\ IsRow(rows[i]) /\ ~rows[i].published /\ rows[i].time # 0
             /\ rows[i].spec = NoSpec
             /\ \E d \in DOMAIN store :
                  d.raw = Version /\ d.hash = rows[i].hash /\ store[d] = rows[i].time
  <2>1. PICK d \in InstalledHere : rows[i] = Row(d.hash, store[d], FALSE)
    BY <1>3, <1>7
  <2>2. QED
    BY <1>2, <2>1 DEF Row, IsRow
<1>9. ASSUME NEW d \in DOMAIN store, d.raw = Version
      PROVE  \E i \in DOMAIN rows : rows[i].hash = d.hash /\ rows[i].time = store[d]
  <2>1. d \in InstalledHere
    BY <1>9 DEF InstalledHere
  <2>2. PICK i \in DOMAIN rows : rows[i] = Row(d.hash, store[d], FALSE)
    BY <1>4, <1>7, <2>1
  <2>3. QED
    BY <2>2 DEF Row
<1>10. InstalledRows(rows, store) /\ DescribedRows(rows)
  BY <1>7, <1>8, <1>9 DEF InstalledRows, DescribedRows
<1>11. QED
  BY <1>8, <1>10 DEF rows, S

(* The answer of the registry leaves those, and adds the others.           *)
LEMMA JoinedAreRows ==
  ASSUME NEW had, NEW rows, InstalledRows(rows, had), DescribedRows(rows),
         \A i \in DOMAIN rows : ~rows[i].published /\ rows[i].time # 0,
         NEW hashes \in SUBSET Seq(Nat), IsFiniteSet(hashes)
  PROVE  LET all == Collect(Join(ToSet(rows), hashes))
         IN  /\ InstalledRows(all, had) /\ DescribedRows(all)
             /\ \A h \in hashes : \E i \in DOMAIN all : all[i].published /\ all[i].hash = h
             /\ \A i \in DOMAIN all :
                  /\ all[i].published => all[i].hash \in hashes
                  /\ all[i].published \/ all[i].time # 0
<1> DEFINE New(h) == Row(h, 0, TRUE)
           Marked(i) == [rows[i] EXCEPT !.published = rows[i].hash \in hashes]
           others == hashes \ {r.hash : r \in ToSet(rows)}
           S == Join(ToSet(rows), hashes)
           f == [i \in DOMAIN rows |-> Marked(i)]
           g == [h \in others |-> New(h)]
           all == Collect(S)
<1>1. /\ \A i \in DOMAIN rows :
           /\ Marked(i).hash = rows[i].hash /\ Marked(i).time = rows[i].time
           /\ Marked(i).published <=> rows[i].hash \in hashes
           /\ IsRow(Marked(i)) /\ Marked(i).spec = rows[i].spec
      /\ \A h \in hashes :
           /\ New(h).hash = h /\ New(h).time = 0
           /\ New(h).published /\ IsRow(New(h)) /\ New(h).spec = NoSpec
  <2>1. ASSUME NEW i \in DOMAIN rows
        PROVE  /\ Marked(i).hash = rows[i].hash /\ Marked(i).time = rows[i].time
               /\ Marked(i).published <=> rows[i].hash \in hashes
               /\ IsRow(Marked(i)) /\ Marked(i).spec = rows[i].spec
    <3>1. IsRow(rows[i])
      BY DEF InstalledRows
    <3>2. PICK b \in BOOLEAN : b <=> rows[i].hash \in hashes
      OBVIOUS
    <3>3. Marked(i) = [hash |-> rows[i].hash, time |-> rows[i].time,
                       published |-> b, spec |-> rows[i].spec]
      BY <3>1, <3>2 DEF IsRow
    <3>4. rows[i].hash \in Seq(Nat)
      BY <3>1 DEF IsRow
    <3> HIDE DEF Marked
    <3>5. QED
      BY <3>2, <3>3, <3>4 DEF IsRow
  <2>2. ASSUME NEW h \in hashes
        PROVE  /\ New(h).hash = h /\ New(h).time = 0
               /\ New(h).published /\ IsRow(New(h)) /\ New(h).spec = NoSpec
    BY DEF Row, IsRow
  <2> HIDE DEF Marked, New
  <2>3. QED
    BY <2>1, <2>2
<1>2. others = {h \in hashes : \A i \in DOMAIN rows : rows[i].hash # h}
  BY DEF ToSet
<1>3. S = {f[i] : i \in DOMAIN rows} \cup {g[h] : h \in others}
  BY DEF Join, ToSet
<1>4. IsFiniteSet(S)
  <2>1. IsFiniteSet(others)
    BY FS_Subset
  <2>2. IsFiniteSet({f[i] : i \in DOMAIN rows}) /\ IsFiniteSet({g[h] : h \in others})
    <3> HIDE DEF f, g, others
    <3>1. IsFiniteSet(DOMAIN rows)
      BY Zenon DEF InstalledRows
    <3>2. QED
      BY <2>1, <3>1, FiniteImage, Zenon
  <2> HIDE DEF S, f, g, others
  <2>3. QED
    BY <1>3, <2>2, FS_Union
<1>5. \A r \in S : (\E i \in DOMAIN rows : r = Marked(i))
                      \/ \E h \in others : r = New(h)
  BY <1>3
<1>6. /\ \A i \in DOMAIN rows : Marked(i) \in S
      /\ \A h \in others : New(h) \in S
  BY <1>3
<1>7. \A h \in hashes : h \in others \/ \E i \in DOMAIN rows : rows[i].hash = h
  BY <1>2
<1>8. \A i \in DOMAIN rows : rows[i].hash \notin others
  BY <1>2
<1>9. others \subseteq hashes
  BY <1>2
<1> HIDE DEF S, New, Marked, others, f, g
<1>10. \A r \in S : r.hash \in Seq(Nat) /\ IsRow(r)
  BY <1>1, <1>5, <1>9 DEF IsRow
<1>11. \A q, r \in S : q.hash = r.hash => q = r
  <2> SUFFICES ASSUME NEW q \in S, NEW r \in S, q.hash = r.hash PROVE q = r
    OBVIOUS
  <2>1. CASE \E i, j \in DOMAIN rows : q = Marked(i) /\ r = Marked(j)
    <3>1. PICK i \in DOMAIN rows, j \in DOMAIN rows : q = Marked(i) /\ r = Marked(j)
      BY <2>1
    <3>2. rows[i].hash = rows[j].hash
      BY <1>1, <3>1
    <3>3. rows[i].hash \in Seq(Nat) /\ i \in Nat /\ j \in Nat
      BY DEF InstalledRows, IsRow
    <3>4. ~(i < j) /\ ~(j < i)
      BY <3>2, <3>3, HashIrreflexive DEF InstalledRows
    <3>5. QED
      BY <3>1, <3>3, <3>4
  <2>2. CASE \E h, k \in others : q = New(h) /\ r = New(k)
    BY <1>1, <1>9, <2>2
  <2>3. ASSUME NEW i \in DOMAIN rows, NEW h \in others,
               {q, r} = {Marked(i), New(h)}
        PROVE  FALSE
    <3>1. Marked(i).hash # New(h).hash
      BY <1>1, <1>8, <1>9
    <3>2. QED
      BY <2>3, <3>1
  <2>4. /\ (\E i \in DOMAIN rows : q = Marked(i)) \/ (\E h \in others : q = New(h))
        /\ (\E i \in DOMAIN rows : r = Marked(i)) \/ (\E h \in others : r = New(h))
    BY <1>5
  <2>5. QED
    BY <2>1, <2>2, <2>3, <2>4
<1>12. /\ all = [i \in DOMAIN all |-> all[i]]
       /\ IsFiniteSet(DOMAIN all) /\ DOMAIN all \subseteq Nat /\ Numbered(all)
       /\ \A i \in DOMAIN all : all[i] \in S
       /\ \A r \in S : \E i \in DOMAIN all : all[i] = r
       /\ \A i, j \in DOMAIN all : i < j => HashBefore(all[i].hash, all[j].hash)
  BY <1>4, <1>10, <1>11, CollectRows
<1> HIDE DEF all
<1>13. ASSUME NEW i \in DOMAIN all
       PROVE  /\ IsRow(all[i])
              /\ all[i].published => all[i].hash \in hashes
              /\ all[i].published \/ all[i].time # 0
              /\ all[i].time # 0 =>
                   \E d \in DOMAIN had :
                      d.raw = Version /\ d.hash = all[i].hash /\ had[d] = all[i].time
  <2>1. CASE \E j \in DOMAIN rows : all[i] = Marked(j)
    <3>1. PICK j \in DOMAIN rows : all[i] = Marked(j)
      BY <2>1
    <3>2. rows[j].time # 0
      OBVIOUS
    <3>3. \E d \in DOMAIN had :
             d.raw = Version /\ d.hash = rows[j].hash /\ had[d] = rows[j].time
      BY <3>2 DEF InstalledRows
    <3>4. QED
      BY <1>1, <3>1, <3>2, <3>3
  <2>2. CASE \E h \in others : all[i] = New(h)
    BY <1>1, <1>9, <2>2
  <2>3. QED
    BY <1>5, <1>12, <2>1, <2>2
<1>14. ASSUME NEW d \in DOMAIN had, d.raw = Version
       PROVE  \E i \in DOMAIN all : all[i].hash = d.hash /\ all[i].time = had[d]
  <2>1. PICK j \in DOMAIN rows : rows[j].hash = d.hash /\ rows[j].time = had[d]
    BY <1>14 DEF InstalledRows
  <2>2. PICK i \in DOMAIN all : all[i] = Marked(j)
    BY <1>6, <1>12
  <2>3. QED
    BY <1>1, <2>1, <2>2
<1>15. ASSUME NEW h \in hashes
       PROVE  \E i \in DOMAIN all : all[i].published /\ all[i].hash = h
  <2>1. CASE h \in others
    <3>1. PICK i \in DOMAIN all : all[i] = New(h)
      BY <1>6, <1>12, <2>1
    <3>2. QED
      BY <1>1, <3>1
  <2>2. CASE \E j \in DOMAIN rows : rows[j].hash = h
    <3>1. PICK j \in DOMAIN rows : rows[j].hash = h
      BY <2>2
    <3>2. PICK i \in DOMAIN all : all[i] = Marked(j)
      BY <1>6, <1>12
    <3>3. QED
      BY <1>1, <3>1, <3>2
  <2>3. QED
    BY <1>7, <2>1, <2>2
<1>16. InstalledRows(all, had)
  BY <1>12, <1>13, <1>14 DEF InstalledRows
<1>17. DescribedRows(all)
  <2> SUFFICES ASSUME NEW i \in DOMAIN all
               PROVE  \/ all[i].spec = NoSpec
                      \/ \E a \in AnyAnnotation : all[i].spec \in VerifySpec(a, all[i].hash)
    BY DEF DescribedRows
  <2>1. CASE \E j \in DOMAIN rows : all[i] = Marked(j)
    BY <1>1, <2>1 DEF DescribedRows
  <2>2. CASE \E h \in others : all[i] = New(h)
    BY <1>1, <1>9, <2>2
  <2>3. QED
    BY <1>5, <1>12, <2>1, <2>2
<1>18. QED
  BY <1>13, <1>15, <1>16, <1>17 DEF all, S

-----------------------------------------------------------------------------
(* Every reachable state satisfies the invariant.                          *)

LEMMA InitInv == ASSUME Init PROVE IInv
<1>1. PICK w \in Worlds : registry = w.registry /\ store = w.store /\ withdrawn = w.withdrawn
  BY DEF Init
<1>2. SourcesInv
  BY <1>1, BuildsAssumption DEF SourcesInv, AnyAnnotation
<1>3. call = Idle /\ named = {}
  BY DEF Init
<1>4. CallInv /\ RowsInv /\ NamedInv
  BY <1>3 DEF CallInv, RowsInv, NamedInv, NamesHold, Idle
<1>5. QED
  BY <1>2, <1>4 DEF IInv

(* More tags and directories take nothing from a listing.                  *)
LEMMA SourcesGrow ==
  ASSUME IInv, SourcesInv', UNCHANGED <<call, named>>,
         DOMAIN registry \subseteq DOMAIN registry', DOMAIN store \subseteq DOMAIN store'
  PROVE  IInv'
<1> USE DEF IInv
<1>1. HashesOf(DOMAIN registry) \subseteq HashesOf(DOMAIN registry')
  BY DEF HashesOf
<1>2. HashesOf(DOMAIN store \cup DOMAIN registry)
        \subseteq HashesOf(DOMAIN store' \cup DOMAIN registry')
  BY DEF HashesOf
<1>3. CallInv'
  BY DEF CallInv, HashesOf
<1>4. RowsInv'
  <2>1. ASSUME PublishedRows(call.at, call.rows, call.saw)
        PROVE  PublishedRows(call.at, call.rows, call.saw)'
    BY <1>1, <2>1 DEF PublishedRows, HashesOf
  <2>2. ASSUME InstalledRows(call.rows, call.had)
        PROVE  InstalledRows(call.rows, call.had)'
    BY <2>2 DEF InstalledRows
  <2>3. ASSUME DescribedRows(call.rows) PROVE DescribedRows(call.rows)'
    BY <2>3 DEF DescribedRows
  <2>4. QED
    BY <2>1, <2>2, <2>3 DEF RowsInv
<1>5. NamedInv'
  <2>1. \A m \in named : /\ m = <<m[1], m[2]>> /\ IsPrefix(m[1], m[2]) /\ m[2] # NoHash
                         /\ m[2] \in HashesOf(DOMAIN store' \cup DOMAIN registry')
    BY <1>2 DEF NamedInv
  <2>2. NamesHold'
    BY DEF NamedInv, NamesHold
  <2>3. QED
    BY <2>1, <2>2 DEF NamedInv, HashesOf
<1>6. QED
  BY <1>3, <1>4, <1>5

LEMMA PushStep ==
  ASSUME IInv, NEW tag \in Tags, NEW annotation \in Annotations, Push(tag, annotation)
  PROVE  IInv'
<1>1. /\ DOMAIN registry' = DOMAIN registry \cup {tag}
      /\ \A t \in DOMAIN registry' :
           registry'[t] = IF t = tag THEN annotation ELSE registry[t]
      /\ UNCHANGED <<call, named>> /\ store' = store
  BY DEF Push, Put
<1>2. IsFiniteSet(DOMAIN registry')
  BY <1>1, FS_AddElement DEF IInv, SourcesInv
<1>3. SourcesInv'
  BY <1>1, <1>2, BuildsAssumption DEF IInv, SourcesInv, AnyAnnotation
<1>4. QED
  BY <1>1, <1>3, SourcesGrow

LEMMA NowIsTime ==
  ASSUME IInv
  PROVE  Now \in Nat
<1> DEFINE S == {0} \cup {store[d] : d \in DOMAIN store}
<1>1. IsFiniteSet(S)
  <2> DEFINE times == {store[d] : d \in DOMAIN store}
  <2>1. IsFiniteSet(DOMAIN store)
    BY DEF IInv, SourcesInv
  <2>2. IsFiniteSet(times)
    BY <2>1, FiniteImage
  <2>3. IsFiniteSet({0})
    BY FS_Singleton
  <2> HIDE DEF times
  <2>4. IsFiniteSet({0} \cup times)
    BY <2>2, <2>3, FS_Union
  <2>5. QED
    BY <2>4 DEF times
<1>2. S \subseteq Nat /\ S # {}
  BY DEF IInv, SourcesInv
<1>3. Now = Max(S)
  BY DEF Now
<1> HIDE DEF S
<1>4. QED
  BY <1>1, <1>2, <1>3, MaxIs

LEMMA InstallStep ==
  ASSUME IInv, NEW dir \in Dirs, NEW time \in Nat \ {0}, Install(dir, time)
  PROVE  IInv'
<1>1. /\ DOMAIN store' = DOMAIN store \cup {dir}
      /\ \A d \in DOMAIN store' : store'[d] = IF d = dir THEN time ELSE store[d]
      /\ UNCHANGED <<call, named>> /\ registry' = registry
  BY DEF Install, Put
<1>2. IsFiniteSet(DOMAIN store')
  BY <1>1, FS_AddElement DEF IInv, SourcesInv
<1>3. SourcesInv'
  BY <1>1, <1>2, BuildsAssumption DEF IInv, SourcesInv
<1>4. QED
  BY <1>1, <1>3, SourcesGrow

LEMMA ListInstalledStep ==
  ASSUME IInv, ListInstalled
  PROVE  IInv'
<1> DEFINE rows == Collect({Row(d.hash, store[d], FALSE) : d \in InstalledHere})
           at == IF \E d \in InstalledHere : d.hash = NoHash THEN "panicked" ELSE "listing"
<1>1. /\ call' = [at |-> at, rows |-> rows, next |-> 1, had |-> store,
                  saw |-> DOMAIN registry]
      /\ UNCHANGED <<registry, store, named>>
  BY DEF ListInstalled
<1>2. at \in {"panicked", "listing"}
  OBVIOUS
<1>3. InstalledRows(rows, store) /\ DescribedRows(rows)
        /\ \A i \in DOMAIN rows : ~rows[i].published /\ rows[i].time # 0
  BY InstalledAreRows DEF IInv
<1> HIDE DEF rows, at
<1>4. SourcesInv' /\ NamedInv'
  BY <1>1 DEF IInv, SourcesInv, NamedInv, NamesHold, HashesOf
<1>5. CallInv'
  <2>1. \A m \in named : m[2] \in HashesOf(DOMAIN store \cup DOMAIN registry)
    BY DEF IInv, NamedInv
  <2>2. QED
    BY <1>1, <1>2, <2>1 DEF IInv, CallInv, SourcesInv, HashesOf
<1>6. RowsInv'
  <2>1. PublishedRows(at, rows, DOMAIN registry)
    BY <1>2, <1>3 DEF PublishedRows
  <2>2. call'.at = at /\ call'.rows = rows /\ call'.had = store
          /\ call'.saw = DOMAIN registry
    BY <1>1
  <2>3. InstalledRows(call'.rows, call'.had) /\ DescribedRows(call'.rows)
          /\ PublishedRows(call'.at, call'.rows, call'.saw)
    BY <1>3, <2>1, <2>2
  <2>4. QED
    BY <1>1, <1>2, <2>2, <2>3 DEF RowsInv, PublishedRows, HashesOf, InstalledRows, DescribedRows
<1>7. QED
  BY <1>4, <1>5, <1>6 DEF IInv

(* A step that leaves the sources, what a listing started from and what    *)
(* was named is one of its rows.                                           *)
LEMMA RowsStep ==
  ASSUME IInv, UNCHANGED <<registry, store, named>>, call.at # "idle",
         call' = [at |-> call'.at, rows |-> call'.rows, next |-> call'.next,
                  had |-> call.had, saw |-> call.saw],
         call'.at \in {"listing", "failed", "panicked", "describing", "done"},
         InstalledRows(call'.rows, call.had), DescribedRows(call'.rows),
         PublishedRows(call'.at, call'.rows, call.saw)
  PROVE  IInv'
<1>1. call'.had = call.had /\ call'.saw = call.saw
  OBVIOUS
<1>2. SourcesInv' /\ NamedInv'
  BY DEF IInv, SourcesInv, NamedInv, NamesHold, HashesOf
<1>3. CallInv'
  BY <1>1 DEF IInv, CallInv, HashesOf
<1>4. RowsInv'
  BY <1>1 DEF RowsInv, PublishedRows, HashesOf, InstalledRows, DescribedRows
<1>5. QED
  BY <1>2, <1>3, <1>4 DEF IInv

(* What asking for the version gets: hashes of tags, one for each build,   *)
(* or of nothing that has a tag when there are no tags.                    *)
LEMMA AskedFor ==
  ASSUME SourcesInv, NEW other, NEW hashes \in VersionsFor(other),
         NEW saw \in SUBSET DOMAIN registry
  PROVE  /\ hashes \in SUBSET Seq(Nat) /\ IsFiniteSet(hashes)
         /\ \A h \in hashes : h \in HashesOf(DOMAIN registry) \/ (h = NoHash /\ saw = {})
         /\ \A t \in saw : t.raw = Version =>
              t.hash \in hashes \/ \E u \in DOMAIN registry : StandsIn(u, t)
<1>1. CASE registry = <<>>
  <2>1. hashes = HashesOf([raw : other, hash : {NoHash}])
    BY <1>1 DEF VersionsFor, HashesOf
  <2>2. hashes \subseteq {NoHash} /\ NoHash \in Seq(Nat)
    BY <2>1 DEF HashesOf, NoHash
  <2>3. IsFiniteSet(hashes)
    BY <2>2, FS_Singleton, FS_Subset
  <2>4. saw = {}
    BY <1>1
  <2>5. QED
    BY <2>2, <2>3, <2>4
<1>2. CASE registry # <<>>
  <2>1. PICK names \in SelectVersions(DOMAIN registry) : hashes = HashesOf(names)
    BY <1>2 DEF VersionsFor, HashesOf
  <2>2. names \in SUBSET DOMAIN registry
    BY DEF SelectVersions
  <2> DEFINE its == {t \in names : t.raw = Version}
             f == [t \in its |-> t.hash]
  <2>3. IsFiniteSet(hashes)
    <3>1. its \in SUBSET DOMAIN registry
      BY <2>2
    <3>2. IsFiniteSet(its)
      BY <3>1, FS_Subset DEF SourcesInv
    <3>3. hashes = {f[t] : t \in its}
      BY <2>1 DEF HashesOf
    <3> HIDE DEF its, f
    <3>4. QED
      BY <3>2, <3>3, FiniteImage
  <2>4. hashes \subseteq HashesOf(DOMAIN registry)
    BY <2>1, <2>2 DEF HashesOf
  <2>5. hashes \in SUBSET Seq(Nat)
    BY <2>4 DEF HashesOf, SourcesInv, IsName
  <2>6. ASSUME NEW t \in saw, t.raw = Version
        PROVE  t.hash \in hashes \/ \E u \in DOMAIN registry : StandsIn(u, t)
    <3>1. PICK u \in names : OneBuild(t, u)
      BY DEF SelectVersions
    <3>2. u \in DOMAIN registry /\ t \in DOMAIN registry
      BY <2>2
    <3>3. u.hash = t.hash /\ NumberOf(u.raw) = NumberOf(t.raw)
      BY <3>1 DEF OneBuild
    <3>4. CASE u.raw = Version
      BY <2>1, <3>3, <3>4 DEF HashesOf
    <3>5. CASE u.raw # Version
      <4>1. t.hash = NoHash => PrecisionOf(t.raw) <= PrecisionOf(u.raw)
        BY <3>1, <3>2, <3>3 DEF SelectVersions
      <4>2. StandsIn(u, t)
        BY <2>6, <3>3, <3>5, <4>1 DEF StandsIn
      <4>3. QED
        BY <3>2, <4>2
    <3>6. QED
      BY <3>4, <3>5
  <2>7. QED
    BY <2>3, <2>4, <2>5, <2>6
<1>3. QED
  BY <1>1, <1>2

LEMMA ListPublishedStep ==
  ASSUME IInv, NEW answers \in BOOLEAN, NEW other \in Upstreams, ListPublished(answers, other)
  PROVE  IInv'
<1>1. call.at = "listing" /\ UNCHANGED <<registry, store, named>>
  BY DEF ListPublished
<1>2. /\ call = [at |-> call.at, rows |-> call.rows, next |-> call.next,
                 had |-> call.had, saw |-> call.saw]
      /\ InstalledRows(call.rows, call.had) /\ DescribedRows(call.rows)
      /\ \A i \in DOMAIN call.rows : ~call.rows[i].published /\ call.rows[i].time # 0
      /\ call.saw \in SUBSET DOMAIN registry
  BY <1>1 DEF IInv, CallInv, RowsInv, PublishedRows
<1>3. CASE answers
  <2>1. PICK hashes \in VersionsFor(other) :
          call' = [call EXCEPT !.at = "describing",
                               !.rows = Collect(Join(ToSet(@), hashes))]
    BY <1>3 DEF ListPublished
  <2> DEFINE all == Collect(Join(ToSet(call.rows), hashes))
  <2>2. call' = [at |-> "describing", rows |-> all, next |-> call.next,
                 had |-> call.had, saw |-> call.saw]
    BY <1>2, <2>1
  <2>3. /\ hashes \in SUBSET Seq(Nat) /\ IsFiniteSet(hashes)
        /\ \A h \in hashes : h \in HashesOf(DOMAIN registry) \/ (h = NoHash /\ call.saw = {})
        /\ \A t \in call.saw : t.raw = Version =>
             t.hash \in hashes \/ \E u \in DOMAIN registry : StandsIn(u, t)
    BY <1>2, AskedFor DEF IInv
  <2>4. /\ InstalledRows(all, call.had) /\ DescribedRows(all)
        /\ \A h \in hashes : \E i \in DOMAIN all : all[i].published /\ all[i].hash = h
        /\ \A i \in DOMAIN all :
             /\ all[i].published => all[i].hash \in hashes
             /\ all[i].published \/ all[i].time # 0
    BY <1>2, <2>3, JoinedAreRows
  <2> HIDE DEF all
  <2>5. PublishedRows("describing", all, call.saw)
    <3>1. ASSUME NEW t \in call.saw, t.raw = Version
          PROVE  \/ \E i \in DOMAIN all : all[i].published /\ all[i].hash = t.hash
                 \/ \E u \in DOMAIN registry : StandsIn(u, t)
      BY <2>3, <2>4, <3>1, Zenon
    <3>2. ASSUME NEW i \in DOMAIN all, all[i].published
          PROVE  all[i].hash \in HashesOf(DOMAIN registry) \/ (all[i].hash = NoHash /\ call.saw = {})
      <4>1. all[i].hash \in hashes
        BY <2>4, <3>2
      <4>2. QED
        BY <2>3, <4>1
    <3>3. \A i \in DOMAIN all : all[i].published \/ all[i].time # 0
      BY <2>4
    <3>4. "describing" \notin {"listing", "failed", "panicked"}
      OBVIOUS
    <3>5. QED
      BY <3>1, <3>2, <3>3, <3>4 DEF PublishedRows
  <2>6. call'.at = "describing" /\ call'.rows = all /\ call'.next = call.next
    BY <2>2
  <2>7. QED
    BY <1>1, <2>2, <2>4, <2>5, <2>6, RowsStep
<1>4. CASE ~answers
  <2>1. call' = [at |-> "failed", rows |-> call.rows, next |-> call.next,
                 had |-> call.had, saw |-> call.saw]
    BY <1>2, <1>4 DEF ListPublished
  <2>2. PublishedRows("failed", call.rows, call.saw)
    BY <1>2 DEF PublishedRows
  <2>3. call'.at = "failed" /\ call'.rows = call.rows /\ call'.next = call.next
    BY <2>1
  <2>4. QED
    BY <1>1, <1>2, <2>1, <2>2, <2>3, RowsStep
<1>5. QED
  BY <1>3, <1>4

(* A description changes the spec of one row and nothing else of it.       *)
LEMMA DescribeStep ==
  ASSUME IInv, NEW annotated \in BOOLEAN, Describe(annotated)
  PROVE  IInv'
<1>1. call.at = "describing" /\ UNCHANGED <<registry, store, named>>
  BY DEF Describe
<1>2. /\ call = [at |-> call.at, rows |-> call.rows, next |-> call.next,
                 had |-> call.had, saw |-> call.saw]
      /\ InstalledRows(call.rows, call.had) /\ DescribedRows(call.rows)
      /\ PublishedRows("describing", call.rows, call.saw)
  BY <1>1 DEF IInv, CallInv, RowsInv
<1> DEFINE Known(i, s) ==
             \/ s = NoSpec
             \/ \E a \in AnyAnnotation : s \in VerifySpec(a, call.rows[i].hash)
<1>3. PICK rows, next :
        /\ call' = [at |-> call.at, rows |-> rows, next |-> next,
                    had |-> call.had, saw |-> call.saw]
        /\ rows = [i \in DOMAIN call.rows |-> rows[i]]
        /\ \A i \in DOMAIN call.rows :
             \E s : rows[i] = [call.rows[i] EXCEPT !.spec = s] /\ Known(i, s)
  <2> DEFINE row == call.rows[call.next]
             tag == [raw |-> Version, hash |-> row.hash]
             spec == IF annotated /\ tag \in DOMAIN registry
                     THEN SpecOf(registry[tag], row.hash) ELSE {}
             what == IF spec = {} THEN NoSpec ELSE CHOOSE c \in spec : TRUE
  <2>1. \A i \in DOMAIN call.rows :
          /\ call.rows[i] = [call.rows[i] EXCEPT !.spec = call.rows[i].spec]
          /\ Known(i, call.rows[i].spec)
    BY <1>2 DEF InstalledRows, IsRow, DescribedRows
  <2>2. CASE row.published
    <3>1. call' = [call EXCEPT !.next = @ + 1,
                     !.rows[call.next] = [row EXCEPT !.spec = what]]
      BY <2>2 DEF Describe
    <3>5. call.next \in DOMAIN call.rows => Known(call.next, what)
      <4> SUFFICES ASSUME call.next \in DOMAIN call.rows, spec # {}
                   PROVE  \E a \in AnyAnnotation : what \in VerifySpec(a, row.hash)
        OBVIOUS
      <4>1. what \in SpecOf(registry[tag], row.hash)
        OBVIOUS
      <4>2. tag \in DOMAIN registry
        OBVIOUS
      <4>3. registry[tag] \in AnyAnnotation
        BY <4>2 DEF IInv, SourcesInv
      <4> HIDE DEF what, tag, spec
      <4>4. QED
        BY <4>1, <4>3 DEF SpecOf
    <3> HIDE DEF what, Known
    <3> DEFINE rows == [call.rows EXCEPT ![call.next] = [row EXCEPT !.spec = what]]
    <3>2. call' = [at |-> call.at, rows |-> rows, next |-> call.next + 1,
                   had |-> call.had, saw |-> call.saw]
      BY <1>2, <3>1
    <3>3. rows = [i \in DOMAIN call.rows |-> rows[i]]
      OBVIOUS
    <3>4. \A i \in DOMAIN call.rows :
            \E s : rows[i] = [call.rows[i] EXCEPT !.spec = s] /\ Known(i, s)
      BY <2>1, <3>5
    <3> HIDE DEF rows
    <3>6. QED
      BY <3>2, <3>3, <3>4
  <2>3. CASE ~row.published
    <3>1. call' = [call EXCEPT !.next = @ + 1]
      BY <2>3 DEF Describe
    <3>2. call' = [at |-> call.at, rows |-> call.rows, next |-> call.next + 1,
                   had |-> call.had, saw |-> call.saw]
      BY <1>2, <3>1
    <3>3. call.rows = [i \in DOMAIN call.rows |-> call.rows[i]]
      BY <1>2 DEF InstalledRows
    <3> DEFINE rows == call.rows
               next == call.next + 1
    <3>4. /\ call' = [at |-> call.at, rows |-> rows, next |-> next,
                      had |-> call.had, saw |-> call.saw]
          /\ rows = [i \in DOMAIN call.rows |-> rows[i]]
          /\ \A i \in DOMAIN call.rows :
               \E s : rows[i] = [call.rows[i] EXCEPT !.spec = s] /\ Known(i, s)
      BY <2>1, <3>2, <3>3
    <3> HIDE DEF rows, next, Known
    <3>5. QED
      BY <3>4
  <2>4. QED
    BY <2>2, <2>3
<1>4. DOMAIN rows = DOMAIN call.rows
  BY <1>3
<1>5. \A i \in DOMAIN rows :
        /\ rows[i].hash = call.rows[i].hash /\ rows[i].time = call.rows[i].time
        /\ rows[i].published = call.rows[i].published /\ IsRow(rows[i])
        /\ Known(i, rows[i].spec)
  <2> SUFFICES ASSUME NEW i \in DOMAIN call.rows
               PROVE  /\ rows[i].hash = call.rows[i].hash /\ rows[i].time = call.rows[i].time
                      /\ rows[i].published = call.rows[i].published /\ IsRow(rows[i])
                      /\ Known(i, rows[i].spec)
    BY <1>4
  <2>1. IsRow(call.rows[i])
    BY <1>2 DEF InstalledRows
  <2>2. PICK s : rows[i] = [call.rows[i] EXCEPT !.spec = s] /\ Known(i, s)
    BY <1>3
  <2>3. rows[i] = [hash |-> call.rows[i].hash, time |-> call.rows[i].time,
                   published |-> call.rows[i].published, spec |-> s]
    BY <2>1, <2>2 DEF IsRow
  <2> HIDE DEF Known
  <2>4. QED
    BY <2>1, <2>2, <2>3 DEF IsRow
<1>6. InstalledRows(rows, call.had)
  <2>1. rows = [i \in DOMAIN rows |-> rows[i]]
    BY <1>3, <1>4
  <2>2. \A d \in DOMAIN call.had : d.raw = Version =>
          \E i \in DOMAIN rows : rows[i].hash = d.hash /\ rows[i].time = call.had[d]
    <3> SUFFICES ASSUME NEW d \in DOMAIN call.had, d.raw = Version
                 PROVE  \E i \in DOMAIN rows : rows[i].hash = d.hash /\ rows[i].time = call.had[d]
      OBVIOUS
    <3>1. PICK i \in DOMAIN call.rows : /\ call.rows[i].hash = d.hash
                                       /\ call.rows[i].time = call.had[d]
      BY <1>2 DEF InstalledRows
    <3>2. QED
      BY <1>4, <1>5, <3>1
  <2>3. \A i \in DOMAIN rows : rows[i].time # 0 =>
          \E d \in DOMAIN call.had :
             d.raw = Version /\ d.hash = rows[i].hash /\ call.had[d] = rows[i].time
    <3> SUFFICES ASSUME NEW i \in DOMAIN rows, rows[i].time # 0
                 PROVE  \E d \in DOMAIN call.had :
                          d.raw = Version /\ d.hash = rows[i].hash /\ call.had[d] = rows[i].time
      OBVIOUS
    <3>1. call.rows[i].time # 0 /\ i \in DOMAIN call.rows
      BY <1>4, <1>5
    <3>2. PICK d \in DOMAIN call.had : d.raw = Version /\ d.hash = call.rows[i].hash
                                        /\ call.had[d] = call.rows[i].time
      BY <1>2, <3>1 DEF InstalledRows
    <3>3. QED
      BY <1>5, <3>2
  <2>4. IsFiniteSet(DOMAIN rows) /\ DOMAIN rows \subseteq Nat /\ Numbered(rows)
    BY <1>2, <1>4 DEF InstalledRows, Numbered
  <2>5. \A i, j \in DOMAIN rows : i < j => HashBefore(rows[i].hash, rows[j].hash)
    BY <1>2, <1>4, <1>5 DEF InstalledRows
  <2>6. QED
    BY <1>5, <2>1, <2>2, <2>3, <2>4, <2>5 DEF InstalledRows
<1>7. PublishedRows("describing", rows, call.saw)
  BY <1>2, <1>4, <1>5 DEF PublishedRows
<1>8. call'.at = "describing" /\ call'.rows = rows /\ call'.next = next
  BY <1>1, <1>3
<1>9. DescribedRows(rows)
  BY <1>4, <1>5 DEF DescribedRows
<1>10. QED
  BY <1>1, <1>3, <1>6, <1>7, <1>8, <1>9, RowsStep

LEMMA ReturnStep ==
  ASSUME IInv, NEW client \in BOOLEAN, Return(client)
  PROVE  IInv'
<1>1. /\ call.at = "describing" /\ UNCHANGED <<registry, store, named>>
      /\ call' = [call EXCEPT !.at = "done"]
  BY DEF Return
<1>2. /\ call = [at |-> call.at, rows |-> call.rows, next |-> call.next,
                 had |-> call.had, saw |-> call.saw]
      /\ InstalledRows(call.rows, call.had) /\ DescribedRows(call.rows)
      /\ PublishedRows("describing", call.rows, call.saw)
  BY <1>1 DEF IInv, CallInv, RowsInv
<1>3. PublishedRows("done", call.rows, call.saw)
  BY <1>2 DEF PublishedRows
<1>4. call' = [at |-> "done", rows |-> call.rows, next |-> call.next,
               had |-> call.had, saw |-> call.saw]
  BY <1>1, <1>2
<1>5. call'.at = "done" /\ call'.rows = call.rows /\ call'.next = call.next
  BY <1>4
<1>6. QED
  BY <1>1, <1>2, <1>3, <1>4, <1>5, RowsStep

LEMMA IdleAfter ==
  ASSUME IInv, call' = Idle, UNCHANGED <<registry, store>>, NamedInv'
  PROVE  IInv'
  BY DEF IInv, SourcesInv, CallInv, RowsInv, Idle

(* The build named is the only row with that part, which no row without a  *)
(* hash has; whatever it named before is such a row, unless another        *)
(* spelling stands for it.                                                 *)
LEMMA NameStep ==
  ASSUME IInv, NEW prefix \in HashParts, Name(prefix)
  PROVE  IInv'
<1> DEFINE rows == call.rows
           hit == {i \in DOMAIN rows : IsPrefix(prefix, rows[i].hash)}
           new == MatchBuild(rows, prefix)
<1>1. /\ call.at = "done" /\ call' = Idle /\ UNCHANGED <<registry, store>>
      /\ named' = named \cup {<<prefix, h>> : h \in new}
  BY DEF Name
<1>2. InstalledRows(rows, call.had) /\ PublishedRows("done", rows, call.saw)
  BY <1>1 DEF IInv, RowsInv
<1>3. ASSUME NEW h \in new
      PROVE  \E i \in DOMAIN rows :
               h = rows[i].hash /\ IsPrefix(prefix, h)
                 /\ \A j \in DOMAIN rows : IsPrefix(prefix, rows[j].hash) => j = i
  <2>1. Cardinality(hit) = 1 /\ h \in {rows[i].hash : i \in hit}
    BY <1>3 DEF MatchBuild
  <2>2. IsFiniteSet(hit)
    BY <1>2, FS_Subset DEF InstalledRows
  <2>3. PICK i : hit = {i}
    BY <2>1, <2>2, FS_Singleton
  <2>4. QED
    BY <2>1, <2>3
<1>4. ASSUME SpeltOnce, NEW h \in HashesOf(DOMAIN call.had \cup call.saw), h # NoHash
      PROVE  \E i \in DOMAIN rows : rows[i].hash = h
  <2>1. \A d \in DOMAIN call.had : d.raw = Version =>
          \E i \in DOMAIN rows : rows[i].hash = d.hash
    BY <1>2 DEF InstalledRows
  <2>2. ASSUME NEW t \in call.saw, t.raw = Version, t.hash = h
        PROVE  \E i \in DOMAIN rows : rows[i].hash = h
    <3>1. t \in DOMAIN registry
      BY <1>1 DEF IInv, CallInv
    <3>2. \A u \in DOMAIN registry : ~StandsIn(u, t)
      BY <1>4, <2>2, <3>1 DEF SpeltOnce, StandsIn, OneBuild
    <3>3. QED
      BY <1>2, <2>2, <3>2 DEF PublishedRows
  <2>3. \E t \in DOMAIN call.had \cup call.saw : t.raw = Version /\ t.hash = h
    BY Zenon DEF HashesOf
  <2>4. QED
    BY <2>1, <2>2, <2>3
<1>5. ASSUME NEW i \in DOMAIN rows, IsPrefix(prefix, rows[i].hash)
      PROVE  rows[i].hash # NoHash /\ rows[i].hash \in HashesOf(DOMAIN store \cup DOMAIN registry)
  <2>1. rows[i].hash # NoHash
    <3>1. prefix \in Seq(Nat) /\ prefix # <<>>
      BY BuildsAssumption DEF NoHash
    <3>2. Len(prefix) > 0
      BY <3>1
    <3>3. Len(prefix) <= Len(rows[i].hash)
      BY <1>5 DEF IsPrefix
    <3>4. QED
      BY <3>2, <3>3 DEF NoHash
  <2>2. CASE rows[i].published
    BY <1>2, <2>1, <2>2 DEF PublishedRows, HashesOf
  <2>3. CASE rows[i].time # 0
    <3>1. PICK d \in DOMAIN call.had : d.raw = Version /\ d.hash = rows[i].hash
      BY <1>2, <2>3 DEF InstalledRows
    <3>2. d \in DOMAIN store
      BY <1>1 DEF IInv, CallInv
    <3>3. QED
      BY <2>1, <3>1, <3>2 DEF HashesOf
  <2>4. QED
    BY <1>2, <2>2, <2>3 DEF PublishedRows
<1>6. \A m \in named : m[2] \in HashesOf(DOMAIN call.had \cup call.saw)
  BY <1>1 DEF IInv, CallInv
<1> HIDE DEF rows, new, hit
<1>7. ASSUME NEW m \in named'
      PROVE  /\ m = <<m[1], m[2]>> /\ IsPrefix(m[1], m[2]) /\ m[2] # NoHash
             /\ m[2] \in HashesOf(DOMAIN store \cup DOMAIN registry)
  <2>1. CASE m \in named
    BY <2>1 DEF IInv, NamedInv
  <2>2. CASE \E h \in new : m = <<prefix, h>>
    <3>1. PICK h \in new : m = <<prefix, h>>
      BY <2>2
    <3>2. m[1] = prefix /\ m[2] = h
      BY <3>1
    <3>3. /\ h \in HashesOf(DOMAIN store \cup DOMAIN registry)
          /\ h # NoHash /\ IsPrefix(prefix, h)
      BY <1>3, <1>5
    <3>4. QED
      BY <3>1, <3>2, <3>3
  <2>3. QED
    BY <1>1, <2>1, <2>2
<1>8. ASSUME SpeltOnce, NEW m \in named', NEW n \in named', m[1] = n[1] PROVE m[2] = n[2]
  <2>1. CASE m \in named /\ n \in named
    BY <1>8, <2>1, Zenon DEF IInv, NamedInv, NamesHold, SpeltOnce
  <2>2. ASSUME NEW k \in named', NEW h \in new, k[1] = prefix PROVE k[2] = h
    <3>1. \E i \in DOMAIN rows : rows[i].hash = k[2]
      <4>1. CASE k \in named
        BY <1>4, <1>6, <1>7, <1>8, <4>1
      <4>2. CASE \E g \in new : k = <<prefix, g>>
        BY <1>3, <4>2
      <4>3. QED
        BY <1>1, <4>1, <4>2
    <3>2. QED
      BY <1>3, <1>7, <2>2, <3>1
  <2>3. CASE m \notin named
    BY <1>1, <1>8, <2>2, <2>3
  <2>4. CASE n \notin named
    BY <1>1, <1>8, <2>2, <2>4
  <2>5. QED
    BY <2>1, <2>3, <2>4
<1>9. NamesHold'
  <2>1. \A m, n \in named' : SpeltOnce /\ m[1] = n[1] => m = n
    BY <1>7, <1>8
  <2>2. SpeltOnce' => SpeltOnce
    BY <1>1 DEF SpeltOnce
  <2>3. QED
    BY <2>1, <2>2, Zenon DEF NamesHold, SpeltOnce
<1>10. NamedInv'
  BY <1>1, <1>7, <1>9 DEF NamedInv, HashesOf
<1>11. QED
  BY <1>1, <1>10, IdleAfter

LEMMA LeaveStep ==
  ASSUME IInv, Leave
  PROVE  IInv'
<1>1. call' = Idle /\ UNCHANGED <<registry, store, named>>
  BY DEF Leave
<1>2. NamedInv'
  BY <1>1 DEF IInv, NamedInv, NamesHold, HashesOf
<1>3. QED
  BY <1>1, <1>2, IdleAfter

(* Whoever publishes, installs and lists, every state satisfies the        *)
(* invariant.                                                              *)
THEOREM Invariance == Spec => []IInv
<1>1. Init => IInv
  BY InitInv
<1>2. IInv /\ [Next]_vars => IInv'
  <2> SUFFICES ASSUME IInv, [Next]_vars PROVE IInv'
    OBVIOUS
  <2>1. CASE Listing
    BY <2>1, ListInstalledStep, ListPublishedStep, DescribeStep, ReturnStep DEF Listing
  <2>2. CASE \E prefix \in HashParts : Name(prefix)
    BY <2>2, NameStep
  <2>3. CASE Leave
    BY <2>3, LeaveStep
  <2>4. CASE \E tag \in Tags, annotation \in Annotations : Push(tag, annotation)
    BY <2>4, PushStep
  <2>5. CASE \E dir \in Dirs, time \in {Now, Now + 1} \ {0} : Install(dir, time)
    <3>1. {Now, Now + 1} \ {0} \subseteq Nat \ {0}
      BY NowIsTime
    <3>2. QED
      BY <2>5, <3>1, InstallStep
  <2>6. CASE UNCHANGED vars
    <3>1. UNCHANGED <<registry, store, call, named>>
      BY <2>6 DEF vars
    <3>2. QED
      BY <3>1, SourcesGrow DEF IInv, SourcesInv
  <2>7. QED
    BY <2>1, <2>2, <2>3, <2>4, <2>5, <2>6 DEF Next
<1>3. QED
  BY <1>1, <1>2, PTL DEF Spec

-----------------------------------------------------------------------------
(* The order of a listing.                                                 *)

(* Different elements have different hashes, and all can be compared.      *)
Sortable(B) ==
  /\ B = [i \in DOMAIN B |-> B[i]]
  /\ Numbered(B)
  /\ \A i \in DOMAIN B : B[i].hash \in Seq(Nat) /\ B[i].time \in Nat
  /\ \A i, j \in DOMAIN B : B[i].hash = B[j].hash => i = j

Ascends(B, by, s) == \A i, j \in DOMAIN s : i < j => Less(B, by, s[i], s[j])

(* A sortable sequence has its length and its elements.                    *)
LEMMA SortableIs ==
  ASSUME NEW B, Sortable(B)
  PROVE  /\ B \in Seq(ToSet(B)) /\ Len(B) \in Nat /\ DOMAIN B = 1 .. Len(B)
         /\ \A a \in ToSet(B) : a.hash \in Seq(Nat) /\ a.time \in Nat
         /\ \A a, b \in ToSet(B) : a # b => a.hash # b.hash
<1>1. PICK n \in Nat : DOMAIN B = 1 .. n
  BY DEF Sortable, Numbered
<1>2. B \in [1 .. n -> ToSet(B)]
  BY <1>1 DEF Sortable, ToSet
<1>3. B \in Seq(ToSet(B)) /\ Len(B) = n
  BY <1>2
<1>4. \A a \in ToSet(B) : a.hash \in Seq(Nat) /\ a.time \in Nat
  BY DEF Sortable, ToSet
<1>5. \A a, b \in ToSet(B) : a # b => a.hash # b.hash
  BY DEF Sortable, ToSet
<1>6. QED
  BY <1>1, <1>3, <1>4, <1>5

(* A rank is a number.                                                     *)
LEMMA RankIsNumber ==
  ASSUME NEW B, Sortable(B), NEW b
  PROVE  ClosureRank(B, b) \in Nat
<1>1. IsFiniteSet(DOMAIN B)
  BY SortableIs, FS_Interval
<1> DEFINE above == {i \in DOMAIN B : B[i].hash # b.hash /\ ClosureIsLater(B[i].spec, b.spec)}
<1>2. above \in SUBSET DOMAIN B
  OBVIOUS
<1>3. ClosureRank(B, b) = Cardinality(above)
  BY DEF ClosureRank
<1> HIDE DEF above
<1>4. QED
  BY <1>1, <1>2, <1>3, FS_Subset, FS_CardinalityType

(* Each of the orders is a strict and total one.                           *)
LEMMA LessOrders ==
  ASSUME NEW B, Sortable(B), NEW by
  PROVE  /\ \A a \in ToSet(B) : ~Less(B, by, a, a)
         /\ \A a, b \in ToSet(B) : a # b => Less(B, by, a, b) \/ Less(B, by, b, a)
         /\ \A a, b, c \in ToSet(B) :
              Less(B, by, a, b) /\ Less(B, by, b, c) => Less(B, by, a, c)
<1>1. \A a \in ToSet(B) : /\ ClosureRank(B, a) \in Nat /\ a.time \in Nat
                          /\ a.hash \in Seq(Nat)
  BY RankIsNumber, SortableIs
<1>2. \A a \in ToSet(B) : ~HashBefore(a.hash, a.hash)
  BY <1>1, HashIrreflexive
<1>3. \A a, b \in ToSet(B) : a # b => HashBefore(a.hash, b.hash) \/ HashBefore(b.hash, a.hash)
  BY <1>1, SortableIs, HashTotal
<1>4. \A a, b, c \in ToSet(B) :
        HashBefore(a.hash, b.hash) /\ HashBefore(b.hash, c.hash) => HashBefore(a.hash, c.hash)
  BY <1>1, HashTransitive
<1>5. \A a \in ToSet(B) : ~Less(B, by, a, a)
  BY <1>2 DEF Less
<1>6. ASSUME NEW a \in ToSet(B), NEW b \in ToSet(B), a # b
      PROVE  Less(B, by, a, b) \/ Less(B, by, b, a)
  BY <1>1, <1>3, <1>6 DEF Less, IsWithdrawn
<1>7. ASSUME NEW a \in ToSet(B), NEW b \in ToSet(B), NEW c \in ToSet(B),
             Less(B, by, a, b), Less(B, by, b, c)
      PROVE  Less(B, by, a, c)
  BY <1>1, <1>4, <1>7 DEF Less, IsWithdrawn
<1>8. QED
  BY <1>5, <1>6, <1>7

(* What is put into an ascending sequence stands behind what is less.      *)
LEMMA InsertAscends ==
  ASSUME NEW B, Sortable(B), NEW by, NEW s \in Seq(ToSet(B)), Ascends(B, by, s),
         NEW x \in ToSet(B), x \notin ToSet(s)
  PROVE  /\ Insert(B, by, s, x) \in Seq(ToSet(B))
         /\ ToSet(Insert(B, by, s, x)) = ToSet(s) \cup {x}
         /\ Ascends(B, by, Insert(B, by, s, x))
<1> DEFINE R == ToSet(B)
           n == Len(s)
           stays == {i \in DOMAIN s : ~Less(B, by, x, s[i])}
           k == IF stays = {} THEN 0 ELSE Max(stays)
           t == Insert(B, by, s, x)
<1>1. n \in Nat /\ DOMAIN s = 1 .. n /\ \A i \in 1 .. n : s[i] \in R /\ s[i] # x
  BY DEF ToSet
<1>2. \A i \in 1 .. n : i \in stays <=> Less(B, by, s[i], x)
  BY <1>1, LessOrders
<1>3. stays \subseteq 1 .. n
  BY <1>1
<1> HIDE DEF stays
<1>4. k \in 0 .. n /\ \A i \in 1 .. n : i <= k <=> Less(B, by, s[i], x)
  <2>1. CASE stays = {}
    BY <1>1, <1>2, <2>1
  <2>2. CASE stays # {}
    <3>1. IsFiniteSet(stays) /\ stays \subseteq Nat
      <4>1. IsFiniteSet(1 .. n)
        BY <1>1, FS_Interval
      <4>2. IsFiniteSet(stays)
        BY <1>3, <4>1, FS_Subset
      <4>3. QED
        BY <1>1, <1>3, <4>2
    <3>2. k \in stays /\ \A i \in stays : i <= k
      BY <2>2, <3>1, MaxIs
    <3> HIDE DEF k
    <3>3. k \in 1 .. n
      BY <1>3, <3>2
    <3>4. ASSUME NEW i \in 1 .. n, i <= k PROVE Less(B, by, s[i], x)
      <4>1. CASE i = k
        BY <1>2, <3>2, <4>1
      <4>2. CASE i < k
        <5>1. Less(B, by, s[i], s[k])
          BY <1>1, <3>3, <4>2 DEF Ascends
        <5>2. Less(B, by, s[k], x)
          BY <1>2, <3>2, <3>3
        <5>3. QED
          BY <1>1, <3>3, <5>1, <5>2, LessOrders
      <4>3. QED
        BY <3>3, <3>4, <4>1, <4>2
    <3>5. QED
      BY <1>2, <3>2, <3>3, <3>4
  <2>3. QED
    BY <2>1, <2>2
<1>5. t = InsertAt(s, k + 1, x)
  BY DEF Insert, stays
<1> HIDE DEF k, t
<1>6. /\ t \in Seq(R) /\ Len(t) = n + 1
      /\ \A i \in 1 .. n + 1 : t[i] = IF i <= k THEN s[i] ELSE IF i = k + 1 THEN x ELSE s[i - 1]
  <2> DEFINE u == SubSeq(s, 1, k)
             v == SubSeq(s, k + 1, n)
  <2>1. u \in Seq(R) /\ Len(u) = k /\ \A i \in 1 .. k : u[i] = s[i]
    BY <1>1, <1>4
  <2>2. v \in Seq(R) /\ Len(v) = n - k /\ \A i \in 1 .. n - k : v[i] = s[i + k]
    <3> HIDE DEF n
    <3>1. k \in Nat /\ n \in Nat /\ k <= n
      BY <1>1, <1>4
    <3>2. \A i \in k + 1 .. n : i \in 1 .. n /\ s[i] \in R
      BY <1>1, <3>1
    <3>3. v = [i \in 1 .. n - k |-> s[i + k]]
      <4>1. v = [i \in 1 .. (n - (k + 1)) + 1 |-> s[(i + (k + 1)) - 1]]
        BY <3>1
      <4>2. (n - (k + 1)) + 1 = n - k
        BY <3>1
      <4>3. \A i \in 1 .. n - k : (i + (k + 1)) - 1 = i + k
        BY <3>1
      <4>4. QED
        BY <4>1, <4>2, <4>3
    <3>4. \A i \in 1 .. n - k : i + k \in k + 1 .. n
      BY <3>1
    <3> HIDE DEF v
    <3>5. v \in [1 .. n - k -> R] /\ n - k \in Nat
      BY <3>1, <3>2, <3>3, <3>4
    <3>6. QED
      BY <3>3, <3>5
  <2>3. t = (u \o <<x>>) \o v
    <3>1. (k + 1) - 1 = k
      BY <1>4
    <3>2. InsertAt(s, k + 1, x) = SubSeq(s, 1, (k + 1) - 1) \o <<x>> \o SubSeq(s, k + 1, Len(s))
      BY DEF InsertAt
    <3>3. QED
      BY <1>5, <3>1, <3>2, Zenon
  <2> HIDE DEF u, v
  <2> DEFINE w == u \o <<x>>
  <2>4. /\ w \in Seq(R) /\ Len(w) = k + 1
        /\ \A i \in 1 .. k : w[i] = s[i]
        /\ w[k + 1] = x
    <3>1. <<x>> \in Seq(R) /\ Len(<<x>>) = 1 /\ <<x>>[1] = x
      OBVIOUS
    <3>2. u \in Seq(R) /\ Len(u) = k /\ k \in Nat /\ \A i \in 1 .. k : u[i] = s[i]
      BY <1>4, <2>1
    <3> DEFINE one == <<x>>
    <3> HIDE DEF one
    <3>3. w \in Seq(R) /\ Len(w) = k + 1
      BY <3>1, <3>2
    <3>4. \A i \in 1 .. k : w[i] = u[i]
      BY <3>1, <3>2
    <3>5. w[k + 1] = x
      BY <3>1, <3>2
    <3>6. QED
      BY <3>2, <3>3, <3>4, <3>5
  <2> HIDE DEF w
  <2>11. t = w \o v
    BY <2>3 DEF w
  <2> HIDE DEF t
  <2>12. v \in Seq(R) /\ w \in Seq(R)
    BY <2>2, <2>4
  <2>13. /\ w \o v \in Seq(R) /\ Len(w \o v) = Len(w) + Len(v)
         /\ \A i \in 1 .. Len(w) + Len(v) :
              (w \o v)[i] = IF i <= Len(w) THEN w[i] ELSE v[i - Len(w)]
    BY <2>12, ConcatProperties, Zenon
  <2>14. Len(w) = k + 1 /\ Len(v) = n - k
    BY <2>2, <2>4
  <2>15. (k + 1) + (n - k) = n + 1
    BY <1>1, <1>4
  <2>16. Len(w) + Len(v) = n + 1
    BY <2>14, <2>15, Zenon
  <2>5. t \in Seq(R) /\ Len(t) = n + 1
    BY <2>11, <2>13, <2>16, Zenon
  <2>6. \A i \in 1 .. n + 1 : t[i] = IF i <= k + 1 THEN w[i] ELSE v[i - (k + 1)]
    BY <2>11, <2>13, <2>14, <2>16, Zenon
  <2>7. \A i \in 1 .. n + 1 : i > k + 1 => v[i - (k + 1)] = s[i - 1]
    <3> SUFFICES ASSUME NEW i \in 1 .. n + 1, i > k + 1
                 PROVE  v[i - (k + 1)] = s[i - 1]
      OBVIOUS
    <3>1. i - (k + 1) \in 1 .. n - k /\ (i - (k + 1)) + k = i - 1
      BY <1>1, <1>4
    <3>2. QED
      BY <2>2, <3>1
  <2>8. QED
    BY <1>1, <1>4, <2>4, <2>5, <2>6, <2>7
<1>7. ToSet(t) = ToSet(s) \cup {x}
  <2>1. ToSet(s) = {s[i] : i \in 1 .. n} /\ ToSet(t) = {t[i] : i \in 1 .. n + 1}
    BY <1>1, <1>6 DEF ToSet
  <2>2. \A i \in 1 .. n + 1 : t[i] \in {s[j] : j \in 1 .. n} \cup {x}
    <3> SUFFICES ASSUME NEW i \in 1 .. n + 1, i # k + 1 PROVE \E j \in 1 .. n : t[i] = s[j]
      BY <1>1, <1>4, <1>6
    <3>1. i <= k => i \in 1 .. n /\ t[i] = s[i]
      BY <1>1, <1>4, <1>6
    <3>2. ~(i <= k) => i - 1 \in 1 .. n /\ t[i] = s[i - 1]
      BY <1>1, <1>4, <1>6
    <3>3. QED
      BY <3>1, <3>2
  <2>3. \A i \in 1 .. n : \E j \in 1 .. n + 1 : t[j] = s[i]
    <3> SUFFICES ASSUME NEW i \in 1 .. n PROVE \E j \in 1 .. n + 1 : t[j] = s[i]
      OBVIOUS
    <3>1. i <= k => i \in 1 .. n + 1 /\ t[i] = s[i]
      BY <1>1, <1>4, <1>6
    <3>2. ~(i <= k) => i + 1 \in 1 .. n + 1 /\ t[i + 1] = s[i]
      BY <1>1, <1>4, <1>6
    <3>3. QED
      BY <3>1, <3>2
  <2>4. k + 1 \in 1 .. n + 1 /\ t[k + 1] = x
    BY <1>1, <1>4, <1>6
  <2>5. QED
    BY <2>1, <2>2, <2>3, <2>4
<1>8. ASSUME NEW i \in 1 .. n + 1, NEW j \in 1 .. n + 1, i < j
      PROVE  Less(B, by, t[i], t[j])
  <2>1. \A a, b \in 1 .. n : a < b => Less(B, by, s[a], s[b])
    BY <1>1 DEF Ascends
  <2>2. \A a \in 1 .. n : ~(a <= k) => Less(B, by, x, s[a])
    BY <1>1, <1>4, LessOrders
  <2>3. CASE j <= k
    BY <1>1, <1>4, <1>6, <1>8, <2>1, <2>3
  <2>4. CASE j = k + 1
    <3>1. i \in 1 .. n /\ i <= k /\ t[i] = s[i] /\ t[j] = x
      BY <1>1, <1>4, <1>6, <1>8, <2>4
    <3>2. QED
      BY <1>4, <3>1
  <2>5. CASE j > k + 1
    <3>1. j - 1 \in 1 .. n /\ t[j] = s[j - 1] /\ ~(j - 1 <= k)
      BY <1>1, <1>4, <1>6, <2>5
    <3>2. CASE i <= k
      <4>1. i \in 1 .. n /\ i < j - 1 /\ t[i] = s[i]
        BY <1>1, <1>4, <1>6, <2>5, <3>2
      <4>2. QED
        BY <2>1, <3>1, <4>1
    <3>3. CASE i = k + 1
      <4>1. t[i] = x
        BY <1>1, <1>4, <1>6, <3>3
      <4>2. QED
        BY <2>2, <3>1, <4>1
    <3>4. CASE i > k + 1
      <4>1. i - 1 \in 1 .. n /\ i - 1 < j - 1 /\ t[i] = s[i - 1]
        BY <1>1, <1>4, <1>6, <1>8, <3>4
      <4>2. QED
        BY <2>1, <3>1, <4>1
    <3>5. QED
      BY <1>1, <1>4, <3>2, <3>3, <3>4
  <2>6. QED
    BY <1>1, <1>4, <2>3, <2>4, <2>5
<1>9. Ascends(B, by, t)
  <2>1. DOMAIN t = 1 .. n + 1
    BY <1>6
  <2>2. QED
    BY <1>8, <2>1 DEF Ascends
<1>10. QED
  BY <1>6, <1>7, <1>9 DEF t

(* The loop of a sort does what its recursion says.                        *)
LEMMA SortRecurs ==
  ASSUME NEW B, NEW by, Len(B) \in Nat
  PROVE  \E f : /\ f = [n \in 0 .. Len(B) |->
                          IF n = 0 THEN <<>> ELSE Insert(B, by, f[n - 1], B[n])]
                /\ SortBuilds(B, by) = f[Len(B)]
<1> DEFINE N == Len(B)
           IsSort(f, m) == f = [n \in 0 .. m |->
                                  IF n = 0 THEN <<>> ELSE Insert(B, by, f[n - 1], B[n])]
           T == {m \in 0 .. N : \A f : ~IsSort(f, m)}
           F == CHOOSE f : IsSort(f, N)
<1>1. SortBuilds(B, by) = F[N]
  BY DEF SortBuilds
<1>2. T = {}
  <2> SUFFICES ASSUME T # {} PROVE FALSE
    OBVIOUS
  <2>1. T \subseteq Nat
    OBVIOUS
  <2>2. PICK m \in T : \A j \in T : m <= j
    BY <2>1, Least
  <2>3. CASE m = 0
    <3> DEFINE f == [n \in 0 .. 0 |-> <<>>]
    <3>1. \A n \in 0 .. 0 : n = 0
      OBVIOUS
    <3>2. IsSort(f, 0)
      BY <3>1
    <3>3. QED
      BY <2>2, <2>3, <3>2
  <2>4. CASE m # 0
    <3> HIDE DEF IsSort, N
    <3>1. m - 1 \in 0 .. N /\ m \in Nat /\ ~(m <= m - 1)
      <4>1. m \in 0 .. N /\ N \in Nat
        BY DEF N
      <4>2. QED
        BY <2>4, <4>1
    <3>2. PICK f : IsSort(f, m - 1)
      <4>1. m - 1 \notin T
        <5> HIDE DEF T
        <5>1. QED
          BY <2>2, <3>1
      <4>2. QED
        BY <3>1, <4>1
    <3> USE DEF IsSort
    <3> DEFINE g == [n \in 0 .. m |->
                       IF n = m THEN Insert(B, by, f[m - 1], B[m]) ELSE f[n]]
    <3>3. ASSUME NEW n \in 0 .. m
          PROVE  g[n] = IF n = 0 THEN <<>> ELSE Insert(B, by, g[n - 1], B[n])
      <4>1. CASE n = m
        <5>1. m - 1 \in 0 .. m /\ m - 1 # m /\ m \in 0 .. m
          BY <3>1, <2>4
        <5>2. g[m - 1] = f[m - 1]
          BY <5>1
        <5>3. QED
          BY <2>4, <4>1, <5>1, <5>2
      <4>2. CASE n # m
        <5>1. n \in 0 .. m - 1
          BY <3>1, <4>2
        <5>2. f[n] = IF n = 0 THEN <<>> ELSE Insert(B, by, f[n - 1], B[n])
          BY <3>2, <5>1, Zenon
        <5>3. n # 0 => n - 1 \in 0 .. m /\ n - 1 # m
          BY <3>1, <5>1
        <5>4. n # 0 => g[n - 1] = f[n - 1]
          BY <5>3
        <5>5. g[n] = f[n]
          BY <4>2
        <5>6. QED
          BY <5>2, <5>4, <5>5
      <4>3. QED
        BY <4>1, <4>2
    <3>4. IsSort(g, m)
      <4>1. g = [n \in 0 .. m |-> g[n]]
        OBVIOUS
      <4> HIDE DEF g
      <4>2. QED
        BY <3>3, <4>1
    <3>5. QED
      BY <2>2, <3>4
  <2>5. QED
    BY <2>3, <2>4
<1>3. \E f : IsSort(f, N)
  BY <1>2
<1>4. IsSort(F, N)
  <2> HIDE DEF IsSort
  <2>1. QED
    BY <1>3, Zenon DEF F
<1>5. QED
  BY <1>1, <1>4

(* A sort has all that was sorted, ascending.                              *)
LEMMA SortSorts ==
  ASSUME NEW B, Sortable(B), NEW by
  PROVE  /\ SortBuilds(B, by) \in Seq(ToSet(B))
         /\ ToSet(SortBuilds(B, by)) = ToSet(B)
         /\ Ascends(B, by, SortBuilds(B, by))
<1> DEFINE N == Len(B)
<1>1. /\ N \in Nat /\ DOMAIN B = 1 .. N
      /\ \A i \in 1 .. N : B[i] \in ToSet(B)
      /\ \A i, j \in 1 .. N : B[i] = B[j] => i = j
  BY SortableIs DEF Sortable, ToSet
<1>2. PICK f :
        /\ f = [n \in 0 .. N |-> IF n = 0 THEN <<>> ELSE Insert(B, by, f[n - 1], B[n])]
        /\ SortBuilds(B, by) = f[N]
  BY <1>1, SortRecurs
<1> HIDE DEF N
<1>3. f[0] = <<>> /\ \A n \in 1 .. N : f[n] = Insert(B, by, f[n - 1], B[n])
  <2>1. \A n \in 0 .. N : f[n] = IF n = 0 THEN <<>> ELSE Insert(B, by, f[n - 1], B[n])
    BY <1>2, Zenon
  <2>2. 0 \in 0 .. N /\ \A n \in 1 .. N : n \in 0 .. N /\ n # 0
    BY <1>1
  <2>3. QED
    BY <2>1, <2>2
<1> DEFINE Good(n) == /\ f[n] \in Seq(ToSet(B))
                      /\ ToSet(f[n]) = {B[i] : i \in 1 .. n}
                      /\ Ascends(B, by, f[n])
           T == {n \in 0 .. N : ~Good(n)}
<1>4. T = {}
  <2> SUFFICES ASSUME T # {} PROVE FALSE
    OBVIOUS
  <2>1. T \subseteq Nat
    OBVIOUS
  <2>2. PICK m \in T : \A j \in T : m <= j
    BY <2>1, Least
  <2>3. CASE m = 0
    <3>1. <<>> \in Seq(ToSet(B)) /\ ToSet(<<>>) = {} /\ Ascends(B, by, <<>>)
      BY DEF ToSet, Ascends
    <3>2. {B[i] : i \in 1 .. 0} = {}
      OBVIOUS
    <3>3. QED
      BY <1>3, <2>2, <2>3, <3>1, <3>2
  <2>4. CASE m # 0
    <3> HIDE DEF Good
    <3>1. m \in 1 .. N /\ m - 1 \in 0 .. N /\ ~(m <= m - 1)
      <4>1. m \in 0 .. N /\ N \in Nat
        BY <1>1
      <4>2. QED
        BY <2>4, <4>1
    <3>2. Good(m - 1)
      <4>1. m - 1 \notin T
        <5> HIDE DEF T
        <5>1. QED
          BY <2>2, <3>1
      <4>2. QED
        BY <3>1, <4>1
    <3> USE DEF Good
    <3>3. B[m] \notin ToSet(f[m - 1])
      <4>1. \A i \in 1 .. m - 1 : i \in 1 .. N /\ i # m
        BY <1>1, <3>1
      <4>2. QED
        BY <1>1, <3>1, <3>2, <4>1
    <3>4. f[m] = Insert(B, by, f[m - 1], B[m]) /\ B[m] \in ToSet(B)
      BY <1>1, <1>3, <3>1
    <3>5. /\ f[m] \in Seq(ToSet(B)) /\ Ascends(B, by, f[m])
          /\ ToSet(f[m]) = {B[i] : i \in 1 .. m - 1} \cup {B[m]}
      BY <3>2, <3>3, <3>4, InsertAscends
    <3>6. 1 .. m = (1 .. m - 1) \cup {m}
      BY <3>1
    <3>7. {B[i] : i \in 1 .. m} = {B[i] : i \in 1 .. m - 1} \cup {B[m]}
      BY <3>6
    <3>8. QED
      BY <2>2, <3>5, <3>7
  <2>5. QED
    BY <2>3, <2>4
<1>5. Good(N)
  <2> HIDE DEF Good
  <2>1. N \in 0 .. N
    BY <1>1
  <2>2. QED
    BY <1>4, <2>1
<1>6. ToSet(B) = {B[i] : i \in 1 .. N}
  BY <1>1 DEF ToSet
<1>7. QED
  BY <1>2, <1>5, <1>6

(* There is one ascending sequence of a set.                               *)
LEMMA OneAscending ==
  ASSUME NEW B, Sortable(B), NEW by, NEW s \in Seq(ToSet(B)), NEW t \in Seq(ToSet(B)),
         ToSet(s) = ToSet(t), Ascends(B, by, s), Ascends(B, by, t)
  PROVE  s = t
<1> DEFINE before == {p \in ToSet(B) \X ToSet(B) : Less(B, by, p[1], p[2])}
<1>1. \A a, b \in ToSet(B) : <<a, b>> \in before <=> Less(B, by, a, b)
  OBVIOUS
<1> HIDE DEF before
<1>2. Orders(ToSet(B), before)
  <2>1. \A a \in ToSet(B) : <<a, a>> \notin before
    BY <1>1, LessOrders
  <2>2. \A a, b \in ToSet(B) : a # b => <<a, b>> \in before \/ <<b, a>> \in before
    BY <1>1, LessOrders
  <2>3. \A a, b, c \in ToSet(B) :
          <<a, b>> \in before /\ <<b, c>> \in before => <<a, c>> \in before
    BY <1>1, LessOrders
  <2>4. QED
    BY <2>1, <2>2, <2>3 DEF Orders
<1>3. ASSUME NEW q \in Seq(ToSet(B)), Ascends(B, by, q) PROVE Follows(before, q)
  <2>1. \A i \in DOMAIN q : q[i] \in ToSet(B)
    OBVIOUS
  <2>2. QED
    BY <1>1, <1>3, <2>1 DEF Ascends, Follows
<1>4. QED
  BY <1>2, <1>3, OneArrangement

(* The rank of a build does not depend on where the others stand.          *)
LEMMA RankUnmoved ==
  ASSUME NEW B, Sortable(B), NEW p \in Bijection(DOMAIN B, DOMAIN B), NEW b
  PROVE  ClosureRank([i \in DOMAIN B |-> B[p[i]]], b) = ClosureRank(B, b)
<1> DEFINE A == [i \in DOMAIN B |-> B[p[i]]]
           Above(c) == c.hash # b.hash /\ ClosureIsLater(c.spec, b.spec)
           S == {i \in DOMAIN B : Above(B[p[i]])}
           T == {i \in DOMAIN B : Above(B[i])}
           f == [i \in S |-> p[i]]
<1>1. ClosureRank(A, b) = Cardinality(S) /\ ClosureRank(B, b) = Cardinality(T)
  <2>1. DOMAIN A = DOMAIN B /\ \A i \in DOMAIN B : A[i] = B[p[i]]
    OBVIOUS
  <2> HIDE DEF A
  <2>2. {i \in DOMAIN A : Above(A[i])} = S
    BY <2>1
  <2>3. QED
    BY <2>2 DEF ClosureRank
<1>2. /\ p \in [DOMAIN B -> DOMAIN B]
      /\ \A i, j \in DOMAIN B : p[i] = p[j] => i = j
      /\ \A k \in DOMAIN B : \E i \in DOMAIN B : p[i] = k
  BY DEF Bijection, Injection, Surjection, IsInjective
<1> HIDE DEF Above
<1>3. f \in Bijection(S, T)
  <2>1. f \in [S -> T] /\ \A i, j \in S : f[i] = f[j] => i = j
    BY <1>2
  <2>2. \A k \in T : \E i \in S : f[i] = k
    BY <1>2
  <2> HIDE DEF f, S, T
  <2>3. QED
    BY <2>1, <2>2 DEF Bijection, Injection, Surjection, IsInjective
<1>4. IsFiniteSet(S)
  <2>1. IsFiniteSet(DOMAIN B)
    BY SortableIs, FS_Interval
  <2>2. S \in SUBSET DOMAIN B
    OBVIOUS
  <2> HIDE DEF S
  <2>3. QED
    BY <2>1, <2>2, FS_Subset
<1>5. Cardinality(S) = Cardinality(T)
  <2> HIDE DEF f, S, T
  <2>1. ExistsBijection(S, T)
    BY <1>3 DEF ExistsBijection
  <2>2. QED
    BY <1>4, <2>1, FS_Bijection
<1>6. QED
  BY <1>1, <1>5

(* A sort does not depend on the order of what is sorted.                  *)
LEMMA SortUnmoved ==
  ASSUME NEW B, Sortable(B), NEW p \in Bijection(DOMAIN B, DOMAIN B), NEW by
  PROVE  SortBuilds([i \in DOMAIN B |-> B[p[i]]], by) = SortBuilds(B, by)
<1> DEFINE A == [i \in DOMAIN B |-> B[p[i]]]
<1>1. /\ p \in [DOMAIN B -> DOMAIN B]
      /\ \A i, j \in DOMAIN B : p[i] = p[j] => i = j
      /\ \A k \in DOMAIN B : \E i \in DOMAIN B : p[i] = k
  BY DEF Bijection, Injection, Surjection, IsInjective
<1>2. /\ A = [i \in DOMAIN A |-> A[i]] /\ DOMAIN A = DOMAIN B
      /\ \A i \in DOMAIN B : A[i] = B[p[i]]
  OBVIOUS
<1>3. \A b : ClosureRank(A, b) = ClosureRank(B, b)
  BY RankUnmoved
<1> HIDE DEF A
<1>4. Sortable(A)
  <2>1. Numbered(A)
    BY <1>2 DEF Sortable, Numbered
  <2>2. \A i \in DOMAIN A : A[i].hash \in Seq(Nat) /\ A[i].time \in Nat
    BY <1>1, <1>2 DEF Sortable
  <2>3. ASSUME NEW i \in DOMAIN A, NEW j \in DOMAIN A, A[i].hash = A[j].hash
        PROVE  i = j
    <3>1. p[i] \in DOMAIN B /\ p[j] \in DOMAIN B /\ B[p[i]].hash = B[p[j]].hash
      BY <1>1, <1>2, <2>3
    <3>2. p[i] = p[j]
      BY <3>1 DEF Sortable
    <3>3. QED
      BY <1>1, <1>2, <3>2
  <2>4. QED
    BY <1>2, <2>1, <2>2, <2>3 DEF Sortable
<1>5. ToSet(A) = ToSet(B)
  BY <1>1, <1>2 DEF ToSet
<1>6. \A a, b : Less(A, by, a, b) <=> Less(B, by, a, b)
  BY <1>3 DEF Less
<1>7. \A s : Ascends(A, by, s) => Ascends(B, by, s)
  BY <1>6 DEF Ascends
<1>8. /\ SortBuilds(A, by) \in Seq(ToSet(B)) /\ ToSet(SortBuilds(A, by)) = ToSet(B)
      /\ Ascends(B, by, SortBuilds(A, by))
  BY <1>4, <1>5, <1>7, SortSorts
<1>9. SortBuilds(A, by) = SortBuilds(B, by)
  BY <1>8, SortSorts, OneAscending
<1>10. QED
  BY <1>9 DEF A

(* What Order gives a word is a number.                                    *)
LEMMA OrderIsNumber == \A w : Order(w) \in Int
<1> SUFFICES ASSUME NEW w PROVE Order(w) \in Int
  OBVIOUS
<1>1. DOMAIN Words \subseteq Int
  BY BuildsAssumption
<1>2. CASE \E i \in DOMAIN Words : Words[i] = w
  <2>1. Order(w) \in DOMAIN Words
    BY <1>2, Zenon DEF Order
  <2>2. QED
    BY <1>1, <2>1
<1>3. CASE ~\E i \in DOMAIN Words : Words[i] = w
  BY <1>3 DEF Order
<1>4. QED
  BY <1>2, <1>3

(* No build is later than itself.                                          *)
LEMMA NotLaterThanItself == \A c : ~ClosureIsLater(c, c)
<1> SUFFICES ASSUME NEW c, ClosureIsLater(c, c) PROVE FALSE
  OBVIOUS
<1> DEFINE shared == {p \in ToSet(c.deps) \X ToSet(c.deps) : p[1].project = p[2].project}
<1>1. /\ \A p \in shared : Order(p[1].version) - Order(p[2].version) >= 0
      /\ \E p \in shared : Order(p[1].version) - Order(p[2].version) > 0
  BY DEF ClosureIsLater
<1>2. PICK p \in shared : Order(p[1].version) - Order(p[2].version) > 0
  BY <1>1
<1>3. <<p[2], p[1]>> \in shared
  OBVIOUS
<1>4. Order(p[2].version) - Order(p[1].version) >= 0
  <2>1. <<p[2], p[1]>>[1] = p[2] /\ <<p[2], p[1]>>[2] = p[1]
    OBVIOUS
  <2> HIDE DEF shared
  <2>2. QED
    BY <1>1, <1>3, <2>1
<1>5. Order(p[1].version) \in Int /\ Order(p[2].version) \in Int
  BY OrderIsNumber
<1>6. QED
  BY <1>2, <1>4, <1>5

(* Who is later than a build, and has nothing before it that is not before *)
(* this one, has the lower rank.                                           *)
LEMMA LaterRanksBefore ==
  ASSUME NEW B, Sortable(B), NEW a \in ToSet(B), NEW b \in ToSet(B),
         ClosureIsLater(a.spec, b.spec),
         \A c \in ToSet(B) : ClosureIsLater(c.spec, a.spec) => ClosureIsLater(c.spec, b.spec)
  PROVE  Less(B, "closure", a, b)
<1> DEFINE Over(x) == {i \in DOMAIN B : /\ B[i].hash # x.hash
                                        /\ ClosureIsLater(B[i].spec, x.spec)}
<1>1. IsFiniteSet(DOMAIN B)
  BY SortableIs, FS_Interval
<1>2. Over(a) \in SUBSET Over(b)
  <2> SUFFICES ASSUME NEW i \in DOMAIN B, ClosureIsLater(B[i].spec, a.spec)
               PROVE  B[i].hash # b.hash /\ ClosureIsLater(B[i].spec, b.spec)
    OBVIOUS
  <2>1. B[i] \in ToSet(B)
    BY DEF ToSet
  <2>2. ClosureIsLater(B[i].spec, b.spec)
    BY <2>1
  <2>3. QED
    BY <2>1, <2>2, SortableIs, NotLaterThanItself
<1>3. PICK q \in DOMAIN B : B[q] = a
  BY DEF ToSet
<1>4. q \in Over(b) /\ q \notin Over(a)
  BY <1>3, SortableIs, NotLaterThanItself
<1>5. ClosureRank(B, a) = Cardinality(Over(a)) /\ ClosureRank(B, b) = Cardinality(Over(b))
  BY DEF ClosureRank
<1>6. Over(b) \in SUBSET DOMAIN B
  OBVIOUS
<1> HIDE DEF Over
<1>7. IsFiniteSet(Over(b))
  BY <1>1, <1>6, FS_Subset
<1>8. Cardinality(Over(a)) <= Cardinality(Over(b)) /\ Cardinality(Over(a)) # Cardinality(Over(b))
  BY <1>2, <1>4, <1>7, FS_Subset
<1>9. ClosureRank(B, a) < ClosureRank(B, b)
  BY <1>5, <1>8, RankIsNumber
<1>10. QED
  BY <1>9, RankIsNumber DEF Less

-----------------------------------------------------------------------------
(* What tells builds apart.                                                *)

(* Specs in places that are numbered, each with words that are known.      *)
KnownSpecs(specs) == Numbered(specs) /\ \A i \in DOMAIN specs : IsSpec(specs[i])

LEMMA NoSpecIsSpec == IsSpec(NoSpec)
<1>1. NoSpec.variants = <<>> /\ NoSpec.deps = <<>>
  BY DEF NoSpec
<1>2. DOMAIN <<>> = {} /\ Len(<<>>) = 0 /\ 1 .. 0 = {}
  OBVIOUS
<1>3. ToSet(<<>>) = {}
  BY DEF ToSet
<1>4. IsFiniteSet({})
  BY FS_EmptySet
<1>5. QED
  BY <1>1, <1>2, <1>3, <1>4, Zenon DEF IsSpec

(* The specs that a listing shows are known.                               *)
LEMMA RowSpecs ==
  ASSUME IInv, NEW i \in DOMAIN call.rows
  PROVE  IsSpec(call.rows[i].spec)
<1>1. call.at # "idle"
  BY DEF IInv, CallInv
<1>2. CASE call.rows[i].spec = NoSpec
  BY <1>2, NoSpecIsSpec
<1>3. CASE call.rows[i].spec # NoSpec
  <2>1. PICK a \in AnyAnnotation : call.rows[i].spec \in VerifySpec(a, call.rows[i].hash)
    BY <1>1, <1>3 DEF IInv, RowsInv, DescribedRows
  <2>2. a # Garbage /\ call.rows[i].spec = a.spec
    BY <2>1 DEF VerifySpec, UnmarshalSpec
  <2>3. IsAnnotation(a)
    BY BuildsAssumption DEF AnyAnnotation
  <2>4. QED
    BY <2>2, <2>3 DEF IsAnnotation
<1>4. QED
  BY <1>2, <1>3

(* An option is among those that differ, or all builds have it alike.      *)
LEMMA DifferingVariantsAre ==
  ASSUME NEW specs, KnownSpecs(specs)
  PROVE  \E m \in Nat :
           /\ DOMAIN DifferingVariants(specs) = 1 .. m
           /\ \A i \in DOMAIN specs : \A n \in DOMAIN specs[i].variants :
                \/ \E k \in 1 .. m : DifferingVariants(specs)[k] = n
                \/ \A j \in DOMAIN specs : Values(specs[j], n) = Values(specs[1], n)
<1> DEFINE D == DOMAIN specs
           Own == [i \in D |-> DOMAIN specs[i].variants]
           all == UNION {DOMAIN specs[i].variants : i \in D}
           S == {n \in all : \E j \in D : Values(specs[j], n) # Values(specs[1], n)}
<1>1. DifferingVariants(specs) = Names(S)
  BY DEF DifferingVariants, Differ
<1>2. IsFiniteSet(D)
  BY FS_Interval DEF KnownSpecs, Numbered
<1>3. IsFiniteSet({Own[i] : i \in D})
  BY <1>2, FiniteImage
<1>4. {Own[i] : i \in D} = {DOMAIN specs[i].variants : i \in D}
  OBVIOUS
<1>5. \A T \in {DOMAIN specs[i].variants : i \in D} : IsFiniteSet(T) /\ T \subseteq ToSet(Words)
  BY DEF KnownSpecs, IsSpec
<1>6. IsFiniteSet(all) /\ all \subseteq ToSet(Words)
  BY <1>3, <1>4, <1>5, FS_UNION
<1>7. S \in SUBSET all
  OBVIOUS
<1>8. \A i \in D : \A n \in DOMAIN specs[i].variants :
        n \in S \/ \A j \in D : Values(specs[j], n) = Values(specs[1], n)
  OBVIOUS
<1> HIDE DEF S, all
<1>9. IsFiniteSet(S) /\ S \subseteq ToSet(Words)
  BY <1>6, <1>7, FS_Subset
<1>10. /\ Cardinality(S) \in Nat /\ DOMAIN Names(S) = 1 .. Cardinality(S)
       /\ \A n \in S : \E k \in 1 .. Cardinality(S) : Names(S)[k] = n
  BY <1>9, NamesAre
<1>11. QED
  BY <1>1, <1>8, <1>10

(* So with what a build needs.                                             *)
LEMMA DifferingDepsAre ==
  ASSUME NEW specs, KnownSpecs(specs)
  PROVE  \E m \in Nat :
           /\ DOMAIN DifferingDeps(specs) = 1 .. m
           /\ \A i \in DOMAIN specs : \A p \in {d.project : d \in ToSet(specs[i].deps)} :
                \/ \E k \in 1 .. m : DifferingDeps(specs)[k] = p
                \/ \A j \in DOMAIN specs : DepEdge(specs[j], p) = DepEdge(specs[1], p)
<1> DEFINE D == DOMAIN specs
           Needs(c) == {d.project : d \in ToSet(c.deps)}
           Own == [i \in D |-> Needs(specs[i])]
           all == UNION {Needs(specs[i]) : i \in D}
           S == {p \in all : \E j \in D : DepEdge(specs[j], p) # DepEdge(specs[1], p)}
<1>1. DifferingDeps(specs) = Names(S)
  BY DEF DifferingDeps, Differ
<1>2. IsFiniteSet(D)
  BY FS_Interval DEF KnownSpecs, Numbered
<1>3. ASSUME NEW c, IsSpec(c) PROVE IsFiniteSet(Needs(c)) /\ Needs(c) \subseteq ToSet(Words)
  <2> DEFINE f == [i \in DOMAIN c.deps |-> c.deps[i].project]
  <2>1. Needs(c) = {f[i] : i \in DOMAIN c.deps}
    BY DEF ToSet
  <2>2. IsFiniteSet(DOMAIN c.deps)
    BY <1>3, FS_Interval DEF IsSpec
  <2> HIDE DEF f
  <2>3. IsFiniteSet(Needs(c))
    <3>1. IsFiniteSet({f[i] : i \in DOMAIN c.deps})
      BY <2>2, FiniteImage
    <3>2. QED
      BY <2>1, <3>1
  <2>4. QED
    BY <1>3, <2>3 DEF IsSpec
<1>4. {Own[i] : i \in D} = {Needs(specs[i]) : i \in D}
  OBVIOUS
<1>5. \A i \in D : \A p \in Needs(specs[i]) :
        p \in S \/ \A j \in D : DepEdge(specs[j], p) = DepEdge(specs[1], p)
  OBVIOUS
<1> HIDE DEF Needs
<1>6. IsFiniteSet({Own[i] : i \in D})
  BY <1>2, FiniteImage
<1>7. \A T \in {Needs(specs[i]) : i \in D} : IsFiniteSet(T) /\ T \subseteq ToSet(Words)
  BY <1>3 DEF KnownSpecs
<1>8. IsFiniteSet(all) /\ all \subseteq ToSet(Words)
  BY <1>4, <1>6, <1>7, FS_UNION
<1>9. S \in SUBSET all
  OBVIOUS
<1> HIDE DEF S, all
<1>10. IsFiniteSet(S) /\ S \subseteq ToSet(Words)
  BY <1>8, <1>9, FS_Subset
<1>11. /\ Cardinality(S) \in Nat /\ DOMAIN Names(S) = 1 .. Cardinality(S)
       /\ \A p \in S : \E k \in 1 .. Cardinality(S) : Names(S)[k] = p
  BY <1>10, NamesAre
<1>12. QED
  BY <1>1, <1>5, <1>11 DEF Needs

(* A function of numbers is a sequence.                                    *)
LEMMA SequenceOf ==
  ASSUME NEW m \in Nat, NEW S, NEW q \in [1 .. m -> S]
  PROVE  q \in Seq(S) /\ Len(q) = m
  OBVIOUS

(* What is joined, told apart below by what it is joined from.             *)
Joined(x, y) == x \o y

LEMMA JoinedIs ==
  ASSUME NEW S, NEW x \in Seq(S), NEW y \in Seq(S)
  PROVE  /\ \A i \in 1 .. Len(x) : Joined(x, y)[i] = x[i]
         /\ \A i \in 1 .. Len(y) : Joined(x, y)[Len(x) + i] = y[i]
         /\ Joined(x, y) \in Seq(S) /\ Len(Joined(x, y)) = Len(x) + Len(y)
  BY DEF Joined

(* Sequences that are joined at one place are the same when what is joined *)
(* is.                                                                     *)
LEMMA Apart ==
  ASSUME NEW S, NEW x \in Seq(S), NEW y \in Seq(S), NEW u \in Seq(S), NEW v \in Seq(S),
         Len(x) = Len(u), Len(y) = Len(v)
  PROVE  /\ Joined(x, y) \in Seq(S) /\ Joined(u, v) \in Seq(S)
         /\ Len(Joined(x, y)) = Len(Joined(u, v))
         /\ Joined(x, y) = Joined(u, v) => x = u /\ y = v
<1>1. /\ \A i \in 1 .. Len(x) : Joined(x, y)[i] = x[i]
      /\ \A i \in 1 .. Len(y) : Joined(x, y)[Len(x) + i] = y[i]
      /\ Joined(x, y) \in Seq(S) /\ Len(Joined(x, y)) = Len(x) + Len(y)
  BY JoinedIs
<1>2. /\ \A i \in 1 .. Len(u) : Joined(u, v)[i] = u[i]
      /\ \A i \in 1 .. Len(v) : Joined(u, v)[Len(u) + i] = v[i]
      /\ Joined(u, v) \in Seq(S) /\ Len(Joined(u, v)) = Len(u) + Len(v)
  BY JoinedIs
<1>3. ASSUME Joined(x, y) = Joined(u, v) PROVE x = u /\ y = v
  <2>1. \A i \in 1 .. Len(x) : x[i] = u[i]
    BY <1>1, <1>2, <1>3
  <2>2. \A i \in 1 .. Len(y) : y[i] = v[i]
    BY <1>1, <1>2, <1>3
  <2>3. QED
    BY <2>1, <2>2, SeqEqual
<1>4. QED
  BY <1>1, <1>2, <1>3

(* What a line is made of: the platform, options, needs and graft.         *)
PlatformParts(specs, c) ==
  IF \E i \in DOMAIN specs : specs[i].platform # specs[1].platform
  THEN <<<<c.platform>>>> ELSE <<>>

OptionParts(specs, c) ==
  [k \in DOMAIN DifferingVariants(specs) |->
     RenderVariant(DifferingVariants(specs)[k], Values(c, DifferingVariants(specs)[k]))]

NeedParts(specs, c) ==
  [k \in DOMAIN DifferingDeps(specs) |-> RenderDep(c, DifferingDeps(specs)[k])]

GraftParts(specs, c) ==
  IF \E i \in DOMAIN specs : specs[i].graft # specs[1].graft
  THEN <<IF c.graft = "" THEN <<"not grafted">> ELSE <<"grafted", c.graft>>>> ELSE <<>>

LineParts(specs, c) ==
  Joined(Joined(Joined(PlatformParts(specs, c), OptionParts(specs, c)), NeedParts(specs, c)),
         GraftParts(specs, c))

LEMMA LineIs ==
  ASSUME NEW specs, NEW i \in DOMAIN specs, ~IsZero(specs[i]), LineParts(specs, specs[i]) # <<>>
  PROVE  Distinguish(specs)[i] = LineParts(specs, specs[i])
  BY DEF Distinguish, Differ, LineParts, Joined, PlatformParts, OptionParts, NeedParts, GraftParts

LEMMA LastResort ==
  ASSUME NEW specs, NEW i \in DOMAIN specs, ~IsZero(specs[i]), LineParts(specs, specs[i]) = <<>>
  PROVE  Distinguish(specs)[i] = RecipePart(specs, specs[i])
  BY DEF Distinguish, Differ, LineParts, Joined, PlatformParts, OptionParts, NeedParts, GraftParts

(* With the same axes, lines of the same parts.                            *)
LEMMA PartsTell ==
  ASSUME NEW specs, KnownSpecs(specs), NEW c, NEW d
  PROVE  /\ LineParts(specs, c) = <<>> <=> LineParts(specs, d) = <<>>
         /\ LineParts(specs, c) = LineParts(specs, d) =>
              /\ PlatformParts(specs, c) = PlatformParts(specs, d)
              /\ OptionParts(specs, c) = OptionParts(specs, d)
              /\ NeedParts(specs, c) = NeedParts(specs, d)
              /\ GraftParts(specs, c) = GraftParts(specs, d)
<1>1. PICK m \in Nat : DOMAIN DifferingVariants(specs) = 1 .. m
  BY DifferingVariantsAre
<1>2. PICK n \in Nat : DOMAIN DifferingDeps(specs) = 1 .. n
  BY DifferingDepsAre
<1> DEFINE P(e) == PlatformParts(specs, e)
           O(e) == OptionParts(specs, e)
           N(e) == NeedParts(specs, e)
           G(e) == GraftParts(specs, e)
           Own(e) == {P(e)[1], G(e)[1]} \cup {O(e)[k] : k \in 1 .. m} \cup {N(e)[k] : k \in 1 .. n}
           S == Own(c) \cup Own(d)
<1>3. P(c) \in Seq(S) /\ P(d) \in Seq(S) /\ Len(P(c)) = Len(P(d))
  <2> DEFINE on == \E i \in DOMAIN specs : specs[i].platform # specs[1].platform
             one(e) == <<e.platform>>
  <2>1. (one(c) \in S /\ one(d) \in S) \/ ~on
    BY DEF PlatformParts
  <2>2. /\ P(c) = IF on THEN <<one(c)>> ELSE <<>>
        /\ P(d) = IF on THEN <<one(d)>> ELSE <<>>
    BY DEF PlatformParts
  <2> HIDE DEF on, one, P, S
  <2>3. QED
    BY <2>1, <2>2
<1>4. G(c) \in Seq(S) /\ G(d) \in Seq(S) /\ Len(G(c)) = Len(G(d))
  <2> DEFINE on == \E i \in DOMAIN specs : specs[i].graft # specs[1].graft
             one(e) == IF e.graft = "" THEN <<"not grafted">> ELSE <<"grafted", e.graft>>
  <2>1. /\ G(c) = IF on THEN <<one(c)>> ELSE <<>>
        /\ G(d) = IF on THEN <<one(d)>> ELSE <<>>
    BY DEF GraftParts
  <2> HIDE DEF on, one, G
  <2>2. (one(c) \in S /\ one(d) \in S) \/ ~on
    BY <2>1
  <2> HIDE DEF S
  <2>3. QED
    BY <2>1, <2>2
<1>5. O(c) \in Seq(S) /\ O(d) \in Seq(S) /\ Len(O(c)) = m /\ Len(O(d)) = m
  <2>1. O(c) \in [1 .. m -> S] /\ O(d) \in [1 .. m -> S]
    BY <1>1 DEF OptionParts
  <2> HIDE DEF O, S
  <2>2. QED
    BY <2>1, SequenceOf
<1>6. N(c) \in Seq(S) /\ N(d) \in Seq(S) /\ Len(N(c)) = n /\ Len(N(d)) = n
  <2>1. N(c) \in [1 .. n -> S] /\ N(d) \in [1 .. n -> S]
    BY <1>2 DEF NeedParts
  <2> HIDE DEF N, S
  <2>2. QED
    BY <2>1, SequenceOf
<1>7. /\ LineParts(specs, c) = Joined(Joined(Joined(P(c), O(c)), N(c)), G(c))
      /\ LineParts(specs, d) = Joined(Joined(Joined(P(d), O(d)), N(d)), G(d))
  BY DEF LineParts
<1> HIDE DEF P, O, N, G, S
<1>8. /\ LineParts(specs, c) = <<>> <=> LineParts(specs, d) = <<>>
      /\ LineParts(specs, c) = LineParts(specs, d) =>
           P(c) = P(d) /\ O(c) = O(d) /\ N(c) = N(d) /\ G(c) = G(d)
  <2> DEFINE p == P(c)
             o == O(c)
             n1 == N(c)
             g == G(c)
             q == P(d)
             r == O(d)
             n2 == N(d)
             h == G(d)
  <2>1. /\ p \in Seq(S) /\ o \in Seq(S) /\ n1 \in Seq(S) /\ g \in Seq(S)
        /\ q \in Seq(S) /\ r \in Seq(S) /\ n2 \in Seq(S) /\ h \in Seq(S)
        /\ Len(p) = Len(q) /\ Len(o) = Len(r) /\ Len(n1) = Len(n2) /\ Len(g) = Len(h)
    BY <1>3, <1>4, <1>5, <1>6
  <2>2. /\ LineParts(specs, c) = Joined(Joined(Joined(p, o), n1), g)
        /\ LineParts(specs, d) = Joined(Joined(Joined(q, r), n2), h)
    BY <1>7
  <2> HIDE DEF p, o, n1, g, q, r, n2, h
  <2> DEFINE po == Joined(p, o)
             qr == Joined(q, r)
             pon == Joined(po, n1)
             qrn == Joined(qr, n2)
             all == Joined(pon, g)
             other == Joined(qrn, h)
  <2>3. po \in Seq(S) /\ qr \in Seq(S) /\ Len(po) = Len(qr) /\ (po = qr => p = q /\ o = r)
    BY <2>1, Apart
  <2> HIDE DEF po, qr
  <2>4. pon \in Seq(S) /\ qrn \in Seq(S) /\ Len(pon) = Len(qrn) /\ (pon = qrn => po = qr /\ n1 = n2)
    BY <2>1, <2>3, Apart
  <2> HIDE DEF pon, qrn
  <2>5. /\ all \in Seq(S) /\ other \in Seq(S) /\ Len(all) = Len(other)
        /\ all = other => pon = qrn /\ g = h
    BY <2>1, <2>4, Apart
  <2> HIDE DEF all, other
  <2>6. all = <<>> <=> other = <<>>
    BY <2>5, EmptySeq
  <2>7. all = other => p = q /\ o = r /\ n1 = n2 /\ g = h
    BY <2>3, <2>4, <2>5
  <2>8. LineParts(specs, c) = all /\ LineParts(specs, d) = other
    BY <2>2, Zenon DEF all, other, pon, qrn, po, qr
  <2>9. QED
    BY <2>6, <2>7, <2>8 DEF p, o, n1, g, q, r, n2, h
<1>9. QED
  BY <1>8 DEF P, O, N, G

(* What a need is shown as, is whether there is one.                       *)
LEMMA NeedTold ==
  ASSUME NEW c, NEW p
  PROVE  /\ DepEdge(c, p) = <<>> <=> p \notin {d.project : d \in ToSet(c.deps)}
         /\ RenderDep(c, p) = <<p>> <=> DepEdge(c, p) = <<>>
<1>1. DepEdge(c, p) = <<>> <=> p \notin {d.project : d \in ToSet(c.deps)}
  BY DEF DepEdge, ToSet
<1>2. RenderDep(c, p) = <<p>> <=> DepEdge(c, p) = <<>>
  BY DEF RenderDep
<1>3. QED
  BY <1>1, <1>2

(* Specs of the same line need the same of the same projects.              *)
LEMMA NeedsTold ==
  ASSUME NEW specs, KnownSpecs(specs), NEW i \in DOMAIN specs, NEW j \in DOMAIN specs,
         NeedParts(specs, specs[i]) = NeedParts(specs, specs[j]),
         NEW p \in {d.project : d \in ToSet(specs[i].deps)}
  PROVE  /\ p \in {d.project : d \in ToSet(specs[j].deps)}
         /\ RenderDep(specs[i], p) = RenderDep(specs[j], p)
<1>1. PICK m \in Nat :
        /\ DOMAIN DifferingDeps(specs) = 1 .. m
        /\ \/ \E k \in 1 .. m : DifferingDeps(specs)[k] = p
           \/ \A e \in DOMAIN specs : DepEdge(specs[e], p) = DepEdge(specs[1], p)
  BY DifferingDepsAre
<1>2. RenderDep(specs[i], p) = RenderDep(specs[j], p)
  <2>1. CASE \E k \in 1 .. m : DifferingDeps(specs)[k] = p
    <3>1. PICK k \in 1 .. m : DifferingDeps(specs)[k] = p
      BY <2>1
    <3>2. NeedParts(specs, specs[i])[k] = NeedParts(specs, specs[j])[k]
      OBVIOUS
    <3>3. QED
      BY <1>1, <3>1, <3>2 DEF NeedParts
  <2>2. CASE \A e \in DOMAIN specs : DepEdge(specs[e], p) = DepEdge(specs[1], p)
    BY <2>2 DEF RenderDep
  <2>3. QED
    BY <1>1, <2>1, <2>2
<1>3. QED
  BY <1>2, NeedTold

(* No different but in the recipe.                                         *)
AlikeSpecs(c, d) ==
  /\ <<c.platform, c.graft>> = <<d.platform, d.graft>>
  /\ \A n \in DOMAIN c.variants \cup DOMAIN d.variants : Values(c, n) = Values(d, n)
  /\ \A p \in {e.project : e \in ToSet(c.deps)} \cup {e.project : e \in ToSet(d.deps)} :
        DepEdge(c, p) = DepEdge(d, p)

LEMMA NamesOfNone == DOMAIN Names({}) = {}
<1>1. Cardinality({}) = 0
  BY FS_EmptySet
<1>2. 1 .. 0 = {}
  OBVIOUS
<1>3. QED
  BY <1>1, <1>2 DEF Names, Ranked

(* Of such specs there is nothing to tell but the recipe.                  *)
LEMMA NothingElse ==
  ASSUME NEW specs, NEW i \in DOMAIN specs, 1 \in DOMAIN specs,
         \A k \in DOMAIN specs : AlikeSpecs(specs[k], specs[i]), NEW c
  PROVE  LineParts(specs, c) = <<>>
<1>1. \A k \in DOMAIN specs :
        specs[k].platform = specs[1].platform /\ specs[k].graft = specs[1].graft
  BY DEF AlikeSpecs
<1>2. PlatformParts(specs, c) = <<>> /\ GraftParts(specs, c) = <<>>
  BY <1>1 DEF PlatformParts, GraftParts
<1>3. DOMAIN DifferingVariants(specs) = {}
  <2> DEFINE S == {n \in UNION {DOMAIN specs[k].variants : k \in DOMAIN specs} :
                     \E k \in DOMAIN specs : Values(specs[k], n) # Values(specs[1], n)}
  <2>1. ASSUME NEW n, NEW k \in DOMAIN specs
        PROVE  Values(specs[k], n) = Values(specs[i], n)
    <3>1. CASE n \in DOMAIN specs[k].variants \cup DOMAIN specs[i].variants
      BY <3>1 DEF AlikeSpecs
    <3>2. CASE n \notin DOMAIN specs[k].variants \cup DOMAIN specs[i].variants
      BY <3>2 DEF Values
    <3>3. QED
      BY <3>1, <3>2
  <2>2. S = {}
    BY <2>1
  <2>3. DifferingVariants(specs) = Names(S)
    BY DEF DifferingVariants, Differ
  <2> HIDE DEF S
  <2>4. QED
    BY <2>2, <2>3, NamesOfNone
<1>4. DOMAIN DifferingDeps(specs) = {}
  <2> DEFINE Needs(e) == {d.project : d \in ToSet(e.deps)}
             S == {p \in UNION {Needs(specs[k]) : k \in DOMAIN specs} :
                     \E k \in DOMAIN specs : DepEdge(specs[k], p) # DepEdge(specs[1], p)}
  <2>1. ASSUME NEW p, NEW k \in DOMAIN specs
        PROVE  DepEdge(specs[k], p) = DepEdge(specs[i], p)
    <3>1. CASE p \in Needs(specs[k]) \cup Needs(specs[i])
      BY <3>1 DEF AlikeSpecs
    <3>2. CASE p \notin Needs(specs[k]) \cup Needs(specs[i])
      BY <3>2, NeedTold
    <3>3. QED
      BY <3>1, <3>2
  <2>2. S = {}
    BY <2>1
  <2>3. DifferingDeps(specs) = Names(S)
    BY DEF DifferingDeps, Differ
  <2> HIDE DEF S
  <2>4. QED
    BY <2>2, <2>3, NamesOfNone
<1>5. OptionParts(specs, c) = <<>> /\ NeedParts(specs, c) = <<>>
  BY <1>3, <1>4 DEF OptionParts, NeedParts
<1>6. <<>> \o <<>> = <<>>
  OBVIOUS
<1>7. QED
  BY <1>2, <1>5, <1>6, Zenon DEF LineParts, Joined

(* So that a line tells it.                                                *)
LEMMA RecipeTold ==
  ASSUME NEW specs, KnownSpecs(specs), NEW i \in DOMAIN specs, NEW j \in DOMAIN specs,
         ~IsZero(specs[i]), ~IsZero(specs[j]), Distinguish(specs)[i] = Distinguish(specs)[j],
         \A k \in DOMAIN specs : AlikeSpecs(specs[k], specs[i])
  PROVE  Short(specs[i].recipe) = Short(specs[j].recipe)
<1>1. 1 \in DOMAIN specs
  BY DEF KnownSpecs, Numbered
<1>2. LineParts(specs, specs[i]) = <<>> /\ LineParts(specs, specs[j]) = <<>>
  BY <1>1, NothingElse
<1>3. RecipePart(specs, specs[i]) = RecipePart(specs, specs[j])
  BY <1>2, LastResort
<1>4. CASE \E k \in DOMAIN specs : specs[k].recipe # specs[1].recipe
  <2> DEFINE x == <<"recipe", Short(specs[i].recipe)>>
             y == <<"recipe", Short(specs[j].recipe)>>
  <2>1. RecipePart(specs, specs[i]) = <<x>> /\ RecipePart(specs, specs[j]) = <<y>>
    BY <1>4 DEF RecipePart, Differ
  <2>2. x[2] = Short(specs[i].recipe) /\ y[2] = Short(specs[j].recipe)
    OBVIOUS
  <2> HIDE DEF x, y
  <2>3. x = y
    <3>1. <<x>> = <<y>>
      BY <1>3, <2>1, Zenon
    <3>2. <<x>>[1] = x /\ <<y>>[1] = y
      OBVIOUS
    <3>3. QED
      BY <3>1, <3>2, Zenon
  <2>4. QED
    BY <2>2, <2>3
<1>5. CASE \A k \in DOMAIN specs : specs[k].recipe = specs[1].recipe
  BY <1>5
<1>6. QED
  BY <1>4, <1>5

-----------------------------------------------------------------------------
(* What is asked of builds, and which of them are set aside.               *)

LEMMA MinIs ==
  ASSUME NEW T, T \subseteq Nat, T # {}
  PROVE  Min(T) \in T /\ \A y \in T : Min(T) <= y
<1>1. \E x \in T : \A y \in T : x <= y
  BY Least
<1>2. QED
  BY <1>1, Zenon DEF Min

(* All that is kept of a sequence.                                         *)
LEMMA KeptSet ==
  ASSUME NEW s, NEW at, IsFiniteSet(at), at \subseteq Nat
  PROVE  ToSet(Kept(s, at)) = {s[i] : i \in at} /\ Numbered(Kept(s, at))
<1> DEFINE q == Kept(s, at)
           there == {s[i] : i \in at}
<1>1. IsKept(q, s, at)
  BY KeptIs
<1> HIDE DEF q
<1>2. PICK n \in Nat :
        /\ q \in [1 .. n -> there]
        /\ \A i \in at : \E k \in 1 .. n : q[k] = s[i]
  BY <1>1 DEF IsKept
<1>3. \A x \in there : \E k \in 1 .. n : q[k] = x
  BY <1>2
<1> HIDE DEF there
<1>4. DOMAIN q = 1 .. n /\ \A k \in 1 .. n : q[k] \in there
  BY <1>2
<1>5. ToSet(q) = {q[k] : k \in 1 .. n}
  BY <1>4 DEF ToSet
<1>6. ToSet(q) = there
  BY <1>3, <1>4, <1>5
<1>7. QED
  BY <1>4, <1>6 DEF Numbered, q, there

(* The withdrawals are those that were read.                               *)
WithdrawnInv == DOMAIN withdrawn = 1 .. Len(withdrawn) /\ Len(withdrawn) \in Nat

LEMMA WithdrawnInvariance == Spec => []WithdrawnInv
<1>1. Init => WithdrawnInv
  BY BuildsAssumption DEF Init, WithdrawnInv
<1>2. WithdrawnInv /\ [Next]_vars => WithdrawnInv'
  <2>1. [Next]_vars => UNCHANGED withdrawn
    BY Zenon DEF Next, Listing, ListInstalled, ListPublished, Describe, Return, Name, Leave,
                 Push, Install, vars
  <2>2. WithdrawnInv /\ withdrawn' = withdrawn => WithdrawnInv'
    BY Zenon DEF WithdrawnInv
  <2>3. QED
    BY <2>1, <2>2, Zenon
<1>3. QED
  BY <1>1, <1>2, PTL DEF Spec

(* A withdrawal of a build is found if there is one, its own before one of *)
(* its version.                                                            *)
LEMMA WithdrawalIs ==
  ASSUME WithdrawnInv, NEW h
  PROVE  /\ WithdrawalOf(Version, h) # <<>> <=>
              \E i \in DOMAIN withdrawn :
                 withdrawn[i].version = Version /\ withdrawn[i].hash \in {NoHash, h}
         /\ \A i \in DOMAIN withdrawn :
              withdrawn[i].version = Version /\ withdrawn[i].hash = h /\ h # NoHash
                => WithdrawalOf(Version, h)[1].hash = h
<1> DEFINE its == {i \in DOMAIN withdrawn : withdrawn[i].version = Version}
           own == {i \in its : withdrawn[i].hash = h /\ h # NoHash}
           wide == {i \in its : withdrawn[i].hash = NoHash}
<1>1. WithdrawalOf(Version, h) =
        IF own # {} THEN <<withdrawn[Min(own)]>>
        ELSE IF wide # {} THEN <<withdrawn[Min(wide)]>> ELSE <<>>
  BY DEF WithdrawalOf
<1>2. own \subseteq Nat
  BY DEF WithdrawnInv
<1>3. own # {} => Min(own) \in own
  <2> HIDE DEF own
  <2>1. QED
    BY <1>2, MinIs
<1>4. own # {} => withdrawn[Min(own)].hash = h
  BY <1>3
<1>5. (own # {} \/ wide # {}) <=>
        \E i \in DOMAIN withdrawn :
           withdrawn[i].version = Version /\ withdrawn[i].hash \in {NoHash, h}
  OBVIOUS
<1>6. \A i \in DOMAIN withdrawn :
        withdrawn[i].version = Version /\ withdrawn[i].hash = h /\ h # NoHash => own # {}
  OBVIOUS
<1> HIDE DEF own, wide
<1>7. QED
  BY <1>1, <1>4, <1>5, <1>6

(* What is preferred of some builds.                                       *)
LEMMA PreferIs ==
  ASSUME NEW builds, Numbered(builds)
  PROVE  LET good == {b \in ToSet(builds) : ~IsWithdrawn(b)}
         IN  ToSet(PreferNotWithdrawn(builds)) = IF good = {} THEN ToSet(builds) ELSE good
<1> DEFINE at == {i \in DOMAIN builds : ~IsWithdrawn(builds[i])}
           good == {b \in ToSet(builds) : ~IsWithdrawn(b)}
<1>1. PreferNotWithdrawn(builds) = IF at = {} THEN builds ELSE Kept(builds, at)
  BY DEF PreferNotWithdrawn
<1>2. good = {builds[i] : i \in at}
  BY DEF ToSet
<1>3. IsFiniteSet(at) /\ at \subseteq Nat
  <2>1. IsFiniteSet(DOMAIN builds) /\ DOMAIN builds \subseteq Nat
    BY FS_Interval DEF Numbered
  <2>2. at \in SUBSET DOMAIN builds
    OBVIOUS
  <2> HIDE DEF at
  <2>3. QED
    BY <2>1, <2>2, FS_Subset
<1>4. good = {} <=> at = {}
  BY <1>2
<1> HIDE DEF at, good
<1>5. ToSet(Kept(builds, at)) = good
  BY <1>2, <1>3, KeptSet
<1>6. QED
  BY <1>1, <1>4, <1>5 DEF good

(* What stands in a sequence once, one thing set aside.                    *)
OnceBeside(none, s) == \A i, j \in DOMAIN s : i # j /\ s[i] # none => s[i] # s[j]

Once(s) == \A i, j \in DOMAIN s : s[i] = s[j] => i = j

(* The values of a token that are not empty.                               *)
LEMMA KeptWords ==
  ASSUME NEW W, NEW none, NEW s \in Seq(W \cup {none})
  PROVE  LET kept == Kept(s, {i \in DOMAIN s : s[i] # none})
         IN  kept \in Seq(W) /\ (OnceBeside(none, s) => Once(kept))
<1> DEFINE at == {i \in DOMAIN s : s[i] # none}
           kept == Kept(s, at)
           there == {s[i] : i \in at}
<1>1. DOMAIN s = 1 .. Len(s) /\ Len(s) \in Nat
  BY LenProperties
<1>2. there \subseteq W
  BY ElementOfSeq, <1>1
<1>3. at \in SUBSET DOMAIN s
  OBVIOUS
<1>4. \A i, j \in at : s[i] # none /\ i \in DOMAIN s /\ j \in DOMAIN s
  OBVIOUS
<1> HIDE DEF at
<1>5. IsFiniteSet(1 .. Len(s)) /\ 1 .. Len(s) \subseteq Nat
  BY <1>1, FS_Interval
<1>6. IsFiniteSet(at) /\ at \subseteq Nat
  BY <1>1, <1>3, <1>5, FS_Subset
<1>7. IsKept(kept, s, at)
  BY <1>6, KeptIs
<1> HIDE DEF kept
<1>8. PICK n \in Nat :
        /\ kept \in [1 .. n -> there]
        /\ \A k, l \in 1 .. n : k < l => \E i, j \in at : i < j /\ kept[k] = s[i] /\ kept[l] = s[j]
  BY <1>7 DEF IsKept
<1> HIDE DEF there
<1>9. kept \in [1 .. n -> W]
  BY <1>2, <1>8
<1>10. kept \in Seq(W) /\ DOMAIN kept = 1 .. n
  BY <1>9, SequenceOf
<1>11. ASSUME OnceBeside(none, s)
       PROVE  \A k, l \in 1 .. n : k < l => kept[k] # kept[l]
  <2>1. \A i, j \in at : i < j => s[i] # s[j]
    <3>1. \A i, j \in at : i < j => i # j
      BY <1>6
    <3>2. QED
      BY <1>4, <1>11, <3>1 DEF OnceBeside
  <2>2. QED
    BY <1>8, <2>1
<1>12. ASSUME OnceBeside(none, s),
              NEW k \in 1 .. n, NEW l \in 1 .. n, kept[k] = kept[l]
       PROVE  k = l
  <2>1. ~(k < l) /\ ~(l < k)
    BY <1>11, <1>12
  <2>2. k \in Int /\ l \in Int
    OBVIOUS
  <2>3. QED
    BY <2>1, <2>2
<1>13. QED
  BY <1>10, <1>12 DEF kept, at, Once

(* One word is a sequence of words.                                        *)
LEMMA OneWord == ASSUME NEW W, NEW w \in W PROVE <<w>> \in Seq(W)
OBVIOUS

(* Known values; an exact request that repeats no value.                                 *)
KnownToken(tok) == tok.values \in Seq(ToSet(Words) \cup {""})

AsksOnce(tok) == tok.sign = ":=" => OnceBeside("", tok.values)

(* What a token asks for: known values, in order, at least one of them.    *)
LEMMA ParsedIs ==
  ASSUME NEW tok, KnownToken(tok), AsksOnce(tok),
         NEW c \in ParseConstraint(tok)
  PROVE  /\ ParseConstraint(tok) = {c} /\ c.exact = (tok.sign = ":=")
         /\ \E v \in Seq(ToSet(Words)) :
              /\ c.values = SortedWords(v) /\ Len(v) # 0
              /\ tok.sign = ":=" => Once(v)
<1> DEFINE at == {i \in DOMAIN tok.values : tok.values[i] # ""}
           kept == Kept(tok.values, at)
           v == CASE tok.sign \in {"++", "+"} -> <<"true">>
                  [] tok.sign \in {"~~", "~"} -> <<"false">>
                  [] OTHER -> kept
<1>1. /\ v # <<>>
      /\ ParseConstraint(tok) =
           {[values |-> SortedWords(v), exact |-> tok.sign = ":=",
             propagate |-> tok.sign \in {"++", "~~", "=="}]}
  BY DEF ParseConstraint
<1>2. kept \in Seq(ToSet(Words)) /\ (tok.sign = ":=" => Once(kept))
  <2>1. kept \in Seq(ToSet(Words)) /\ (OnceBeside("", tok.values) => Once(kept))
    BY KeptWords, Zenon DEF KnownToken
  <2>2. QED
    BY <2>1, Zenon DEF AsksOnce
<1>3. v \in Seq(ToSet(Words)) /\ (tok.sign = ":=" => v = kept)
  <2> HIDE DEF kept
  <2>1. "true" \in ToSet(Words) /\ "false" \in ToSet(Words)
    BY BuildsAssumption
  <2>2. <<"true">> \in Seq(ToSet(Words)) /\ <<"false">> \in Seq(ToSet(Words))
    BY <2>1, OneWord, Zenon
  <2>3. QED
    BY <1>2, <2>2
<1> HIDE DEF v, kept
<1>4. Len(v) # 0
  BY <1>1, <1>3, EmptySeq
<1>5. c = [values |-> SortedWords(v), exact |-> tok.sign = ":=",
           propagate |-> tok.sign \in {"++", "~~", "=="}]
  BY <1>1
<1>6. ParseConstraint(tok) = {c} /\ c.values = SortedWords(v) /\ c.exact = (tok.sign = ":=")
  BY <1>1, <1>5
<1>7. QED
  BY <1>2, <1>3, <1>4, <1>6

(* Who meets a constraint has what the token asked for.                    *)
LEMMA MetIs ==
  ASSUME NEW tok, KnownToken(tok), AsksOnce(tok),
         NEW c \in ParseConstraint(tok), NEW spec, IsSpec(spec), NEW n
  PROVE  (/\ n \in DOMAIN spec.variants
          /\ ToSet(c.values) \subseteq ToSet(spec.variants[n])
          /\ c.exact => Len(spec.variants[n]) = Len(c.values)) <=>
           IF tok.sign = ":=" THEN Values(spec, n) = c.values
           ELSE ToSet(c.values) \subseteq ToSet(Values(spec, n))
<1> DEFINE W == ToSet(Words)
           have == spec.variants[n]
<1>1. PICK v \in Seq(W) :
        /\ c.values = SortedWords(v) /\ Len(v) # 0
        /\ tok.sign = ":=" => Once(v)
  BY ParsedIs
<1>2. c.exact = (tok.sign = ":=")
  BY ParsedIs
<1>3. /\ c.values \in Seq(W) /\ Len(c.values) = Len(v)
      /\ ToSet(c.values) = ToSet(v)
  BY <1>1, SortedIs, SortedSet
<1>4. Len(c.values) # 0 /\ ToSet(c.values) # {}
  <2>1. 1 \in DOMAIN v
    <3>1. DOMAIN v = 1 .. Len(v) /\ Len(v) \in Nat
      BY LenProperties
    <3> HIDE DEF W
    <3>2. QED
      BY <1>1, <3>1
  <2>2. v[1] \in ToSet(v)
    BY <2>1 DEF ToSet
  <2>3. QED
    BY <1>1, <1>3, <2>2
<1>5. CASE n \notin DOMAIN spec.variants
  <2>1. Values(spec, n) = <<>>
    BY <1>5 DEF Values
  <2>2. ToSet(<<>>) = {} /\ Len(<<>>) = 0
    <3>1. DOMAIN <<>> = {}
      OBVIOUS
    <3>2. QED
      BY <3>1 DEF ToSet
  <2>3. Values(spec, n) # c.values /\ ~(ToSet(c.values) \subseteq ToSet(Values(spec, n)))
    BY <1>4, <2>1, <2>2
  <2>4. QED
    BY <1>5, <2>3
<1>6. CASE n \in DOMAIN spec.variants
  <2>1. Values(spec, n) = SortedWords(have) /\ have \in Seq(W)
    BY <1>6 DEF Values, IsSpec
  <2>2. ToSet(Values(spec, n)) = ToSet(have) /\ Len(Values(spec, n)) = Len(have)
    BY <2>1, SortedIs, SortedSet
  <2>3. ASSUME tok.sign = ":=", ToSet(c.values) \subseteq ToSet(have), Len(have) = Len(c.values)
        PROVE  Values(spec, n) = c.values
    <3>1. \A i, j \in DOMAIN v : v[i] = v[j] => i = j
      BY <1>1, <2>3 DEF Once
    <3>2. ToSet(v) \subseteq ToSet(have) /\ Len(v) = Len(have)
      BY <1>3, <2>3
    <3> HIDE DEF have, W
    <3>3. SortedWords(v) = SortedWords(have)
      BY <2>1, <3>1, <3>2, SortedAlike DEF W
    <3>4. QED
      BY <1>1, <2>1, <3>3
  <2>4. Values(spec, n) = c.values =>
          ToSet(c.values) \subseteq ToSet(have) /\ Len(have) = Len(c.values)
    BY <2>2
  <2> HIDE DEF have
  <2>5. QED
    BY <1>2, <1>6, <2>2, <2>3, <2>4 DEF have
<1>7. QED
  BY <1>5, <1>6

(* A question that is answered does not contradict itself: of two tokens   *)
(* for one name that differ, the closest two would have clashed.           *)
LEMMA NoContradiction ==
  ASSUME NEW toks, IsQuestion(toks), NEW cs \in ParseConstraints(toks)
  PROVE  /\ DOMAIN cs = {toks[i].name : i \in DOMAIN toks}
         /\ \A i \in DOMAIN toks : cs[toks[i].name] \in ParseConstraint(toks[i])
         /\ \A i, j \in DOMAIN toks :
              toks[i].name = toks[j].name => ParseConstraint(toks[i]) = ParseConstraint(toks[j])
<1> DEFINE D == DOMAIN toks
           names == {toks[i].name : i \in D}
           NameOf(i) == toks[i].name
           Parsed(i) == ParseConstraint(toks[i])
           PutBy(i) == CHOOSE c \in ParseConstraint(toks[i]) : TRUE
           Latest(n) == Max({i \in D : toks[i].name = n})
<1>1. \A i \in D : Parsed(i) # {}
  BY DEF ParseConstraints
<1>2. ~\E i, j \in D :
         /\ i < j /\ NameOf(i) = NameOf(j)
         /\ \A k \in i+1 .. j-1 : NameOf(k) # NameOf(i)
         /\ PutBy(i) # PutBy(j)
  BY DEF ParseConstraints, SameConstraint
<1>3. cs = [n \in names |-> PutBy(Latest(n))]
  BY DEF ParseConstraints
<1>4. \A i \in D : Parsed(i) = {PutBy(i)}
  <2>1. \A i \in D : \A c, d \in Parsed(i) : c = d
    BY DEF ParseConstraint
  <2>2. \A i \in D : PutBy(i) \in Parsed(i)
    BY <1>1
  <2>3. QED
    BY <2>1, <2>2
<1>5. D = 1 .. Len(toks) /\ Len(toks) \in Nat
  BY DEF IsQuestion
<1>6. \A n \in names : Latest(n) \in D /\ NameOf(Latest(n)) = n
  <2> SUFFICES ASSUME NEW n \in names PROVE Latest(n) \in D /\ NameOf(Latest(n)) = n
    OBVIOUS
  <2> DEFINE at == {i \in D : toks[i].name = n}
  <2>1. at \in SUBSET D /\ at # {}
    OBVIOUS
  <2> HIDE DEF at
  <2>2. IsFiniteSet(D) /\ D \subseteq Nat
    BY <1>5, FS_Interval
  <2> HIDE DEF D
  <2>5. IsFiniteSet(at) /\ at \subseteq Nat
    BY <2>1, <2>2, FS_Subset
  <2>3. Max(at) \in at
    BY <2>1, <2>5, MaxIs
  <2>4. QED
    BY <2>3 DEF at
<1> HIDE DEF D, names, NameOf, Parsed, PutBy, Latest
<1>7. \A i, j \in D : NameOf(i) = NameOf(j) => PutBy(i) = PutBy(j)
  <2> DEFINE Far(d) == \E i, j \in D : j = i + d /\ NameOf(i) = NameOf(j) /\ PutBy(i) # PutBy(j)
             far == {d \in Nat \ {0} : Far(d)}
  <2> SUFFICES ASSUME NEW i \in D, NEW j \in D, NameOf(i) = NameOf(j), PutBy(i) # PutBy(j)
               PROVE  FALSE
    OBVIOUS
  <2>1. far # {}
    <3>1. i \in Nat /\ j \in Nat /\ i # j
      BY <1>5
    <3>2. CASE i < j
      <4>1. j - i \in Nat \ {0} /\ j = i + (j - i)
        BY <3>1, <3>2
      <4>2. Far(j - i)
        BY <4>1
      <4> HIDE DEF Far
      <4>3. QED
        BY <4>1, <4>2
    <3>3. CASE j < i
      <4>1. i - j \in Nat \ {0} /\ i = j + (i - j)
        BY <3>1, <3>3
      <4>2. Far(i - j)
        BY <4>1
      <4> HIDE DEF Far
      <4>3. QED
        BY <4>1, <4>2
    <3>4. QED
      BY <3>1, <3>2, <3>3
  <2>2. PICK d \in far : \A e \in far : d <= e
    <3> HIDE DEF Far
    <3>1. far \subseteq Nat
      OBVIOUS
    <3> HIDE DEF far
    <3>2. QED
      BY <2>1, <3>1, Least
  <2>3. PICK a \in D, b \in D : b = a + d /\ NameOf(a) = NameOf(b) /\ PutBy(a) # PutBy(b)
    OBVIOUS
  <2>4. d \in Nat \ {0} /\ a \in Nat /\ b \in Nat
    BY <1>5
  <2>5. ASSUME NEW k \in a+1 .. b-1, NameOf(k) = NameOf(a)
        PROVE  FALSE
    <3>1. k \in D /\ k - a \in Nat \ {0} /\ b - k \in Nat \ {0} /\ k - a < d /\ b - k < d
            /\ k = a + (k - a) /\ b = k + (b - k)
      BY <1>5, <2>3, <2>4, <2>5
    <3>2. PutBy(k) # PutBy(a) \/ PutBy(k) # PutBy(b)
      BY <2>3
    <3>3. Far(k - a) \/ Far(b - k)
      BY <2>3, <2>5, <3>1, <3>2
    <3> HIDE DEF Far
    <3>4. k - a \in far \/ b - k \in far
      BY <3>1, <3>3
    <3> HIDE DEF far
    <3>5. d <= k - a \/ d <= b - k
      BY <2>2, <3>4
    <3>6. QED
      BY <2>4, <3>1, <3>5
  <2>6. a < b
    BY <2>3, <2>4
  <2>7. QED
    BY <1>2, <2>3, <2>5, <2>6
<1>8. \A i \in D : cs[NameOf(i)] = PutBy(i)
  <2> SUFFICES ASSUME NEW i \in D PROVE cs[NameOf(i)] = PutBy(i)
    OBVIOUS
  <2>1. NameOf(i) \in names
    BY DEF names, NameOf
  <2>2. QED
    BY <1>3, <1>6, <1>7, <2>1
<1>9. \A i, j \in D : NameOf(i) = NameOf(j) => Parsed(i) = Parsed(j)
  BY <1>4, <1>7
<1>10. DOMAIN cs = names /\ \A i \in D : cs[NameOf(i)] \in Parsed(i)
  BY <1>3, <1>4, <1>8
<1>11. QED
  BY <1>9, <1>10 DEF D, names, NameOf, Parsed

(* No exact request repeats a value.                                       *)
AskedOnce == \A toks \in Questions : \A i \in DOMAIN toks : AsksOnce(toks[i])

(* What a build has of what a token asks for, as ChosenSoundly has it.     *)
MetBy(spec, tok) ==
  \E c \in ParseConstraint(tok) :
     LET have == Values(spec, tok.name)
     IN  IF tok.sign = ":=" THEN have = c.values
         ELSE ToSet(c.values) \subseteq ToSet(have)

(* To satisfy the constraints is to meet every token.                      *)
LEMMA SatisfiesIs ==
  ASSUME AskedOnce, NEW toks \in Questions, NEW cs \in ParseConstraints(toks),
         NEW spec, IsSpec(spec)
  PROVE  Satisfies(cs, spec.variants) <=> \A i \in DOMAIN toks : MetBy(spec, toks[i])
<1>1. IsQuestion(toks)
  BY BuildsAssumption
<1>2. /\ DOMAIN cs = {toks[i].name : i \in DOMAIN toks}
      /\ \A i \in DOMAIN toks : cs[toks[i].name] \in ParseConstraint(toks[i])
  BY <1>1, NoContradiction
<1> DEFINE Sat(n) == /\ n \in DOMAIN spec.variants
                     /\ ToSet(cs[n].values) \subseteq ToSet(spec.variants[n])
                     /\ cs[n].exact => Len(spec.variants[n]) = Len(cs[n].values)
<1>3. ASSUME NEW i \in DOMAIN toks PROVE Sat(toks[i].name) <=> MetBy(spec, toks[i])
  <2> DEFINE tok == toks[i]
             n == tok.name
             c == cs[n]
  <2>1. KnownToken(tok)
    BY <1>1 DEF IsQuestion, KnownToken
  <2>2. AsksOnce(tok)
    BY DEF AskedOnce
  <2>3. c \in ParseConstraint(tok)
    BY <1>2
  <2> HIDE DEF tok
  <2>4. Sat(n) <=> IF tok.sign = ":=" THEN Values(spec, n) = c.values
                   ELSE ToSet(c.values) \subseteq ToSet(Values(spec, n))
    BY <2>1, <2>2, <2>3, MetIs
  <2>5. \A e \in ParseConstraint(tok) : e = c
    BY <2>1, <2>2, <2>3, ParsedIs
  <2> HIDE DEF Sat, c
  <2>6. Sat(n) <=> MetBy(spec, tok)
    BY <2>3, <2>4, <2>5 DEF MetBy
  <2>7. QED
    BY <2>6 DEF tok
<1>4. Satisfies(cs, spec.variants) <=> \A n \in DOMAIN cs : Sat(n)
  BY DEF Satisfies
<1> HIDE DEF Sat
<1>5. QED
  BY <1>2, <1>3, <1>4

-----------------------------------------------------------------------------
(* The properties.                                                         *)

(* A listing has every build once and all that are installed; it marks as  *)
(* published only what has a tag or, when there are none, what the second  *)
(* distribution has; it misses no tag but one that another spelling of the *)
(* build stands for, and claims nothing for a registry that did not        *)
(* answer, while others publish and install (BuildsOf).                    *)
THEOREM NothingOverlookedHolds == Spec => []NothingOverlooked
<1>1. IInv => NothingOverlooked
  <2> SUFFICES ASSUME IInv, call.at \in {"describing", "failed", "done"}
               PROVE  NothingOverlooked
    BY DEF NothingOverlooked
  <2> DEFINE rows == call.rows
             had == call.had
             timed == {<<r.hash, r.time>> : r \in {q \in ToSet(rows) : q.time # 0}}
             there == {<<d.hash, had[d]>> : d \in {e \in DOMAIN had : e.raw = Version}}
             shown == {r.hash : r \in {q \in ToSet(rows) : q.published}}
  <2>1. InstalledRows(rows, had) /\ PublishedRows(call.at, rows, call.saw)
    BY DEF IInv, RowsInv
  <2>2. \A i, j \in DOMAIN rows : i < j => HashBefore(rows[i].hash, rows[j].hash)
    BY <2>1 DEF InstalledRows
  <2>3. timed \subseteq there
    <3> SUFFICES ASSUME NEW i \in DOMAIN rows, rows[i].time # 0
                 PROVE  <<rows[i].hash, rows[i].time>> \in there
      BY DEF ToSet
    <3>1. PICK d \in DOMAIN had :
            d.raw = Version /\ d.hash = rows[i].hash /\ had[d] = rows[i].time
      BY <2>1 DEF InstalledRows
    <3>2. QED
      BY <3>1
  <2>4. there \subseteq timed
    <3> SUFFICES ASSUME NEW d \in DOMAIN had, d.raw = Version
                 PROVE  <<d.hash, had[d]>> \in timed
      OBVIOUS
    <3>1. PICK i \in DOMAIN rows : rows[i].hash = d.hash /\ rows[i].time = had[d]
      BY <2>1 DEF InstalledRows
    <3>2. rows[i].time # 0 /\ rows[i] \in ToSet(rows)
      BY <3>1 DEF IInv, CallInv, ToSet
    <3>3. QED
      BY <3>1, <3>2
  <2>5. call.at = "failed" => (shown = {} /\ \A r \in ToSet(rows) : r.time # 0)
    BY <2>1 DEF PublishedRows, ToSet
  <2>6. ASSUME call.at # "failed"
        PROVE  /\ \A h \in shown : h \in HashesOf(DOMAIN registry) \/ (h = NoHash /\ call.saw = {})
               /\ \A t \in {u \in call.saw : u.raw = Version} :
                    t.hash \in shown \/ \E u \in DOMAIN registry : StandsIn(u, t)
    <3>1. /\ \A t \in call.saw : t.raw = Version =>
               \/ \E i \in DOMAIN rows : rows[i].published /\ rows[i].hash = t.hash
               \/ \E u \in DOMAIN registry : StandsIn(u, t)
          /\ \A i \in DOMAIN rows :
               rows[i].published => \/ rows[i].hash \in HashesOf(DOMAIN registry)
                                    \/ (rows[i].hash = NoHash /\ call.saw = {})
      BY <2>1, <2>6 DEF PublishedRows
    <3>2. /\ \A i \in DOMAIN rows : rows[i].published => rows[i].hash \in shown
          /\ \A h \in shown : \E i \in DOMAIN rows : rows[i].published /\ rows[i].hash = h
      BY DEF ToSet
    <3> HIDE DEF shown, rows
    <3>3. QED
      BY <3>1, <3>2
  <2>7. \A h \in HashesOf(DOMAIN registry) : [raw |-> Version, hash |-> h] \in DOMAIN registry
    BY DEF HashesOf, IInv, SourcesInv, IsName
  <2>8. \A h \in shown : \/ [raw |-> Version, hash |-> h] \in DOMAIN registry
                         \/ (h = NoHash /\ call.saw = {})
    BY <2>5, <2>6, <2>7
  <2>9. timed = there
    BY <2>3, <2>4
  <2>10. QED
    BY <2>2, <2>5, <2>6, <2>8, <2>9, Zenon DEF NothingOverlooked, StandsIn
<1>2. QED
  BY <1>1, Invariance, PTL

(* Part of a hash that named a build never names another, as long as each  *)
(* build is published under one spelling (MatchBuild).                     *)
THEOREM NamesHoldAlways == Spec => []NamesHold
<1>1. IInv => NamesHold
  BY DEF IInv, NamedInv
<1>2. QED
  BY <1>1, Invariance, PTL

(* The order of a listing depends on what is listed only, and a build      *)
(* stands behind each that is later, unless more stands before that one    *)
(* (SortBuilds, closureRank).                                              *)
THEOREM OrderStandsHolds == Spec => []OrderStands
<1>1. IInv => OrderStands
  <2> SUFFICES ASSUME IInv, call.at = "done"
               PROVE  OrderStands
    BY DEF OrderStands
  <2> DEFINE rows == call.rows
             late == SortBuilds(rows, "closure")
             Later(i, j) == ClosureIsLater(late[i].spec, late[j].spec)
  <2>1. InstalledRows(rows, call.had) /\ \A d \in DOMAIN call.had : call.had[d] \in Nat
    BY DEF IInv, RowsInv, CallInv
  <2>2. Sortable(rows)
    <3>1. \A i \in DOMAIN rows : rows[i].hash \in Seq(Nat) /\ rows[i].time \in Nat
      <4> SUFFICES ASSUME NEW i \in DOMAIN rows
                   PROVE  rows[i].hash \in Seq(Nat) /\ rows[i].time \in Nat
        OBVIOUS
      <4>1. IsRow(rows[i])
        BY <2>1 DEF InstalledRows
      <4>2. CASE rows[i].time = 0
        BY <4>1, <4>2 DEF IsRow
      <4>3. CASE rows[i].time # 0
        <5>1. PICK d \in DOMAIN call.had : call.had[d] = rows[i].time
          BY <2>1, <4>3 DEF InstalledRows
        <5>2. QED
          BY <2>1, <4>1, <5>1 DEF IsRow
      <4>4. QED
        BY <4>2, <4>3
    <3>2. \A i, j \in DOMAIN rows : rows[i].hash = rows[j].hash => i = j
      <4> SUFFICES ASSUME NEW i \in DOMAIN rows, NEW j \in DOMAIN rows,
                          rows[i].hash = rows[j].hash
                   PROVE  i = j
        OBVIOUS
      <4>1. i \in Nat /\ j \in Nat
        BY <2>1 DEF InstalledRows
      <4>2. ~(i < j) /\ ~(j < i)
        BY <2>1, <3>1, HashIrreflexive DEF InstalledRows
      <4>3. QED
        BY <4>1, <4>2
    <3>3. QED
      BY <2>1, <3>1, <3>2 DEF Sortable, InstalledRows
  <2> HIDE DEF rows
  <2>3. \A by \in {"hash", "status", "installed", "closure"},
           p \in Bijection(DOMAIN rows, DOMAIN rows) :
          SortBuilds([i \in DOMAIN rows |-> rows[p[i]]], by) = SortBuilds(rows, by)
    BY <2>2, SortUnmoved
  <2>4. ASSUME NEW i \in DOMAIN late, NEW j \in DOMAIN late, Later(i, j),
               \A k \in DOMAIN late : Later(k, i) => Later(k, j)
        PROVE  i < j
    <3>1. /\ late \in Seq(ToSet(rows)) /\ ToSet(late) = ToSet(rows)
          /\ Ascends(rows, "closure", late)
      BY <2>2, SortSorts
    <3> HIDE DEF late
    <3>2. late[i] \in ToSet(rows) /\ late[j] \in ToSet(rows) /\ i \in Nat /\ j \in Nat
      BY <3>1
    <3>3. \A c \in ToSet(rows) : ClosureIsLater(c.spec, late[i].spec)
                                  => ClosureIsLater(c.spec, late[j].spec)
      <4>1. \A c \in ToSet(rows) : \E k \in DOMAIN late : late[k] = c
        BY <3>1 DEF ToSet
      <4>2. QED
        BY <2>4, <4>1
    <3>4. Less(rows, "closure", late[i], late[j])
      BY <2>2, <2>4, <3>2, <3>3, LaterRanksBefore
    <3>5. ~(j < i)
      <4> SUFFICES ASSUME j < i PROVE FALSE
        OBVIOUS
      <4>1. Less(rows, "closure", late[j], late[i])
        BY <3>1 DEF Ascends
      <4>2. QED
        BY <2>2, <3>2, <3>4, <4>1, LessOrders
    <3>6. i # j
      BY <2>2, <3>2, <3>4, LessOrders
    <3>7. QED
      BY <3>2, <3>5, <3>6
  <2> HIDE DEF late
  <2>5. QED
    BY <2>3, <2>4 DEF OrderStands, rows, late
<1>2. QED
  BY <1>1, Invariance, PTL

(* No two specs that may be written have the digest of one build unless    *)
(* they are of that build, and no build has the hash of nothing.           *)
NoCollision ==
  /\ NoHash \notin DOMAIN Truth
  /\ \A a \in AnyAnnotation \ {Garbage}, h \in DOMAIN Truth :
       Hash(a.spec) = h => SameBuild(a.spec, Truth[h])

(* Who asks for options, repeating no value of an exact request, gets the  *)
(* builds that meet all that was asked, withdrawn ones only where all are; *)
(* no answer to what contradicts itself; and a build's own reason          *)
(* (ParseConstraints, Satisfies, PreferNotWithdrawn, WithdrawalOf).        *)
THEOREM ChosenSoundlyHolds ==
  ASSUME AskedOnce
  PROVE  Spec => []ChosenSoundly
<1>1. IInv /\ WithdrawnInv => ChosenSoundly
  <2> SUFFICES ASSUME IInv, WithdrawnInv, call.at = "done"
               PROVE  ChosenSoundly
    BY DEF ChosenSoundly
  <2> DEFINE rows == call.rows
             Met(b, tok) == MetBy(b.spec, tok)
             Meet(toks) == {b \in ToSet(rows) : \A i \in DOMAIN toks : Met(b, toks[i])}
             Good(toks) ==
               {b \in Meet(toks) : ~\E i \in DOMAIN withdrawn :
                  withdrawn[i].version = Version /\ withdrawn[i].hash \in {NoHash, b.hash}}
             Those(cs) == {i \in DOMAIN rows : Satisfies(cs, rows[i].spec.variants)}
             Answer(cs) == ToSet(PreferNotWithdrawn(Kept(rows, Those(cs))))
             Right(toks) == IF Good(toks) = {} THEN Meet(toks) ELSE Good(toks)
  <2>1. ASSUME NEW toks \in Questions, NEW cs \in ParseConstraints(toks)
        PROVE  Answer(cs) = Right(toks)
    <3> DEFINE builds == Kept(rows, Those(cs))
               kept == {b \in ToSet(builds) : ~IsWithdrawn(b)}
    <3>1. IsFiniteSet(DOMAIN rows) /\ DOMAIN rows \subseteq Nat
      BY DEF IInv, RowsInv, InstalledRows
    <3>2. Those(cs) \in SUBSET DOMAIN rows
      OBVIOUS
    <3>3. \A i \in DOMAIN rows :
            i \in Those(cs) <=> \A k \in DOMAIN toks : Met(rows[i], toks[k])
      <4>1. \A i \in DOMAIN rows : IsSpec(rows[i].spec)
        BY RowSpecs
      <4>2. QED
        BY <4>1, SatisfiesIs
    <3>4. Meet(toks) = {rows[i] : i \in Those(cs)}
      <4> HIDE DEF Those, Met
      <4>1. ToSet(rows) = {rows[i] : i \in DOMAIN rows}
        BY DEF ToSet
      <4>2. QED
        BY <3>2, <3>3, <4>1
    <3> HIDE DEF Those, Meet, rows
    <3>5. IsFiniteSet(Those(cs)) /\ Those(cs) \subseteq Nat
      BY <3>1, <3>2, FS_Subset
    <3>6. ToSet(builds) = Meet(toks) /\ Numbered(builds)
      BY <3>4, <3>5, KeptSet
    <3> HIDE DEF builds
    <3>7. kept = Good(toks)
      <4>1. \A b \in Meet(toks) :
              IsWithdrawn(b) <=> \E i \in DOMAIN withdrawn :
                 withdrawn[i].version = Version /\ withdrawn[i].hash \in {NoHash, b.hash}
        BY WithdrawalIs DEF IsWithdrawn
      <4>2. QED
        BY <3>6, <4>1
    <3>8. ToSet(PreferNotWithdrawn(builds)) = IF kept = {} THEN ToSet(builds) ELSE kept
      BY <3>6, PreferIs
    <3> HIDE DEF kept, Good
    <3>9. QED
      BY <3>6, <3>7, <3>8 DEF builds
  <2>2. ASSUME NEW toks \in Questions
        PROVE  /\ (\E i, j \in DOMAIN toks :
                     /\ toks[i].name = toks[j].name
                     /\ ParseConstraint(toks[i]) # ParseConstraint(toks[j])) =>
                    {Answer(cs) : cs \in ParseConstraints(toks)} = {}
               /\ {Answer(cs) : cs \in ParseConstraints(toks)} \subseteq {Right(toks)}
    <3>1. IsQuestion(toks)
      BY BuildsAssumption
    <3>2. \A cs \in ParseConstraints(toks) : \A i, j \in DOMAIN toks :
            toks[i].name = toks[j].name => ParseConstraint(toks[i]) = ParseConstraint(toks[j])
      BY <3>1, NoContradiction
    <3>3. \A cs \in ParseConstraints(toks) : Answer(cs) = Right(toks)
      BY <2>1
    <3> HIDE DEF Answer, Right
    <3>4. QED
      BY <3>2, <3>3
  <2>3. \A b \in ToSet(rows), i \in DOMAIN withdrawn :
          withdrawn[i].version = Version /\ withdrawn[i].hash = b.hash /\ b.hash # NoHash
            => WithdrawalOf(Version, b.hash)[1].hash = b.hash
    BY WithdrawalIs
  <2>4. QED
    BY <2>2, <2>3, Zenon DEF ChosenSoundly, MetBy
<1>2. QED
  BY <1>1, Invariance, WithdrawnInvariance, PTL

(* Builds of the same line are the same in all that a line has room for,   *)
(* the recipe included when there is nothing else to tell (Distinguish).   *)
THEOREM RowsTellApartHolds == Spec => []RowsTellApart
<1>1. IInv => RowsTellApart
  <2> SUFFICES ASSUME IInv, call.at = "done"
               PROVE  RowsTellApart
    BY DEF RowsTellApart
  <2> DEFINE rows == call.rows
             specs == [i \in DOMAIN rows |-> rows[i].spec]
             DepsOf(c) == {<<p, RenderDep(c, p)>> : p \in {d.project : d \in ToSet(c.deps)}}
             Tells(c, d) ==
               /\ <<c.platform, c.graft>> = <<d.platform, d.graft>>
               /\ \A n \in DOMAIN c.variants \cup DOMAIN d.variants :
                     RenderVariant(n, Values(c, n)) = RenderVariant(n, Values(d, n))
               /\ DepsOf(c) = DepsOf(d)
               /\ \/ Short(c.recipe) = Short(d.recipe)
                  \/ \E k \in DOMAIN rows : ~AlikeSpecs(rows[k].spec, c)
  <2>1. KnownSpecs(specs)
    <3>1. Numbered(rows)
      BY DEF IInv, RowsInv, InstalledRows
    <3>2. Numbered(specs)
      BY <3>1 DEF Numbered
    <3>3. QED
      BY <3>2, RowSpecs DEF KnownSpecs
  <2>2. ASSUME NEW i \in DOMAIN rows, NEW j \in DOMAIN rows,
               ~IsZero(specs[i]), ~IsZero(specs[j]), Distinguish(specs)[i] = Distinguish(specs)[j]
        PROVE  Tells(specs[i], specs[j])
    <3> DEFINE c == specs[i]
               d == specs[j]
    <3>1. LineParts(specs, c) = LineParts(specs, d)
      <4> HIDE DEF rows
      <4>1. i \in DOMAIN specs /\ j \in DOMAIN specs
        OBVIOUS
      <4> HIDE DEF specs
      <4>2. QED
        BY <2>1, <2>2, <4>1, LineIs, PartsTell
    <3>2. /\ PlatformParts(specs, c) = PlatformParts(specs, d)
          /\ OptionParts(specs, c) = OptionParts(specs, d)
          /\ NeedParts(specs, c) = NeedParts(specs, d)
          /\ GraftParts(specs, c) = GraftParts(specs, d)
      <4> HIDE DEF specs
      <4>1. QED
        BY <2>1, <3>1, PartsTell
    <3>3. i \in DOMAIN specs /\ j \in DOMAIN specs
      OBVIOUS
    <3> HIDE DEF specs
    <3>4. c.platform = d.platform
      BY <3>2, <3>3 DEF PlatformParts
    <3>5. c.graft = d.graft
      BY <3>2, <3>3 DEF GraftParts
    <3>6. ASSUME NEW n \in DOMAIN c.variants \cup DOMAIN d.variants
          PROVE  RenderVariant(n, Values(c, n)) = RenderVariant(n, Values(d, n))
      <4>1. PICK m \in Nat :
              /\ DOMAIN DifferingVariants(specs) = 1 .. m
              /\ \/ \E k \in 1 .. m : DifferingVariants(specs)[k] = n
                 \/ \A e \in DOMAIN specs : Values(specs[e], n) = Values(specs[1], n)
        BY <2>1, <3>3, DifferingVariantsAre
      <4>2. CASE \E k \in 1 .. m : DifferingVariants(specs)[k] = n
        <5>1. PICK k \in 1 .. m : DifferingVariants(specs)[k] = n
          BY <4>2
        <5>2. OptionParts(specs, c)[k] = OptionParts(specs, d)[k]
          BY <3>2
        <5>3. QED
          BY <4>1, <5>1, <5>2 DEF OptionParts
      <4>3. CASE \A e \in DOMAIN specs : Values(specs[e], n) = Values(specs[1], n)
        BY <3>3, <4>3
      <4>4. QED
        BY <4>1, <4>2, <4>3
    <3>7. DepsOf(c) = DepsOf(d)
      <4>1. \A p \in {e.project : e \in ToSet(c.deps)} :
              p \in {e.project : e \in ToSet(d.deps)} /\ RenderDep(c, p) = RenderDep(d, p)
        BY <2>1, <3>2, <3>3, NeedsTold
      <4>2. \A p \in {e.project : e \in ToSet(d.deps)} :
              p \in {e.project : e \in ToSet(c.deps)} /\ RenderDep(c, p) = RenderDep(d, p)
        BY <2>1, <3>2, <3>3, NeedsTold
      <4> HIDE DEF c, d
      <4>3. QED
        BY <4>1, <4>2
    <3>8. \/ Short(c.recipe) = Short(d.recipe)
          \/ \E k \in DOMAIN specs : ~AlikeSpecs(specs[k], c)
      BY <2>1, <2>2, <3>3, RecipeTold
    <3>9. \A k \in DOMAIN specs : k \in DOMAIN rows /\ specs[k] = rows[k].spec
      BY DEF specs
    <3>10. \/ Short(c.recipe) = Short(d.recipe)
           \/ \E k \in DOMAIN rows : ~AlikeSpecs(rows[k].spec, c)
      <4> HIDE DEF c, d, rows
      <4>1. QED
        BY <3>8, <3>9
    <3>11. <<c.platform, c.graft>> = <<d.platform, d.graft>>
      BY <3>4, <3>5
    <3>12. QED
      BY <3>6, <3>7, <3>10, <3>11, Zenon
  <2>3. \A i, j \in DOMAIN rows :
          LET c == rows[i].spec
              d == rows[j].spec
          IN  ~IsZero(c) /\ ~IsZero(d) /\ Distinguish(specs)[i] = Distinguish(specs)[j]
                => Tells(c, d)
    <3>1. \A i \in DOMAIN rows : specs[i] = rows[i].spec
      OBVIOUS
    <3> HIDE DEF specs, Tells
    <3>2. QED
      BY <2>2, <3>1
  <2>4. QED
    BY <2>3, Zenon DEF RowsTellApart, AlikeSpecs
<1>2. QED
  BY <1>1, Invariance, PTL

(* Whatever is written beside a build, before and while builds are listed, *)
(* a listing shows of it what its hash was computed from or nothing, as    *)
(* long as the digest of one does not collide with another's (VerifySpec). *)
THEOREM DescribedTrulyHolds ==
  ASSUME NoCollision
  PROVE  Spec => []DescribedTruly
<1>1. IInv => DescribedTruly
  <2> SUFFICES ASSUME IInv, NEW i \in DOMAIN call.rows,
                      call.rows[i].hash \in DOMAIN Truth, ~IsZero(call.rows[i].spec)
               PROVE  SameBuild(call.rows[i].spec, Truth[call.rows[i].hash])
    BY DEF DescribedTruly
  <2> DEFINE r == call.rows[i]
  <2>1. call.at # "idle"
    BY DEF IInv, CallInv
  <2>2. r.spec = NoSpec \/ \E a \in AnyAnnotation : r.spec \in VerifySpec(a, r.hash)
    BY <2>1 DEF IInv, RowsInv, DescribedRows
  <2>3. IsZero(NoSpec)
    <3>1. NoSpec.variants = <<>> /\ NoSpec.deps = <<>>
            /\ NoSpec.platform = "" /\ NoSpec.recipe = "" /\ NoSpec.graft = ""
      BY DEF NoSpec
    <3>2. DOMAIN <<>> = {}
      OBVIOUS
    <3>3. QED
      BY <3>1, <3>2, Zenon DEF IsZero
  <2>4. PICK a \in AnyAnnotation : r.spec \in VerifySpec(a, r.hash)
    BY <2>2, <2>3
  <2>5. a # Garbage /\ r.spec = a.spec /\ (r.hash = NoHash \/ Hash(r.spec) = r.hash)
    BY <2>4 DEF VerifySpec, UnmarshalSpec
  <2>6. QED
    BY <2>5 DEF NoCollision
<1>2. QED
  BY <1>1, Invariance, PTL

(* Locks are taken and read without a step of the builds, so that what is  *)
(* proved of these holds beside locks.                                     *)
THEOREM LocksImplementBuilds == LocksSpec => Spec
<1>1. LocksInit => Init
  BY DEF LocksInit
<1>2. [LocksNext]_<<vars, locks>> => [Next]_vars
  BY DEF LocksNext, TakeLock, ReadLock
<1>3. QED
  BY <1>1, <1>2, PTL DEF LocksSpec, Spec
-----------------------------------------------------------------------------
(* Catalogue: what is reached in so many steps.                            *)

(* What the steps from a set recur to.                                     *)
Steps(R, c, up, from, n) ==
  R = [k \in 0 .. n |-> IF k = 0 THEN from
                        ELSE Further(c, up, R[k - 1])]

(* Each step goes on from the one before.                                  *)
LEMMA StepsAre ==
  ASSUME NEW c, NEW up, NEW from, NEW n \in Nat, NEW R, Steps(R, c, up, from, n)
  PROVE  /\ R[0] = from
         /\ \A k \in 1 .. n :
              R[k] = Further(c, up, R[k - 1])
<1> DEFINE Next1(k) == IF k = 0 THEN from
                       ELSE Further(c, up, R[k - 1])
<1>1. R = [k \in 0 .. n |-> Next1(k)]
  BY DEF Steps
<1>2. Next1(0) = from
  OBVIOUS
<1>3. \A k \in 1 .. n :
        k \in 0 .. n /\ Next1(k) = Further(c, up, R[k - 1])
  OBVIOUS
<1> HIDE DEF Next1
<1>4. \A k \in 0 .. n : R[k] = Next1(k)
  BY <1>1
<1>5. QED
  BY <1>2, <1>3, <1>4

(* They are one more than up to the number before.                         *)
LEMMA StepsExtend ==
  ASSUME NEW c, NEW up, NEW from, NEW n \in Nat, NEW R, Steps(R, c, up, from, n)
  PROVE  \E Q : Steps(Q, c, up, from, n + 1)
<1> DEFINE last == Further(c, up, R[n])
           Q == [k \in 0 .. n + 1 |-> IF k = n + 1 THEN last ELSE R[k]]
           Next1(k) == IF k = 0 THEN from
                       ELSE Further(c, up, Q[k - 1])
<1>1. /\ R[0] = from
      /\ \A k \in 1 .. n : R[k] = Further(c, up, R[k - 1])
  BY StepsAre
<1>2. Q[n + 1] = last /\ \A k \in 0 .. n : Q[k] = R[k]
  OBVIOUS
<1>3. ASSUME NEW k \in 0 .. n + 1 PROVE Q[k] = Next1(k)
  <2>1. CASE k = 0
    BY <1>1, <1>2, <2>1
  <2>2. CASE k \in 1 .. n
    <3>1. k - 1 \in 0 .. n /\ k # 0
      BY <2>2
    <3>2. Q[k] = R[k] /\ Q[k - 1] = R[k - 1]
      BY <1>2, <2>2, <3>1
    <3>3. R[k] = Further(c, up, R[k - 1])
      BY <1>1, <2>2
    <3> HIDE DEF Q
    <3>4. QED
      BY <3>1, <3>2, <3>3
  <2>3. CASE k = n + 1
    <3>1. k - 1 = n /\ k # 0
      BY <2>3
    <3>2. Q[k] = last /\ Q[k - 1] = R[n]
      BY <1>2, <2>3, <3>1
    <3> HIDE DEF Q
    <3>3. QED
      BY <3>1, <3>2
  <2>4. QED
    BY <2>1, <2>2, <2>3
<1>4. Q = [k \in 0 .. n + 1 |-> Q[k]]
  OBVIOUS
<1> HIDE DEF Q
<1>5. Steps(Q, c, up, from, n + 1)
  BY <1>3, <1>4 DEF Steps
<1>6. QED
  BY <1>5

(* There are steps up to any number.                                       *)
LEMMA StepsExist ==
  ASSUME NEW c, NEW up, NEW from, NEW n \in Nat
  PROVE  \E R : Steps(R, c, up, from, n)
<1> DEFINE T == {m \in Nat : \A R : ~ Steps(R, c, up, from, m)}
<1> SUFFICES ASSUME T # {} PROVE FALSE
  OBVIOUS
<1>1. PICK m \in T : \A k \in T : m <= k
  BY Least
<1>2. CASE m = 0
  <2> DEFINE R == [k \in 0 .. 0 |-> from]
  <2>1. Steps(R, c, up, from, 0)
    <3>1. \A k \in 0 .. 0 : k = 0
      OBVIOUS
    <3>2. QED
      BY <3>1 DEF Steps
  <2>2. QED
    BY <1>1, <1>2, <2>1
<1>3. CASE m # 0
  <2>1. m - 1 \in Nat /\ m - 1 \notin T
    BY <1>1, <1>3
  <2>2. PICK R : Steps(R, c, up, from, m - 1)
    BY <2>1
  <2>3. PICK Q : Steps(Q, c, up, from, (m - 1) + 1)
    BY <2>1, <2>2, StepsExtend
  <2>4. (m - 1) + 1 = m
    BY <1>1
  <2>5. QED
    BY <1>1, <2>3, <2>4
<1>4. QED
  BY <1>2, <1>3

(* Going on further changes none of the steps before.                      *)
LEMMA StepsAgree ==
  ASSUME NEW c, NEW up, NEW from, NEW n \in Nat, NEW m \in Nat, NEW R, NEW Q,
         Steps(R, c, up, from, n), Steps(Q, c, up, from, m), n <= m
  PROVE  R[n] = Q[n]
<1> DEFINE T == {k \in 0 .. n : R[k] # Q[k]}
<1> SUFFICES ASSUME T # {} PROVE FALSE
  OBVIOUS
<1>0. T \subseteq Nat
  OBVIOUS
<1>1. R[0] = from /\ \A k \in 1 .. n : R[k] = Further(c, up, R[k - 1])
  BY StepsAre
<1>2. Q[0] = from /\ \A k \in 1 .. m : Q[k] = Further(c, up, Q[k - 1])
  BY StepsAre
<1>3. PICK k \in T : \A j \in T : k <= j
  <2> HIDE DEF T
  <2>1. QED
    BY <1>0, Least
<1>4. k \in 0 .. n /\ R[k] # Q[k]
  OBVIOUS
<1>5. k \in 1 .. n /\ k \in 1 .. m
  BY <1>1, <1>2, <1>4
<1>6. k - 1 \in 0 .. n /\ ~(k <= k - 1)
  BY <1>5
<1>7. R[k - 1] = Q[k - 1]
  BY <1>3, <1>6
<1>8. R[k] = Q[k]
  BY <1>1, <1>2, <1>5, <1>7
<1>9. QED
  BY <1>4, <1>8

(* What is within reach, step by step.                                     *)
LEMMA WithinSteps ==
  ASSUME NEW c, NEW up, NEW from, NEW n \in Nat
  PROVE  \E R : Steps(R, c, up, from, n) /\ Within(c, up, from, n) = R[n]
<1> DEFINE F == CHOOSE R : Steps(R, c, up, from, n)
<1>1. \E R : Steps(R, c, up, from, n)
  BY StepsExist
<1>2. Steps(F, c, up, from, n)
  BY <1>1, Zenon
<1>3. Within(c, up, from, n) = F[n]
  BY DEF Within, Steps
<1> HIDE DEF F
<1>4. QED
  BY <1>2, <1>3

(* In no step nothing but the start is reached.                            *)
LEMMA WithinNone ==
  ASSUME NEW c, NEW up, NEW from
  PROVE  Within(c, up, from, 0) = from
<1>1. PICK R : Steps(R, c, up, from, 0) /\ Within(c, up, from, 0) = R[0]
  BY WithinSteps
<1>2. QED
  BY <1>1, StepsAre

(* One more step reaches what is next to what was reached.                 *)
LEMMA WithinNext ==
  ASSUME NEW c, NEW up, NEW from, NEW n \in Nat
  PROVE  Within(c, up, from, n + 1) = Further(c, up, Within(c, up, from, n))
<1>1. PICK R : Steps(R, c, up, from, n) /\ Within(c, up, from, n) = R[n]
  BY WithinSteps
<1>2. n + 1 \in Nat /\ n <= n + 1 /\ n + 1 \in 1 .. n + 1 /\ (n + 1) - 1 = n
  OBVIOUS
<1>3. PICK Q : Steps(Q, c, up, from, n + 1) /\ Within(c, up, from, n + 1) = Q[n + 1]
  BY <1>2, WithinSteps
<1>4. R[n] = Q[n]
  BY <1>1, <1>2, <1>3, StepsAgree
<1>5. \A k \in 1 .. n + 1 : Q[k] = Further(c, up, Q[k - 1])
  BY <1>2, <1>3, StepsAre
<1>6. Q[n + 1] = Further(c, up, Q[n])
  BY <1>2, <1>5
<1>7. QED
  BY <1>1, <1>3, <1>4, <1>6

(* What was reached stays reached, its edges are reached one step later,   *)
(* and nothing else is.                                                    *)
LEMMA WithinStep ==
  ASSUME NEW c, NEW up, NEW from, NEW n \in Nat
  PROVE  /\ Within(c, up, from, n) \subseteq Within(c, up, from, n + 1)
         /\ \A p \in Within(c, up, from, n) :
              Edges(c, up, p) \subseteq Within(c, up, from, n + 1)
         /\ \A d \in Within(c, up, from, n + 1) :
              d \in Within(c, up, from, n)
                \/ \E p \in Within(c, up, from, n) : d \in Edges(c, up, p)
<1> DEFINE V == Within(c, up, from, n)
           W == Within(c, up, from, n + 1)
<1>1. W = Further(c, up, V)
  BY WithinNext
<1> HIDE DEF V, W
<1>2. /\ V \subseteq W
      /\ \A p \in V : Edges(c, up, p) \subseteq W
      /\ \A d \in W : d \in V \/ \E p \in V : d \in Edges(c, up, p)
  BY <1>1 DEF Further
<1>3. QED
  BY <1>2 DEF V, W

(* More steps reach no less.                                               *)
LEMMA WithinGrows ==
  ASSUME NEW c, NEW up, NEW from, NEW n \in Nat, NEW m \in Nat, m <= n
  PROVE  Within(c, up, from, m) \subseteq Within(c, up, from, n)
<1> DEFINE V == Within(c, up, from, m)
           T == {k \in Nat : m <= k /\ ~(V \subseteq Within(c, up, from, k))}
<1> SUFFICES ASSUME T # {} PROVE FALSE
  OBVIOUS
<1>1. PICK k \in T : \A j \in T : k <= j
  BY Least
<1>2. k \in Nat /\ m <= k /\ ~(V \subseteq Within(c, up, from, k)) /\ k # m
  OBVIOUS
<1>3. k - 1 \in Nat /\ m <= k - 1 /\ (k - 1) + 1 = k /\ ~(k <= k - 1)
  BY <1>2
<1>4. V \subseteq Within(c, up, from, k - 1)
  BY <1>1, <1>3
<1>5. Within(c, up, from, k - 1) \subseteq Within(c, up, from, (k - 1) + 1)
  BY <1>3, WithinStep
<1>6. QED
  BY <1>2, <1>3, <1>4, <1>5

(* Nothing that has all of its edges inside is ever left.                  *)
LEMMA WithinClosed ==
  ASSUME NEW c, NEW up, NEW from, NEW S, from \subseteq S,
         \A p \in S : Edges(c, up, p) \subseteq S,
         NEW n \in Nat
  PROVE  Within(c, up, from, n) \subseteq S
<1> DEFINE T == {k \in Nat : ~(Within(c, up, from, k) \subseteq S)}
<1> SUFFICES ASSUME T # {} PROVE FALSE
  OBVIOUS
<1>1. PICK k \in T : \A j \in T : k <= j
  BY Least
<1>2. k \in Nat /\ ~(Within(c, up, from, k) \subseteq S) /\ k # 0
  BY WithinNone
<1>3. k - 1 \in Nat /\ (k - 1) + 1 = k /\ ~(k <= k - 1)
  BY <1>2
<1>4. Within(c, up, from, k - 1) \subseteq S
  BY <1>1, <1>3
<1>5. \A d \in Within(c, up, from, (k - 1) + 1) :
        \/ d \in Within(c, up, from, k - 1)
        \/ \E p \in Within(c, up, from, k - 1) : d \in Edges(c, up, p)
  BY <1>3, WithinStep
<1>6. Within(c, up, from, k) \subseteq S
  BY <1>3, <1>4, <1>5
<1>7. QED
  BY <1>2, <1>6

-----------------------------------------------------------------------------
(* Catalogue: what a reader has, and what is next to what.                 *)

(* A catalogue as a reader holds it.                                       *)
Sound(c) ==
  /\ c.projects \in Seq(Entry)
  /\ \A i \in DOMAIN c.projects :
        /\ c.projects[i].project \notin BadNames
        /\ \A j \in DOMAIN c.projects[i].deps : c.projects[i].deps[j] \notin BadNames
        /\ \A j \in DOMAIN c.projects[i].versions :
              c.projects[i].versions[j] \notin BadVersions
  /\ \A i, j \in DOMAIN c.projects :
        c.projects[i].project = c.projects[j].project => i = j

(* There are finitely many projects.                                       *)
LEMMA NamesFinite == IsFiniteSet(ProjectName)
<1> DEFINE f == [i \in DOMAIN NameOrder |-> NameOrder[i]]
<1>1. NameOrder \in Seq(ProjectName)
  BY CatalogueAssumption
<1>2. DOMAIN NameOrder = 1 .. Len(NameOrder) /\ Len(NameOrder) \in Nat
  BY <1>1
<1>3. IsFiniteSet(DOMAIN NameOrder)
  BY <1>2, FS_Interval
<1>4. ProjectName = {NameOrder[i] : i \in DOMAIN NameOrder}
  BY DEF ProjectName, ToSet
<1>5. IsFiniteSet({NameOrder[i] : i \in DOMAIN NameOrder})
  BY <1>3, FiniteImage
<1>6. QED
  BY <1>4, <1>5

(* The rank of a project is its place.                                     *)
LEMMA RankIs ==
  ASSUME NEW p \in ProjectName
  PROVE  Rank(p) \in DOMAIN NameOrder /\ NameOrder[Rank(p)] = p /\ Rank(p) \in Nat
<1>1. \E i \in DOMAIN NameOrder : NameOrder[i] = p
  BY DEF ProjectName, ToSet
<1>2. Rank(p) \in DOMAIN NameOrder /\ NameOrder[Rank(p)] = p
  BY <1>1 DEF Rank
<1>3. DOMAIN NameOrder \subseteq Nat
  BY CatalogueAssumption
<1>4. QED
  BY <1>2, <1>3

(* A set by name has every one of it.                                      *)
LEMMA ByNameIs ==
  ASSUME NEW S, S \subseteq ProjectName
  PROVE  /\ Cardinality(S) \in Nat
         /\ ByName(S) \in [1 .. Cardinality(S) -> S]
         /\ \A p \in S : \E i \in 1 .. Cardinality(S) : ByName(S)[i] = p
<1> DEFINE before == {p \in S \X S : Rank(p[1]) < Rank(p[2])}
<1>1. IsFiniteSet(S)
  BY NamesFinite, FS_Subset
<1>2. /\ \A p \in S : Rank(p) \in Nat
      /\ \A p, q \in S : Rank(p) = Rank(q) => p = q
  BY RankIs
<1>3. \A p, q \in S : <<p, q>> \in before <=> Rank(p) < Rank(q)
  OBVIOUS
<1>4. ByName(S) = Ranked(S, before)
  BY DEF ByName
<1> HIDE DEF before
<1>5. Orders(S, before)
  BY <1>2, <1>3 DEF Orders
<1>6. /\ Ranked(S, before) \in [1 .. Cardinality(S) -> S]
      /\ Cardinality(S) \in Nat
      /\ \A r \in S : \E i \in 1 .. Cardinality(S) : Ranked(S, before)[i] = r
  BY <1>1, <1>5, RankedSorts
<1>7. QED
  BY <1>4, <1>6

(* The first by name of a set is one of it.                                *)
LEMMA FirstIs ==
  ASSUME NEW S, S \subseteq ProjectName, S # {}
  PROVE  First(S) \in S
<1>1. /\ Cardinality(S) \in Nat
      /\ ByName(S) \in [1 .. Cardinality(S) -> S]
      /\ \A p \in S : \E i \in 1 .. Cardinality(S) : ByName(S)[i] = p
  BY ByNameIs
<1>2. 1 \in 1 .. Cardinality(S)
  BY <1>1
<1>3. QED
  BY <1>1, <1>2 DEF First

(* What a project needs and what needs it are names, and only a name needs *)
(* something.                                                              *)
LEMMA EdgesAre ==
  ASSUME NEW c, Sound(c), NEW up \in BOOLEAN, NEW p
  PROVE  /\ Edges(c, up, p) \subseteq ProjectName
         /\ \A d \in Edges(c, up, p) : d # <<>>
         /\ ~up /\ Edges(c, up, p) # {} => p # <<>>
<1>1. /\ c.projects \in Seq(Entry)
      /\ \A i \in DOMAIN c.projects :
            /\ c.projects[i] \in Entry
            /\ c.projects[i].project \in ProjectName /\ c.projects[i].project # <<>>
            /\ c.projects[i].deps \in Seq(ProjectName)
            /\ \A j \in DOMAIN c.projects[i].deps :
                  c.projects[i].deps[j] \in ProjectName /\ c.projects[i].deps[j] # <<>>
  <2>1. c.projects \in Seq(Entry)
    BY DEF Sound
  <2>2. ASSUME NEW i \in DOMAIN c.projects
        PROVE  /\ c.projects[i] \in Entry
               /\ c.projects[i].project \in ProjectName /\ c.projects[i].deps \in Seq(ProjectName)
    <3>1. c.projects[i] \in Entry
      BY <2>1
    <3>2. QED
      BY <3>1 DEF Entry
  <2>3. <<>> \in BadNames
    BY CatalogueAssumption
  <2>4. QED
    BY <2>1, <2>2, <2>3 DEF Sound
<1>2. CASE up
  <2>1. ASSUME NEW d \in Edges(c, up, p) PROVE d \in ProjectName /\ d # <<>>
    <3>1. PICK e \in ToSet(c.projects) : d = e.project
      BY <1>2, <2>1 DEF Edges
    <3>2. PICK i \in DOMAIN c.projects : e = c.projects[i]
      BY <3>1 DEF ToSet
    <3>3. QED
      BY <1>1, <3>1, <3>2
  <2>2. QED
    BY <1>2, <2>1
<1>3. CASE ~up
  <2>1. CASE p \in Listed(c)
    <3>1. \E i \in DOMAIN c.projects : c.projects[i].project = p
      BY <2>1 DEF Listed
    <3>2. PICK i \in DOMAIN c.projects : c.projects[i].project = p /\ Of(c, p) = c.projects[i]
      BY <3>1 DEF Of
    <3>3. Edges(c, up, p) = {c.projects[i].deps[j] : j \in DOMAIN c.projects[i].deps}
      BY <1>3, <2>1, <3>2 DEF Edges, ToSet
    <3>4. QED
      BY <1>1, <1>3, <3>2, <3>3
  <2>2. CASE p \notin Listed(c)
    BY <1>3, <2>2 DEF Edges
  <2>3. QED
    BY <2>1, <2>2
<1>4. QED
  BY <1>2, <1>3

(* What is reached from names are names.                                   *)
LEMMA WithinNames ==
  ASSUME NEW c, Sound(c), NEW up \in BOOLEAN, NEW from, from \subseteq ProjectName, NEW n \in Nat
  PROVE  Within(c, up, from, n) \subseteq ProjectName
<1>1. \A p \in ProjectName : Edges(c, up, p) \subseteq ProjectName
  BY EdgesAre
<1>2. QED
  BY <1>1, WithinClosed

(* There are not more steps to make than there are names.                  *)
LEMMA WithinAll ==
  ASSUME NEW c, Sound(c), NEW up \in BOOLEAN, NEW from, from \subseteq ProjectName, from # {},
         NEW n \in Nat
  PROVE  Within(c, up, from, n) \subseteq Within(c, up, from, Len(NameOrder))
<1> DEFINE N == Len(NameOrder)
           T == {k \in Nat : /\ Within(c, up, from, k + 1) # Within(c, up, from, k)
                             /\ Cardinality(Within(c, up, from, k)) <= k}
<1>0. N \in Nat /\ T \subseteq Nat
  BY CatalogueAssumption
<1>1. IsFiniteSet(ProjectName) /\ Cardinality(ProjectName) <= N
  <2>1. NameOrder \in [1 .. N -> ProjectName] /\ ProjectName = {NameOrder[i] : i \in 1 .. N}
    BY CatalogueAssumption DEF ProjectName, ToSet
  <2>2. NameOrder \in Surjection(1 .. N, ProjectName)
    BY <2>1 DEF Surjection
  <2> HIDE DEF N, T
  <2>3. IsFiniteSet(1 .. N) /\ Cardinality(1 .. N) = N
    <3>1. 1 \in Int /\ N \in Int /\ N - 1 + 1 = N /\ (1 > N => N = 0)
      BY <1>0
    <3>2. QED
      BY <3>1, FS_Interval
  <2>4. QED
    BY <2>2, <2>3, FS_Surjection
<1>2. ASSUME NEW k \in Nat
      PROVE  /\ IsFiniteSet(Within(c, up, from, k))
             /\ Cardinality(Within(c, up, from, k)) \in Nat
             /\ Cardinality(Within(c, up, from, k)) <= N
  <2>1. Within(c, up, from, k) \in SUBSET ProjectName
    BY WithinNames
  <2>2. /\ IsFiniteSet(Within(c, up, from, k))
        /\ Cardinality(Within(c, up, from, k)) <= Cardinality(ProjectName)
    BY <1>1, <2>1, FS_Subset
  <2>3. Cardinality(Within(c, up, from, k)) \in Nat /\ Cardinality(ProjectName) \in Nat
    BY <1>1, <2>2, FS_CardinalityType
  <2>4. QED
    BY <1>0, <1>1, <2>2, <2>3
<1>3. T = {}
  <2> SUFFICES ASSUME T # {} PROVE FALSE
    OBVIOUS
  <2>1. PICK k \in T : \A j \in T : k <= j
    <3> HIDE DEF T
    <3>1. QED
      BY <1>0, Least
  <2>2. /\ k \in Nat
        /\ Within(c, up, from, k + 1) # Within(c, up, from, k)
        /\ Cardinality(Within(c, up, from, k)) <= k
    OBVIOUS
  <2>3. CASE k = 0
    <3>1. Within(c, up, from, 0) = from
      BY WithinNone
    <3>2. Cardinality(from) = 0
      BY <1>2, <2>2, <2>3, <3>1
    <3>3. QED
      BY <1>2, <3>1, <3>2, FS_EmptySet
  <2>4. CASE k # 0
    <3> DEFINE V == Within(c, up, from, k - 1)
               W == Within(c, up, from, k)
    <3>1. k - 1 \in Nat /\ (k - 1) + 1 = k /\ ~(k <= k - 1)
      BY <2>2, <2>4
    <3>2. k - 1 \notin T
      BY <2>1, <3>1
    <3>3. Within(c, up, from, (k - 1) + 1) = V \/ ~(Cardinality(V) <= k - 1)
      BY <3>1, <3>2
    <3>4. /\ Within(c, up, from, (k - 1) + 1) = Further(c, up, V)
          /\ Within(c, up, from, k + 1) = Further(c, up, W)
      BY <2>2, <3>1, WithinNext
    <3>5. Within(c, up, from, k - 1) \subseteq Within(c, up, from, (k - 1) + 1)
      BY <3>1, WithinStep
    <3>6. V # W
      <4> HIDE DEF V, W
      <4>1. V = W => Further(c, up, V) = Further(c, up, W)
        OBVIOUS
      <4>2. QED
        BY <2>2, <3>1, <3>4, <4>1 DEF W
    <3>7. W = Within(c, up, from, (k - 1) + 1)
      BY <3>1
    <3>8. V \in SUBSET W /\ ~(Cardinality(V) <= k - 1)
      BY <3>3, <3>5, <3>6, <3>7
    <3>9. IsFiniteSet(V) /\ IsFiniteSet(W) /\ Cardinality(V) \in Nat /\ Cardinality(W) \in Nat
      BY <1>2, <2>2, <3>1
    <3>10. Cardinality(V) <= Cardinality(W) /\ Cardinality(V) # Cardinality(W)
      <4> HIDE DEF V, W
      <4>1. QED
        BY <3>6, <3>8, <3>9, FS_Subset
    <3>11. Cardinality(W) <= k
      BY <2>2
    <3> HIDE DEF V, W
    <3>12. QED
      BY <2>2, <3>8, <3>9, <3>10, <3>11
  <2>5. QED
    BY <2>3, <2>4
<1>4. Within(c, up, from, N + 1) = Within(c, up, from, N)
  <2>1. N \notin T
    BY <1>3
  <2>2. QED
    BY <1>0, <1>2, <2>1
<1>5. \A p \in Within(c, up, from, N) : Edges(c, up, p) \subseteq Within(c, up, from, N)
  <2>1. \A p \in Within(c, up, from, N) : Edges(c, up, p) \subseteq Within(c, up, from, N + 1)
    BY <1>0, WithinStep
  <2>2. QED
    BY <1>4, <2>1
<1>6. from \subseteq Within(c, up, from, N)
  <2>1. Within(c, up, from, 0) \subseteq Within(c, up, from, N)
    BY <1>0, WithinGrows
  <2>2. QED
    BY <2>1, WithinNone
<1>7. QED
  BY <1>5, <1>6, WithinClosed

-----------------------------------------------------------------------------
(* Catalogue: the shortest reason, breadth first (Catalog.WhyDepends).     *)

(* A project is so many dependencies away and no fewer.                    *)
Away(c, from, d, n) ==
  /\ d \in Within(c, FALSE, {from}, n)
  /\ \A m \in 0 .. n - 1 : d \notin Within(c, FALSE, {from}, m)

(* The queue of a breadth first search: first what is k away, then what is *)
(* one more; all that is k away has been found, and nothing that is more   *)
(* than is in the queue; and of what was looked at, all edges were found.  *)
Frontier(c, from, found, queue, k, j) ==
  /\ \A i \in 1 .. j : Away(c, from, queue[i], k)
  /\ \A i \in j + 1 .. Len(queue) : Away(c, from, queue[i], k + 1)
  /\ Within(c, FALSE, {from}, k) \subseteq found
  /\ \A d \in found :
        d \in Within(c, FALSE, {from}, k) \/ \E i \in j + 1 .. Len(queue) : queue[i] = d
  /\ \A d \in Within(c, FALSE, {from}, k) :
        (\E i \in 1 .. j : queue[i] = d) \/ Edges(c, FALSE, d) \subseteq found

(* A search is at some distance.                                           *)
Searching(c, from, found, queue) ==
  \E k \in Nat : \E j \in 0 .. Len(queue) : Frontier(c, from, found, queue, k, j)

(* Each project that was found was found from one that is one nearer.      *)
Nearer(c, from, p, d) ==
  /\ d \in Edges(c, FALSE, p) /\ p # <<>>
  /\ \E n \in Nat : Away(c, from, p, n) /\ Away(c, from, d, n + 1)

(* Whoever was found leads back to the start.                              *)
Ways(c, from, prev) ==
  /\ from \in DOMAIN prev /\ prev[from] = <<>>
  /\ DOMAIN prev \subseteq ProjectName
  /\ \A d \in DOMAIN prev \ {from} : prev[d] \in DOMAIN prev /\ Nearer(c, from, prev[d], d)

(* The part of a way that was gone back is as long as its ends are apart.  *)
Linked(c, path) == \A i \in 2 .. Len(path) : path[i] \in Edges(c, FALSE, path[i - 1])

(* The part of a way that was gone back is as long as its ends are apart.  *)
Retracing(c, from, to, path) ==
  /\ path # <<>> /\ path[Len(path)] = to /\ Linked(c, path)
  /\ \E n \in Nat : Away(c, from, path[1], n) /\ Away(c, from, to, n + Len(path) - 1)

(* Either there is no way at all, or this is one and none is shorter.      *)
Told(c, from, to, path) ==
  IF path = <<>> THEN \A n \in Nat : to \notin Within(c, FALSE, {from}, n)
  ELSE /\ path[1] = from /\ path[Len(path)] = to /\ Linked(c, path)
       /\ Len(path) > 1 => to \notin Within(c, FALSE, {from}, Len(path) - 2)

(* The record of a question.                                               *)
Asked(w) ==
  /\ w = [at |-> w.at, from |-> w.from, to |-> w.to,
          prev |-> w.prev, queue |-> w.queue, path |-> w.path]
  /\ w.at \in {"rest", "search", "found", "told"}
  /\ w.at # "rest" => w.from \in ProjectName /\ w.to \in ProjectName
  /\ w.queue \in Seq(ProjectName) /\ w.path \in Seq(ProjectName)
  /\ w.at = "search" => w.path = <<>>

(* What holds of a question while a catalogue is held: in the search, on   *)
(* the way back and when it is told.                                       *)
WhyInv(c, w) ==
  /\ w.at \in {"search", "found"} => Ways(c, w.from, w.prev)
  /\ w.at = "search" => /\ w.to \notin DOMAIN w.prev
                        /\ Searching(c, w.from, DOMAIN w.prev, w.queue)
  /\ w.at = "found" => w.path[1] \in DOMAIN w.prev /\ Retracing(c, w.from, w.to, w.path)
  /\ w.at = "told" => Told(c, w.from, w.to, w.path)

(* What is found from one that is so many away, and was not reached by     *)
(* then, is one more away.                                                 *)
LEMMA AwayNext ==
  ASSUME NEW c, NEW from, NEW k \in Nat, NEW p, NEW d,
         p \in Within(c, FALSE, {from}, k), d \in Edges(c, FALSE, p),
         d \notin Within(c, FALSE, {from}, k)
  PROVE  Away(c, from, d, k + 1)
<1>1. d \in Within(c, FALSE, {from}, k + 1)
  BY WithinStep
<1>2. ASSUME NEW m \in 0 .. (k + 1) - 1 PROVE d \notin Within(c, FALSE, {from}, m)
  <2>1. m \in Nat /\ m <= k
    OBVIOUS
  <2>2. Within(c, FALSE, {from}, m) \subseteq Within(c, FALSE, {from}, k)
    BY <2>1, WithinGrows
  <2>3. QED
    BY <2>2
<1>3. QED
  BY <1>1, <1>2 DEF Away

(* Once all that is k away was looked at, what is in the queue is all that *)
(* is one more.                                                            *)
LEMMA FrontierTurns ==
  ASSUME NEW c, NEW from, NEW found, NEW queue, Len(queue) \in Nat, NEW k \in Nat,
         Frontier(c, from, found, queue, k, 0)
  PROVE  Frontier(c, from, found, queue, k + 1, Len(queue))
<1> DEFINE V == Within(c, FALSE, {from}, k)
           W == Within(c, FALSE, {from}, k + 1)
           n == Len(queue)
<1>1. /\ \A i \in 1 .. n : Away(c, from, queue[i], k + 1)
      /\ V \subseteq found
      /\ \A d \in found : d \in V \/ \E i \in 1 .. n : queue[i] = d
      /\ \A d \in V : Edges(c, FALSE, d) \subseteq found
  <2>1. /\ \A i \in 0 + 1 .. n : Away(c, from, queue[i], k + 1)
        /\ V \subseteq found
        /\ \A d \in found : d \in V \/ \E i \in 0 + 1 .. n : queue[i] = d
        /\ \A d \in V : (\E i \in 1 .. 0 : queue[i] = d) \/ Edges(c, FALSE, d) \subseteq found
    BY Zenon DEF Frontier
  <2>2. 0 + 1 = 1 /\ 1 .. 0 = {}
    OBVIOUS
  <2> HIDE DEF V, n
  <2>3. QED
    BY <2>1, <2>2
<1>2. /\ V \subseteq W
      /\ \A d \in W : d \in V \/ \E p \in V : d \in Edges(c, FALSE, p)
  BY WithinStep
<1>3. \A i \in 1 .. n : queue[i] \in W
  BY <1>1 DEF Away
<1>4. n + 1 .. n = {}
  OBVIOUS
<1> HIDE DEF V, W, n
<1>5. W \subseteq found
  BY <1>1, <1>2
<1>6. \A d \in found : d \in W
  BY <1>1, <1>2, <1>3
<1>7. \A d \in W : (\E i \in 1 .. n : queue[i] = d) \/ Edges(c, FALSE, d) \subseteq found
  BY <1>1, <1>5
<1>8. QED
  BY <1>1, <1>4, <1>5, <1>6, <1>7 DEF Frontier, V, W, n

(* Looking at the head of the queue.                                       *)
LEMMA FrontierMoves ==
  ASSUME NEW c, Sound(c), NEW from, NEW found, NEW queue \in Seq(ProjectName), queue # <<>>,
         NEW k \in Nat, NEW j \in 1 .. Len(queue),
         Frontier(c, from, found, queue, k, j),
         NEW new, new = Edges(c, FALSE, queue[1]) \ found
  PROVE  /\ queue[1] \in found
         /\ Away(c, from, queue[1], k)
         /\ \A d \in new : Away(c, from, d, k + 1)
         /\ Frontier(c, from, new \cup found, Tail(queue) \o ByName(new), k, j - 1)
<1> DEFINE V == Within(c, FALSE, {from}, k)
           n == Len(queue)
           m == Cardinality(new)
           rest == Tail(queue) \o ByName(new)
<1>1. /\ \A i \in 1 .. j : Away(c, from, queue[i], k)
      /\ \A i \in j + 1 .. n : Away(c, from, queue[i], k + 1)
      /\ V \subseteq found
      /\ \A d \in found : d \in V \/ \E i \in j + 1 .. n : queue[i] = d
      /\ \A d \in V : (\E i \in 1 .. j : queue[i] = d) \/ Edges(c, FALSE, d) \subseteq found
  BY Zenon DEF Frontier
<1>2. n \in Nat /\ j \in Nat /\ 1 <= j /\ j <= n
  OBVIOUS
<1>3. queue[1] \in V /\ queue[1] \in found /\ Away(c, from, queue[1], k)
  <2>1. 1 \in 1 .. j
    BY <1>2
  <2>2. QED
    BY <1>1, <2>1 DEF Away
<1>4. new \subseteq ProjectName
  BY EdgesAre
<1>5. /\ m \in Nat /\ ByName(new) \in [1 .. m -> new]
      /\ \A d \in new : \E i \in 1 .. m : ByName(new)[i] = d
  BY <1>4, ByNameIs
<1>6. \A d \in new : Away(c, from, d, k + 1)
  BY <1>1, <1>3, AwayNext
<1>7. /\ rest \in Seq(ProjectName) /\ Len(rest) = (n - 1) + m
      /\ \A i \in 1 .. n - 1 : rest[i] = queue[i + 1]
      /\ \A i \in 1 .. m : rest[n - 1 + i] = ByName(new)[i]
  <2>1. /\ Tail(queue) \in Seq(ProjectName) /\ Len(Tail(queue)) = n - 1
        /\ \A i \in 1 .. n - 1 : Tail(queue)[i] = queue[i + 1]
    BY HeadTailProperties
  <2>2. ByName(new) \in Seq(ProjectName) /\ Len(ByName(new)) = m
    <3> HIDE DEF m, n, rest
    <3>1. ByName(new) \in [1 .. m -> ProjectName] /\ m \in Nat
      BY <1>4, <1>5
    <3>2. QED
      BY <3>1, SequenceOf
  <2>3. /\ rest \in Seq(ProjectName) /\ Len(rest) = Len(Tail(queue)) + Len(ByName(new))
        /\ \A i \in 1 .. Len(Tail(queue)) + Len(ByName(new)) :
             rest[i] = IF i <= Len(Tail(queue)) THEN Tail(queue)[i]
                       ELSE ByName(new)[i - Len(Tail(queue))]
    BY <2>1, <2>2, ConcatProperties
  <2> HIDE DEF rest, n, m
  <2>4. \A i \in 1 .. (n - 1) + m :
          rest[i] = IF i <= n - 1 THEN Tail(queue)[i] ELSE ByName(new)[i - (n - 1)]
    BY <2>1, <2>2, <2>3
  <2>5. \A i \in 1 .. n - 1 : i \in 1 .. (n - 1) + m /\ i <= n - 1
    BY <1>2, <1>5
  <2>6. \A i \in 1 .. m : /\ n - 1 + i \in 1 .. (n - 1) + m
                          /\ ~(n - 1 + i <= n - 1)
                          /\ (n - 1 + i) - (n - 1) = i
    BY <1>2, <1>5
  <2>7. \A i \in 1 .. n - 1 : rest[i] = queue[i + 1]
    BY <2>1, <2>4, <2>5
  <2>8. \A i \in 1 .. m : rest[n - 1 + i] = ByName(new)[i]
    BY <2>4, <2>6
  <2>9. QED
    BY <2>1, <2>2, <2>3, <2>7, <2>8
<1> HIDE DEF V, n, m, rest
<1>8. ASSUME NEW i \in 1 .. j - 1 PROVE Away(c, from, rest[i], k)
  <2>1. i \in 1 .. n - 1 /\ i + 1 \in 1 .. j
    BY <1>2
  <2>2. QED
    BY <1>1, <1>7, <2>1
<1>9. ASSUME NEW i \in (j - 1) + 1 .. Len(rest) PROVE Away(c, from, rest[i], k + 1)
  <2>1. CASE i <= n - 1
    <3>1. i \in 1 .. n - 1 /\ i + 1 \in j + 1 .. n
      BY <1>2, <1>7, <2>1
    <3>2. QED
      BY <1>1, <1>7, <3>1
  <2>2. CASE ~(i <= n - 1)
    <3>1. i - (n - 1) \in 1 .. m /\ n - 1 + (i - (n - 1)) = i
      BY <1>2, <1>5, <1>7, <2>2
    <3>2. rest[i] = ByName(new)[i - (n - 1)]
      BY <1>7, <3>1
    <3>3. rest[i] \in new
      BY <1>5, <3>1, <3>2
    <3>4. QED
      BY <1>6, <3>3
  <2>3. QED
    BY <2>1, <2>2
<1>10. ASSUME NEW d \in new \cup found
       PROVE  d \in V \/ \E i \in (j - 1) + 1 .. Len(rest) : rest[i] = d
  <2>1. CASE d \in found
    <3> SUFFICES ASSUME d \notin V PROVE \E i \in (j - 1) + 1 .. Len(rest) : rest[i] = d
      OBVIOUS
    <3>1. PICK i \in j + 1 .. n : queue[i] = d
      BY <1>1, <2>1
    <3>2. i - 1 \in 1 .. n - 1 /\ i - 1 \in (j - 1) + 1 .. Len(rest) /\ (i - 1) + 1 = i
      BY <1>2, <1>5, <1>7
    <3>3. rest[i - 1] = d
      BY <1>7, <3>1, <3>2
    <3>4. QED
      BY <3>2, <3>3
  <2>2. CASE d \in new
    <3>1. PICK i \in 1 .. m : ByName(new)[i] = d
      BY <1>5, <2>2
    <3>2. n - 1 + i \in (j - 1) + 1 .. Len(rest)
      BY <1>2, <1>5, <1>7
    <3>3. rest[n - 1 + i] = d
      BY <1>7, <3>1
    <3>4. QED
      BY <3>2, <3>3
  <2>3. QED
    BY <2>1, <2>2
<1>11. ASSUME NEW d \in V
       PROVE  (\E i \in 1 .. j - 1 : rest[i] = d) \/ Edges(c, FALSE, d) \subseteq new \cup found
  <2>1. CASE Edges(c, FALSE, d) \subseteq found
    BY <2>1
  <2>2. CASE \E i \in 1 .. j : queue[i] = d
    <3>1. PICK i \in 1 .. j : queue[i] = d
      BY <2>2
    <3>2. CASE i = 1
      BY <3>1, <3>2
    <3>3. CASE i # 1
      <4>1. i - 1 \in 1 .. j - 1 /\ i - 1 \in 1 .. n - 1 /\ (i - 1) + 1 = i
        BY <1>2, <3>3
      <4>2. rest[i - 1] = d
        BY <1>7, <3>1, <4>1
      <4>3. QED
        BY <4>1, <4>2
    <3>4. QED
      BY <3>2, <3>3
  <2>3. QED
    BY <1>1, <2>1, <2>2
<1>12. V \subseteq new \cup found
  BY <1>1
<1>13. Frontier(c, from, new \cup found, rest, k, j - 1)
  BY <1>8, <1>9, <1>10, <1>11, <1>12 DEF Frontier, V
<1>14. QED
  BY <1>3, <1>6, <1>13 DEF rest

(* A project has one distance.                                             *)
LEMMA AwayOnce ==
  ASSUME NEW c, NEW from, NEW d, NEW n \in Nat, NEW m \in Nat,
         Away(c, from, d, n), Away(c, from, d, m)
  PROVE  n = m
<1>1. CASE n < m
  <2>1. n \in 0 .. m - 1
    BY <1>1
  <2>2. QED
    BY <2>1 DEF Away
<1>2. CASE m < n
  <2>1. m \in 0 .. n - 1
    BY <1>2
  <2>2. QED
    BY <2>1 DEF Away
<1>3. QED
  BY <1>1, <1>2

(* The start is no step away.                                              *)
LEMMA AwayNone ==
  ASSUME NEW c, NEW from
  PROVE  Away(c, from, from, 0)
<1>1. from \in Within(c, FALSE, {from}, 0)
  <2>1. Within(c, FALSE, {from}, 0) = {from}
    BY WithinNone
  <2>2. QED
    BY <2>1
<1>2. 0 .. 0 - 1 = {}
  OBVIOUS
<1>3. QED
  BY <1>1, <1>2 DEF Away

(* The search begins with all that is no dependency away.                  *)
LEMMA SearchBegins ==
  ASSUME NEW c, NEW from \in ProjectName, NEW prev, prev = [d \in {from} |-> <<>>],
         NEW queue, queue = <<from>>
  PROVE  Ways(c, from, prev) /\ Searching(c, from, DOMAIN prev, queue)
<1>1. Ways(c, from, prev)
  BY DEF Ways
<1>2. Len(queue) = 1 /\ queue[1] = from /\ 1 \in 0 .. Len(queue) /\ DOMAIN prev = {from}
  OBVIOUS
<1>3. Within(c, FALSE, {from}, 0) = {from}
  BY WithinNone
<1>4. Frontier(c, from, {from}, queue, 0, 1)
  <2>1. \A i \in 1 .. 1 : Away(c, from, queue[i], 0)
    <3>1. \A i \in 1 .. 1 : queue[i] = from
      BY <1>2
    <3>2. QED
      BY <3>1, AwayNone
  <2>2. 1 + 1 .. Len(queue) = {}
    BY <1>2
  <2>3. \E i \in 1 .. 1 : queue[i] = from
    BY <1>2
  <2>4. QED
    BY <1>3, <2>1, <2>2, <2>3 DEF Frontier
<1>5. Searching(c, from, DOMAIN prev, queue)
  BY <1>2, <1>4 DEF Searching
<1>6. QED
  BY <1>1, <1>5

(* What a project needs and was not found, and the ways with it.           *)
Finds(c, p, prev, new, next) ==
  /\ new = Edges(c, FALSE, p) \ DOMAIN prev
  /\ next = [d \in new \cup DOMAIN prev |-> IF d \in new THEN p ELSE prev[d]]

(* A project is looked at.                                                 *)
LEMMA SearchMoves ==
  ASSUME NEW c, Sound(c), NEW from, NEW prev, NEW queue \in Seq(ProjectName), queue # <<>>,
         Ways(c, from, prev), Searching(c, from, DOMAIN prev, queue),
         NEW new, NEW next, Finds(c, queue[1], prev, new, next)
  PROVE  /\ Ways(c, from, next)
         /\ Searching(c, from, DOMAIN next, Tail(queue) \o ByName(new))
         /\ \A d \in new : \E n \in Nat : Away(c, from, d, n)
         /\ Tail(queue) \o ByName(new) \in Seq(ProjectName)
<1> DEFINE found == DOMAIN prev
           rest == Tail(queue) \o ByName(new)
<1>00. /\ new = Edges(c, FALSE, queue[1]) \ found
       /\ next = [d \in new \cup found |-> IF d \in new THEN queue[1] ELSE prev[d]]
  BY DEF Finds
<1>0. Len(queue) \in Nat /\ Len(queue) # 0
  OBVIOUS
<1>1. PICK k \in Nat, j \in 1 .. Len(queue) : Frontier(c, from, found, queue, k, j)
  <2>1. PICK k \in Nat, j \in 0 .. Len(queue) : Frontier(c, from, found, queue, k, j)
    BY DEF Searching
  <2>2. CASE j = 0
    <3>1. Frontier(c, from, found, queue, k + 1, Len(queue))
      BY <1>0, <2>1, <2>2, FrontierTurns
    <3>2. k + 1 \in Nat /\ Len(queue) \in 1 .. Len(queue)
      BY <1>0
    <3>3. QED
      BY <3>1, <3>2
  <2>3. CASE j # 0
    <3>1. j \in 1 .. Len(queue)
      BY <2>3
    <3>2. QED
      BY <2>1, <3>1
  <2>4. QED
    BY <2>2, <2>3
<1>2. /\ queue[1] \in found
      /\ Away(c, from, queue[1], k)
      /\ \A d \in new : Away(c, from, d, k + 1)
      /\ Frontier(c, from, new \cup found, rest, k, j - 1)
  BY <1>00, <1>1, FrontierMoves
<1>3. DOMAIN next = new \cup found
  BY <1>00
<1>4. rest \in Seq(ProjectName) /\ Len(rest) \in Nat /\ j - 1 <= Len(rest)
  <2>1. new \subseteq ProjectName
    BY <1>00, EdgesAre
  <2>2. Cardinality(new) \in Nat /\ ByName(new) \in [1 .. Cardinality(new) -> new]
    BY <2>1, ByNameIs
  <2>3. ByName(new) \in [1 .. Cardinality(new) -> ProjectName]
    BY <2>1, <2>2
  <2>4. ByName(new) \in Seq(ProjectName) /\ Len(ByName(new)) \in Nat
    BY <2>2, <2>3, SequenceOf
  <2>5. Tail(queue) \in Seq(ProjectName) /\ Len(Tail(queue)) = Len(queue) - 1
    BY HeadTailProperties
  <2>6. rest \in Seq(ProjectName) /\ Len(rest) = Len(Tail(queue)) + Len(ByName(new))
    BY <2>4, <2>5, ConcatProperties
  <2> HIDE DEF rest
  <2>7. QED
    BY <1>0, <2>4, <2>5, <2>6
<1>5. Searching(c, from, DOMAIN next, rest)
  <2>1. j - 1 \in 0 .. Len(rest)
    BY <1>4
  <2> HIDE DEF rest, found
  <2>2. QED
    BY <1>2, <1>3, <2>1 DEF Searching
<1>6. Ways(c, from, next)
  <2>1. /\ from \in found /\ prev[from] = <<>> /\ found \subseteq ProjectName
        /\ \A d \in found \ {from} : prev[d] \in found /\ Nearer(c, from, prev[d], d)
    BY DEF Ways
  <2>2. /\ \A d \in found : next[d] = prev[d]
        /\ \A d \in new : next[d] = queue[1]
    BY <1>00
  <2>3. new \subseteq ProjectName
    BY <1>00, EdgesAre
  <2>4. ASSUME NEW d \in new PROVE Nearer(c, from, queue[1], d)
    <3>1. d \in Edges(c, FALSE, queue[1]) /\ queue[1] # <<>>
      BY <1>00, <2>4, EdgesAre
    <3>2. QED
      BY <1>2, <3>1 DEF Nearer
  <2> HIDE DEF found
  <2>5. QED
    BY <1>2, <1>3, <2>1, <2>2, <2>3, <2>4 DEF Ways
<1>7. \A d \in new : \E n \in Nat : Away(c, from, d, n)
  <2>1. k + 1 \in Nat
    OBVIOUS
  <2>2. QED
    BY <1>2, <2>1
<1>8. QED
  BY <1>4, <1>5, <1>6, <1>7

(* What was looked for is found: the way back begins.                      *)
LEMMA RetracingBegins ==
  ASSUME NEW c, NEW from, NEW to, NEW n \in Nat, Away(c, from, to, n)
  PROVE  Retracing(c, from, to, <<to>>)
<1>1. <<to>> # <<>> /\ Len(<<to>>) = 1 /\ <<to>>[1] = to /\ 2 .. 1 = {} /\ n + 1 - 1 = n
  OBVIOUS
<1>2. Linked(c, <<to>>)
  BY <1>1 DEF Linked
<1>3. \E k \in Nat : Away(c, from, <<to>>[1], k) /\ Away(c, from, to, k + Len(<<to>>) - 1)
  BY <1>1
<1>4. QED
  BY <1>1, <1>2, <1>3 DEF Retracing

(* A step back.                                                            *)
LEMMA RetracingMoves ==
  ASSUME NEW c, NEW from, NEW to, NEW prev, NEW path \in Seq(ProjectName),
         Ways(c, from, prev), Retracing(c, from, to, path),
         path[1] \in DOMAIN prev, prev[path[1]] # <<>>
  PROVE  /\ prev[path[1]] \in DOMAIN prev
         /\ <<prev[path[1]]>> \o path \in Seq(ProjectName)
         /\ (<<prev[path[1]]>> \o path)[1] = prev[path[1]]
         /\ Retracing(c, from, to, <<prev[path[1]]>> \o path)
<1> DEFINE p == prev[path[1]]
           longer == <<p>> \o path
           n == Len(path)
<1>0. n \in Nat /\ n # 0
  BY DEF Retracing
<1>1. path[1] # from
  BY DEF Ways
<1>2. p \in DOMAIN prev /\ p \in ProjectName /\ Nearer(c, from, p, path[1])
  BY <1>1 DEF Ways
<1>3. PICK k \in Nat : Away(c, from, p, k) /\ Away(c, from, path[1], k + 1)
  BY <1>2 DEF Nearer
<1>4. PICK l \in Nat : Away(c, from, path[1], l) /\ Away(c, from, to, l + n - 1)
  BY DEF Retracing
<1>5. l = k + 1
  BY <1>3, <1>4, AwayOnce
<1>6. /\ longer \in Seq(ProjectName) /\ Len(longer) = n + 1 /\ longer[1] = p
      /\ \A i \in 2 .. n + 1 : longer[i] = path[i - 1]
  BY <1>0, <1>2
<1> HIDE DEF longer, p, n
<1>7. longer # <<>> /\ longer[Len(longer)] = to
  <2>1. path[n] = to
    BY DEF Retracing, n
  <2>2. n + 1 \in 2 .. n + 1 /\ (n + 1) - 1 = n
    BY <1>0
  <2>3. QED
    BY <1>0, <1>6, <2>1, <2>2
<1>8. Linked(c, longer)
  <2>1. \A i \in 2 .. n : path[i] \in Edges(c, FALSE, path[i - 1])
    BY DEF Retracing, Linked, n
  <2>2. ASSUME NEW i \in 2 .. n + 1 PROVE longer[i] \in Edges(c, FALSE, longer[i - 1])
    <3>1. CASE i = 2
      <4>1. path[1] \in Edges(c, FALSE, p)
        BY <1>2 DEF Nearer
      <4>2. longer[i] = path[1] /\ longer[i - 1] = p
        BY <1>6, <3>1
      <4>3. QED
        BY <4>1, <4>2
    <3>2. CASE i # 2
      <4>1. i - 1 \in 2 .. n /\ i - 1 \in 2 .. n + 1
        BY <1>0, <3>2
      <4>2. longer[i] = path[i - 1] /\ longer[i - 1] = path[(i - 1) - 1]
        BY <1>6, <4>1
      <4>3. QED
        BY <2>1, <4>1, <4>2
    <3>3. QED
      BY <3>1, <3>2
  <2>3. QED
    BY <1>6, <2>2 DEF Linked
<1>9. \E m \in Nat : Away(c, from, longer[1], m) /\ Away(c, from, to, m + Len(longer) - 1)
  <2>1. k + Len(longer) - 1 = l + n - 1
    BY <1>0, <1>5, <1>6
  <2>2. QED
    BY <1>3, <1>4, <1>6, <2>1
<1>10. Retracing(c, from, to, longer)
  BY <1>7, <1>8, <1>9 DEF Retracing
<1>11. QED
  BY <1>2, <1>6, <1>10 DEF longer, p

(* The way back ends where the search began.                               *)
LEMMA RetracingEnds ==
  ASSUME NEW c, NEW from, NEW to, NEW prev, NEW path \in Seq(ProjectName),
         Ways(c, from, prev), Retracing(c, from, to, path),
         path[1] \in DOMAIN prev, prev[path[1]] = <<>>
  PROVE  Told(c, from, to, path)
<1> DEFINE n == Len(path)
<1>0. n \in Nat /\ n # 0 /\ path # <<>> /\ path[n] = to /\ Linked(c, path)
  BY DEF Retracing
<1>1. path[1] = from
  BY DEF Ways, Nearer
<1>2. PICK l \in Nat : Away(c, from, path[1], l) /\ Away(c, from, to, l + n - 1)
  BY DEF Retracing
<1>3. l = 0
  BY <1>1, <1>2, AwayNone, AwayOnce
<1>4. Away(c, from, to, n - 1)
  BY <1>0, <1>2, <1>3
<1>5. n > 1 => to \notin Within(c, FALSE, {from}, n - 2)
  <2>1. n > 1 => n - 2 \in 0 .. (n - 1) - 1
    BY <1>0
  <2>2. QED
    BY <1>4, <2>1 DEF Away
<1>6. QED
  BY <1>0, <1>1, <1>5 DEF Told

(* Nothing is left to look at and it was not found.                        *)
LEMMA SearchEnds ==
  ASSUME NEW c, NEW from, NEW to, NEW found, Searching(c, from, found, <<>>), to \notin found
  PROVE  Told(c, from, to, <<>>)
<1>0. Len(<<>>) = 0
  OBVIOUS
<1>1. PICK k \in Nat, j \in 0 .. 0 : Frontier(c, from, found, <<>>, k, j)
  BY <1>0 DEF Searching
<1>2. j = 0 /\ 0 + 1 .. 0 = {} /\ 1 .. 0 = {}
  BY <1>1
<1> DEFINE V == Within(c, FALSE, {from}, k)
<1>3. /\ V \subseteq found
      /\ \A d \in found : d \in V
      /\ \A d \in V : Edges(c, FALSE, d) \subseteq found
  BY <1>0, <1>1, <1>2 DEF Frontier
<1>4. from \in V
  <2>1. Within(c, FALSE, {from}, 0) = {from}
    BY WithinNone
  <2>2. 0 \in Nat /\ 0 <= k
    OBVIOUS
  <2>3. Within(c, FALSE, {from}, 0) \subseteq V
    BY <2>2, WithinGrows
  <2>4. QED
    BY <2>1, <2>3
<1> HIDE DEF V
<1>5. {from} \subseteq found /\ \A d \in found : Edges(c, FALSE, d) \subseteq found
  BY <1>3, <1>4
<1>6. \A n \in Nat : Within(c, FALSE, {from}, n) \subseteq found
  BY <1>5, WithinClosed
<1>7. QED
  BY <1>6 DEF Told

-----------------------------------------------------------------------------
(* Catalogue: publishing and fetching (MarshalCatalog, UnmarshalCatalog).  *)

(* A catalogue that lists a project once.                                  *)
Public(c) ==
  /\ c \in Document
  /\ \A i, j \in DOMAIN c.projects :
        c.projects[i].project = c.projects[j].project => i = j

(* The parts of a catalogue are of their sorts.                            *)
LEMMA DocumentIs ==
  ASSUME NEW c \in Document
  PROVE  /\ c.projects \in Seq(Entry) /\ Len(c.projects) \in Nat
         /\ DOMAIN c.projects = 1 .. Len(c.projects)
         /\ \A i \in DOMAIN c.projects :
              /\ c.projects[i] \in Entry /\ c.projects[i].project \in ProjectName
              /\ c.projects[i].deps \in Seq(ProjectName)
              /\ c.projects[i].versions \in Seq(Text) /\ c.projects[i].platforms \in Seq(Text)
<1>1. c.projects \in Seq(Entry)
  BY DEF Document
<1>2. \A e \in Entry : /\ e.project \in ProjectName /\ e.deps \in Seq(ProjectName)
                       /\ e.versions \in Seq(Text) /\ e.platforms \in Seq(Text)
  BY DEF Entry
<1>3. QED
  BY <1>1, <1>2

(* Strings are compared by their places, which differ.                     *)
LEMMA PlaceIs ==
  /\ \A t \in Text : Place(t) \in Nat
  /\ \A t, u \in Text : Place(t) = Place(u) => t = u
<1>1. TextOrder \in Seq(STRING)
  BY CatalogueAssumption
<1>2. \A t \in Text : \E i \in DOMAIN TextOrder : TextOrder[i] = t
  BY DEF Text, ToSet
<1>3. \A t \in Text : Place(t) \in DOMAIN TextOrder /\ TextOrder[Place(t)] = t
  BY <1>2 DEF Place
<1>4. DOMAIN TextOrder \subseteq Nat
  BY <1>1
<1>5. QED
  BY <1>3, <1>4

(* Strings that are put in order are strings.                              *)
LEMMA InOrderIs ==
  ASSUME NEW s \in Seq(Text)
  PROVE  InOrder(s) \in Seq(Text)
<1> DEFINE at == DOMAIN s
           n == Len(s)
           before == {p \in at \X at : \/ Place(s[p[1]]) < Place(s[p[2]])
                                       \/ s[p[1]] = s[p[2]] /\ p[1] < p[2]}
           places == Ranked(at, before)
<1>1. InOrder(s) = [k \in at |-> s[places[k]]]
  BY Zenon DEF InOrder
<1>2. n \in Nat /\ at = 1 .. n /\ \A i \in at : s[i] \in Text /\ i \in Nat
  OBVIOUS
<1>3. \A i, j \in at :
        <<i, j>> \in before <=> Place(s[i]) < Place(s[j]) \/ (s[i] = s[j] /\ i < j)
  OBVIOUS
<1> HIDE DEF at, n, before
<1>4. \A i \in at : Place(s[i]) \in Nat
  BY <1>2, PlaceIs
<1>5. \A i, j \in at : Place(s[i]) = Place(s[j]) <=> s[i] = s[j]
  BY <1>2, PlaceIs
<1>6. Orders(at, before)
  <2>1. \A i \in at : <<i, i>> \notin before
    BY <1>2, <1>3, <1>4
  <2>2. \A i, j \in at : i # j => <<i, j>> \in before \/ <<j, i>> \in before
    BY <1>2, <1>3, <1>4, <1>5
  <2>3. ASSUME NEW i \in at, NEW j \in at, NEW k \in at,
               <<i, j>> \in before, <<j, k>> \in before
        PROVE  <<i, k>> \in before
    <3> DEFINE a == Place(s[i])
               b == Place(s[j])
               e == Place(s[k])
    <3>1. (a < b \/ (a = b /\ i < j)) /\ (b < e \/ (b = e /\ j < k))
      BY <1>3, <1>5, <2>3
    <3>2. a \in Nat /\ b \in Nat /\ e \in Nat /\ i \in Nat /\ j \in Nat /\ k \in Nat
      BY <1>2, <1>4
    <3> HIDE DEF a, b, e
    <3>3. a < e \/ (a = e /\ i < k)
      BY <3>1, <3>2
    <3>4. QED
      BY <1>3, <1>5, <3>3 DEF a, e
  <2>4. QED
    BY <2>1, <2>2, <2>3 DEF Orders
<1>7. IsFiniteSet(at) /\ Cardinality(at) = n
  BY <1>2, CountTo
<1>8. places \in [1 .. n -> at]
  BY <1>6, <1>7, RankedSorts
<1> HIDE DEF places
<1>9. InOrder(s) \in [1 .. n -> Text]
  BY <1>1, <1>2, <1>8
<1>10. QED
  BY <1>2, <1>9, SequenceOf

(* Sorting its platforms leaves the rest of a project alone.               *)
LEMMA SortedEntryIs ==
  ASSUME NEW e \in Entry
  PROVE  /\ [e EXCEPT !.platforms = InOrder(@)] \in Entry
         /\ [e EXCEPT !.platforms = InOrder(@)].project = e.project
<1>1. e.platforms \in Seq(Text)
  BY DEF Entry
<1>2. InOrder(e.platforms) \in Seq(Text)
  BY <1>1, InOrderIs
<1>3. QED
  BY <1>2 DEF Entry

(* Sorting the projects leaves out none and doubles none.                  *)
LEMMA MarshalKeeps ==
  ASSUME NEW c \in Catalogs
  PROVE  Public(MarshalCatalog(c))
<1> DEFINE all == c.projects
           n == Len(all)
           before == {p \in (DOMAIN all) \X (DOMAIN all) :
                        Rank(all[p[1]].project) < Rank(all[p[2]].project)}
           places == Ranked(DOMAIN all, before)
           Sorted(p) == [p EXCEPT !.platforms = InOrder(@)]
           sorted == [i \in DOMAIN all |-> Sorted(all[places[i]])]
<1>1. c \in Document /\ \A i, j \in DOMAIN all : all[i].project = all[j].project => i = j
  BY CatalogueAssumption
<1>2. /\ all \in Seq(Entry) /\ n \in Nat /\ DOMAIN all = 1 .. n
      /\ \A i \in DOMAIN all : all[i] \in Entry /\ all[i].project \in ProjectName
  BY <1>1, DocumentIs
<1>3. IsFiniteSet(DOMAIN all) /\ Cardinality(DOMAIN all) = n
  <2>1. 1 \in Int /\ n \in Int /\ n - 1 + 1 = n /\ (1 > n => n = 0)
    BY <1>2
  <2>2. IsFiniteSet(1 .. n) /\ Cardinality(1 .. n) = n
    BY <2>1, FS_Interval
  <2>3. QED
    BY <1>2, <2>2
<1>4. \A i, j \in DOMAIN all :
        <<i, j>> \in before <=> Rank(all[i].project) < Rank(all[j].project)
  OBVIOUS
<1> HIDE DEF before, all, n
<1>5. Orders(DOMAIN all, before)
  <2>1. \A i \in DOMAIN all : Rank(all[i].project) \in Nat
    BY <1>2, RankIs
  <2>2. \A i, j \in DOMAIN all : Rank(all[i].project) = Rank(all[j].project) => i = j
    <3>1. \A p, q \in ProjectName : Rank(p) = Rank(q) => p = q
      BY RankIs
    <3>2. QED
      BY <1>1, <1>2, <3>1
  <2>3. QED
    BY <1>4, <2>1, <2>2 DEF Orders
<1>6. /\ places \in [1 .. n -> DOMAIN all]
      /\ \A i, j \in 1 .. n : i < j => <<places[i], places[j]>> \in before
  BY <1>3, <1>5, RankedSorts
<1> HIDE DEF places
<1>7. \A i, j \in 1 .. n : places[i] = places[j] => i = j
  <2> SUFFICES ASSUME NEW i \in 1 .. n, NEW j \in 1 .. n, places[i] = places[j], i # j
               PROVE  FALSE
    OBVIOUS
  <2>1. i < j \/ j < i
    BY <1>2
  <2>2. <<places[i], places[i]>> \in before
    BY <1>6, <2>1
  <2>3. QED
    BY <1>5, <1>6, <2>2 DEF Orders
<1>8. /\ sorted \in [1 .. n -> Entry]
      /\ \A i \in 1 .. n : sorted[i].project = all[places[i]].project
  <2>1. ASSUME NEW i \in 1 .. n
        PROVE  /\ Sorted(all[places[i]]) \in Entry
               /\ Sorted(all[places[i]]).project = all[places[i]].project
    <3>1. all[places[i]] \in Entry
      BY <1>2, <1>6
    <3>2. QED
      BY <3>1, SortedEntryIs
  <2> HIDE DEF Sorted
  <2>2. QED
    BY <1>2, <2>1
<1> HIDE DEF sorted
<1>9. sorted \in Seq(Entry) /\ DOMAIN sorted = 1 .. n
  BY <1>2, <1>8, SequenceOf
<1>10. \A i, j \in 1 .. n : sorted[i].project = sorted[j].project => i = j
  BY <1>1, <1>6, <1>7, <1>8
<1>11. MarshalCatalog(c) = [c EXCEPT !.projects = sorted, !.null = all = <<>>]
  BY Zenon DEF MarshalCatalog, sorted, places, before, all
<1>12. MarshalCatalog(c) \in Document /\ MarshalCatalog(c).projects = sorted
  BY <1>1, <1>9, <1>11 DEF Document
<1>13. QED
  BY <1>9, <1>10, <1>12 DEF Public

(* What is clean is of the same sort and has nothing that is bad.          *)
LEMMA CleanIs ==
  ASSUME NEW s \in Seq(Text)
  PROVE  Clean(s) \in Seq(Text) /\ \A j \in DOMAIN Clean(s) : Clean(s)[j] \notin BadVersions
<1> DEFINE at == {i \in DOMAIN s : s[i] \notin BadVersions}
<1>1. IsFiniteSet(at) /\ at \subseteq Nat
  <2>1. DOMAIN s = 1 .. Len(s) /\ Len(s) \in Nat
    OBVIOUS
  <2>2. IsFiniteSet(DOMAIN s)
    BY <2>1, FS_Interval
  <2>3. at \in SUBSET DOMAIN s
    OBVIOUS
  <2>4. QED
    BY <2>1, <2>2, <2>3, FS_Subset
<1>2. Clean(s) = Kept(s, at)
  BY DEF Clean
<1>3. \A i \in at : s[i] \in Text /\ s[i] \notin BadVersions
  OBVIOUS
<1> HIDE DEF at
<1>4. IsKept(Clean(s), s, at)
  BY <1>1, <1>2, KeptIs
<1>5. PICK n \in Nat : Clean(s) \in [1 .. n -> {s[i] : i \in at}]
  BY <1>4 DEF IsKept
<1>6. Clean(s) \in [1 .. n -> Text] /\ \A j \in 1 .. n : Clean(s)[j] \notin BadVersions
  BY <1>3, <1>5
<1>7. QED
  BY <1>6, SequenceOf

(* Cleaning a project leaves its name and what it needs alone.             *)
LEMMA CleanEntryIs ==
  ASSUME NEW e \in Entry
  PROVE  /\ CleanEntry(e) \in Entry
         /\ CleanEntry(e).project = e.project /\ CleanEntry(e).deps = e.deps
         /\ \A j \in DOMAIN CleanEntry(e).versions : CleanEntry(e).versions[j] \notin BadVersions
<1>1. e.versions \in Seq(Text) /\ e.platforms \in Seq(Text)
  BY DEF Entry
<1>2. /\ Clean(e.versions) \in Seq(Text) /\ Clean(e.platforms) \in Seq(Text)
      /\ \A j \in DOMAIN Clean(e.versions) : Clean(e.versions)[j] \notin BadVersions
  BY <1>1, CleanIs
<1>3. CleanEntry(e) = [e EXCEPT !.versions = Clean(e.versions), !.platforms = Clean(e.platforms)]
  BY DEF CleanEntry
<1>4. CleanEntry(e).versions = Clean(e.versions)
  BY <1>3 DEF Entry
<1>5. CleanEntry(e) \in Entry
  BY <1>2, <1>3 DEF Entry
<1>6. CleanEntry(e).project = e.project /\ CleanEntry(e).deps = e.deps
  BY <1>3 DEF Entry
<1>7. QED
  BY <1>2, <1>4, <1>5, <1>6

(* What a reader makes of a catalogue is sound.                            *)
LEMMA UnmarshalIs ==
  ASSUME NEW c, Public(c)
  PROVE  /\ \A d \in UnmarshalCatalog(c) : Sound(d)
         /\ \A d, e \in UnmarshalCatalog(c) : d = e
<1> DEFINE all == c.projects
           rows == [i \in DOMAIN all |-> CleanEntry(all[i])]
           read == [c EXCEPT !.projects = rows, !.dropped = Dropped(c)]
<1>1. UnmarshalCatalog(c) \subseteq {read}
  BY DEF UnmarshalCatalog
<1>2. /\ c \in Document
      /\ \A i, j \in DOMAIN all : all[i].project = all[j].project => i = j
  BY DEF Public
<1>3. /\ all \in Seq(Entry) /\ Len(all) \in Nat /\ DOMAIN all = 1 .. Len(all)
      /\ \A i \in DOMAIN all : all[i] \in Entry
  BY <1>2, DocumentIs
<1> HIDE DEF all
<1>4. /\ rows \in [1 .. Len(all) -> Entry] /\ DOMAIN rows = DOMAIN all
      /\ \A i \in DOMAIN all :
           /\ rows[i].project = all[i].project /\ rows[i].deps = all[i].deps
           /\ \A j \in DOMAIN rows[i].versions : rows[i].versions[j] \notin BadVersions
  BY <1>3, CleanEntryIs
<1>5. rows \in Seq(Entry)
  BY <1>3, <1>4, SequenceOf
<1>6. read.projects = rows
  <2> HIDE DEF rows
  <2>1. QED
    BY <1>2 DEF Document
<1> HIDE DEF rows, read
<1>7. ASSUME ~ Forged(c)
      PROVE  \A i \in DOMAIN all : /\ all[i].project \notin BadNames
                                   /\ \A j \in DOMAIN all[i].deps : all[i].deps[j] \notin BadNames
  BY <1>7 DEF Forged, ToSet, all
<1>8. ASSUME ~ Forged(c) PROVE Sound(read)
  BY <1>2, <1>4, <1>5, <1>6, <1>7, <1>8 DEF Sound
<1>9. UnmarshalCatalog(c) # {} => ~ Forged(c)
  BY DEF UnmarshalCatalog
<1>10. QED
  BY <1>1, <1>8, <1>9

(* There is one catalogue that a reader has at a time, and it is sound;    *)
(* without one nothing is asked.                                           *)
HeldInv ==
  /\ \A c \in published : Public(c)
  /\ \A c \in held : Sound(c)
  /\ \A c, d \in held : c = d
  /\ walk.at # "rest" \/ why.at # "rest" => held # {}

(* Nothing is held at first.                                               *)
LEMMA HeldInit == CatalogueInit => HeldInv
  BY DEF CatalogueInit, HeldInv, Resting, Unasked

(* Every step keeps what is held sound: a reader takes only what was       *)
(* published, and asks with what it took.                                  *)
LEMMA HeldNext == HeldInv /\ [CatalogueNext]_catalogue => HeldInv'
<1> SUFFICES ASSUME HeldInv, [CatalogueNext]_catalogue PROVE HeldInv'
  OBVIOUS
<1>1. ASSUME NEW c \in Catalogs, PublishCatalog(c) PROVE HeldInv'
  BY <1>1, MarshalKeeps DEF PublishCatalog, HeldInv
<1>2. ASSUME NEW served \in published \cup Forgeries, FetchCatalog(served) PROVE HeldInv'
  <2>1. /\ held = {} /\ UNCHANGED <<published, walk, why>>
        /\ held' = IF served \in published THEN UnmarshalCatalog(served) ELSE {}
    BY <1>2 DEF FetchCatalog
  <2>2. /\ \A d \in held' : Sound(d)
        /\ \A d, e \in held' : d = e
    <3>1. CASE served \in published
      <4>1. Public(served)
        BY <3>1 DEF HeldInv
      <4>2. QED
        BY <2>1, <3>1, <4>1, UnmarshalIs
    <3>2. CASE served \notin published
      BY <2>1, <3>2
    <3>3. QED
      BY <3>1, <3>2
  <2>3. QED
    BY <2>1, <2>2 DEF HeldInv
<1>3. ASSUME UNCHANGED <<published, held>>, held # {} PROVE HeldInv'
  BY <1>3 DEF HeldInv
<1>4. ASSUME UNCHANGED <<published, held>>, walk.at # "rest" \/ why.at # "rest" PROVE HeldInv'
  BY <1>4 DEF HeldInv
<1>5. ASSUME NEW c \in held, NEW root \in Roots, NEW depth \in Depths, NEW up \in BOOLEAN,
             DepTree(c, root, depth, up)
      PROVE  HeldInv'
  BY <1>3, <1>5 DEF DepTree
<1>6. ASSUME NEW c \in held, Visit(c) PROVE HeldInv'
  BY <1>3, <1>6 DEF Visit
<1>7. ASSUME Ascend PROVE HeldInv'
  BY <1>4, <1>7 DEF Ascend
<1>8. ASSUME NEW from \in Roots, NEW to \in Roots, held # {}, WhyDepends(from, to) PROVE HeldInv'
  BY <1>3, <1>8 DEF WhyDepends
<1>9. ASSUME NEW c \in held, Look(c) PROVE HeldInv'
  BY <1>3, <1>9 DEF Look
<1>10. ASSUME Retrace PROVE HeldInv'
  BY <1>4, <1>10 DEF Retrace
<1>11. ASSUME NoReason PROVE HeldInv'
  BY <1>4, <1>11 DEF NoReason
<1>12. ASSUME UNCHANGED catalogue PROVE HeldInv'
  BY <1>12 DEF catalogue, HeldInv
<1>13. QED
  BY <1>1, <1>2, <1>5, <1>6, <1>7, <1>8, <1>9, <1>10, <1>11, <1>12 DEF CatalogueNext

-----------------------------------------------------------------------------
(* Catalogue: the shortest reason, step by step.                           *)

(* What holds of the question that is under way.                           *)
ReasonInv == Asked(why) /\ \A c \in held : WhyInv(c, why)

(* Nothing is asked at first.                                              *)
LEMMA ReasonInit == CatalogueInit => ReasonInv
<1> SUFFICES ASSUME CatalogueInit PROVE ReasonInv
  OBVIOUS
<1>1. why = Unasked /\ held = {}
  BY DEF CatalogueInit
<1>2. Asked(why)
  BY <1>1 DEF Unasked, Asked
<1>3. QED
  BY <1>1, <1>2 DEF ReasonInv

(* A question begins at its start, or is told at once.                     *)
LEMMA ReasonAsks ==
  ASSUME HeldInv, NEW from \in Roots, NEW to \in Roots, WhyDepends(from, to)
  PROVE  ReasonInv'
<1> DEFINE prev == [d \in {from} |-> <<>>]
           at == IF from = to THEN "told" ELSE "search"
           path == IF from = to THEN <<from>> ELSE <<>>
<1>1. held' = held /\ from \in ProjectName /\ to \in ProjectName
  BY CatalogueAssumption DEF WhyDepends
<1>2. why' = [Unasked EXCEPT !.at = at, !.from = from, !.to = to, !.prev = prev,
                             !.queue = <<from>>, !.path = path]
  BY DEF WhyDepends
<1>3. why' = [at |-> at, from |-> from, to |-> to, prev |-> prev,
              queue |-> <<from>>, path |-> path]
  BY <1>2 DEF Unasked
<1>4. <<from>> \in Seq(ProjectName) /\ path \in Seq(ProjectName) /\ (at = "search" => path = <<>>)
  BY <1>1
<1> HIDE DEF prev, path
<1>5. /\ why'.at = at /\ why'.from = from /\ why'.to = to /\ why'.prev = prev
      /\ why'.queue = <<from>> /\ why'.path = path
  BY <1>3
<1>6. Asked(why')
  BY <1>1, <1>3, <1>4, <1>5 DEF Asked
<1>7. ASSUME NEW c \in held PROVE WhyInv(c, why')
  <2>1. Sound(c)
    BY DEF HeldInv
  <2>2. Ways(c, from, prev) /\ Searching(c, from, DOMAIN prev, <<from>>)
    BY <1>1, SearchBegins DEF prev
  <2>3. CASE from = to
    <3>1. at = "told" /\ path = <<from>>
      BY <2>3 DEF path
    <3>2. Linked(c, path) /\ path # <<>> /\ path[1] = from /\ path[Len(path)] = to
             /\ ~(Len(path) > 1)
      <4>1. Len(path) = 1 /\ path[1] = from /\ 2 .. 1 = {}
        BY <3>1
      <4>2. QED
        BY <2>3, <3>1, <4>1 DEF Linked
    <3>3. Told(c, from, to, path)
      BY <3>2 DEF Told
    <3>4. QED
      BY <1>5, <3>1, <3>3 DEF WhyInv
  <2>4. CASE from # to
    <3>1. at = "search" /\ to \notin DOMAIN prev
      BY <2>4 DEF prev
    <3>2. QED
      BY <1>5, <2>2, <3>1 DEF WhyInv
  <2>5. QED
    BY <2>3, <2>4
<1>8. QED
  BY <1>1, <1>6, <1>7 DEF ReasonInv

(* Looking at the next of the queue keeps the search breadth first, or     *)
(* finds the end.                                                          *)
LEMMA ReasonLooks ==
  ASSUME HeldInv, ReasonInv, NEW c \in held, Look(c)
  PROVE  ReasonInv'
<1> DEFINE p == Head(why.queue)
           new == Edges(c, FALSE, p) \ DOMAIN why.prev
           prev == [d \in new \cup DOMAIN why.prev |-> IF d \in new THEN p ELSE why.prev[d]]
           rest == Tail(why.queue) \o ByName(new)
<1>1. /\ held' = held /\ why.at = "search" /\ why.queue # <<>>
      /\ why' = IF why.to \in new
                THEN [why EXCEPT !.at = "found", !.prev = prev, !.path = <<why.to>>]
                ELSE [why EXCEPT !.prev = prev, !.queue = rest]
  BY DEF Look
<1>2. Sound(c) /\ \A d \in held : d = c
  BY DEF HeldInv
<1>3. /\ Asked(why) /\ Ways(c, why.from, why.prev) /\ why.to \notin DOMAIN why.prev
      /\ Searching(c, why.from, DOMAIN why.prev, why.queue)
  BY <1>1 DEF ReasonInv, WhyInv
<1>4. /\ why = [at |-> why.at, from |-> why.from, to |-> why.to,
                prev |-> why.prev, queue |-> why.queue, path |-> why.path]
      /\ why.from \in ProjectName /\ why.to \in ProjectName
      /\ why.queue \in Seq(ProjectName) /\ why.path = <<>>
  BY <1>1, <1>3 DEF Asked
<1>5. p = why.queue[1]
  BY <1>1, <1>4
<1>6. /\ Ways(c, why.from, prev)
      /\ Searching(c, why.from, DOMAIN prev, rest)
      /\ \A d \in new : \E n \in Nat : Away(c, why.from, d, n)
      /\ rest \in Seq(ProjectName)
  <2>1. new = Edges(c, FALSE, why.queue[1]) \ DOMAIN why.prev
    BY <1>5
  <2>2. prev = [d \in new \cup DOMAIN why.prev |->
                  IF d \in new THEN why.queue[1] ELSE why.prev[d]]
    <3> HIDE DEF new
    <3>1. QED
      BY <1>5
  <2> HIDE DEF p, new, prev
  <2>3. Finds(c, why.queue[1], why.prev, new, prev)
    BY <2>1, <2>2, Zenon DEF Finds
  <2>4. /\ Ways(c, why.from, prev)
        /\ Searching(c, why.from, DOMAIN prev, Tail(why.queue) \o ByName(new))
        /\ \A d \in new : \E n \in Nat : Away(c, why.from, d, n)
        /\ Tail(why.queue) \o ByName(new) \in Seq(ProjectName)
    BY <1>1, <1>2, <1>3, <1>4, <2>3, SearchMoves
  <2>5. QED
    BY <2>4
<1>7. DOMAIN prev = new \cup DOMAIN why.prev
  OBVIOUS
<1> HIDE DEF p, new, prev, rest
<1>8. CASE why.to \in new
  <2>1. why' = [at |-> "found", from |-> why.from, to |-> why.to, prev |-> prev,
                queue |-> why.queue, path |-> <<why.to>>]
    BY <1>1, <1>4, <1>8
  <2>2. Retracing(c, why.from, why.to, <<why.to>>)
    BY <1>6, <1>8, RetracingBegins
  <2>3. /\ why'.at = "found" /\ why'.from = why.from /\ why'.to = why.to
        /\ why'.prev = prev /\ why'.queue = why.queue /\ why'.path = <<why.to>>
    BY <2>1
  <2>4. <<why.to>> \in Seq(ProjectName) /\ <<why.to>>[1] = why.to
    BY <1>4
  <2>5. Asked(why')
    BY <1>4, <2>1, <2>3, <2>4 DEF Asked
  <2>6. WhyInv(c, why')
    BY <1>6, <1>7, <1>8, <2>2, <2>3, <2>4 DEF WhyInv
  <2>7. QED
    BY <1>1, <1>2, <2>5, <2>6 DEF ReasonInv
<1>9. CASE why.to \notin new
  <2>1. why' = [at |-> "search", from |-> why.from, to |-> why.to, prev |-> prev,
                queue |-> rest, path |-> <<>>]
    BY <1>1, <1>4, <1>9
  <2>2. /\ why'.at = "search" /\ why'.from = why.from /\ why'.to = why.to
        /\ why'.prev = prev /\ why'.queue = rest /\ why'.path = <<>>
    BY <2>1
  <2>3. Asked(why')
    BY <1>4, <1>6, <2>1, <2>2 DEF Asked
  <2>4. WhyInv(c, why')
    BY <1>3, <1>6, <1>7, <1>9, <2>2 DEF WhyInv
  <2>5. QED
    BY <1>1, <1>2, <2>3, <2>4 DEF ReasonInv
<1>10. QED
  BY <1>8, <1>9

(* Going back comes one nearer to the start.                               *)
LEMMA ReasonRetraces ==
  ASSUME HeldInv, ReasonInv, Retrace
  PROVE  ReasonInv'
<1> DEFINE p == why.prev[Head(why.path)]
<1>1. /\ held' = held /\ why.at = "found"
      /\ why' = IF p = <<>> THEN [why EXCEPT !.at = "told"]
                ELSE [why EXCEPT !.path = <<p>> \o why.path]
  BY DEF Retrace
<1>2. PICK c \in held : \A d \in held : d = c
  BY <1>1 DEF HeldInv
<1>3. /\ Asked(why) /\ Ways(c, why.from, why.prev)
      /\ why.path[1] \in DOMAIN why.prev /\ Retracing(c, why.from, why.to, why.path)
  BY <1>1 DEF ReasonInv, WhyInv
<1>4. /\ why = [at |-> why.at, from |-> why.from, to |-> why.to,
                prev |-> why.prev, queue |-> why.queue, path |-> why.path]
      /\ why.from \in ProjectName /\ why.to \in ProjectName
      /\ why.queue \in Seq(ProjectName) /\ why.path \in Seq(ProjectName)
  BY <1>1, <1>3 DEF Asked
<1>5. p = why.prev[why.path[1]]
  BY <1>3, <1>4 DEF Retracing
<1> HIDE DEF p
<1>6. CASE p = <<>>
  <2>1. why' = [at |-> "told", from |-> why.from, to |-> why.to, prev |-> why.prev,
                queue |-> why.queue, path |-> why.path]
    BY <1>1, <1>4, <1>6
  <2>2. Told(c, why.from, why.to, why.path)
    BY <1>3, <1>4, <1>5, <1>6, RetracingEnds
  <2>3. /\ why'.at = "told" /\ why'.from = why.from /\ why'.to = why.to
        /\ why'.prev = why.prev /\ why'.queue = why.queue /\ why'.path = why.path
    BY <2>1
  <2>4. Asked(why')
    BY <1>4, <2>1, <2>3 DEF Asked
  <2>5. WhyInv(c, why')
    BY <2>2, <2>3 DEF WhyInv
  <2>6. QED
    BY <1>1, <1>2, <2>4, <2>5 DEF ReasonInv
<1>7. CASE p # <<>>
  <2> DEFINE path == <<p>> \o why.path
  <2>1. /\ p \in DOMAIN why.prev /\ path \in Seq(ProjectName) /\ path[1] = p
        /\ Retracing(c, why.from, why.to, path)
    BY <1>3, <1>4, <1>5, <1>7, RetracingMoves
  <2> HIDE DEF path
  <2>2. why' = [at |-> "found", from |-> why.from, to |-> why.to, prev |-> why.prev,
                queue |-> why.queue, path |-> path]
    BY <1>1, <1>4, <1>7 DEF path
  <2>3. /\ why'.at = "found" /\ why'.from = why.from /\ why'.to = why.to
        /\ why'.prev = why.prev /\ why'.queue = why.queue /\ why'.path = path
    BY <2>2
  <2>4. Asked(why')
    BY <1>4, <2>1, <2>2, <2>3 DEF Asked
  <2>5. WhyInv(c, why')
    BY <1>3, <2>1, <2>3 DEF WhyInv
  <2>6. QED
    BY <1>1, <1>2, <2>4, <2>5 DEF ReasonInv
<1>8. QED
  BY <1>6, <1>7

(* An empty queue means that there is no way.                              *)
LEMMA ReasonGivesUp ==
  ASSUME HeldInv, ReasonInv, NoReason
  PROVE  ReasonInv'
<1>1. held' = held /\ why.at = "search" /\ why.queue = <<>> /\ why' = [why EXCEPT !.at = "told"]
  BY DEF NoReason
<1>2. PICK c \in held : \A d \in held : d = c
  BY <1>1 DEF HeldInv
<1>3. /\ Asked(why) /\ why.to \notin DOMAIN why.prev
      /\ Searching(c, why.from, DOMAIN why.prev, <<>>)
  BY <1>1 DEF ReasonInv, WhyInv
<1>4. /\ why = [at |-> why.at, from |-> why.from, to |-> why.to,
                prev |-> why.prev, queue |-> why.queue, path |-> why.path]
      /\ why.from \in ProjectName /\ why.to \in ProjectName
      /\ why.queue \in Seq(ProjectName) /\ why.path = <<>>
  BY <1>1, <1>3 DEF Asked
<1>5. why' = [at |-> "told", from |-> why.from, to |-> why.to, prev |-> why.prev,
              queue |-> why.queue, path |-> <<>>]
  BY <1>1, <1>4
<1>6. /\ why'.at = "told" /\ why'.from = why.from /\ why'.to = why.to
      /\ why'.prev = why.prev /\ why'.queue = why.queue /\ why'.path = <<>>
  BY <1>5
<1>7. Told(c, why.from, why.to, <<>>)
  BY <1>3, SearchEnds
<1>8. Asked(why')
  BY <1>4, <1>5, <1>6 DEF Asked
<1>9. WhyInv(c, why')
  BY <1>6, <1>7 DEF WhyInv
<1>10. QED
  BY <1>1, <1>2, <1>8, <1>9 DEF ReasonInv

(* Every step keeps what holds of the question.                            *)
LEMMA ReasonNext == HeldInv /\ ReasonInv /\ [CatalogueNext]_catalogue => ReasonInv'
<1> SUFFICES ASSUME HeldInv, ReasonInv, [CatalogueNext]_catalogue PROVE ReasonInv'
  OBVIOUS
<1>1. ASSUME UNCHANGED why, held' = held \/ why.at = "rest" PROVE ReasonInv'
  BY <1>1 DEF ReasonInv, WhyInv
<1>2. ASSUME NEW c \in Catalogs, PublishCatalog(c) PROVE ReasonInv'
  BY <1>1, <1>2 DEF PublishCatalog
<1>3. ASSUME NEW served, FetchCatalog(served) PROVE ReasonInv'
  BY <1>1, <1>3 DEF FetchCatalog, HeldInv
<1>4. ASSUME NEW c, NEW root, NEW depth, NEW up, DepTree(c, root, depth, up) PROVE ReasonInv'
  BY <1>1, <1>4 DEF DepTree
<1>5. ASSUME NEW c, Visit(c) PROVE ReasonInv'
  BY <1>1, <1>5 DEF Visit
<1>6. ASSUME Ascend PROVE ReasonInv'
  BY <1>1, <1>6 DEF Ascend
<1>7. ASSUME UNCHANGED catalogue PROVE ReasonInv'
  BY <1>1, <1>7 DEF catalogue
<1>8. QED
  BY <1>2, <1>3, <1>4, <1>5, <1>6, <1>7, ReasonAsks, ReasonLooks, ReasonRetraces, ReasonGivesUp
  DEF CatalogueNext

(* What is told is a shortest reason.                                      *)
LEMMA ReasonImplies ==
  ASSUME HeldInv, ReasonInv
  PROVE  ReasonIsShortest
<1> SUFFICES ASSUME why.at = "told", NEW c \in held
             PROVE  LET path == why.path
                        Near(n) == why.to \in Within(c, FALSE, {why.from}, n)
                    IN  IF path = <<>> THEN ~Near(Len(NameOrder))
                        ELSE /\ Head(path) = why.from /\ Last(path) = why.to
                             /\ \A i \in 2 .. Len(path) : path[i] \in Edges(c, FALSE, path[i - 1])
                             /\ Len(path) > 1 => ~Near(Len(path) - 2)
  BY DEF ReasonIsShortest
<1>1. Told(c, why.from, why.to, why.path)
  BY DEF ReasonInv, WhyInv
<1>2. why.path \in Seq(ProjectName) /\ Len(NameOrder) \in Nat
  BY CatalogueAssumption DEF ReasonInv, Asked
<1>3. CASE why.path = <<>>
  BY <1>1, <1>2, <1>3 DEF Told
<1>4. CASE why.path # <<>>
  <2>1. /\ why.path[1] = why.from /\ why.path[Len(why.path)] = why.to
        /\ \A i \in 2 .. Len(why.path) : why.path[i] \in Edges(c, FALSE, why.path[i - 1])
        /\ Len(why.path) > 1 => why.to \notin Within(c, FALSE, {why.from}, Len(why.path) - 2)
    BY <1>1, <1>4 DEF Told, Linked
  <2>2. Head(why.path) = why.path[1] /\ Last(why.path) = why.path[Len(why.path)]
    BY <1>2, <1>4 DEF Last
  <2>3. QED
    BY <1>4, <2>1, <2>2
<1>5. QED
  BY <1>3, <1>4

(* A reason is a path of dependencies and none is shorter, and no reason   *)
(* means that there is none, for any catalogue and any two projects        *)
(* (Catalog.WhyDepends).                                                   *)
THEOREM ReasonHolds == CatalogueSpec => []ReasonIsShortest
<1>1. CatalogueInit => HeldInv /\ ReasonInv
  BY HeldInit, ReasonInit
<1>2. HeldInv /\ ReasonInv /\ [CatalogueNext]_catalogue => HeldInv' /\ ReasonInv'
  BY HeldNext, ReasonNext
<1>3. HeldInv /\ ReasonInv => ReasonIsShortest
  BY ReasonImplies
<1>4. QED
  BY <1>1, <1>2, <1>3, PTL DEF CatalogueSpec

-----------------------------------------------------------------------------
(* Catalogue: the tree (walkGraph).                                        *)

(* The records of a walk: the level of a project, and a line of the tree.  *)
Levels == [of : ProjectName, level : Nat, kids : SUBSET ProjectName, fresh : SUBSET ProjectName]
Lines == [project : ProjectName, of : ProjectName, level : Nat, known : BOOLEAN, repeat : BOOLEAN]

(* What was descended into.                                                *)
Opened(root, shown) ==
  {root} \cup {shown[i].project : i \in {j \in DOMAIN shown : ~ shown[j].repeat}}

(* What of a level is to be descended into.                                *)
Pending(l) == l.kids \cap l.fresh

(* What is still to be shown of a level: edges of a project that was       *)
(* descended into, all of them marked; nothing at the limit; and below the *)
(* root only the root itself is a repetition.                              *)
LevelIs(c, up, root, depth, opened, seen, l) ==
  /\ l.of \in opened /\ l.of \in Within(c, up, {root}, l.level)
  /\ l.kids \subseteq Edges(c, up, l.of) /\ l.kids \subseteq seen
  /\ depth > 0 /\ l.level >= depth => l.kids = {}
  /\ Pending(l) \cap opened = {}
  /\ l.of = root => l.kids \ l.fresh \subseteq {root}

(* A line is an edge of a project that was descended into, not beyond the  *)
(* limit; below the root only the root itself is a repetition.             *)
ShownIs(c, up, root, depth, opened, seen, s) ==
  /\ s.known <=> s.project \in Listed(c)
  /\ s.of \in opened /\ s.project \in seen /\ s.project \in Edges(c, up, s.of)
  /\ depth > 0 => s.project \in Within(c, up, {root}, depth)
  /\ \E n \in Nat : s.project \in Within(c, up, {root}, n)
  /\ s.of = root /\ s.repeat => s.project = root

(* No project is on the stack twice, and none is to be descended into from *)
(* two levels.                                                             *)
LevelsApart(stack) ==
  \A k, l \in DOMAIN stack :
     k # l => stack[k].of # stack[l].of /\ Pending(stack[k]) \cap Pending(stack[l]) = {}

(* No edge has two lines, and no project was descended into twice.         *)
OpenedOnce(shown) ==
  \A i, j \in DOMAIN shown :
     /\ shown[i].project = shown[j].project
     /\ shown[i].of = shown[j].of \/ (~ shown[i].repeat /\ ~ shown[j].repeat)
     => i = j

(* What is still to be shown was not shown.                                *)
Due(stack, shown) ==
  \A k \in DOMAIN stack, i \in DOMAIN shown :
     shown[i].of = stack[k].of => shown[i].project \notin stack[k].kids

(* What is marked was descended into or will be.                           *)
Marked(opened, seen, stack) ==
  /\ opened \subseteq seen
  /\ \A d \in seen : d \in opened \/ \E k \in DOMAIN stack : d \in Pending(stack[k])

(* Of these projects all that is below is shown or will be.                *)
Covered(c, up, P, stack, shown) ==
  \A p \in P : \A d \in Edges(c, up, p) :
     \/ \E i \in DOMAIN shown : shown[i].of = p /\ shown[i].project = d
     \/ \E k \in DOMAIN stack : stack[k].of = p /\ d \in stack[k].kids

(* What holds of a tree under way, of what was descended into, marked, put *)
(* on the stack and shown.                                                 *)
Tree(c, up, root, depth, opened, seen, stack, shown) ==
  /\ \A k \in DOMAIN stack : LevelIs(c, up, root, depth, opened, seen, stack[k])
  /\ \A i \in DOMAIN shown : ShownIs(c, up, root, depth, opened, seen, shown[i])
  /\ LevelsApart(stack) /\ OpenedOnce(shown) /\ Due(stack, shown) /\ Marked(opened, seen, stack)

(* The record of a walk.                                                   *)
Walking(w) ==
  /\ w = [at |-> w.at, root |-> w.root, depth |-> w.depth, up |-> w.up,
          seen |-> w.seen, stack |-> w.stack, shown |-> w.shown]
  /\ w.at \in {"rest", "walk", "shown"}
  /\ w.at = "shown" => w.stack = <<>>
  /\ w.at # "rest" =>
       /\ w.root \in ProjectName /\ w.seen \subseteq ProjectName
       /\ w.depth \in Nat /\ w.up \in BOOLEAN
       /\ w.stack \in Seq(Levels) /\ w.shown \in Seq(Lines)

(* What holds of a walk while a catalogue is held.                         *)
Walked(c, w) ==
  LET opened == Opened(w.root, w.shown)
  IN  w.at # "rest" =>
        /\ Tree(c, w.up, w.root, w.depth, opened, w.seen, w.stack, w.shown)
        /\ w.depth = 0 => Covered(c, w.up, opened, w.stack, w.shown)

(* The next of the last level is shown.                                    *)
Shows(stack, shown, d, s, rest, more) ==
  LET n == Len(stack)
      m == Len(shown)
  IN  /\ n \in Nat \ {0} /\ DOMAIN stack = 1 .. n /\ DOMAIN rest = 1 .. n
      /\ \A k \in 1 .. n :
           /\ rest[k].of = stack[k].of /\ rest[k].level = stack[k].level
           /\ rest[k].fresh = stack[k].fresh
           /\ rest[k].kids = IF k = n THEN stack[k].kids \ {d} ELSE stack[k].kids
      /\ m \in Nat /\ DOMAIN shown = 1 .. m /\ DOMAIN more = 1 .. m + 1
      /\ \A i \in 1 .. m : more[i] = shown[i]
      /\ more[m + 1] = s
      /\ d \in stack[n].kids /\ stack[n].level \in Nat
      /\ s.project = d /\ s.of = stack[n].of /\ s.repeat = (d \notin stack[n].fresh)

(* A line that is no repetition is descended into.                         *)
LEMMA OpenedGrows ==
  ASSUME NEW root, NEW stack, NEW shown, NEW d, NEW s, NEW rest, NEW more,
         Shows(stack, shown, d, s, rest, more)
  PROVE  /\ s.repeat => Opened(root, more) = Opened(root, shown)
         /\ ~ s.repeat => Opened(root, more) = Opened(root, shown) \cup {d}
<1> DEFINE m == Len(shown)
<1>1. /\ m \in Nat /\ DOMAIN shown = 1 .. m /\ DOMAIN more = 1 .. m + 1
      /\ \A i \in 1 .. m : more[i] = shown[i]
      /\ more[m + 1] = s /\ s.project = d
  BY Zenon DEF Shows
<1> HIDE DEF m
<1>2. \A i \in 1 .. m + 1 : i \in 1 .. m \/ i = m + 1
  BY <1>1
<1>3. m + 1 \in 1 .. m + 1 /\ \A i \in 1 .. m : i \in 1 .. m + 1
  BY <1>1
<1>4. QED
  BY <1>1, <1>2, <1>3 DEF Opened

(* Showing the next of the last level keeps the tree, and what is below    *)
(* whoever was descended into stays covered; it is one step further than   *)
(* its level.                                                              *)
LEMMA TreeShows ==
  ASSUME NEW c, NEW up, NEW root, NEW depth \in Nat, NEW seen, NEW stack, NEW shown,
         Tree(c, up, root, depth, Opened(root, shown), seen, stack, shown),
         NEW d, NEW s, NEW rest, NEW more, Shows(stack, shown, d, s, rest, more),
         s.known <=> d \in Listed(c)
  PROVE  /\ Tree(c, up, root, depth, Opened(root, more), seen, rest, more)
         /\ \A P : Covered(c, up, P, stack, shown) => Covered(c, up, P, rest, more)
         /\ \A k \in DOMAIN rest : rest[k].of \in Opened(root, shown)
         /\ \A i \in DOMAIN more : more[i].of \in Opened(root, shown)
         /\ ~ s.repeat => d \notin Opened(root, shown)
         /\ d \in Within(c, up, {root}, stack[Len(stack)].level + 1)
<1> DEFINE n == Len(stack)
           m == Len(shown)
           top == stack[n]
           opened == Opened(root, shown)
           wider == Opened(root, more)
<1>0. /\ s.repeat => wider = opened
      /\ ~ s.repeat => wider = opened \cup {d}
      /\ \A i \in DOMAIN shown : shown[i].repeat \/ shown[i].project \in opened
  <2>1. \A i \in DOMAIN shown : shown[i].repeat \/ shown[i].project \in opened
    BY DEF Opened
  <2>2. QED
    BY <2>1, OpenedGrows
<1>1. /\ n \in Nat /\ n # 0 /\ DOMAIN stack = 1 .. n /\ DOMAIN rest = 1 .. n /\ n \in 1 .. n
      /\ \A k \in 1 .. n :
           /\ rest[k].of = stack[k].of /\ rest[k].level = stack[k].level
           /\ rest[k].fresh = stack[k].fresh
           /\ rest[k].kids = IF k = n THEN stack[k].kids \ {d} ELSE stack[k].kids
  <2>1. /\ n \in Nat \ {0} /\ DOMAIN stack = 1 .. n /\ DOMAIN rest = 1 .. n
        /\ \A k \in 1 .. n :
             /\ rest[k].of = stack[k].of /\ rest[k].level = stack[k].level
             /\ rest[k].fresh = stack[k].fresh
             /\ rest[k].kids = IF k = n THEN stack[k].kids \ {d} ELSE stack[k].kids
    BY Zenon DEF Shows
  <2> HIDE DEF n
  <2>2. n \in Nat /\ n # 0 /\ n \in 1 .. n
    BY <2>1
  <2>3. QED
    BY <2>1, <2>2
<1>2. /\ m \in Nat /\ DOMAIN shown = 1 .. m /\ DOMAIN more = 1 .. m + 1
      /\ \A i \in 1 .. m : more[i] = shown[i]
      /\ more[m + 1] = s
      /\ \A i \in 1 .. m + 1 : i \in 1 .. m \/ i = m + 1
  <2>1. /\ m \in Nat /\ DOMAIN shown = 1 .. m /\ DOMAIN more = 1 .. m + 1
        /\ \A i \in 1 .. m : more[i] = shown[i]
        /\ more[m + 1] = s
    BY Zenon DEF Shows
  <2> HIDE DEF m
  <2>2. \A i \in 1 .. m + 1 : i \in 1 .. m \/ i = m + 1
    BY <2>1
  <2>3. QED
    BY <2>1, <2>2
<1>3. /\ d \in top.kids
      /\ s.project = d /\ s.of = top.of /\ s.repeat = (d \notin top.fresh)
  BY Zenon DEF Shows
<1>4. /\ \A k \in 1 .. n : LevelIs(c, up, root, depth, opened, seen, stack[k])
      /\ \A i \in 1 .. m : ShownIs(c, up, root, depth, opened, seen, shown[i])
      /\ LevelsApart(stack) /\ OpenedOnce(shown) /\ Due(stack, shown) /\ Marked(opened, seen, stack)
  BY <1>1, <1>2 DEF Tree
<1> HIDE DEF n, m, opened, wider
<1>5. /\ top.of \in opened /\ top.of \in Within(c, up, {root}, top.level)
      /\ top.kids \subseteq Edges(c, up, top.of) /\ top.kids \subseteq seen
      /\ depth > 0 /\ top.level >= depth => top.kids = {}
      /\ Pending(top) \cap opened = {}
      /\ top.of = root => top.kids \ top.fresh \subseteq {root}
  BY <1>1, <1>4 DEF LevelIs
<1>6. top.level \in Nat /\ top.level + 1 \in Nat
  <2>1. top.level \in Nat
    BY Zenon DEF Shows, n
  <2> HIDE DEF top
  <2>2. QED
    BY <2>1
<1>7. d \in Within(c, up, {root}, top.level + 1)
  BY <1>3, <1>5, <1>6, WithinStep
<1>8. ~ s.repeat => d \in Pending(top) /\ d \notin opened
  BY <1>3, <1>5 DEF Pending
<1>9. /\ opened \subseteq wider
      /\ (s.repeat => wider = opened) /\ (~ s.repeat => wider = opened \cup {d})
  BY <1>0
<1>10. ASSUME NEW k \in 1 .. n
       PROVE  /\ Pending(rest[k]) \subseteq Pending(stack[k])
              /\ \A e \in Pending(stack[k]) : (e = d /\ ~ s.repeat) \/ e \in Pending(rest[k])
              /\ ~ s.repeat => d \notin Pending(rest[k])
  <2>1. CASE k = n
    <3>1. Pending(rest[k]) = (top.kids \ {d}) \cap top.fresh
      BY <1>1, <2>1 DEF Pending
    <3>2. QED
      BY <1>3, <2>1, <3>1 DEF Pending
  <2>2. CASE k # n
    <3>1. Pending(rest[k]) = Pending(stack[k])
      BY <1>1, <2>2 DEF Pending
    <3>2. ~ s.repeat => d \notin Pending(stack[k])
      BY <1>1, <1>4, <1>8, <2>2 DEF LevelsApart
    <3>3. QED
      BY <3>1, <3>2
  <2>3. QED
    BY <2>1, <2>2
<1>11. ASSUME NEW k \in 1 .. n PROVE LevelIs(c, up, root, depth, wider, seen, rest[k])
  <2>1. /\ stack[k].of \in opened /\ stack[k].of \in Within(c, up, {root}, stack[k].level)
        /\ stack[k].kids \subseteq Edges(c, up, stack[k].of) /\ stack[k].kids \subseteq seen
        /\ depth > 0 /\ stack[k].level >= depth => stack[k].kids = {}
        /\ Pending(stack[k]) \cap opened = {}
        /\ stack[k].of = root => stack[k].kids \ stack[k].fresh \subseteq {root}
    BY <1>4 DEF LevelIs
  <2>2. /\ rest[k].of = stack[k].of /\ rest[k].level = stack[k].level
        /\ rest[k].fresh = stack[k].fresh /\ rest[k].kids \subseteq stack[k].kids
    BY <1>1
  <2>3. Pending(rest[k]) \cap wider = {}
    BY <1>9, <1>10, <2>1
  <2>4. QED
    BY <1>9, <2>1, <2>2, <2>3 DEF LevelIs
<1>12. ASSUME NEW i \in 1 .. m + 1 PROVE ShownIs(c, up, root, depth, wider, seen, more[i])
  <2>1. CASE i \in 1 .. m
    BY <1>2, <1>4, <1>9, <2>1 DEF ShownIs
  <2>2. CASE i = m + 1
    <3>1. more[i] = s
      BY <1>2, <2>2
    <3>2. depth > 0 => d \in Within(c, up, {root}, depth)
      <4>1. depth > 0 => top.level + 1 <= depth
        BY <1>3, <1>5, <1>6
      <4>2. depth > 0 => Within(c, up, {root}, top.level + 1) \subseteq Within(c, up, {root}, depth)
        BY <1>6, <4>1, WithinGrows
      <4>3. QED
        BY <1>7, <4>2
    <3>3. \E k \in Nat : d \in Within(c, up, {root}, k)
      BY <1>6, <1>7
    <3>4. s.of = root /\ s.repeat => d = root
      BY <1>3, <1>5
    <3> HIDE DEF top
    <3>5. QED
      BY <1>3, <1>5, <1>9, <3>1, <3>2, <3>3, <3>4 DEF ShownIs
  <2>3. QED
    BY <1>2, <2>1, <2>2
<1>13. LevelsApart(rest)
  <2> SUFFICES ASSUME NEW k \in 1 .. n, NEW l \in 1 .. n, k # l
               PROVE  /\ rest[k].of # rest[l].of
                      /\ Pending(rest[k]) \cap Pending(rest[l]) = {}
    BY <1>1 DEF LevelsApart
  <2>1. stack[k].of # stack[l].of /\ Pending(stack[k]) \cap Pending(stack[l]) = {}
    BY <1>1, <1>4 DEF LevelsApart
  <2>2. QED
    BY <1>1, <1>10, <2>1
<1>14. ASSUME NEW i \in 1 .. m
       PROVE  /\ ~(shown[i].project = d /\ shown[i].of = top.of)
              /\ ~ s.repeat => shown[i].repeat \/ shown[i].project # d
  <2>1. ~(shown[i].project = d /\ shown[i].of = top.of)
    BY <1>1, <1>2, <1>3, <1>4 DEF Due
  <2>2. shown[i].repeat \/ shown[i].project \in opened
    BY <1>0, <1>2
  <2>3. QED
    BY <1>8, <2>1, <2>2
<1>15. OpenedOnce(more)
  <2> SUFFICES ASSUME NEW i \in 1 .. m + 1, NEW j \in 1 .. m + 1,
                      more[i].project = more[j].project,
                      more[i].of = more[j].of \/ (~ more[i].repeat /\ ~ more[j].repeat)
               PROVE  i = j
    BY <1>2 DEF OpenedOnce
  <2>1. CASE i \in 1 .. m /\ j \in 1 .. m
    BY <1>2, <1>4, <2>1 DEF OpenedOnce
  <2>2. CASE i \in 1 .. m /\ j = m + 1
    BY <1>2, <1>3, <1>14, <2>2
  <2>3. CASE i = m + 1 /\ j \in 1 .. m
    BY <1>2, <1>3, <1>14, <2>3
  <2>4. CASE i = m + 1 /\ j = m + 1
    BY <2>4
  <2>5. QED
    BY <1>2, <2>1, <2>2, <2>3, <2>4
<1>16. Due(rest, more)
  <2> SUFFICES ASSUME NEW k \in 1 .. n, NEW i \in 1 .. m + 1, more[i].of = rest[k].of
               PROVE  more[i].project \notin rest[k].kids
    BY <1>1, <1>2 DEF Due
  <2>1. CASE i \in 1 .. m
    <3>1. shown[i].project \notin stack[k].kids
      BY <1>1, <1>2, <1>4, <2>1 DEF Due
    <3>2. QED
      BY <1>1, <1>2, <2>1, <3>1
  <2>2. CASE i = m + 1
    <3>1. stack[k].of = top.of /\ more[i].project = d
      BY <1>1, <1>2, <1>3, <2>2
    <3>2. k = n
      BY <1>1, <1>4, <3>1 DEF LevelsApart
    <3>3. QED
      BY <1>1, <3>1, <3>2
  <2>3. QED
    BY <1>2, <2>1, <2>2
<1>17. Marked(wider, seen, rest)
  <2>1. /\ opened \subseteq seen
        /\ \A e \in seen : e \in opened \/ \E k \in 1 .. n : e \in Pending(stack[k])
    BY <1>1, <1>4 DEF Marked
  <2>2. wider \subseteq seen
    BY <1>3, <1>5, <1>9, <2>1
  <2>3. \A e \in seen : e \in wider \/ \E k \in 1 .. n : e \in Pending(rest[k])
    BY <1>9, <1>10, <2>1
  <2>4. QED
    BY <1>1, <2>2, <2>3 DEF Marked
<1>18. ASSUME NEW P, Covered(c, up, P, stack, shown) PROVE Covered(c, up, P, rest, more)
  <2>9. DOMAIN more = 1 .. m + 1 /\ DOMAIN rest = 1 .. n
    BY <1>1, <1>2
  <2> SUFFICES ASSUME NEW p \in P, NEW e \in Edges(c, up, p)
               PROVE  \/ \E i \in DOMAIN more : more[i].of = p /\ more[i].project = e
                      \/ \E k \in DOMAIN rest : rest[k].of = p /\ e \in rest[k].kids
    BY Zenon DEF Covered
  <2> SUFFICES \/ \E i \in 1 .. m + 1 : more[i].of = p /\ more[i].project = e
               \/ \E k \in 1 .. n : rest[k].of = p /\ e \in rest[k].kids
    BY <2>9
  <2>1. \/ \E i \in 1 .. m : shown[i].of = p /\ shown[i].project = e
        \/ \E k \in 1 .. n : stack[k].of = p /\ e \in stack[k].kids
    BY <1>1, <1>2, <1>18 DEF Covered
  <2>2. CASE \E i \in 1 .. m : shown[i].of = p /\ shown[i].project = e
    <3>1. PICK i \in 1 .. m : shown[i].of = p /\ shown[i].project = e
      BY <2>2
    <3>2. i \in 1 .. m + 1 /\ more[i] = shown[i]
      BY <1>2
    <3>3. QED
      BY <3>1, <3>2
  <2>3. CASE \E k \in 1 .. n : stack[k].of = p /\ e \in stack[k].kids
    <3>1. PICK k \in 1 .. n : stack[k].of = p /\ e \in stack[k].kids
      BY <2>3
    <3>2. CASE e \in rest[k].kids
      BY <1>1, <3>1, <3>2
    <3>3. CASE e \notin rest[k].kids
      <4>1. k = n /\ e = d
        BY <1>1, <3>1, <3>3
      <4>2. m + 1 \in 1 .. m + 1 /\ more[m + 1].of = p /\ more[m + 1].project = e
        BY <1>2, <1>3, <3>1, <4>1
      <4>3. QED
        BY <4>2
    <3>4. QED
      BY <3>2, <3>3
  <2>4. QED
    BY <2>1, <2>2, <2>3
<1>19. Tree(c, up, root, depth, wider, seen, rest, more)
  BY <1>1, <1>2, <1>11, <1>12, <1>13, <1>15, <1>16, <1>17 DEF Tree
<1>20. \A k \in DOMAIN rest : rest[k].of \in opened
  BY <1>1, <1>4 DEF LevelIs
<1>21. \A i \in DOMAIN more : more[i].of \in opened
  BY <1>2, <1>3, <1>4, <1>5 DEF ShownIs
<1>22. d \in Within(c, up, {root}, stack[Len(stack)].level + 1)
  BY <1>7 DEF n
<1>23. QED
  BY <1>8, <1>18, <1>19, <1>20, <1>21, <1>22 DEF opened, wider

(* The level below a project is put on the stack.                          *)
Opens(c, up, depth, seen, stack, d, b, deeper) ==
  /\ Len(stack) \in Nat /\ DOMAIN stack = 1 .. Len(stack)
  /\ DOMAIN deeper = 1 .. Len(stack) + 1
  /\ \A k \in 1 .. Len(stack) : deeper[k] = stack[k]
  /\ deeper[Len(stack) + 1] = b
  /\ b.of = d /\ b.level \in Nat
  /\ b.kids = IF depth > 0 /\ b.level >= depth THEN {} ELSE Edges(c, up, d)
  /\ b.fresh = b.kids \ seen

(* Descending into a project keeps the tree, and without a limit all that  *)
(* is below that one is covered too.                                       *)
LEMMA TreeOpens ==
  ASSUME NEW c, NEW up, NEW root, NEW depth \in Nat, NEW opened, NEW seen, NEW stack, NEW shown,
         Tree(c, up, root, depth, opened, seen, stack, shown),
         NEW d \in opened, d = root => seen = {root},
         \A k \in DOMAIN stack : stack[k].of # d,
         \A i \in DOMAIN shown : shown[i].of # d,
         NEW b, NEW deeper, Opens(c, up, depth, seen, stack, d, b, deeper),
         d \in Within(c, up, {root}, b.level)
  PROVE  /\ Tree(c, up, root, depth, opened, seen \cup b.fresh, deeper, shown)
         /\ depth = 0 => \A P : Covered(c, up, P, stack, shown)
                                  => Covered(c, up, P \cup {d}, deeper, shown)
<1> DEFINE n == Len(stack)
           more == seen \cup b.fresh
<1>1. /\ n \in Nat /\ DOMAIN stack = 1 .. n /\ DOMAIN deeper = 1 .. n + 1
      /\ \A k \in 1 .. n : deeper[k] = stack[k]
      /\ deeper[n + 1] = b
      /\ \A k \in 1 .. n + 1 : k \in 1 .. n \/ k = n + 1
      /\ \A k \in 1 .. n : k \in 1 .. n + 1
      /\ n + 1 \in 1 .. n + 1
  <2>1. /\ n \in Nat /\ DOMAIN stack = 1 .. n /\ DOMAIN deeper = 1 .. n + 1
        /\ \A k \in 1 .. n : deeper[k] = stack[k]
        /\ deeper[n + 1] = b
    BY Zenon DEF Opens
  <2> HIDE DEF n
  <2>2. /\ \A k \in 1 .. n + 1 : k \in 1 .. n \/ k = n + 1
        /\ \A k \in 1 .. n : k \in 1 .. n + 1
        /\ n + 1 \in 1 .. n + 1
    BY <2>1
  <2>3. QED
    BY <2>1, <2>2
<1>2. /\ b.of = d /\ b.level \in Nat
      /\ b.kids = IF depth > 0 /\ b.level >= depth THEN {} ELSE Edges(c, up, d)
      /\ b.fresh = b.kids \ seen
  BY Zenon DEF Opens
<1>3. /\ \A k \in 1 .. n : LevelIs(c, up, root, depth, opened, seen, stack[k])
      /\ \A i \in DOMAIN shown : ShownIs(c, up, root, depth, opened, seen, shown[i])
      /\ LevelsApart(stack) /\ OpenedOnce(shown) /\ Due(stack, shown) /\ Marked(opened, seen, stack)
  BY <1>1 DEF Tree
<1> HIDE DEF n
<1>4. /\ b.kids \subseteq Edges(c, up, d) /\ b.kids \subseteq more
      /\ Pending(b) = b.fresh /\ Pending(b) \cap seen = {}
  BY <1>2 DEF Pending
<1>5. opened \subseteq seen
  BY <1>3 DEF Marked
<1>6. LevelIs(c, up, root, depth, opened, more, b)
  <2>1. b.of = root => b.kids \ b.fresh \subseteq {root}
    BY <1>2
  <2>2. depth > 0 /\ b.level >= depth => b.kids = {}
    BY <1>2
  <2>3. Pending(b) \cap opened = {}
    BY <1>4, <1>5
  <2> HIDE DEF more
  <2>4. QED
    BY <1>2, <1>4, <2>1, <2>2, <2>3 DEF LevelIs
<1>7. ASSUME NEW k \in 1 .. n + 1 PROVE LevelIs(c, up, root, depth, opened, more, deeper[k])
  <2>1. CASE k = n + 1
    BY <1>1, <1>6, <2>1
  <2>2. CASE k \in 1 .. n
    <3>1. deeper[k] = stack[k]
      BY <1>1, <2>2
    <3>2. LevelIs(c, up, root, depth, opened, more, stack[k])
      BY <1>3, <2>2 DEF LevelIs
    <3>3. QED
      BY <3>1, <3>2
  <2>3. QED
    BY <1>1, <2>1, <2>2
<1>8. \A i \in DOMAIN shown : ShownIs(c, up, root, depth, opened, more, shown[i])
  BY <1>3 DEF ShownIs
<1>9. \A k \in 1 .. n : Pending(stack[k]) \subseteq seen
  BY <1>3 DEF LevelIs, Pending
<1>10. LevelsApart(deeper)
  <2> SUFFICES ASSUME NEW k \in 1 .. n + 1, NEW l \in 1 .. n + 1, k # l
               PROVE  /\ deeper[k].of # deeper[l].of
                      /\ Pending(deeper[k]) \cap Pending(deeper[l]) = {}
    BY <1>1 DEF LevelsApart
  <2>1. CASE k \in 1 .. n /\ l \in 1 .. n
    BY <1>1, <1>3, <2>1 DEF LevelsApart
  <2>2. CASE k \in 1 .. n /\ l = n + 1
    BY <1>1, <1>2, <1>4, <1>9, <2>2
  <2>3. CASE k = n + 1 /\ l \in 1 .. n
    BY <1>1, <1>2, <1>4, <1>9, <2>3
  <2>4. QED
    BY <1>1, <2>1, <2>2, <2>3
<1>11. Due(deeper, shown)
  <2> SUFFICES ASSUME NEW k \in 1 .. n + 1, NEW i \in DOMAIN shown, shown[i].of = deeper[k].of
               PROVE  shown[i].project \notin deeper[k].kids
    BY <1>1 DEF Due
  <2>1. k \in 1 .. n
    BY <1>1, <1>2
  <2>2. QED
    BY <1>1, <1>3, <2>1 DEF Due
<1>12. Marked(opened, more, deeper)
  <2>1. ASSUME NEW e \in more
        PROVE  e \in opened \/ \E k \in 1 .. n + 1 : e \in Pending(deeper[k])
    <3>1. CASE e \in b.fresh
      BY <1>1, <1>4, <3>1
    <3>2. CASE e \in seen
      <4>1. e \in opened \/ \E k \in 1 .. n : e \in Pending(stack[k])
        BY <1>1, <1>3, <3>2 DEF Marked
      <4>2. QED
        BY <1>1, <4>1
    <3>3. QED
      BY <3>1, <3>2
  <2>2. QED
    BY <1>1, <1>5, <2>1 DEF Marked
<1>13. ASSUME depth = 0, NEW P, Covered(c, up, P, stack, shown)
       PROVE  Covered(c, up, P \cup {d}, deeper, shown)
  <2> SUFFICES ASSUME NEW p \in P \cup {d}, NEW e \in Edges(c, up, p)
               PROVE  \/ \E i \in DOMAIN shown : shown[i].of = p /\ shown[i].project = e
                      \/ \E k \in 1 .. n + 1 : deeper[k].of = p /\ e \in deeper[k].kids
    BY <1>1 DEF Covered
  <2>1. CASE p \in P
    <3>1. \/ \E i \in DOMAIN shown : shown[i].of = p /\ shown[i].project = e
          \/ \E k \in 1 .. n : stack[k].of = p /\ e \in stack[k].kids
      BY <1>1, <1>13, <2>1 DEF Covered
    <3>2. QED
      BY <1>1, <3>1
  <2>2. CASE p = d
    <3>1. b.kids = Edges(c, up, d)
      BY <1>2, <1>13
    <3>2. deeper[n + 1].of = p /\ e \in deeper[n + 1].kids
      BY <1>1, <1>2, <2>2, <3>1
    <3>3. QED
      BY <1>1, <3>2
  <2>3. QED
    BY <2>1, <2>2
<1>14. Tree(c, up, root, depth, opened, more, deeper, shown)
  BY <1>1, <1>3, <1>7, <1>8, <1>10, <1>11, <1>12 DEF Tree
<1>15. QED
  BY <1>13, <1>14

(* A level of which all was shown is taken off.                            *)
Closes(stack, n, fewer) ==
  /\ n \in Nat \ {0} /\ DOMAIN stack = 1 .. n /\ stack[n].kids = {}
  /\ DOMAIN fewer = 1 .. n - 1 /\ \A k \in 1 .. n - 1 : fewer[k] = stack[k]

(* Taking off a level of which all was shown keeps the tree.               *)
LEMMA TreeCloses ==
  ASSUME NEW c, NEW up, NEW root, NEW depth \in Nat, NEW opened, NEW seen, NEW stack, NEW shown,
         Tree(c, up, root, depth, opened, seen, stack, shown),
         NEW n, NEW fewer, Closes(stack, n, fewer)
  PROVE  /\ Tree(c, up, root, depth, opened, seen, fewer, shown)
         /\ \A P : Covered(c, up, P, stack, shown) => Covered(c, up, P, fewer, shown)
<1>1. /\ DOMAIN stack = 1 .. n /\ stack[n].kids = {}
      /\ DOMAIN fewer = 1 .. n - 1 /\ \A k \in 1 .. n - 1 : fewer[k] = stack[k]
      /\ \A k \in 1 .. n - 1 : k \in 1 .. n
      /\ \A k \in 1 .. n : k \in 1 .. n - 1 \/ k = n
      /\ n \in 1 .. n
  BY DEF Closes
<1>2. /\ \A k \in 1 .. n : LevelIs(c, up, root, depth, opened, seen, stack[k])
      /\ \A i \in DOMAIN shown : ShownIs(c, up, root, depth, opened, seen, shown[i])
      /\ LevelsApart(stack) /\ OpenedOnce(shown) /\ Due(stack, shown) /\ Marked(opened, seen, stack)
  BY <1>1 DEF Tree
<1>3. \A k \in 1 .. n - 1 : LevelIs(c, up, root, depth, opened, seen, fewer[k])
  BY <1>1, <1>2
<1>4. LevelsApart(fewer) /\ Due(fewer, shown)
  BY <1>1, <1>2 DEF LevelsApart, Due
<1>5. Marked(opened, seen, fewer)
  <2>1. Pending(stack[n]) = {}
    BY <1>1 DEF Pending
  <2>2. ASSUME NEW e \in seen
        PROVE  e \in opened \/ \E k \in 1 .. n - 1 : e \in Pending(fewer[k])
    BY <1>1, <1>2, <2>1, <2>2 DEF Marked
  <2>3. QED
    BY <1>1, <1>2, <2>2 DEF Marked
<1>6. ASSUME NEW P, Covered(c, up, P, stack, shown) PROVE Covered(c, up, P, fewer, shown)
  BY <1>1, <1>6 DEF Covered
<1>7. QED
  BY <1>1, <1>2, <1>3, <1>4, <1>5, <1>6 DEF Tree

-----------------------------------------------------------------------------
(* Catalogue: the tree, step by step.                                      *)

(* The sequences that a step of a walk makes.                              *)
LEMMA LastAndFront ==
  ASSUME NEW T, NEW s \in Seq(T), s # <<>>
  PROVE  /\ Len(s) \in Nat \ {0} /\ DOMAIN s = 1 .. Len(s)
         /\ Last(s) = s[Len(s)] /\ Last(s) \in T
         /\ Front(s) \in Seq(T) /\ Len(Front(s)) = Len(s) - 1
         /\ \A k \in 1 .. Len(s) - 1 : Front(s)[k] = s[k]
<1>1. Len(s) \in Nat /\ Len(s) # 0 /\ DOMAIN s = 1 .. Len(s)
  OBVIOUS
<1>2. Last(s) = s[Len(s)] /\ Front(s) = SubSeq(s, 1, Len(s) - 1)
  BY DEF Last, Front
<1>3. /\ SubSeq(s, 1, Len(s) - 1) \in Seq(T) /\ Len(SubSeq(s, 1, Len(s) - 1)) = Len(s) - 1
      /\ \A k \in 1 .. Len(s) - 1 : SubSeq(s, 1, Len(s) - 1)[k] = s[k]
  BY <1>1
<1>4. QED
  BY <1>1, <1>2, <1>3

(* Another last.                                                           *)
LEMMA LastIsPut ==
  ASSUME NEW T, NEW s \in Seq(T), s # <<>>, NEW t \in T
  PROVE  /\ Append(Front(s), t) \in Seq(T) /\ Len(Append(Front(s), t)) = Len(s)
         /\ \A k \in 1 .. Len(s) - 1 : Append(Front(s), t)[k] = s[k]
         /\ Append(Front(s), t)[Len(s)] = t
<1>1. /\ Len(s) \in Nat \ {0} /\ Front(s) \in Seq(T) /\ Len(Front(s)) = Len(s) - 1
      /\ \A k \in 1 .. Len(s) - 1 : Front(s)[k] = s[k]
  BY LastAndFront
<1>2. QED
  BY <1>1, AppendProperties

(* There is one line for everything that is needed once all is shown.      *)
LEMMA AsMany ==
  ASSUME NEW S, NEW T, IsFiniteSet(T), NEW f, \A i \in S : f[i] \in T,
         \A i, j \in S : f[i] = f[j] => i = j,
         \A t \in T : \E i \in S : f[i] = t
  PROVE  Cardinality(S) = Cardinality(T)
<1> DEFINE g == [i \in S |-> f[i]]
<1>1. g \in [S -> T] /\ (\A i \in S : g[i] = f[i])
  OBVIOUS
<1> HIDE DEF g
<1>2. g \in Injection(S, T)
  BY <1>1 DEF Injection, IsInjective
<1>3. g \in Surjection(S, T)
  BY <1>1 DEF Surjection
<1>4. g \in Bijection(S, T)
  BY <1>2, <1>3 DEF Bijection
<1>5. IsFiniteSet(S)
  BY <1>2, FS_Injection
<1>6. QED
  <2>1. ExistsBijection(S, T)
    BY <1>4 DEF ExistsBijection
  <2>2. QED
    BY <1>5, <2>1, FS_Bijection

(* What holds of the walk that is under way.                               *)
WalkInv == Walking(walk) /\ \A c \in held : Walked(c, walk)

(* No tree is asked for at first.                                          *)
LEMMA WalkInit == CatalogueInit => WalkInv
<1> SUFFICES ASSUME CatalogueInit PROVE WalkInv
  OBVIOUS
<1>1. walk = Resting /\ held = {}
  BY DEF CatalogueInit
<1>2. Walking(walk)
  BY <1>1 DEF Resting, Walking
<1>3. QED
  BY <1>1, <1>2 DEF WalkInv

(* A walk begins with the level of its root.                               *)
LEMMA WalkBegins ==
  ASSUME HeldInv, NEW c \in held, NEW root \in Roots, NEW depth \in Depths, NEW up \in BOOLEAN,
         DepTree(c, root, depth, up)
  PROVE  WalkInv'
<1> DEFINE begun == [Resting EXCEPT !.at = "walk", !.root = root, !.depth = depth,
                                    !.up = up, !.seen = {root}]
           b == Level(c, begun, root, 0)
           seen == {root} \cup b.fresh
<1>1. /\ held' = held /\ root \in ProjectName /\ depth \in Nat
      /\ walk' = [begun EXCEPT !.stack = <<b>>, !.seen = seen]
  BY CatalogueAssumption DEF DepTree, Resting
<1>2. Sound(c) /\ \A d \in held : d = c
  BY DEF HeldInv
<1>3. /\ begun.depth = depth /\ begun.up = up /\ begun.seen = {root}
      /\ walk' = [at |-> "walk", root |-> root, depth |-> depth, up |-> up,
                  seen |-> seen, stack |-> <<b>>, shown |-> <<>>]
  BY <1>1 DEF Resting
<1> HIDE DEF begun
<1>4. /\ b.of = root /\ b.level = 0
      /\ b.kids = IF depth > 0 /\ 0 >= depth THEN {} ELSE Edges(c, up, root)
      /\ b.fresh = b.kids \ {root}
      /\ b = [of |-> b.of, level |-> b.level, kids |-> b.kids, fresh |-> b.fresh]
  BY <1>3 DEF Level
<1> HIDE DEF b
<1>5. b \in Levels
  <2>1. b.kids \subseteq ProjectName
    BY <1>2, <1>4, EdgesAre
  <2>2. b.fresh \subseteq ProjectName
    BY <1>4, <2>1
  <2>3. QED
    BY <1>1, <1>4, <2>1, <2>2 DEF Levels
<1>6. Tree(c, up, root, depth, {root}, {root}, <<>>, <<>>)
  BY DEF Tree, LevelsApart, OpenedOnce, Due, Marked
<1>7. Opens(c, up, depth, {root}, <<>>, root, b, <<b>>)
  <2>1. Len(<<>>) = 0 /\ Len(<<b>>) = 1 /\ <<b>>[1] = b /\ DOMAIN <<b>> = 1 .. 1
        /\ 1 .. 0 = {} /\ DOMAIN <<>> = {}
    OBVIOUS
  <2>2. QED
    BY <1>4, <2>1 DEF Opens
<1>8. root \in Within(c, up, {root}, b.level)
  <2>1. Within(c, up, {root}, 0) = {root}
    BY WithinNone
  <2>2. QED
    BY <1>4, <2>1
<1>9. /\ Tree(c, up, root, depth, {root}, seen, <<b>>, <<>>)
      /\ depth = 0 => \A P : Covered(c, up, P, <<>>, <<>>)
                               => Covered(c, up, P \cup {root}, <<b>>, <<>>)
  <2>1. DOMAIN <<>> = {} /\ root \in {root}
    OBVIOUS
  <2>2. QED
    BY <1>1, <1>6, <1>7, <1>8, <2>1, TreeOpens
<1>10. depth = 0 => Covered(c, up, {root}, <<b>>, <<>>)
  <2>1. Covered(c, up, {}, <<>>, <<>>)
    BY DEF Covered
  <2>2. {} \cup {root} = {root}
    OBVIOUS
  <2>3. depth = 0 => Covered(c, up, {} \cup {root}, <<b>>, <<>>)
    BY <1>9, <2>1
  <2>4. QED
    BY <2>2, <2>3
<1>11. Opened(root, <<>>) = {root}
  BY DEF Opened
<1>12. seen \subseteq ProjectName /\ <<b>> \in Seq(Levels) /\ <<>> \in Seq(Lines)
  BY <1>1, <1>5 DEF Levels
<1> HIDE DEF seen
<1>13. /\ walk'.at = "walk" /\ walk'.root = root /\ walk'.depth = depth /\ walk'.up = up
       /\ walk'.seen = seen /\ walk'.stack = <<b>> /\ walk'.shown = <<>>
  BY <1>3
<1>14. Walking(walk')
  BY <1>1, <1>3, <1>12, <1>13 DEF Walking
<1>15. Walked(c, walk')
  BY <1>9, <1>10, <1>11, <1>13 DEF Walked
<1>16. QED
  BY <1>1, <1>2, <1>14, <1>15 DEF WalkInv

(* A level of which one was shown is a level.                              *)
LEMMA LevelIsShown ==
  ASSUME NEW l \in Levels, NEW d
  PROVE  /\ [l EXCEPT !.kids = @ \ {d}].of = l.of
         /\ [l EXCEPT !.kids = @ \ {d}].level = l.level
         /\ [l EXCEPT !.kids = @ \ {d}].fresh = l.fresh
         /\ [l EXCEPT !.kids = @ \ {d}].kids = l.kids \ {d}
         /\ [l EXCEPT !.kids = @ \ {d}] \in Levels
<1> DEFINE m == [l EXCEPT !.kids = @ \ {d}]
<1>1. /\ l = [of |-> l.of, level |-> l.level, kids |-> l.kids, fresh |-> l.fresh]
      /\ l.of \in ProjectName /\ l.level \in Nat
      /\ l.kids \subseteq ProjectName /\ l.fresh \subseteq ProjectName
  BY DEF Levels
<1>2. m = [of |-> l.of, level |-> l.level, kids |-> l.kids \ {d}, fresh |-> l.fresh]
  BY <1>1
<1>3. m.of = l.of /\ m.level = l.level /\ m.fresh = l.fresh /\ m.kids = l.kids \ {d}
  BY <1>2
<1>4. m \in Levels
  BY <1>1, <1>2 DEF Levels
<1>5. QED
  BY <1>3, <1>4

(* Showing the next of a level, and descending into it if it is fresh.     *)
LEMMA WalkVisits ==
  ASSUME HeldInv, WalkInv, NEW c \in held, Visit(c)
  PROVE  WalkInv'
<1> DEFINE top == Last(walk.stack)
           d == First(top.kids)
           s == [project |-> d, of |-> top.of, level |-> top.level + 1,
                 known |-> d \in Listed(c), repeat |-> d \notin top.fresh]
           b == Level(c, walk, d, top.level + 1)
           t == [top EXCEPT !.kids = @ \ {d}]
           rest == Append(Front(walk.stack), t)
           more == Append(walk.shown, s)
           opened == Opened(walk.root, walk.shown)
           wider == Opened(walk.root, more)
           n == Len(walk.stack)
           m == Len(walk.shown)
<1>1. /\ held' = held /\ walk.at = "walk" /\ walk.stack # <<>> /\ top.kids # {}
      /\ walk' = [walk EXCEPT !.shown = more,
                              !.seen = IF s.repeat THEN walk.seen ELSE walk.seen \cup b.fresh,
                              !.stack = IF s.repeat THEN rest ELSE Append(rest, b)]
  BY DEF Visit
<1>2. Sound(c) /\ \A e \in held : e = c
  BY DEF HeldInv
<1>3. /\ walk = [at |-> walk.at, root |-> walk.root, depth |-> walk.depth, up |-> walk.up,
                 seen |-> walk.seen, stack |-> walk.stack, shown |-> walk.shown]
      /\ walk.root \in ProjectName /\ walk.depth \in Nat /\ walk.up \in BOOLEAN
      /\ walk.seen \subseteq ProjectName
      /\ walk.stack \in Seq(Levels) /\ walk.shown \in Seq(Lines)
  BY <1>1 DEF WalkInv, Walking
<1>4. /\ Tree(c, walk.up, walk.root, walk.depth, opened, walk.seen, walk.stack, walk.shown)
      /\ walk.depth = 0 => Covered(c, walk.up, opened, walk.stack, walk.shown)
  BY <1>1 DEF WalkInv, Walked
<1>5. /\ n \in Nat /\ n # 0 /\ DOMAIN walk.stack = 1 .. n
      /\ top = walk.stack[n] /\ top \in Levels
  BY <1>1, <1>3, LastAndFront
<1>6. /\ top = [of |-> top.of, level |-> top.level, kids |-> top.kids, fresh |-> top.fresh]
      /\ top.of \in ProjectName /\ top.level \in Nat /\ top.level + 1 \in Nat
      /\ top.kids \subseteq ProjectName /\ top.fresh \subseteq ProjectName
  <2> HIDE DEF top
  <2>1. QED
    BY <1>5 DEF Levels
<1> HIDE DEF top, n
<1>7. d \in top.kids /\ d \in ProjectName
  BY <1>1, <1>6, FirstIs
<1> HIDE DEF d
<1>8. /\ t.of = top.of /\ t.level = top.level /\ t.fresh = top.fresh /\ t.kids = top.kids \ {d}
      /\ t \in Levels
  <2>1. /\ [top EXCEPT !.kids = @ \ {d}].of = top.of
        /\ [top EXCEPT !.kids = @ \ {d}].level = top.level
        /\ [top EXCEPT !.kids = @ \ {d}].fresh = top.fresh
        /\ [top EXCEPT !.kids = @ \ {d}].kids = top.kids \ {d}
        /\ [top EXCEPT !.kids = @ \ {d}] \in Levels
    <3>1. top \in Levels
      BY <1>5
    <3>2. QED
      BY <3>1, LevelIsShown
  <2>2. QED
    BY <2>1
<1>9. /\ s.project = d /\ s.of = top.of /\ s.repeat = (d \notin top.fresh)
      /\ s.known = (d \in Listed(c)) /\ s \in Lines
  BY <1>6, <1>7 DEF Lines
<1> HIDE DEF s, t
<1>10. /\ rest \in Seq(Levels) /\ Len(rest) = n
       /\ \A k \in 1 .. n - 1 : rest[k] = walk.stack[k]
       /\ rest[n] = t
  BY <1>1, <1>3, <1>8, LastIsPut DEF n
<1>11. /\ more \in Seq(Lines) /\ Len(more) = m + 1 /\ m \in Nat /\ DOMAIN walk.shown = 1 .. m
       /\ \A i \in 1 .. m : more[i] = walk.shown[i]
       /\ more[m + 1] = s
  BY <1>3, <1>9, AppendProperties
<1>12. DOMAIN rest = 1 .. n /\ DOMAIN more = 1 .. m + 1
  BY <1>10, <1>11
<1> HIDE DEF rest, more, m
<1>13. Shows(walk.stack, walk.shown, d, s, rest, more)
  <2>1. \A k \in 1 .. n :
           /\ rest[k].of = walk.stack[k].of /\ rest[k].level = walk.stack[k].level
           /\ rest[k].fresh = walk.stack[k].fresh
           /\ rest[k].kids = IF k = n THEN walk.stack[k].kids \ {d} ELSE walk.stack[k].kids
    <3>1. ASSUME NEW k \in 1 .. n
          PROVE  \/ k = n /\ rest[k] = t /\ walk.stack[k] = top
                 \/ k # n /\ rest[k] = walk.stack[k]
      <4>1. k = n \/ (k # n /\ k \in 1 .. n - 1)
        BY <1>5
      <4>2. QED
        BY <1>5, <1>10, <4>1
    <3>2. QED
      BY <1>8, <3>1
  <2>2. n = Len(walk.stack) /\ m = Len(walk.shown)
    BY DEF n, m
  <2>3. n \in Nat \ {0} /\ walk.stack[n].level \in Nat
    BY <1>5, <1>6
  <2>4. QED
    BY <1>5, <1>7, <1>9, <1>11, <1>12, <2>1, <2>2, <2>3 DEF Shows
<1>14. (s.repeat => wider = opened) /\ (~ s.repeat => wider = opened \cup {d})
  BY <1>13, OpenedGrows
<1> HIDE DEF opened, wider
<1>16. /\ Tree(c, walk.up, walk.root, walk.depth, wider, walk.seen, rest, more)
       /\ \A P : Covered(c, walk.up, P, walk.stack, walk.shown)
                   => Covered(c, walk.up, P, rest, more)
       /\ \A k \in DOMAIN rest : rest[k].of \in opened
       /\ \A i \in DOMAIN more : more[i].of \in opened
       /\ ~ s.repeat => d \notin opened
       /\ d \in Within(c, walk.up, {walk.root}, top.level + 1)
  <2>1. top = walk.stack[Len(walk.stack)]
    BY <1>5 DEF n
  <2>2. s.known <=> d \in Listed(c)
    BY <1>9
  <2>3. Tree(c, walk.up, walk.root, walk.depth, Opened(walk.root, walk.shown),
             walk.seen, walk.stack, walk.shown)
    BY <1>4 DEF opened
  <2>4. /\ Tree(c, walk.up, walk.root, walk.depth, Opened(walk.root, more), walk.seen, rest, more)
        /\ \A P : Covered(c, walk.up, P, walk.stack, walk.shown)
                    => Covered(c, walk.up, P, rest, more)
        /\ \A k \in DOMAIN rest : rest[k].of \in Opened(walk.root, walk.shown)
        /\ \A i \in DOMAIN more : more[i].of \in Opened(walk.root, walk.shown)
        /\ ~ s.repeat => d \notin Opened(walk.root, walk.shown)
        /\ d \in Within(c, walk.up, {walk.root}, walk.stack[Len(walk.stack)].level + 1)
    BY <1>3, <1>13, <2>2, <2>3, TreeShows
  <2>5. QED
    BY <2>1, <2>4 DEF opened, wider
<1>17. CASE s.repeat
  <2>1. walk' = [at |-> "walk", root |-> walk.root, depth |-> walk.depth, up |-> walk.up,
                 seen |-> walk.seen, stack |-> rest, shown |-> more]
    BY <1>1, <1>3, <1>17
  <2>2. /\ walk'.at = "walk" /\ walk'.root = walk.root /\ walk'.depth = walk.depth
        /\ walk'.up = walk.up /\ walk'.seen = walk.seen
        /\ walk'.stack = rest /\ walk'.shown = more
    BY <2>1
  <2>3. Walking(walk')
    BY <1>3, <1>10, <1>11, <2>1, <2>2 DEF Walking
  <2>4. wider = opened
    BY <1>14, <1>17
  <2>5. walk.depth = 0 => Covered(c, walk.up, wider, rest, more)
    BY <1>4, <1>16, <2>4
  <2>6. Walked(c, walk')
    BY <1>16, <2>2, <2>5 DEF Walked, wider
  <2>7. QED
    BY <1>1, <1>2, <2>3, <2>6 DEF WalkInv
<1>18. CASE ~ s.repeat
  <2> DEFINE deeper == Append(rest, b)
             seen == walk.seen \cup b.fresh
  <2>1. /\ b.of = d /\ b.level = top.level + 1
        /\ b.kids = IF walk.depth > 0 /\ b.level >= walk.depth THEN {} ELSE Edges(c, walk.up, d)
        /\ b.fresh = b.kids \ walk.seen
        /\ b = [of |-> b.of, level |-> b.level, kids |-> b.kids, fresh |-> b.fresh]
    BY DEF Level
  <2>2. walk' = [at |-> "walk", root |-> walk.root, depth |-> walk.depth, up |-> walk.up,
                 seen |-> seen, stack |-> deeper, shown |-> more]
    <3> HIDE DEF b
    <3>1. QED
      BY <1>1, <1>3, <1>18
  <2> HIDE DEF b
  <2>3. b \in Levels /\ b.fresh \subseteq ProjectName
    <3>1. b.kids \subseteq ProjectName
      BY <1>2, <1>3, <2>1, EdgesAre
    <3>2. b.fresh \subseteq ProjectName
      BY <2>1, <3>1
    <3>3. QED
      BY <1>6, <1>7, <2>1, <3>1, <3>2 DEF Levels
  <2>4. /\ deeper \in Seq(Levels) /\ Len(deeper) = n + 1
        /\ \A k \in 1 .. n : deeper[k] = rest[k]
        /\ deeper[n + 1] = b
    BY <1>10, <2>3, AppendProperties
  <2>5. DOMAIN deeper = 1 .. n + 1
    BY <1>5, <2>4
  <2> HIDE DEF deeper, seen
  <2>6. Opens(c, walk.up, walk.depth, walk.seen, rest, d, b, deeper)
    BY <1>5, <1>6, <1>10, <1>12, <2>1, <2>4, <2>5 DEF Opens
  <2>7. d \in wider /\ wider = opened \cup {d} /\ d \notin opened
    BY <1>14, <1>16, <1>18
  <2>8. walk.root \in opened
    BY DEF Opened, opened
  <2>9. /\ Tree(c, walk.up, walk.root, walk.depth, wider, walk.seen \cup b.fresh, deeper, more)
        /\ walk.depth = 0 =>
             \A P : Covered(c, walk.up, P, rest, more)
                      => Covered(c, walk.up, P \cup {d}, deeper, more)
    <3>1. /\ d = walk.root => walk.seen = {walk.root}
          /\ \A k \in DOMAIN rest : rest[k].of # d
          /\ \A i \in DOMAIN more : more[i].of # d
          /\ d \in Within(c, walk.up, {walk.root}, b.level)
      BY <1>16, <2>1, <2>7, <2>8
    <3>2. QED
      BY <1>3, <1>16, <2>6, <2>7, <3>1, TreeOpens
  <2>10. walk.depth = 0 => Covered(c, walk.up, wider, deeper, more)
    BY <1>4, <1>16, <2>7, <2>9
  <2>11. /\ walk'.at = "walk" /\ walk'.root = walk.root /\ walk'.depth = walk.depth
         /\ walk'.up = walk.up /\ walk'.seen = seen
         /\ walk'.stack = deeper /\ walk'.shown = more
    BY <2>2
  <2>12. seen \subseteq ProjectName
    BY <1>3, <2>3 DEF seen
  <2>13. Walking(walk')
    BY <1>3, <1>11, <2>2, <2>4, <2>11, <2>12 DEF Walking
  <2>14. Walked(c, walk')
    <3>1. Tree(c, walk.up, walk.root, walk.depth, wider, seen, deeper, more)
      BY <2>9 DEF seen
    <3>2. QED
      BY <2>10, <2>11, <3>1 DEF Walked, wider
  <2>15. QED
    BY <1>1, <1>2, <2>13, <2>14 DEF WalkInv
<1>19. QED
  BY <1>17, <1>18

(* Leaving a level of which all was shown, and the last of them.           *)
LEMMA WalkAscends ==
  ASSUME HeldInv, WalkInv, Ascend
  PROVE  WalkInv'
<1>1. held' = held /\ walk.at = "walk"
  BY DEF Ascend
<1>2. /\ walk = [at |-> walk.at, root |-> walk.root, depth |-> walk.depth, up |-> walk.up,
                 seen |-> walk.seen, stack |-> walk.stack, shown |-> walk.shown]
      /\ walk.root \in ProjectName /\ walk.depth \in Nat /\ walk.up \in BOOLEAN
      /\ walk.seen \subseteq ProjectName
      /\ walk.stack \in Seq(Levels) /\ walk.shown \in Seq(Lines)
  BY <1>1 DEF WalkInv, Walking
<1>3. CASE walk.stack = <<>>
  <2>1. walk' = [walk EXCEPT !.at = "shown"]
    BY <1>3 DEF Ascend
  <2>2. walk' = [at |-> "shown", root |-> walk.root, depth |-> walk.depth, up |-> walk.up,
                 seen |-> walk.seen, stack |-> walk.stack, shown |-> walk.shown]
    BY <1>2, <2>1
  <2>3. /\ walk'.at = "shown" /\ walk'.root = walk.root /\ walk'.depth = walk.depth
        /\ walk'.up = walk.up /\ walk'.seen = walk.seen
        /\ walk'.stack = walk.stack /\ walk'.shown = walk.shown
    BY <2>2
  <2>4. Walking(walk')
    BY <1>2, <1>3, <2>2, <2>3 DEF Walking
  <2>5. \A c \in held : Walked(c, walk')
    BY <1>1, <2>3 DEF WalkInv, Walked
  <2>6. QED
    BY <1>1, <2>4, <2>5 DEF WalkInv
<1>4. CASE walk.stack # <<>>
  <2> DEFINE n == Len(walk.stack)
             fewer == Front(walk.stack)
  <2>1. Last(walk.stack).kids = {} /\ walk' = [walk EXCEPT !.stack = fewer]
    BY <1>4 DEF Ascend
  <2>2. /\ n \in Nat \ {0} /\ DOMAIN walk.stack = 1 .. n /\ Last(walk.stack) = walk.stack[n]
        /\ fewer \in Seq(Levels) /\ Len(fewer) = n - 1
        /\ \A k \in 1 .. n - 1 : fewer[k] = walk.stack[k]
    BY <1>2, <1>4, LastAndFront
  <2> HIDE DEF n, fewer
  <2>3. DOMAIN fewer = 1 .. n - 1
    BY <2>2
  <2>4. walk' = [at |-> "walk", root |-> walk.root, depth |-> walk.depth, up |-> walk.up,
                 seen |-> walk.seen, stack |-> fewer, shown |-> walk.shown]
    BY <1>1, <1>2, <2>1
  <2>5. /\ walk'.at = "walk" /\ walk'.root = walk.root /\ walk'.depth = walk.depth
        /\ walk'.up = walk.up /\ walk'.seen = walk.seen
        /\ walk'.stack = fewer /\ walk'.shown = walk.shown
    BY <2>4
  <2>6. Walking(walk')
    BY <1>2, <2>2, <2>4, <2>5 DEF Walking
  <2>7. ASSUME NEW c \in held PROVE Walked(c, walk')
    <3> DEFINE opened == Opened(walk.root, walk.shown)
    <3>1. /\ Tree(c, walk.up, walk.root, walk.depth, opened, walk.seen, walk.stack, walk.shown)
          /\ walk.depth = 0 => Covered(c, walk.up, opened, walk.stack, walk.shown)
      BY <1>1 DEF WalkInv, Walked
    <3> HIDE DEF opened
    <3>2. walk.stack[n].kids = {}
      BY <2>1, <2>2
    <3>3. Closes(walk.stack, n, fewer)
      BY <2>2, <2>3, <3>2 DEF Closes
    <3>4. /\ Tree(c, walk.up, walk.root, walk.depth, opened, walk.seen, fewer, walk.shown)
          /\ \A P : Covered(c, walk.up, P, walk.stack, walk.shown)
                      => Covered(c, walk.up, P, fewer, walk.shown)
      BY <1>2, <3>1, <3>3, TreeCloses
    <3>5. walk.depth = 0 => Covered(c, walk.up, opened, fewer, walk.shown)
      BY <3>1, <3>4
    <3>6. QED
      BY <2>5, <3>4, <3>5 DEF Walked, opened
  <2>8. QED
    BY <1>1, <2>6, <2>7 DEF WalkInv
<1>5. QED
  BY <1>3, <1>4

(* Every step keeps what holds of the walk.                                *)
LEMMA WalkNext == HeldInv /\ WalkInv /\ [CatalogueNext]_catalogue => WalkInv'
<1> SUFFICES ASSUME HeldInv, WalkInv, [CatalogueNext]_catalogue PROVE WalkInv'
  OBVIOUS
<1>1. ASSUME UNCHANGED walk, held' = held \/ walk.at = "rest" PROVE WalkInv'
  BY <1>1 DEF WalkInv, Walked
<1>2. ASSUME NEW c \in Catalogs, PublishCatalog(c) PROVE WalkInv'
  BY <1>1, <1>2 DEF PublishCatalog
<1>3. ASSUME NEW served, FetchCatalog(served) PROVE WalkInv'
  BY <1>1, <1>3 DEF FetchCatalog, HeldInv
<1>4. ASSUME NEW from, NEW to, WhyDepends(from, to) PROVE WalkInv'
  BY <1>1, <1>4 DEF WhyDepends
<1>5. ASSUME NEW c, Look(c) PROVE WalkInv'
  BY <1>1, <1>5 DEF Look
<1>6. ASSUME Retrace PROVE WalkInv'
  BY <1>1, <1>6 DEF Retrace
<1>7. ASSUME NoReason PROVE WalkInv'
  BY <1>1, <1>7 DEF NoReason
<1>8. ASSUME UNCHANGED catalogue PROVE WalkInv'
  BY <1>1, <1>8 DEF catalogue
<1>9. QED
  BY <1>2, <1>3, <1>4, <1>5, <1>6, <1>7, <1>8, WalkBegins, WalkVisits, WalkAscends
  DEF CatalogueNext

-----------------------------------------------------------------------------
(* Catalogue: the tree when all of it is shown.                            *)

(* All that is reached from the root was descended into, and nothing else. *)
Finished(c, up, root, seen, shown) ==
  /\ Tree(c, up, root, 0, Opened(root, shown), seen, <<>>, shown)
  /\ Covered(c, up, Opened(root, shown), <<>>, shown)

(* What was descended into is what is reached, and what is shown.          *)
OpenedIs(c, up, root, shown) ==
  /\ Opened(root, shown) = Within(c, up, {root}, Len(NameOrder))
  /\ root \in Opened(root, shown)
  /\ \A i \in DOMAIN shown : shown[i].project \in Opened(root, shown)
  /\ \A d \in Opened(root, shown) :
       d = root \/ \E i \in DOMAIN shown : shown[i].project = d

(* A tree of which nothing is left to show went everywhere: what was       *)
(* descended into has the root and, with every project, its edges, and so  *)
(* all that is reached.                                                    *)
LEMMA AllOpened ==
  ASSUME NEW c, Sound(c), NEW up \in BOOLEAN, NEW root \in ProjectName, NEW shown \in Seq(Lines),
         NEW seen, Finished(c, up, root, seen, shown)
  PROVE  OpenedIs(c, up, root, shown)
<1> DEFINE opened == Opened(root, shown)
           reach == Within(c, up, {root}, Len(NameOrder))
<1>1. /\ \A i \in DOMAIN shown : ShownIs(c, up, root, 0, opened, seen, shown[i])
      /\ opened = seen
  <2>1. DOMAIN <<>> = {}
    OBVIOUS
  <2>2. Marked(opened, seen, <<>>)
    BY DEF Finished, Tree
  <2>3. opened = seen
    BY <2>1, <2>2 DEF Marked
  <2>4. QED
    BY <2>3 DEF Finished, Tree
<1>2. Len(NameOrder) \in Nat
  BY CatalogueAssumption
<1>3. /\ root \in opened
      /\ \A d \in opened : d = root \/ \E i \in DOMAIN shown : shown[i].project = d
  BY DEF Opened
<1>4. \A p \in opened : Edges(c, up, p) \subseteq opened
  <2>1. \A p \in opened : \A d \in Edges(c, up, p) :
          \E i \in DOMAIN shown : shown[i].of = p /\ shown[i].project = d
    <3>1. DOMAIN <<>> = {}
      OBVIOUS
    <3>2. QED
      BY <3>1 DEF Finished, Covered
  <2>2. \A i \in DOMAIN shown : shown[i].project \in opened
    BY <1>1 DEF ShownIs
  <2> HIDE DEF opened
  <2>3. QED
    BY <2>1, <2>2
<1> HIDE DEF opened
<1>5. reach \subseteq opened
  <2>1. {root} \subseteq opened
    BY <1>3
  <2>2. QED
    BY <1>2, <1>4, <2>1, WithinClosed
<1>6. root \in reach
  <2>1. Within(c, up, {root}, 0) = {root}
    BY WithinNone
  <2>2. Within(c, up, {root}, 0) \subseteq reach
    BY <1>2, WithinGrows
  <2>3. QED
    BY <2>1, <2>2
<1>7. ASSUME NEW i \in DOMAIN shown PROVE shown[i].project \in reach
  <2>1. PICK n \in Nat : shown[i].project \in Within(c, up, {root}, n)
    BY <1>1 DEF ShownIs
  <2>2. {root} \subseteq ProjectName /\ {root} # {}
    OBVIOUS
  <2>3. Within(c, up, {root}, n) \subseteq reach
    BY <2>2, WithinAll
  <2>4. QED
    BY <2>1, <2>3
<1>8. opened = reach
  BY <1>3, <1>5, <1>6, <1>7
<1>9. \A i \in DOMAIN shown : shown[i].project \in opened
  BY <1>1 DEF ShownIs
<1>10. QED
  BY <1>3, <1>8, <1>9 DEF OpenedIs, opened, reach

(* Below a project there is one line for each of its edges.                *)
LEMMA LinesBelow ==
  ASSUME NEW c, Sound(c), NEW up \in BOOLEAN, NEW p, NEW shown,
         OpenedOnce(shown),
         \A i \in DOMAIN shown : shown[i].project \in Edges(c, up, shown[i].of),
         \A d \in Edges(c, up, p) :
           \E i \in DOMAIN shown : shown[i].of = p /\ shown[i].project = d
  PROVE  LET Below == {i \in DOMAIN shown : shown[i].of = p}
         IN  /\ {shown[i].project : i \in Below} = Edges(c, up, p)
             /\ Cardinality(Below) = Cardinality(Edges(c, up, p))
<1> DEFINE Below == {i \in DOMAIN shown : shown[i].of = p}
           E == Edges(c, up, p)
           f == [i \in Below |-> shown[i].project]
<1>1. E \subseteq ProjectName /\ IsFiniteSet(E)
  <2>1. E \subseteq ProjectName
    BY EdgesAre
  <2>2. QED
    BY <2>1, NamesFinite, FS_Subset
<1>2. \A i \in Below : i \in DOMAIN shown /\ shown[i].of = p /\ f[i] = shown[i].project
  OBVIOUS
<1>3. \A i \in DOMAIN shown : shown[i].of = p => i \in Below
  OBVIOUS
<1> HIDE DEF Below, E, f
<1>4. \A i \in Below : f[i] \in E
  BY <1>2 DEF E
<1>5. \A i, j \in Below : f[i] = f[j] => i = j
  BY <1>2 DEF OpenedOnce
<1>6. \A d \in E : \E i \in Below : f[i] = d
  BY <1>2, <1>3 DEF E
<1>7. Cardinality(Below) = Cardinality(E)
  BY <1>1, <1>4, <1>5, <1>6, AsMany
<1>8. {shown[i].project : i \in Below} = E
  BY <1>2, <1>4, <1>6
<1>9. QED
  BY <1>7, <1>8 DEF Below, E

(* A tree that is shown is whole.                                          *)
LEMMA WalkImplies ==
  ASSUME HeldInv, WalkInv
  PROVE  WholeTree
<1> SUFFICES ASSUME walk.at = "shown", NEW c \in held
             PROVE  LET shown == walk.shown
                        names == {shown[i].project : i \in DOMAIN shown}
                        Below(p) == {i \in DOMAIN shown : shown[i].of = p}
                        reach == Within(c, walk.up, {walk.root}, Len(NameOrder))
                    IN  /\ \A i \in DOMAIN shown :
                             shown[i].known <=> shown[i].project \in Listed(c)
                        /\ \A i \in Below(walk.root) :
                             shown[i].repeat => shown[i].project = walk.root
                        /\ walk.depth > 0
                             => names \subseteq Within(c, walk.up, {walk.root}, walk.depth)
                        /\ walk.depth = 0 =>
                             /\ names \cup {walk.root} = reach
                             /\ \A p \in reach \ {walk.root} :
                                  Cardinality({i \in DOMAIN shown :
                                    shown[i].project = p /\ ~shown[i].repeat}) = 1
                             /\ \A p \in reach :
                                  /\ {shown[i].project : i \in Below(p)} = Edges(c, walk.up, p)
                                  /\ Cardinality(Below(p)) = Cardinality(Edges(c, walk.up, p))
  BY Zenon DEF WholeTree
<1> DEFINE shown == walk.shown
           names == {shown[i].project : i \in DOMAIN shown}
           Below(p) == {i \in DOMAIN shown : shown[i].of = p}
           reach == Within(c, walk.up, {walk.root}, Len(NameOrder))
           opened == Opened(walk.root, shown)
<1>1. /\ walk.stack = <<>> /\ walk.root \in ProjectName /\ walk.depth \in Nat /\ walk.up \in BOOLEAN
      /\ shown \in Seq(Lines)
  BY DEF WalkInv, Walking
<1>2. Sound(c)
  BY DEF HeldInv
<1>3. /\ Tree(c, walk.up, walk.root, walk.depth, opened, walk.seen, <<>>, shown)
      /\ walk.depth = 0 => Covered(c, walk.up, opened, <<>>, shown)
  BY <1>1 DEF WalkInv, Walked
<1>4. /\ \A i \in DOMAIN shown :
           ShownIs(c, walk.up, walk.root, walk.depth, opened, walk.seen, shown[i])
      /\ OpenedOnce(shown)
  BY <1>3 DEF Tree
<1> HIDE DEF opened
<1>5. \A i \in DOMAIN shown : shown[i].known <=> shown[i].project \in Listed(c)
  BY <1>4 DEF ShownIs
<1>6. \A i \in Below(walk.root) : shown[i].repeat => shown[i].project = walk.root
  BY <1>4 DEF ShownIs
<1>7. walk.depth > 0 => names \subseteq Within(c, walk.up, {walk.root}, walk.depth)
  BY <1>4 DEF ShownIs
<1>8. ASSUME walk.depth = 0
      PROVE  /\ names \cup {walk.root} = reach
             /\ \A p \in reach \ {walk.root} :
                  Cardinality({i \in DOMAIN shown :
                    shown[i].project = p /\ ~shown[i].repeat}) = 1
             /\ \A p \in reach :
                  /\ {shown[i].project : i \in Below(p)} = Edges(c, walk.up, p)
                  /\ Cardinality(Below(p)) = Cardinality(Edges(c, walk.up, p))
  <2>1. opened = reach /\ {walk.root} \cup names = opened
    <3>1. Finished(c, walk.up, walk.root, walk.seen, walk.shown)
      BY <1>3, <1>8 DEF Finished, opened
    <3>2. OpenedIs(c, walk.up, walk.root, walk.shown)
      BY <1>1, <1>2, <3>1, AllOpened
    <3>3. QED
      BY <3>2 DEF OpenedIs, opened
  <2>2. names \cup {walk.root} = reach
    BY <2>1
  <2>3. ASSUME NEW p \in reach \ {walk.root}
        PROVE  Cardinality({i \in DOMAIN shown :
                 shown[i].project = p /\ ~shown[i].repeat}) = 1
    <3> DEFINE B == {i \in DOMAIN shown : shown[i].project = p /\ ~shown[i].repeat}
    <3>1. p \in opened /\ p # walk.root
      BY <2>1
    <3>2. PICK i \in DOMAIN shown : shown[i].project = p /\ ~shown[i].repeat
      BY <3>1 DEF opened, Opened
    <3>3. \A j \in DOMAIN shown : shown[j].project = p /\ ~shown[j].repeat => j = i
      BY <1>4, <3>2 DEF OpenedOnce
    <3>4. B = {i}
      BY <3>2, <3>3
    <3>5. QED
      BY <3>4, FS_Singleton
  <2>4. ASSUME NEW p \in reach
        PROVE  /\ {shown[i].project : i \in Below(p)} = Edges(c, walk.up, p)
               /\ Cardinality(Below(p)) = Cardinality(Edges(c, walk.up, p))
    <3>1. \A d \in Edges(c, walk.up, p) :
            \E i \in DOMAIN shown : shown[i].of = p /\ shown[i].project = d
      <4>1. DOMAIN <<>> = {}
        OBVIOUS
      <4>2. p \in opened
        BY <2>1
      <4>3. Covered(c, walk.up, opened, <<>>, shown)
        BY <1>3, <1>8
      <4>4. QED
        BY <4>1, <4>2, <4>3, Zenon DEF Covered
    <3>2. \A i \in DOMAIN shown : shown[i].project \in Edges(c, walk.up, shown[i].of)
      BY <1>4 DEF ShownIs
    <3>3. OpenedOnce(walk.shown)
      BY <1>4
    <3>4. QED
      BY <1>1, <1>2, <3>1, <3>2, <3>3, LinesBelow
  <2>5. QED
    BY <2>2, <2>3, <2>4
<1>9. QED
  BY <1>5, <1>6, <1>7, <1>8, Zenon

(* A tree without a limit shows all that is reached and nothing else, each *)
(* project with everything below it once, and one with a limit nothing     *)
(* beyond it, for any catalogue, root, depth and direction                 *)
(* (Catalog.DepTree, walkGraph).                                           *)
THEOREM WholeTreeHolds == CatalogueSpec => []WholeTree
<1>1. CatalogueInit => HeldInv /\ WalkInv
  BY HeldInit, WalkInit
<1>2. HeldInv /\ WalkInv /\ [CatalogueNext]_catalogue => HeldInv' /\ WalkInv'
  BY HeldNext, WalkNext
<1>3. HeldInv /\ WalkInv => WholeTree
  BY WalkImplies
<1>4. QED
  BY <1>1, <1>2, <1>3, PTL DEF CatalogueSpec

-----------------------------------------------------------------------------
(* Catalogue: browsing (Catalog.Children, Catalog.Complete).               *)

(* What is before another, segment by segment.                             *)
LEMMA PrefixIs ==
  ASSUME NEW T, NEW s \in Seq(T), NEW t \in Seq(T)
  PROVE  IsStrictPrefix(s, t) <=> Len(s) < Len(t) /\ \A i \in 1 .. Len(s) : s[i] = t[i]
<1> DEFINE m == Len(s)
           u == SubSeq(s, 1, m)
           v == SubSeq(t, 1, m)
<1>1. m \in Nat /\ Len(t) \in Nat
  OBVIOUS
<1>2. u \in Seq(T) /\ Len(u) = m /\ \A i \in 1 .. m : u[i] = s[i]
  OBVIOUS
<1>3. m <= Len(t) => v \in Seq(T) /\ Len(v) = m /\ \A i \in 1 .. m : v[i] = t[i]
  BY <1>1
<1>4. IsStrictPrefix(s, t) <=> m <= Len(t) /\ u = v /\ s # t
  BY DEF IsStrictPrefix, IsPrefix
<1> HIDE DEF m, u, v
<1>5. m <= Len(t) => (u = v <=> \A i \in 1 .. m : u[i] = v[i])
  <2> SUFFICES ASSUME m <= Len(t), \A i \in 1 .. m : u[i] = v[i] PROVE u = v
    OBVIOUS
  <2>1. u \in Seq(T) /\ v \in Seq(T) /\ Len(u) = Len(v) /\ \A i \in 1 .. Len(u) : u[i] = v[i]
    BY <1>2, <1>3
  <2>2. QED
    BY <2>1, SeqEqual
<1>6. m <= Len(t) => (u = v <=> \A i \in 1 .. m : s[i] = t[i])
  BY <1>2, <1>3, <1>5
<1>7. ASSUME m = Len(t), \A i \in 1 .. m : s[i] = t[i] PROVE s = t
  <2>1. Len(s) = Len(t) /\ \A i \in 1 .. Len(s) : s[i] = t[i]
    BY <1>7 DEF m
  <2>2. QED
    BY <2>1, SeqEqual
<1>8. m < Len(t) => s # t
  BY DEF m
<1>9. QED
  BY <1>1, <1>4, <1>6, <1>7, <1>8 DEF m

(* What is before a name is before what that one is before.                *)
LEMMA PrefixFollows ==
  ASSUME NEW T, NEW s \in Seq(T), NEW t \in Seq(T), NEW u \in Seq(T),
         IsStrictPrefix(s, t), IsStrictPrefix(t, u)
  PROVE  IsStrictPrefix(s, u)
<1>1. /\ Len(s) < Len(t) /\ \A i \in 1 .. Len(s) : s[i] = t[i]
      /\ Len(t) < Len(u) /\ \A i \in 1 .. Len(t) : t[i] = u[i]
      /\ Len(s) \in Nat /\ Len(t) \in Nat /\ Len(u) \in Nat
  BY PrefixIs
<1>2. Len(s) < Len(u) /\ \A i \in 1 .. Len(s) : s[i] = u[i]
  BY <1>1
<1>3. QED
  BY <1>2, PrefixIs

(* The next segment: what is before a name is before that, and it is all   *)
(* of that but the last.                                                   *)
LEMMA SegmentIs ==
  ASSUME NEW T, NEW h \in Seq(T), NEW p \in Seq(T), IsStrictPrefix(h, p)
  PROVE  /\ SubSeq(p, 1, Len(h) + 1) \in Seq(T)
         /\ IsStrictPrefix(h, SubSeq(p, 1, Len(h) + 1))
         /\ Front(SubSeq(p, 1, Len(h) + 1)) = h
<1> DEFINE m == Len(h)
           n == SubSeq(p, 1, m + 1)
<1>1. m \in Nat /\ Len(p) \in Nat /\ m < Len(p) /\ \A i \in 1 .. m : h[i] = p[i]
  BY PrefixIs
<1>2. /\ n \in Seq(T) /\ Len(n) = m + 1 /\ n # <<>>
      /\ \A i \in 1 .. m + 1 : n[i] = p[i]
  BY <1>1
<1> HIDE DEF n
<1>3. \A i \in 1 .. m : h[i] = n[i]
  BY <1>1, <1>2
<1>4. IsStrictPrefix(h, n)
  BY <1>1, <1>2, <1>3, PrefixIs
<1>5. Front(n) \in Seq(T) /\ Len(Front(n)) = m /\ \A i \in 1 .. m : Front(n)[i] = n[i]
  <2>1. (m + 1) - 1 = m
    BY <1>1
  <2>2. /\ Front(n) \in Seq(T) /\ Len(Front(n)) = Len(n) - 1
        /\ \A i \in 1 .. Len(n) - 1 : Front(n)[i] = n[i]
    BY <1>2, LastAndFront
  <2>3. QED
    BY <1>2, <2>1, <2>2
<1>6. Front(n) = h
  BY <1>3, <1>5, SeqEqual
<1>7. QED
  BY <1>2, <1>4, <1>6 DEF n, m

(* A name is the next segment behind all of it but the last.               *)
LEMMA HeadingIs ==
  ASSUME NEW T, NEW p \in Seq(T), p # <<>>
  PROVE  /\ Len(p) - 1 \in 0 .. Len(p)
         /\ SubSeq(p, 1, Len(p) - 1) \in Seq(T)
         /\ IsStrictPrefix(SubSeq(p, 1, Len(p) - 1), p)
         /\ SubSeq(p, 1, Len(SubSeq(p, 1, Len(p) - 1)) + 1) = p
<1> DEFINE m == Len(p)
           h == SubSeq(p, 1, m - 1)
<1>1. m \in Nat /\ m # 0 /\ m - 1 \in 0 .. m /\ (m - 1) + 1 = m
  OBVIOUS
<1>2. h \in Seq(T) /\ Len(h) = m - 1 /\ \A i \in 1 .. m - 1 : h[i] = p[i]
  BY <1>1
<1> HIDE DEF h
<1>3. IsStrictPrefix(h, p)
  BY <1>1, <1>2, PrefixIs
<1>4. SubSeq(p, 1, Len(h) + 1) = p
  <2>1. SubSeq(p, 1, m) = p
    BY <1>1, SubSeqFull
  <2>2. QED
    BY <1>1, <1>2, <2>1
<1>5. QED
  BY <1>1, <1>2, <1>3, <1>4 DEF h

(* What is listed are finitely many names, none of them bad.               *)
LEMMA ListedAre ==
  ASSUME NEW c, Sound(c)
  PROVE  /\ Listed(c) \subseteq ProjectName /\ IsFiniteSet(Listed(c))
         /\ \A p \in Listed(c) : p \in Seq(Text) /\ p # <<>> /\ p \notin BadNames
<1>1. ASSUME NEW p \in Listed(c) PROVE p \in ProjectName /\ p \notin BadNames
  <2>1. PICK i \in DOMAIN c.projects : p = c.projects[i].project
    BY DEF Listed
  <2>2. c.projects \in Seq(Entry) /\ c.projects[i].project \notin BadNames
    BY <2>1 DEF Sound
  <2>3. c.projects[i] \in Entry
    BY <2>1, <2>2
  <2>4. QED
    BY <2>1, <2>2, <2>3 DEF Entry
<1>2. Listed(c) \subseteq ProjectName
  BY <1>1
<1>3. IsFiniteSet(Listed(c))
  BY <1>2, NamesFinite, FS_Subset
<1>4. ProjectName \subseteq Seq(Text) /\ <<>> \in BadNames
  BY CatalogueAssumption
<1>5. QED
  BY <1>1, <1>2, <1>3, <1>4

(* A child of a heading is a heading with one segment more, of some        *)
(* project below; it is told whether it is one and how many are below it.  *)
ChildIs(c, h, n) ==
  /\ \E p \in Listed(c) : IsStrictPrefix(h, p) /\ n.name = SubSeq(p, 1, Len(h) + 1)
  /\ n.leaf <=> n.name \in Listed(c)
  /\ n.under = Cardinality({p \in Listed(c) : IsStrictPrefix(n.name, p)})
  /\ Front(n.name) = h

(* The children of a heading are as they should be, and there is one on    *)
(* the way to every project below.                                         *)
LEMMA ChildrenAre ==
  ASSUME NEW c, Sound(c), NEW h \in Seq(Text)
  PROVE  /\ \A n \in Children(c, h) : ChildIs(c, h, n)
         /\ \A p \in Listed(c) : IsStrictPrefix(h, p) =>
              \E n \in Children(c, h) : n.name = SubSeq(p, 1, Len(h) + 1)
<1> DEFINE below == {p \in Listed(c) : IsStrictPrefix(h, p)}
           child(n) == [name |-> n, leaf |-> n \in below,
                        under |-> Cardinality({p \in below : IsStrictPrefix(n, p)})]
           names == {SubSeq(p, 1, Len(h) + 1) : p \in below}
<1>1. Children(c, h) = {child(n) : n \in names}
  BY DEF Children
<1>2. \A p \in below : p \in Listed(c) /\ p \in Seq(Text) /\ IsStrictPrefix(h, p)
  BY ListedAre
<1>3. ASSUME NEW n \in names PROVE ChildIs(c, h, child(n))
  <2>1. PICK p \in below : n = SubSeq(p, 1, Len(h) + 1)
    OBVIOUS
  <2>2. n \in Seq(Text) /\ IsStrictPrefix(h, n) /\ Front(n) = h
    BY <1>2, <2>1, SegmentIs
  <2>3. n \in below <=> n \in Listed(c)
    BY <2>2
  <2>4. {q \in below : IsStrictPrefix(n, q)} = {q \in Listed(c) : IsStrictPrefix(n, q)}
    <3>1. ASSUME NEW q \in Listed(c), IsStrictPrefix(n, q) PROVE IsStrictPrefix(h, q)
      <4>1. q \in Seq(Text)
        BY ListedAre
      <4>2. QED
        BY <2>2, <3>1, <4>1, PrefixFollows
    <3>2. QED
      BY <3>1
  <2>5. /\ child(n).name = n /\ (child(n).leaf <=> n \in Listed(c))
        /\ child(n).under = Cardinality({q \in Listed(c) : IsStrictPrefix(n, q)})
    BY <2>3, <2>4
  <2> HIDE DEF child, names
  <2>6. QED
    BY <1>2, <2>1, <2>2, <2>5 DEF ChildIs
<1>4. ASSUME NEW p \in Listed(c), IsStrictPrefix(h, p)
      PROVE  \E n \in Children(c, h) : n.name = SubSeq(p, 1, Len(h) + 1)
  <2>1. SubSeq(p, 1, Len(h) + 1) \in names
    BY <1>4
  <2>2. \A n : child(n).name = n
    OBVIOUS
  <2> HIDE DEF child, names
  <2>3. QED
    BY <1>1, <2>1, <2>2
<1>5. QED
  <2> HIDE DEF child, names
  <2> QED
    BY <1>1, <1>3, <1>4

(* All headings, and all that is found below them.                         *)
Headings(c) == UNION {{SubSeq(p, 1, k) : k \in 0 .. Len(p)} : p \in Listed(c)}
Nodes(c) == UNION {Children(c, h) : h \in Headings(c)}

(* Going down the headings comes to every project.                         *)
LEMMA NodesAre ==
  ASSUME NEW c, Sound(c)
  PROVE  /\ \A n \in Nodes(c) : \E h \in Seq(Text) : n \in Children(c, h)
         /\ \A p \in Listed(c) : \E n \in Nodes(c) : n.name = p
<1>1. \A h \in Headings(c) : \E p \in Listed(c) : \E k \in 0 .. Len(p) : h = SubSeq(p, 1, k)
  BY DEF Headings
<1>2. \A h \in Headings(c) : h \in Seq(Text)
  <2>1. ASSUME NEW p \in Listed(c), NEW k \in 0 .. Len(p) PROVE SubSeq(p, 1, k) \in Seq(Text)
    <3>1. p \in Seq(Text)
      BY ListedAre
    <3>2. QED
      BY <3>1
  <2>2. QED
    BY <1>1, <2>1
<1>3. \A n \in Nodes(c) : \E h \in Headings(c) : n \in Children(c, h)
  BY DEF Nodes
<1>4. ASSUME NEW p \in Listed(c) PROVE \E n \in Nodes(c) : n.name = p
  <2> DEFINE h == SubSeq(p, 1, Len(p) - 1)
  <2>1. p \in Seq(Text) /\ p # <<>>
    BY ListedAre
  <2>2. /\ Len(p) - 1 \in 0 .. Len(p) /\ h \in Seq(Text) /\ IsStrictPrefix(h, p)
        /\ SubSeq(p, 1, Len(h) + 1) = p
    BY <2>1, HeadingIs
  <2>3. h \in Headings(c)
    BY <2>2 DEF Headings
  <2> HIDE DEF h
  <2>4. PICK n \in Children(c, h) : n.name = p
    <3>1. PICK n \in Children(c, h) : n.name = SubSeq(p, 1, Len(h) + 1)
      BY <2>2, ChildrenAre
    <3>2. QED
      BY <2>2, <3>1
  <2>5. n \in Nodes(c)
    BY <2>3 DEF Nodes
  <2>6. QED
    BY <2>4, <2>5
<1>5. QED
  BY <1>2, <1>3, <1>4

(* Browsing comes to every project and to no other, counts what is below,  *)
(* and completes a segment.                                                *)
LEMMA Browsed ==
  ASSUME NEW c, Sound(c)
  PROVE  /\ {n.name : n \in {m \in Nodes(c) : m.leaf}} = Listed(c)
         /\ \A n \in Nodes(c) :
              /\ n.under = Cardinality({p \in Listed(c) : IsStrictPrefix(n.name, p)})
              /\ n \in Complete(c, Front(n.name), Last(n.name))
<1>1. ASSUME NEW n \in Nodes(c)
      PROVE  \E h \in Seq(Text) : n \in Children(c, h) /\ ChildIs(c, h, n)
  BY NodesAre, ChildrenAre
<1>2. \A n \in Nodes(c) : n.leaf <=> n.name \in Listed(c)
  BY <1>1 DEF ChildIs
<1>3. {n.name : n \in {m \in Nodes(c) : m.leaf}} = Listed(c)
  <2>1. \A p \in Listed(c) : \E n \in Nodes(c) : n.name = p
    BY NodesAre
  <2>2. QED
    BY <1>2, <2>1
<1>4. ASSUME NEW n \in Nodes(c)
      PROVE  /\ n.under = Cardinality({p \in Listed(c) : IsStrictPrefix(n.name, p)})
             /\ n \in Complete(c, Front(n.name), Last(n.name))
  <2>1. PICK h \in Seq(Text) : n \in Children(c, h) /\ ChildIs(c, h, n)
    BY <1>1
  <2>2. /\ n.under = Cardinality({p \in Listed(c) : IsStrictPrefix(n.name, p)})
        /\ Front(n.name) = h
    BY <2>1 DEF ChildIs
  <2>3. n \in Complete(c, h, Last(n.name))
    BY <2>1 DEF Complete
  <2>4. QED
    BY <2>2, <2>3
<1>5. QED
  BY <1>3, <1>4

-----------------------------------------------------------------------------
(* Catalogue: searching (Catalog.Search).                                  *)

(* The least of numbers is one of them.                                    *)
LEMMA MinimumIs ==
  ASSUME NEW S, S \subseteq Nat, S # {}
  PROVE  Min(S) \in S /\ \A x \in S : Min(S) <= x
<1>1. \E x \in S : \A y \in S : x <= y
  BY Least
<1>2. QED
  BY <1>1 DEF Min

(* The best reason there is, is that a command has that name.              *)
LEMMA ScoreIs ==
  ASSUME NEW c, NEW p, NEW q
  PROVE  /\ Score(c, p, q) \subseteq Nat
         /\ 0 \in Score(c, p, q) <=> q \in ToSet(Of(c, p).provides)
<1> DEFINE provides == ToSet(Of(c, p).provides)
           command == {0 : cmd \in provides \cap {q}}
                        \cup {2 : cmd \in {d \in provides \ {q} : <<d, q>> \in Begins}}
           leaf == Lower(Last(p))
           name == IF leaf = q THEN {1}
                   ELSE IF q \in Brief THEN {}
                   ELSE IF <<leaf, q>> \in Inside THEN {3}
                   ELSE IF <<p, q>> \in InName THEN {4} ELSE {}
           summary == {5 : s \in {t \in {Lower(Of(c, p).summary)} : <<t, q>> \in Inside}}
<1>1. Score(c, p, q) = command \cup name \cup summary
  BY DEF Score
<1>2. command \subseteq {0, 2} /\ (0 \in command <=> q \in provides)
  <2> DEFINE exact == {0 : cmd \in provides \cap {q}}
             longer == {2 : cmd \in {d \in provides \ {q} : <<d, q>> \in Begins}}
  <2> HIDE DEF provides
  <2>1. exact \subseteq {0} /\ (0 \in exact <=> q \in provides)
    OBVIOUS
  <2>2. longer \subseteq {2}
    OBVIOUS
  <2>3. command = exact \cup longer
    OBVIOUS
  <2> HIDE DEF exact, longer, command
  <2>4. QED
    BY <2>1, <2>2, <2>3
<1>3. name \subseteq {1, 3, 4}
  OBVIOUS
<1>4. summary \subseteq {5}
  OBVIOUS
<1> HIDE DEF command, name, summary
<1>5. QED
  BY <1>1, <1>2, <1>3, <1>4

(* Places of which none is left out before another are all up to a number. *)
LEMMA AllUpTo ==
  ASSUME NEW n \in Nat, NEW I, I \subseteq 1 .. n,
         \A j \in I : \A i \in 1 .. n : i < j => i \in I
  PROVE  I = 1 .. Cardinality(I) /\ Cardinality(I) <= n /\ Cardinality(I) \in Nat
<1>1. IsFiniteSet(1 .. n) /\ I \in SUBSET (1 .. n)
  BY FS_Interval
<1>2. IsFiniteSet(I)
  BY <1>1, FS_Subset
<1>3. CASE I = {}
  <2>1. Cardinality(I) = 0 /\ 1 .. 0 = {}
    BY <1>3, FS_EmptySet
  <2>2. QED
    BY <1>3, <2>1
<1>4. CASE I # {}
  <2>1. I \subseteq Nat
    OBVIOUS
  <2>2. PICK g \in I : \A i \in I : i <= g
    BY <1>2, <1>4, <2>1, Greatest
  <2>3. g \in Nat /\ 1 <= g /\ g <= n
    OBVIOUS
  <2>4. I = 1 .. g
    <3>1. \A i \in I : i \in 1 .. g
      BY <2>2, <2>3
    <3>2. ASSUME NEW i \in 1 .. g PROVE i \in I
      <4>1. i \in 1 .. n /\ (i < g \/ i = g)
        BY <2>3
      <4>2. QED
        BY <2>2, <4>1
    <3>3. QED
      BY <3>1, <3>2
  <2>5. Cardinality(1 .. g) = g
    <3>1. 1 \in Int /\ g \in Int /\ g - 1 + 1 = g /\ ~(1 > g)
      BY <2>3
    <3>2. QED
      BY <3>1, FS_Interval
  <2>6. QED
    BY <2>3, <2>4, <2>5
<1>5. QED
  BY <1>3, <1>4

(* Of what is in an order, a part that is before all else comes first.     *)
LEMMA PartComesFirst ==
  ASSUME NEW D, NEW n \in Nat, NEW hits \in [1 .. n -> D],
         \A d \in D : \E i \in 1 .. n : hits[i] = d,
         \A i, j \in 1 .. n : hits[i] = hits[j] => i = j,
         NEW P, P \subseteq D, IsFiniteSet(P),
         \A j \in 1 .. n : hits[j] \in P => \A i \in 1 .. n : i < j => hits[i] \in P
  PROVE  ToSet(SubSeq(hits, 1, Cardinality(P))) = P
<1> DEFINE I == {i \in 1 .. n : hits[i] \in P}
           k == Cardinality(P)
           u == SubSeq(hits, 1, k)
<1>1. \A i \in 1 .. n : i \in I <=> hits[i] \in P
  OBVIOUS
<1>2. I \subseteq 1 .. n
  OBVIOUS
<1> HIDE DEF I
<1>3. Cardinality(I) = k
  <2>1. \A i \in I : hits[i] \in P
    BY <1>1, <1>2
  <2>2. \A i, j \in I : hits[i] = hits[j] => i = j
    BY <1>2
  <2>3. \A d \in P : \E i \in I : hits[i] = d
    BY <1>1
  <2> HIDE DEF k
  <2>4. QED
    BY <2>1, <2>2, <2>3, AsMany DEF k
<1>4. I = 1 .. k /\ k <= n /\ k \in Nat
  <2>1. \A j \in I : \A i \in 1 .. n : i < j => i \in I
    BY <1>1, <1>2
  <2>2. I = 1 .. Cardinality(I) /\ Cardinality(I) <= n /\ Cardinality(I) \in Nat
    BY <1>2, <2>1, AllUpTo
  <2>3. QED
    BY <1>3, <2>2
<1> HIDE DEF k, u
<1>5. hits \in Seq(D) /\ Len(hits) = n
  BY SequenceOf
<1>6. u \in Seq(D) /\ Len(u) = k /\ \A i \in 1 .. k : u[i] = hits[i]
  BY <1>4, <1>5 DEF u
<1>7. DOMAIN u = 1 .. k
  BY <1>6
<1>8. ToSet(u) = {hits[i] : i \in 1 .. k}
  BY <1>6, <1>7 DEF ToSet
<1>9. \A d \in P : \E i \in 1 .. k : hits[i] = d
  BY <1>1, <1>4
<1>10. \A i \in 1 .. k : hits[i] \in P
  BY <1>1, <1>4
<1>11. ToSet(u) = P
  BY <1>8, <1>9, <1>10
<1>12. QED
  BY <1>11 DEF u, k

(* Something is asked for, so that whoever has it provides it.             *)
Providing(c, q) ==
  \A p : p \in ProvidersOf(c, q) <=> p \in Listed(c) /\ q \in ToSet(Of(c, p).provides)

(* What is found has a project once, and those that have a command of that *)
(* name before any other.                                                  *)
LEMMA Found ==
  ASSUME NEW c, Sound(c), NEW q, Providing(c, q)
  PROVE  /\ Cardinality(ToSet(Hits(c, q))) = Len(Hits(c, q))
         /\ ToSet(SubSeq(Hits(c, q), 1, Cardinality(ProvidersOf(c, q)))) = ProvidersOf(c, q)
<1> DEFINE D == {d \in Listed(c) : Score(c, d, q) # {}}
           best == [p \in D |-> Min(Score(c, p, q))]
           before == {p \in (DOMAIN best) \X (DOMAIN best) :
                        \/ best[p[1]] < best[p[2]]
                        \/ best[p[1]] = best[p[2]] /\ Rank(p[1]) < Rank(p[2])}
           hits == Ranked(D, before)
           P == ProvidersOf(c, q)
           n == Cardinality(D)
<1>1. Hits(c, q) = Ranked(DOMAIN best, before) /\ DOMAIN best = D
  BY Zenon DEF Hits
<1>2. /\ D \subseteq ProjectName /\ D \subseteq Listed(c) /\ IsFiniteSet(D)
      /\ \A p \in D : Rank(p) \in Nat
      /\ \A p, r \in D : Rank(p) = Rank(r) => p = r
  <2>1. D \subseteq Listed(c)
    OBVIOUS
  <2>2. D \subseteq ProjectName /\ IsFiniteSet(D)
    <3> HIDE DEF D
    <3>1. QED
      BY <2>1, ListedAre, FS_Subset
  <2> HIDE DEF D
  <2>3. QED
    BY <2>1, <2>2, RankIs
<1>3. \A p, r \in D : <<p, r>> \in before <=>
         \/ best[p] < best[r]
         \/ best[p] = best[r] /\ Rank(p) < Rank(r)
  <2>1. before = {p \in D \X D : \/ best[p[1]] < best[p[2]]
                                 \/ best[p[1]] = best[p[2]] /\ Rank(p[1]) < Rank(p[2])}
    BY <1>1
  <2> HIDE DEF D, best, before
  <2>2. QED
    BY <2>1
<1>4. ASSUME NEW p \in D PROVE best[p] \in Nat /\ (best[p] = 0 <=> p \in P)
  <2>1. /\ Score(c, p, q) \subseteq Nat /\ Score(c, p, q) # {}
        /\ 0 \in Score(c, p, q) <=> p \in P
    BY ScoreIs DEF Providing
  <2>2. Min(Score(c, p, q)) \in Score(c, p, q) /\ \A x \in Score(c, p, q) : Min(Score(c, p, q)) <= x
    BY <2>1, MinimumIs
  <2>3. best[p] = Min(Score(c, p, q))
    OBVIOUS
  <2> HIDE DEF best, D, P
  <2>4. QED
    BY <2>1, <2>2, <2>3
<1>5. P \subseteq D
  <2>1. ASSUME NEW p \in P PROVE p \in Listed(c) /\ 0 \in Score(c, p, q)
    BY ScoreIs DEF Providing
  <2>2. QED
    BY <2>1
<1> HIDE DEF D, best, before
<1>6. Orders(D, before)
  BY <1>2, <1>3, <1>4 DEF Orders
<1>7. /\ hits \in [1 .. n -> D] /\ n \in Nat
      /\ \A d \in D : \E i \in 1 .. n : hits[i] = d
      /\ \A i, j \in 1 .. n : i < j => <<hits[i], hits[j]>> \in before
  BY <1>2, <1>6, RankedSorts
<1>8. hits = Hits(c, q)
  BY <1>1
<1> HIDE DEF hits, n, P
<1>9. \A i, j \in 1 .. n : hits[i] = hits[j] => i = j
  <2> SUFFICES ASSUME NEW i \in 1 .. n, NEW j \in 1 .. n, hits[i] = hits[j], i # j
               PROVE  FALSE
    OBVIOUS
  <2>1. i < j \/ j < i
    BY <1>7
  <2>2. <<hits[i], hits[i]>> \in before /\ hits[i] \in D
    BY <1>7, <2>1
  <2>3. QED
    BY <1>6, <2>2 DEF Orders
<1>10. ASSUME NEW j \in 1 .. n, hits[j] \in P, NEW i \in 1 .. n, i < j PROVE hits[i] \in P
  <2>1. hits[i] \in D /\ hits[j] \in D /\ <<hits[i], hits[j]>> \in before
    BY <1>7, <1>10
  <2>2. best[hits[j]] = 0 /\ best[hits[i]] \in Nat
    BY <1>4, <1>10, <2>1
  <2>3. best[hits[i]] = 0
    BY <1>3, <2>1, <2>2
  <2>4. QED
    BY <1>4, <2>1, <2>3
<1>11. ToSet(SubSeq(hits, 1, Cardinality(P))) = P
  <2>1. IsFiniteSet(P)
    BY <1>2, <1>5, FS_Subset
  <2>2. QED
    BY <1>5, <1>7, <1>9, <1>10, <2>1, PartComesFirst
<1>12. Cardinality(ToSet(hits)) = Len(hits)
  <2>1. hits \in Seq(D) /\ Len(hits) = n /\ DOMAIN hits = 1 .. n
    BY <1>7, SequenceOf
  <2>2. ToSet(hits) = D
    BY <1>7, <2>1 DEF ToSet
  <2>3. QED
    BY <2>1, <2>2 DEF n
<1>13. QED
  BY <1>8, <1>11, <1>12 DEF P

(* The same of a search, which finds nothing if nothing is asked for.      *)
LEMMA Searched ==
  ASSUME NEW c, Sound(c), NEW query
  PROVE  LET hits == Search(c, query)
             meant == ProvidersOf(c, Lower(query))
         IN  /\ Cardinality(ToSet(hits)) = Len(hits)
             /\ ToSet(SubSeq(hits, 1, Cardinality(meant))) = meant
<1>1. CASE Lower(query) = ""
  <2>1. Search(c, query) = <<>> /\ ProvidersOf(c, Lower(query)) = {}
    BY <1>1 DEF Search, ProvidersOf
  <2>2. Cardinality({}) = 0 /\ ToSet(<<>>) = {} /\ ToSet(SubSeq(<<>>, 1, 0)) = {}
    BY FS_EmptySet DEF ToSet
  <2>3. QED
    BY <2>1, <2>2
<1>2. CASE Lower(query) # ""
  <2>1. Search(c, query) = Hits(c, Lower(query))
    BY <1>2 DEF Search
  <2>2. Providing(c, Lower(query))
    BY <1>2, Zenon DEF ProvidersOf, Providing
  <2>3. QED
    BY <2>1, <2>2, Found
<1>3. QED
  BY <1>1, <1>2

(* Whatever is held can be browsed and searched.                           *)
LEMMA BrowsableIs ==
  ASSUME HeldInv
  PROVE  Browsable
<1> SUFFICES ASSUME NEW c \in held
             PROVE  LET headings == UNION {{SubSeq(p, 1, k) : k \in 0 .. Len(p)} : p \in Listed(c)}
                        nodes == UNION {Children(c, h) : h \in headings}
                    IN  /\ {n.name : n \in {m \in nodes : m.leaf}} = Listed(c)
                        /\ \A n \in nodes :
                              /\ n.under = Cardinality({p \in Listed(c) : IsStrictPrefix(n.name, p)})
                              /\ n \in Complete(c, Front(n.name), Last(n.name))
                        /\ Listed(c) \cap BadNames = {}
                        /\ \A i \in DOMAIN c.projects :
                              ToSet(c.projects[i].versions) \cap BadVersions = {}
                        /\ \A query \in Queries :
                             LET hits == Search(c, query)
                                 meant == ProvidersOf(c, Lower(query))
                             IN  /\ Cardinality(ToSet(hits)) = Len(hits)
                                 /\ ToSet(SubSeq(hits, 1, Cardinality(meant))) = meant
  BY Zenon DEF Browsable
<1> DEFINE headings == UNION {{SubSeq(p, 1, k) : k \in 0 .. Len(p)} : p \in Listed(c)}
           nodes == UNION {Children(c, h) : h \in headings}
<1>1. Sound(c)
  BY DEF HeldInv
<1>2. nodes = Nodes(c)
  BY Zenon DEF Nodes, Headings
<1>3. /\ {n.name : n \in {m \in nodes : m.leaf}} = Listed(c)
      /\ \A n \in nodes :
            /\ n.under = Cardinality({p \in Listed(c) : IsStrictPrefix(n.name, p)})
            /\ n \in Complete(c, Front(n.name), Last(n.name))
  <2> HIDE DEF nodes
  <2>1. QED
    BY <1>1, <1>2, Browsed, Zenon
<1>4. Listed(c) \cap BadNames = {}
  BY <1>1, ListedAre
<1>5. \A i \in DOMAIN c.projects : ToSet(c.projects[i].versions) \cap BadVersions = {}
  BY <1>1 DEF Sound, ToSet
<1>6. \A query \in Queries :
        LET hits == Search(c, query)
            meant == ProvidersOf(c, Lower(query))
        IN  /\ Cardinality(ToSet(hits)) = Len(hits)
            /\ ToSet(SubSeq(hits, 1, Cardinality(meant))) = meant
  BY <1>1, Searched, Zenon
<1>7. QED
  BY <1>3, <1>4, <1>5, <1>6, Zenon

(* Whoever goes down the names comes to every project and to no other; a   *)
(* search lists a project once, and first those that have a command that   *)
(* is spelt as the query is in lower case; no bad name or version is held, *)
(* for any catalogue that a registry serves and any query                  *)
(* (Catalog.Children, Catalog.Complete, Catalog.Search, UnmarshalCatalog). *)
THEOREM BrowsableHolds == CatalogueSpec => []Browsable
<1>1. HeldInv => Browsable
  BY BrowsableIs
<1>2. QED
  BY <1>1, HeldInit, HeldNext, PTL DEF CatalogueSpec
=============================================================================
