--------------------------- MODULE VersionsProofs ---------------------------
(* Theorems about Versions, for any tags, constraints and lines.           *)
EXTENDS Versions, SequenceTheorems, TLAPS

-----------------------------------------------------------------------------
(* Versions and their order.                                               *)

LEMMA Numbers ==
  ASSUME NEW nums \in Nums
  PROVE  /\ Len(nums) \in Nat /\ Len(nums) > 0
         /\ DOMAIN nums = 1 .. Len(nums)
         /\ \A i : At(nums, i) \in Nat
         /\ \A i : i \notin DOMAIN nums => At(nums, i) = 0
<1>1. nums \in Seq(Nat) /\ nums # << >>
  BY DEF Nums
<1>2. Len(nums) \in Nat /\ Len(nums) # 0 /\ nums \in [1 .. Len(nums) -> Nat]
  BY <1>1, LenProperties, EmptySeq
<1>3. QED
  BY <1>2 DEF At

(* Two versions have the same numbers when they agree at every place.      *)
LEMMA SameEverywhere ==
  ASSUME NEW v, NEW w, v.nums \in Nums, w.nums \in Nums
  PROVE  SameNums(v, w) <=> \A i \in Nat : At(v.nums, i) = At(w.nums, i)
<1>1. DOMAIN v.nums \subseteq Nat /\ DOMAIN w.nums \subseteq Nat
  BY Numbers
<1>2. \A i : i \notin Places(v, w) => At(v.nums, i) = At(w.nums, i)
  BY DEF At, Places
<1>3. QED
  BY <1>1, <1>2 DEF SameNums, Places

LEMMA SameKeyEquivalence ==
  ASSUME NEW u, NEW v, NEW w, u.nums \in Nums, v.nums \in Nums, w.nums \in Nums
  PROVE  /\ SameKey(v, v)
         /\ SameKey(v, w) => SameKey(w, v)
         /\ SameKey(u, v) /\ SameKey(v, w) => SameKey(u, w)
<1>1. SameKey(v, v) /\ (SameKey(v, w) => SameKey(w, v))
  BY DEF SameKey, SameNums, Places
<1>2. SameNums(u, v) /\ SameNums(v, w) => SameNums(u, w)
  BY SameEverywhere
<1>3. QED
  BY <1>1, <1>2 DEF SameKey

(* Versions of one key have the same place in the order.                   *)
LEMMA SameOrder ==
  ASSUME NEW v, NEW w, NEW c, v.nums \in Nums, w.nums \in Nums, c.nums \in Nums,
         SameKey(v, w)
  PROVE  /\ Older(v, c) <=> Older(w, c)
         /\ Older(c, v) <=> Older(c, w)
         /\ \A n \in Nat : SameN(v, c, n) <=> SameN(w, c, n)
<1>1. \A i \in Nat : At(v.nums, i) = At(w.nums, i)
  BY SameEverywhere DEF SameKey
<1>2. /\ \A i : At(v.nums, i) \in Nat /\ At(w.nums, i) \in Nat /\ At(c.nums, i) \in Nat
      /\ DOMAIN v.nums \subseteq Nat /\ DOMAIN w.nums \subseteq Nat
      /\ DOMAIN c.nums \subseteq Nat
  BY Numbers
<1>3. \A i \in Nat : /\ At(v.nums, i) > 0 => i \in DOMAIN v.nums
                     /\ At(w.nums, i) > 0 => i \in DOMAIN w.nums
                     /\ At(c.nums, i) > 0 => i \in DOMAIN c.nums
  BY Numbers
<1>4. \A n \in Int : /\ SameN(v, c, n) <=> SameN(w, c, n)
                     /\ SameN(c, v, n) <=> SameN(c, w, n)
  BY <1>1 DEF SameN
<1>5. SameNums(v, c) <=> SameNums(w, c)
  BY <1>1, SameEverywhere
<1>6. SameNums(c, v) <=> SameNums(c, w)
  BY <1>1, SameEverywhere
<1>7. v.rebuild = w.rebuild
  BY DEF SameKey
<1>8. ASSUME NEW x, NEW y, x \in {v, w}, y \in {v, w}, Older(x, c)
      PROVE  Older(y, c)
  <2>1. CASE SameNums(x, c) /\ x.rebuild < c.rebuild
    BY <1>5, <1>7, <1>8, <2>1 DEF Older
  <2>2. ASSUME NEW i \in Places(x, c),
               At(x.nums, i) < At(c.nums, i), SameN(x, c, i - 1)
        PROVE  Older(y, c)
    <3>1. i \in Nat /\ At(c.nums, i) > 0
      BY <1>2, <1>8, <2>2 DEF Places
    <3>2. i \in Places(y, c) /\ At(y.nums, i) < At(c.nums, i)
      BY <1>1, <1>3, <1>8, <2>2, <3>1 DEF Places
    <3>3. SameN(y, c, i - 1)
      BY <1>4, <1>8, <2>2, <3>1
    <3>4. QED
      BY <3>2, <3>3 DEF Older
  <2>3. QED
    BY <1>8, <2>1, <2>2 DEF Older
<1>9. ASSUME NEW x, NEW y, x \in {v, w}, y \in {v, w}, Older(c, x)
      PROVE  Older(c, y)
  <2>1. CASE SameNums(c, x) /\ c.rebuild < x.rebuild
    BY <1>6, <1>7, <1>9, <2>1 DEF Older
  <2>2. ASSUME NEW i \in Places(c, x),
               At(c.nums, i) < At(x.nums, i), SameN(c, x, i - 1)
        PROVE  Older(c, y)
    <3>1. i \in Nat
      BY <1>2, <1>9, <2>2 DEF Places
    <3>2. At(y.nums, i) = At(x.nums, i) /\ At(y.nums, i) > 0
      BY <1>1, <1>2, <1>9, <2>2, <3>1
    <3>3. i \in Places(c, y)
      BY <1>3, <1>9, <3>1, <3>2 DEF Places
    <3>4. SameN(c, y, i - 1)
      BY <1>4, <1>9, <2>2, <3>1
    <3>5. QED
      BY <2>2, <3>2, <3>3, <3>4 DEF Older
  <2>3. QED
    BY <1>9, <2>1, <2>2 DEF Older
<1>10. QED
  BY <1>4, <1>8, <1>9

LEMMA SameSatisfaction ==
  ASSUME NEW v, NEW w, v.nums \in Nums, w.nums \in Nums, SameKey(v, w),
         request \in Requests
  PROVE  SatisfiesAll(v) <=> SatisfiesAll(w)
<1>1. ASSUME NEW r \in request, NEW alternative \in r, NEW m \in alternative
      PROVE  Meets(v, m) <=> Meets(w, m)
  <2>1. m.nums \in Nums
    BY VersionsAssumption
  <2>2. Len(m.nums) \in Nat
    BY <2>1, Numbers
  <2>3. /\ Older(v, m) <=> Older(w, m)
        /\ Older(m, v) <=> Older(m, w)
        /\ \A n \in Nat : SameN(v, m, n) <=> SameN(w, m, n)
    BY <2>1, SameOrder
  <2>4. QED
    BY <2>2, <2>3 DEF Meets
<1>2. QED
  BY <1>1 DEF SatisfiesAll

-----------------------------------------------------------------------------
(* Tags.                                                                   *)

LEMMA ReadTag ==
  ASSUME NEW t \in Tag
  PROVE  /\ Read(t) \in Ver
         /\ Read(t).nums = t.nums /\ Read(t).letter = t.letter
         /\ Read(t).rebuild = t.rebuild /\ Read(t).variant = t.variant
         /\ Read(t).tag = None <=> ~Suffixed(t)
         /\ Suffixed(t) => Read(t).tag = t
         /\ t.nums \in Nums /\ Len(t.nums) \in Nat /\ t.letter \in Nat
<1>1. t.nums \in Nums /\ t.letter \in Nat
  BY DEF Tag
<1>2. Len(t.nums) \in Nat
  BY <1>1, Numbers
<1>3. t # None
  BY VersionsAssumption
<1>4. QED
  BY <1>1, <1>2, <1>3 DEF Read, Ver, Tag

LEMMA OneBuildEquivalence ==
  ASSUME NEW t \in Tag, NEW u \in Tag, NEW b \in Tag
  PROVE  /\ OneBuild(t, t)
         /\ OneBuild(t, u) => OneBuild(u, t)
         /\ OneBuild(t, u) /\ OneBuild(u, b) => OneBuild(t, b)
  BY ReadTag, SameKeyEquivalence DEF OneBuild

LEMMA BeatsOrder ==
  ASSUME NEW t \in Tag, NEW u \in Tag, NEW b \in Tag
  PROVE  /\ ~Beats(t, t)
         /\ Beats(t, u) /\ Beats(u, b) => Beats(t, b)
  BY ReadTag DEF Beats, Suffixed

(* Of two tags of one build without a suffix, neither of which beats the   *)
(* other, only the leading v can differ.                                   *)
LEMMA BeatsTotal ==
  ASSUME NEW t \in Tag, NEW u \in Tag, OneBuild(t, u),
         ~Beats(t, u), ~Beats(u, t), Suffixed(t) /\ Suffixed(u) => t = u
  PROVE  Read(t) = Read(u)
<1>1. CASE Suffixed(t) \/ Suffixed(u)
  BY <1>1 DEF Beats, Suffixed
<1>2. CASE ~Suffixed(t) /\ ~Suffixed(u)
  <2>1. Len(t.nums) = Len(u.nums) /\ t.letter = u.letter
    BY <1>2, ReadTag DEF Beats
  <2>2. /\ t.nums \in [1 .. Len(t.nums) -> Nat]
        /\ u.nums \in [1 .. Len(t.nums) -> Nat]
    BY <2>1, ReadTag, LenProperties DEF Nums
  <2>3. SameNums(Read(t), Read(u)) /\ t.rebuild = u.rebuild /\ t.variant = u.variant
    BY ReadTag DEF OneBuild, SameKey
  <2>4. \A i \in 1 .. Len(t.nums) : t.nums[i] = u.nums[i]
    BY <2>2, <2>3, ReadTag DEF SameNums, Places, At
  <2>5. t.nums = u.nums
    BY <2>2, <2>4
  <2>6. QED
    BY <1>2, <2>1, <2>3, <2>5 DEF Read
<1>3. QED
  BY <1>1, <1>2

(* Supersedes says which of two tags of one build beats the other.         *)
LEMMA SupersedesBeats ==
  ASSUME NEW t \in Tag, NEW u \in Tag, OneBuild(t, u),
         Suffixed(t) /\ Suffixed(u) => t = u
  PROVE  Supersedes(t, Read(u)) <=> Beats(t, u)
<1>1. t.variant = u.variant
  BY ReadTag DEF OneBuild, SameKey
<1>2. Read(u).tag = None <=> ~Suffixed(u)
  BY ReadTag
<1>3. Read(u).nums = u.nums /\ Read(u).letter = u.letter
  BY ReadTag
<1>4. CASE Suffixed(u)
  <2>1. ~Supersedes(t, Read(u))
    BY <1>2, <1>4 DEF Supersedes
  <2>2. ~Beats(t, u)
    BY <1>4, BeatsOrder DEF Beats
  <2>3. QED
    BY <2>1, <2>2
<1>5. CASE ~Suffixed(u)
  <2>1. Suffixed(t) <=> t.flavor # None
    BY <1>1, <1>5 DEF Suffixed
  <2>2. QED
    BY <1>2, <1>3, <1>5, <2>1 DEF Supersedes, Beats
<1>6. QED
  BY <1>4, <1>5

-----------------------------------------------------------------------------
(* The candidates, while the listing is read.                              *)

(* At most one tag of t's build has a suffix.                              *)
Clear(t) ==
  \A a, b \in listed :
    (/\ Mine(a) /\ Mine(b) /\ Suffixed(a) /\ Suffixed(b)
     /\ OneBuild(a, t) /\ OneBuild(b, t)) => a = b

(* Every candidate is the best tag of its build, and every build has one.  *)
Sound(K, S) ==
  \A k \in K : \E u \in S : Mine(u) /\ k = Read(u) /\ (Clear(u) => u \in Foremost(S))
Covers(K, S) ==
  \A u \in S : Mine(u) => \E k \in K : SameKey(k, Read(u))

Held(K, t) == {k \in K : SameKey(k, Read(t))}
Considered(K, t) ==
  IF Mine(t) /\ \A k \in Held(K, t) : Supersedes(t, k)
  THEN (K \ Held(K, t)) \cup {Read(t)} ELSE K

LEMMA SelectStep ==
  ASSUME listed \subseteq Tag, NEW S \in SUBSET listed, NEW t \in listed, t \notin S,
         NEW K, Sound(K, S), Covers(K, S)
  PROVE  /\ Sound(Considered(K, t), S \cup {t})
         /\ Covers(Considered(K, t), S \cup {t})
<1> DEFINE T == S \cup {t}
<1>1. CASE ~Mine(t)
  <2>1. Considered(K, t) = K
    BY <1>1 DEF Considered
  <2>2. \A u \in S : u \in Foremost(S) => u \in Foremost(T)
    BY <1>1 DEF Foremost
  <2>3. QED
    BY <1>1, <2>1, <2>2 DEF Sound, Covers
<1>2. CASE Mine(t) /\ \A k \in Held(K, t) : Supersedes(t, k)
  <2>1. Considered(K, t) = (K \ Held(K, t)) \cup {Read(t)}
    BY <1>2 DEF Considered
  <2>2. ASSUME NEW k \in K \ Held(K, t)
        PROVE  \E u \in T : Mine(u) /\ k = Read(u) /\ (Clear(u) => u \in Foremost(T))
    <3>1. PICK u \in S : Mine(u) /\ k = Read(u) /\ (Clear(u) => u \in Foremost(S))
      BY <2>2 DEF Sound
    <3>2. ~OneBuild(t, u)
      BY <2>2, <3>1, OneBuildEquivalence DEF Held, OneBuild
    <3>3. Clear(u) => u \in Foremost(T)
      BY <3>1, <3>2 DEF Foremost
    <3>4. QED
      BY <3>1, <3>3
  <2>3. ASSUME Clear(t), NEW b \in S, Mine(b), OneBuild(b, t), Beats(b, t)
        PROVE  FALSE
    <3>1. PICK k \in K : SameKey(k, Read(b))
      BY <2>3 DEF Covers
    <3>2. PICK w \in S : Mine(w) /\ k = Read(w) /\ (Clear(w) => w \in Foremost(S))
      BY <3>1 DEF Sound
    <3>3. OneBuild(w, b) /\ OneBuild(w, t) /\ OneBuild(t, w) /\ OneBuild(b, w)
      BY <2>3, <3>1, <3>2, OneBuildEquivalence DEF OneBuild
    <3>4. Supersedes(t, Read(w))
      BY <1>2, <3>2, <3>3 DEF Held, OneBuild
    <3>5. Suffixed(t) /\ Suffixed(w) => t = w
      BY <1>2, <2>3, <3>2, <3>3, OneBuildEquivalence DEF Clear
    <3>6. Beats(t, w)
      BY <3>3, <3>4, <3>5, SupersedesBeats
    <3>7. Beats(b, w)
      BY <2>3, <3>6, BeatsOrder
    <3>8. Clear(w)
      BY <2>3, <3>3, OneBuildEquivalence DEF Clear
    <3>9. QED
      BY <2>3, <3>2, <3>3, <3>7, <3>8 DEF Foremost
  <2>4. Clear(t) => t \in Foremost(T)
    BY <1>2, <2>3, BeatsOrder DEF Foremost
  <2>5. Sound(Considered(K, t), T)
    BY <1>2, <2>1, <2>2, <2>4 DEF Sound
  <2>6. ASSUME NEW u \in T, Mine(u)
        PROVE  \E k \in Considered(K, t) : SameKey(k, Read(u))
    <3>1. CASE OneBuild(t, u)
      BY <2>1, <3>1 DEF OneBuild
    <3>2. CASE ~OneBuild(t, u)
      <4>1. u \in S
        BY <3>2, OneBuildEquivalence
      <4>2. PICK k \in K : SameKey(k, Read(u))
        BY <2>6, <4>1 DEF Covers
      <4>3. PICK w \in S : k = Read(w)
        BY <4>2 DEF Sound
      <4>4. ~OneBuild(w, t)
        BY <3>2, <4>1, <4>2, <4>3, OneBuildEquivalence DEF OneBuild
      <4>5. k \notin Held(K, t)
        BY <4>3, <4>4 DEF Held, OneBuild
      <4>6. QED
        BY <2>1, <4>2, <4>5
    <3>3. QED
      BY <3>1, <3>2
  <2>7. QED
    BY <2>5, <2>6 DEF Covers
<1>3. CASE Mine(t) /\ ~\A k \in Held(K, t) : Supersedes(t, k)
  <2>1. Considered(K, t) = K
    BY <1>3 DEF Considered
  <2>2. PICK k0 \in K : SameKey(k0, Read(t)) /\ ~Supersedes(t, k0)
    BY <1>3 DEF Held
  <2>3. PICK w \in S : Mine(w) /\ k0 = Read(w) /\ (Clear(w) => w \in Foremost(S))
    BY DEF Sound
  <2>4. OneBuild(w, t) /\ OneBuild(t, w)
    BY <2>2, <2>3, OneBuildEquivalence DEF OneBuild
  <2>5. ASSUME NEW u \in S, Mine(u), Clear(u), u \in Foremost(S), OneBuild(t, u), Beats(t, u)
        PROVE  FALSE
    <3>1. OneBuild(w, u) /\ OneBuild(u, w)
      BY <2>4, <2>5, OneBuildEquivalence
    <3>2. /\ Suffixed(t) /\ Suffixed(w) => t = w
          /\ Suffixed(u) /\ Suffixed(w) => u = w
      BY <1>3, <2>3, <2>5, <3>1, OneBuildEquivalence DEF Clear
    <3>3. ~Beats(t, w)
      BY <2>2, <2>3, <2>4, <3>2, SupersedesBeats
    <3>4. Clear(w)
      BY <2>5, <3>1, OneBuildEquivalence DEF Clear
    <3>5. ~Beats(u, w) /\ ~Beats(w, u)
      BY <2>3, <2>5, <3>1, <3>4 DEF Foremost
    <3>6. Read(u) = Read(w)
      BY <3>1, <3>2, <3>5, BeatsTotal
    <3>7. /\ u.nums = w.nums /\ u.letter = w.letter
          /\ Suffixed(u) <=> Suffixed(w)
      BY <3>6, ReadTag
    <3>8. QED
      BY <2>5, <3>3, <3>7 DEF Beats
  <2>6. \A u \in S : Mine(u) /\ Clear(u) /\ u \in Foremost(S) => u \in Foremost(T)
    BY <2>5 DEF Foremost
  <2>7. QED
    BY <2>1, <2>2, <2>6 DEF Sound, Covers
<1>4. QED
  BY <1>1, <1>2, <1>3

(* Candidates that are sound and cover the listing are the reference's.    *)
LEMMA SelectedCandidates ==
  ASSUME listed \subseteq Tag, OneSuffixedTag, NEW K, Sound(K, listed), Covers(K, listed)
  PROVE  K = Candidates(listed)
<1>1. ASSUME NEW u \in listed PROVE Clear(u)
  <2>1. ASSUME NEW a \in listed, NEW b \in listed, OneBuild(a, u), OneBuild(b, u)
        PROVE  OneBuild(a, b)
    <3>1. a \in Tag /\ b \in Tag /\ u \in Tag
      OBVIOUS
    <3>2. OneBuild(u, b)
      BY <2>1, <3>1, OneBuildEquivalence
    <3>3. QED
      BY <2>1, <3>1, <3>2, OneBuildEquivalence
  <2>2. QED
    BY <2>1 DEF Clear, OneSuffixedTag
<1>2. K \subseteq Candidates(listed)
  BY <1>1 DEF Sound, Candidates
<1>3. ASSUME NEW u \in Foremost(listed)
      PROVE  Read(u) \in K
  <2>1. u \in listed /\ Mine(u)
    BY DEF Foremost
  <2>2. PICK k \in K : SameKey(k, Read(u))
    BY <2>1 DEF Covers
  <2>3. PICK w \in Foremost(listed) : k = Read(w)
    BY <1>1 DEF Sound
  <2>4. w \in listed /\ Mine(w) /\ OneBuild(w, u) /\ OneBuild(u, w)
    BY <2>1, <2>2, <2>3, OneBuildEquivalence DEF Foremost, OneBuild
  <2>5. ~Beats(w, u) /\ ~Beats(u, w)
    BY <2>1, <2>3, <2>4 DEF Foremost
  <2>6. Suffixed(u) /\ Suffixed(w) => u = w
    BY <2>1, <2>4 DEF OneSuffixedTag
  <2>7. Read(w) = Read(u)
    BY <2>1, <2>4, <2>5, <2>6, BeatsTotal
  <2>8. QED
    BY <2>3, <2>7
<1>4. QED
  BY <1>2, <1>3 DEF Candidates

-----------------------------------------------------------------------------
(* The inductive invariant.                                                *)

(* Nothing is searched for before the candidates are there.                *)
PhaseInv ==
  /\ pc \in {"list", "select", "other"} =>
       /\ untried = {} /\ ~registry /\ fallback = None
       /\ answer = None /\ picked = None
  /\ pc = "pick" => answer = None /\ picked = None
  /\ pc = "list" => kept = {}
  /\ pc = "other" => other # None
  /\ picked # None => answer \in {"supported", "endoflife"}
  /\ answer # None => pc = "done"

KeptInv ==
  /\ \A k \in kept : \E t \in Tag : k = Read(t)
  /\ pc = "select" => /\ Sound(kept, listed \ unread)
                      /\ Covers(kept, listed \ unread)
  /\ registry => Sound(kept, listed) /\ Covers(kept, listed)

(* What was tried and would do is on an end-of-life line, and the newest   *)
(* such candidate is the fallback.                                         *)
SearchInv ==
  /\ pc = "pick" => \A w \in kept \ untried :
       Installable(w) => DeprecatedLine(w) /\ fallback # None
  /\ fallback # None => \E v \in kept \ untried :
       /\ fallback \in Pulled(v) /\ Installable(v) /\ DeprecatedLine(v)
       /\ \A w \in kept : Installable(w) => ~Older(v, w)

IInv == TypeOK /\ PhaseInv /\ KeptInv /\ SearchInv /\ AnswerIsNewest

LEMMA Inputs ==
  ASSUME TypeOK
  PROVE  /\ listed \subseteq Tag /\ here \subseteq Tag
         /\ other # None => other \subseteq Tag
         /\ None \notin Ver /\ None \notin Tag
  BY VersionsAssumption DEF TypeOK

LEMMA PulledVersion ==
  ASSUME TypeOK, NEW v \in kept, NEW p \in Pulled(v)
  PROVE  /\ p \in Ver /\ p # None
         /\ registry => p.tag \in Found(v) /\ p = [v EXCEPT !.tag = p.tag]
<1>1. v \in Ver /\ None \notin Ver
  BY Inputs DEF TypeOK
<1>2. CASE registry
  <2>1. PICK t \in PublishedTagFor(v) : p = [v EXCEPT !.tag = t]
    BY <1>2 DEF Pulled
  <2>2. t \in Found(v) /\ t \in Tag
    BY <2>1, Inputs DEF PublishedTagFor, Found
  <2>3. p \in Ver /\ p.tag = t
    BY <1>1, <2>1, <2>2 DEF Ver
  <2>4. QED
    BY <1>1, <2>1, <2>2, <2>3
<1>3. CASE ~registry
  BY <1>1, <1>3 DEF Pulled
<1>4. QED
  BY <1>2, <1>3

LEMMA InitInv == Init => IInv
<1> SUFFICES ASSUME Init PROVE IInv
  OBVIOUS
<1>1. TypeOK
  BY DEF Init, TypeOK
<1>2. PhaseInv /\ KeptInv /\ SearchInv /\ AnswerIsNewest
  BY VersionsAssumption
     DEF Init, PhaseInv, KeptInv, SearchInv, AnswerIsNewest, Answers
<1>3. QED
  BY <1>1, <1>2 DEF IInv

(* What is asked of a candidate is fixed once the search has begun.        *)
LEMMA SearchUnchanged ==
  ASSUME UNCHANGED <<registry, here, request, dead>>
  PROVE  \A v : /\ Installable(v)' <=> Installable(v)
                /\ DeprecatedLine(v)' <=> DeprecatedLine(v)
                /\ Pulled(v)' = Pulled(v)
<1> TAKE v
<1>1. Found(v)' = Found(v)
  BY DEF Found
<1>2. (SatisfiesAll(v)' <=> SatisfiesAll(v)) /\ (DeprecatedLine(v)' <=> DeprecatedLine(v))
  BY DEF SatisfiesAll, DeprecatedLine
<1>3. Pulled(v)' = Pulled(v)
  BY <1>1 DEF Pulled, PublishedTagFor
<1>4. QED
  BY <1>1, <1>2, <1>3 DEF Installable

(* An answer leaves everything else as it is.                              *)
LEMMA AnswerStep ==
  ASSUME IInv, NEW what \in Answers, NEW v \in Ver \cup {None}, Answer(what, v),
         v # None => what \in {"supported", "endoflife"}, AnswerIsNewest'
  PROVE  IInv'
<1> USE DEF Answer, inputs, search
<1>1. TypeOK'
  BY DEF IInv, TypeOK
<1>2. PhaseInv'
  BY VersionsAssumption DEF IInv, PhaseInv
<1>3. KeptInv'
  BY DEF IInv, KeptInv, Sound, Covers, Clear, Foremost
<1>4. SearchInv'
  <2>1. UNCHANGED <<kept, untried, fallback, registry, here, request, dead>> /\ pc' = "done"
    OBVIOUS
  <2>2. SearchInv
    BY DEF IInv
  <2>3. QED
    BY <2>1, <2>2, SearchUnchanged DEF SearchInv
<1>5. QED
  BY <1>1, <1>2, <1>3, <1>4 DEF IInv

(* An answer that names no version and does not say that there is none.    *)
LEMMA PlainAnswerStep ==
  ASSUME IInv, NEW what \in {"ambiguous", "uncarried", "failed"}, Answer(what, None)
  PROVE  IInv'
<1>1. AnswerIsNewest'
  BY DEF Answer, AnswerIsNewest
<1>2. QED
  BY <1>1, AnswerStep DEF Answers

LEMMA AskOtherStep ==
  ASSUME IInv, AskOther, pc \in {"list", "select"}, kept = {}
  PROVE  IInv'
<1>1. CASE Answer("uncarried", None)
  BY <1>1, PlainAnswerStep
<1>2. CASE /\ other # None /\ pc' = "other"
           /\ UNCHANGED <<inputs, unread, kept, registry, search, answer, picked>>
  <2> USE <1>2 DEF inputs, search
  <2>1. TypeOK' /\ PhaseInv'
    BY DEF IInv, TypeOK, PhaseInv
  <2>2. KeptInv' /\ SearchInv' /\ AnswerIsNewest'
    BY VersionsAssumption
       DEF IInv, PhaseInv, KeptInv, SearchInv, AnswerIsNewest, Answers
  <2>3. QED
    BY <2>1, <2>2 DEF IInv
<1>3. QED
  BY <1>1, <1>2 DEF AskOther

LEMMA ListTagsStep == IInv /\ ListTags => IInv'
<1> SUFFICES ASSUME IInv, ListTags PROVE IInv'
  OBVIOUS
<1> USE DEF ListTags, inputs, search
<1>1. TypeOK' /\ PhaseInv'
  BY DEF IInv, TypeOK, PhaseInv
<1>2. KeptInv' /\ SearchInv' /\ AnswerIsNewest'
  BY VersionsAssumption
     DEF IInv, PhaseInv, KeptInv, SearchInv, AnswerIsNewest, Answers, Sound, Covers
<1>3. QED
  BY <1>1, <1>2 DEF IInv

LEMMA ConsiderStep ==
  ASSUME IInv, NEW t \in unread, Consider(t)
  PROVE  IInv'
<1> USE DEF inputs, search
<1> DEFINE S == listed \ unread
<1>1. /\ pc = "select" /\ unread' = unread \ {t}
      /\ kept' = Considered(kept, t)
      /\ UNCHANGED <<listed, here, other, request, dead, pc, registry, untried,
                     fallback, absent, answer, picked>>
  BY DEF Consider, Considered, Held
<1>2. listed \subseteq Tag /\ t \in listed /\ t \in Tag
  BY Inputs DEF IInv, TypeOK
<1>3. Sound(kept, S) /\ Covers(kept, S)
  BY <1>1 DEF IInv, KeptInv
<1>4. Sound(kept', S \cup {t}) /\ Covers(kept', S \cup {t})
  BY <1>1, <1>2, <1>3, SelectStep
<1>5. S \cup {t} = listed' \ unread'
  BY <1>1, <1>2
<1>6. \A k \in kept' : \E u \in Tag : k = Read(u)
  BY <1>2, <1>4 DEF Sound
<1>7. kept' \subseteq Ver
  BY <1>6, ReadTag
<1>8. TypeOK' /\ PhaseInv'
  BY <1>1, <1>7 DEF IInv, TypeOK, PhaseInv
<1>9. KeptInv'
  <2>1. Sound(kept, listed \ unread)' /\ Covers(kept, listed \ unread)'
    BY <1>1, <1>4, <1>5 DEF Sound, Covers, Clear, Foremost
  <2>2. ~registry'
    BY <1>1 DEF IInv, PhaseInv
  <2>3. QED
    BY <1>6, <2>1, <2>2 DEF KeptInv
<1>10. SearchInv' /\ AnswerIsNewest'
  BY <1>1, VersionsAssumption DEF IInv, PhaseInv, SearchInv, AnswerIsNewest, Answers
<1>11. QED
  BY <1>8, <1>9, <1>10 DEF IInv

LEMMA SelectedStep == IInv /\ Selected => IInv'
<1> SUFFICES ASSUME IInv, Selected PROVE IInv'
  OBVIOUS
<1>1. CASE kept = {} /\ AskOther
  BY <1>1, AskOtherStep DEF Selected
<1>2. CASE Search(kept, TRUE)
  <2> USE <1>2 DEF Search, inputs
  <2>1. pc = "select" /\ unread = {}
    BY DEF Selected
  <2>2. TypeOK' /\ PhaseInv'
    BY <2>1 DEF IInv, TypeOK, PhaseInv
  <2>3. KeptInv'
    BY <2>1 DEF IInv, KeptInv, Sound, Covers, Clear, Foremost
  <2>4. SearchInv' /\ AnswerIsNewest'
    BY <2>1, VersionsAssumption
       DEF IInv, PhaseInv, SearchInv, AnswerIsNewest, Answers
  <2>5. QED
    BY <2>2, <2>3, <2>4 DEF IInv
<1>3. QED
  BY <1>1, <1>2 DEF Selected

LEMMA OtherListsStep == IInv /\ OtherLists => IInv'
<1> SUFFICES ASSUME IInv, OtherLists PROVE IInv'
  OBVIOUS
<1> USE DEF OtherLists, Search, inputs
<1>1. other \subseteq Tag
  BY Inputs DEF IInv, PhaseInv
<1>2. kept' \subseteq Ver /\ \A k \in kept' : \E t \in Tag : k = Read(t)
  BY <1>1, ReadTag
<1>3. TypeOK' /\ PhaseInv'
  BY <1>2 DEF IInv, TypeOK, PhaseInv
<1>4. KeptInv'
  BY <1>2 DEF KeptInv
<1>5. SearchInv' /\ AnswerIsNewest'
  BY VersionsAssumption DEF IInv, PhaseInv, SearchInv, AnswerIsNewest, Answers
<1>6. QED
  BY <1>3, <1>4, <1>5 DEF IInv

-----------------------------------------------------------------------------
(* The search.                                                             *)

(* Stepping over a candidate leaves the listing's part of the invariant.   *)
LEMMA StepOverListing ==
  ASSUME IInv, NEW v \in untried, StepOver(v), pc = "pick",
         fallback' \in Ver \cup {None}, absent' \in BOOLEAN
  PROVE  TypeOK' /\ PhaseInv' /\ KeptInv' /\ AnswerIsNewest'
<1> USE DEF StepOver, inputs
<1>1. TypeOK' /\ PhaseInv'
  BY DEF IInv, TypeOK, PhaseInv
<1>2. KeptInv'
  BY DEF IInv, KeptInv, Sound, Covers, Clear, Foremost
<1>3. AnswerIsNewest'
  BY VersionsAssumption DEF IInv, PhaseInv, AnswerIsNewest, Answers
<1>4. QED
  BY <1>1, <1>2, <1>3

(* A candidate that would not do.                                          *)
LEMMA UselessStep ==
  ASSUME IInv, NEW v \in untried, StepOver(v), pc = "pick", ~Installable(v),
         fallback' = fallback, absent' \in BOOLEAN
  PROVE  IInv'
<1>1. TypeOK' /\ PhaseInv' /\ KeptInv' /\ AnswerIsNewest'
  BY StepOverListing DEF IInv, TypeOK
<1>2. SearchInv'
  <2>1. /\ UNCHANGED <<kept, registry, here, request, dead, pc>>
        /\ untried' = untried \ {v}
    BY DEF StepOver, inputs
  <2>2. \A w : /\ Installable(w)' <=> Installable(w)
               /\ DeprecatedLine(w)' <=> DeprecatedLine(w)
               /\ Pulled(w)' = Pulled(w)
    BY <2>1, SearchUnchanged
  <2>3. \A w \in kept \ (untried \ {v}) : Installable(w) => DeprecatedLine(w) /\ fallback # None
    BY DEF IInv, SearchInv
  <2>4. fallback # None => \E x \in kept \ (untried \ {v}) :
          /\ fallback \in Pulled(x) /\ Installable(x) /\ DeprecatedLine(x)
          /\ \A w \in kept : Installable(w) => ~Older(x, w)
    BY DEF IInv, SearchInv
  <2>5. QED
    BY <2>1, <2>2, <2>3, <2>4 DEF SearchInv
<1>3. QED
  BY <1>1, <1>2 DEF IInv

LEMMA TakeStep ==
  ASSUME IInv, NEW v \in untried, Take(v)
  PROVE  IInv'
<1>1. PICK p \in Pulled(v) :
        /\ Satisfier(v)
        /\ \/ ~DeprecatedLine(v) /\ Answer("supported", p)
           \/ /\ DeprecatedLine(v)
              /\ fallback' = IF fallback = None THEN p ELSE fallback
              /\ StepOver(v) /\ UNCHANGED absent
  BY DEF Take
<1>2. /\ v \in kept /\ pc = "pick" /\ SatisfiesAll(v)
      /\ \A w \in untried : ~Older(v, w)
  BY <1>1 DEF IInv, TypeOK, Satisfier, Newest
<1>3. p \in Ver /\ p # None /\ Installable(v)
  BY <1>1, <1>2, PulledVersion DEF IInv, Installable
<1>4. CASE ~DeprecatedLine(v) /\ Answer("supported", p)
  <2>1. UNCHANGED <<kept, registry, here, request, dead>>
        /\ answer' = "supported" /\ picked' = p
    BY <1>4 DEF Answer, inputs
  <2>2. \A w : /\ Installable(w)' <=> Installable(w)
               /\ DeprecatedLine(w)' <=> DeprecatedLine(w)
               /\ Pulled(w)' = Pulled(w)
    BY <2>1, SearchUnchanged
  <2>3. \A w \in kept : Installable(w) /\ Older(v, w) => DeprecatedLine(w)
    BY <1>2 DEF IInv, SearchInv
  <2>4. AnswerIsNewest'
    BY <1>1, <1>2, <1>3, <1>4, <2>1, <2>2, <2>3 DEF AnswerIsNewest
  <2>5. QED
    BY <1>3, <1>4, <2>4, AnswerStep DEF Answers
<1>5. CASE /\ DeprecatedLine(v)
           /\ fallback' = IF fallback = None THEN p ELSE fallback
           /\ StepOver(v) /\ UNCHANGED absent
  <2>1. TypeOK' /\ PhaseInv' /\ KeptInv' /\ AnswerIsNewest'
    BY <1>2, <1>3, <1>5, StepOverListing DEF IInv, TypeOK
  <2>2. /\ UNCHANGED <<kept, registry, here, request, dead, pc>>
        /\ untried' = untried \ {v}
    BY <1>5 DEF StepOver, inputs
  <2>3. \A w : /\ Installable(w)' <=> Installable(w)
               /\ DeprecatedLine(w)' <=> DeprecatedLine(w)
               /\ Pulled(w)' = Pulled(w)
    BY <2>2, SearchUnchanged
  <2>4. fallback' # None
    BY <1>3, <1>5
  <2>5. \A w \in kept \ untried' : Installable(w) => DeprecatedLine(w)
    BY <1>2, <1>5, <2>2 DEF IInv, SearchInv
  <2>6. \E x \in kept \ untried' :
          /\ fallback' \in Pulled(x) /\ Installable(x) /\ DeprecatedLine(x)
          /\ \A w \in kept : Installable(w) => ~Older(x, w)
    <3>1. CASE fallback = None
      <4>1. \A w \in kept : Installable(w) => ~Older(v, w)
        BY <1>2, <3>1 DEF IInv, SearchInv
      <4>2. QED
        BY <1>1, <1>2, <1>3, <1>5, <2>2, <3>1, <4>1
    <3>2. CASE fallback # None
      BY <1>5, <2>2, <3>2 DEF IInv, SearchInv
    <3>3. QED
      BY <3>1, <3>2
  <2>7. SearchInv'
    BY <2>2, <2>3, <2>4, <2>5, <2>6 DEF SearchInv
  <2>8. QED
    BY <2>1, <2>7 DEF IInv
<1>6. QED
  BY <1>1, <1>4, <1>5

LEMMA GiveUpStep == IInv /\ GiveUp => IInv'
<1> SUFFICES ASSUME IInv, GiveUp PROVE IInv'
  OBVIOUS
<1>1. pc = "pick" /\ untried = {}
  BY DEF GiveUp
<1>2. \A w \in kept : Installable(w) => DeprecatedLine(w) /\ fallback # None
  BY <1>1 DEF IInv, SearchInv
<1>3. CASE fallback # None /\ Answer("endoflife", fallback)
  <2>1. UNCHANGED <<kept, registry, here, request, dead>>
        /\ answer' = "endoflife" /\ picked' = fallback
    BY <1>3 DEF Answer, inputs
  <2>2. \A w : /\ Installable(w)' <=> Installable(w)
               /\ DeprecatedLine(w)' <=> DeprecatedLine(w)
               /\ Pulled(w)' = Pulled(w)
    BY <2>1, SearchUnchanged
  <2>3. PICK v \in kept : /\ fallback \in Pulled(v) /\ Installable(v) /\ DeprecatedLine(v)
                          /\ \A w \in kept : Installable(w) => ~Older(v, w)
    BY <1>3 DEF IInv, SearchInv
  <2>4. AnswerIsNewest'
    BY <1>2, <2>1, <2>2, <2>3 DEF AnswerIsNewest
  <2>5. fallback \in Ver
    BY <1>3 DEF IInv, TypeOK
  <2>6. QED
    BY <1>3, <2>4, <2>5, AnswerStep DEF Answers
<1>4. ASSUME NEW what \in {"elsewhere", "unsatisfied"}, fallback = None, Answer(what, None)
      PROVE  IInv'
  <2>1. UNCHANGED <<kept, registry, here, request, dead>> /\ answer' = what
    BY <1>4 DEF Answer, inputs
  <2>2. \A w : Installable(w)' <=> Installable(w)
    BY <2>1, SearchUnchanged
  <2>3. AnswerIsNewest'
    BY <1>2, <1>4, <2>1, <2>2 DEF AnswerIsNewest
  <2>4. QED
    BY <1>4, <2>3, AnswerStep DEF Answers
<1>5. QED
  BY <1>3, <1>4 DEF GiveUp

LEMMA NextInv == IInv /\ [Next]_vars => IInv'
<1> SUFFICES ASSUME IInv, [Next]_vars PROVE IInv'
  OBVIOUS
<1>1. CASE ListTags
  BY <1>1, ListTagsStep
<1>2. CASE NotCarried
  BY <1>2, AskOtherStep DEF NotCarried, IInv, PhaseInv
<1>3. CASE ListingFails
  BY <1>3, PlainAnswerStep DEF ListingFails
<1>4. CASE Selected
  BY <1>4, SelectedStep
<1>5. CASE OtherLists
  BY <1>5, OtherListsStep
<1>6. CASE GiveUp
  BY <1>6, GiveUpStep
<1>7. ASSUME NEW t \in unread, Consider(t) PROVE IInv'
  BY <1>7, ConsiderStep
<1>8. ASSUME NEW v \in untried,
             Unsatisfying(v) \/ Ambiguous(v) \/ NotHere(v) \/ LookupFails(v) \/ Take(v)
      PROVE  IInv'
  <2>1. CASE Unsatisfying(v)
    <3>1. StepOver(v) /\ pc = "pick" /\ ~Installable(v) /\ UNCHANGED <<fallback, absent>>
      BY <2>1 DEF Unsatisfying, Newest, Installable
    <3>2. QED
      BY <3>1, UselessStep DEF IInv, TypeOK
  <2>2. CASE NotHere(v)
    <3>1. StepOver(v) /\ pc = "pick" /\ ~Installable(v) /\ fallback' = fallback /\ absent'
      BY <2>2 DEF NotHere, Satisfier, Newest, Installable
    <3>2. QED
      BY <2>2, <3>1, UselessStep DEF NotHere
  <2>3. CASE Ambiguous(v)
    BY <2>3, PlainAnswerStep DEF Ambiguous
  <2>4. CASE LookupFails(v)
    BY <2>4, PlainAnswerStep DEF LookupFails
  <2>5. CASE Take(v)
    BY <2>5, TakeStep
  <2>6. QED
    BY <1>8, <2>1, <2>2, <2>3, <2>4, <2>5
<1>9. CASE UNCHANGED vars
  <2> USE <1>9 DEF vars, inputs, search
  <2>1. TypeOK' /\ PhaseInv'
    BY DEF IInv, TypeOK, PhaseInv
  <2>2. KeptInv'
    BY DEF IInv, KeptInv, Sound, Covers, Clear, Foremost
  <2>3. \A w : /\ Installable(w)' <=> Installable(w)
               /\ DeprecatedLine(w)' <=> DeprecatedLine(w)
               /\ Pulled(w)' = Pulled(w)
    BY SearchUnchanged
  <2>4. SearchInv'
    BY <2>3 DEF IInv, SearchInv
  <2>5. AnswerIsNewest'
    BY <2>3 DEF IInv, AnswerIsNewest
  <2>6. QED
    BY <2>1, <2>2, <2>4, <2>5 DEF IInv
<1>10. QED
  BY <1>1, <1>2, <1>3, <1>4, <1>5, <1>6, <1>7, <1>8, <1>9 DEF Next

-----------------------------------------------------------------------------
(* The theorems.                                                           *)

THEOREM Invariance == Spec => []IInv
  BY InitInv, NextInv, PTL DEF Spec

(* Every variable has its type.                                            *)
THEOREM TypeCorrect == Spec => []TypeOK
<1>1. IInv => TypeOK
  BY DEF IInv
<1>2. QED
  BY <1>1, Invariance, PTL

(* The candidates do not depend on the order of the listing.               *)
THEOREM SelectionOrderFreeHolds == Spec => []SelectionOrderFree
<1>1. IInv => SelectionOrderFree
  BY Inputs, SelectedCandidates DEF IInv, KeptInv, SelectionOrderFree
<1>2. QED
  BY <1>1, Invariance, PTL

(* What is answered is the newest candidate that will do.                  *)
THEOREM AnswerIsNewestHolds == Spec => []AnswerIsNewest
<1>1. IInv => AnswerIsNewest
  BY DEF IInv
<1>2. QED
  BY <1>1, Invariance, PTL

(* Every spelling of a candidate names its build.                          *)
LEMMA SpellingNamesBuild ==
  ASSUME NEW u \in Tag, NEW t \in TagSpellings(Read(u)), t \in Tag
  PROVE  SameKey(Read(t), Read(u))
<1> DEFINE v == Read(u)
<1>1. v \in Ver /\ v.nums \in Nums /\ v.rebuild \in Nat
  BY ReadTag DEF Ver
<1>2. CASE v.tag # None
  <2>1. t = u
    BY <1>2, ReadTag DEF TagSpellings, RegistryTag
  <2>2. QED
    BY <1>1, <2>1, SameKeyEquivalence
<1>3. CASE v.tag = None /\ t = Plain(v.nums, v.letter, v.rebuild)
  <2>1. v.variant = None
    BY <1>3, ReadTag DEF Suffixed
  <2>2. /\ Read(t).nums = v.nums /\ Read(t).rebuild = v.rebuild
        /\ Read(t).variant = v.variant
    BY <1>3, <2>1 DEF Plain, Read
  <2>3. QED
    BY <2>2 DEF SameKey, SameNums
<1>4. CASE /\ v.tag = None /\ v.rebuild = 0
           /\ \E n \in Lengths(v) : t = Plain([i \in 1 .. n |-> At(v.nums, i)], 0, 0)
  <2>1. PICK n \in Lengths(v) : t = Plain([i \in 1 .. n |-> At(v.nums, i)], 0, 0)
    BY <1>4
  <2>2. v.variant = None
    BY <1>4, ReadTag DEF Suffixed
  <2>3. /\ Read(t).nums = [i \in 1 .. n |-> At(v.nums, i)]
        /\ Read(t).rebuild = v.rebuild /\ Read(t).variant = v.variant
    BY <1>4, <2>1, <2>2 DEF Plain, Read
  <2>4. \A i \in DOMAIN v.nums : i > n => v.nums[i] = 0
    BY DEF Lengths
  <2>5. DOMAIN v.nums = 1 .. Len(v.nums) /\ Len(v.nums) \in Nat /\ n \in Nat
    BY <1>1, Numbers DEF Lengths
  <2>6. \A i \in Places(Read(t), v) : At(Read(t).nums, i) = At(v.nums, i)
    BY <2>3, <2>4, <2>5 DEF Places, At
  <2>7. QED
    BY <2>3, <2>6 DEF SameKey, SameNums
<1>5. QED
  BY <1>2, <1>3, <1>4 DEF TagSpellings, RegistryTag

(* The tag to pull names the build that was picked.                        *)
THEOREM TagNamesPickHolds == Spec => []TagNamesPick
<1>1. ASSUME IInv PROVE TagNamesPick
  <2> SUFFICES ASSUME registry, picked # None
               PROVE  SameKey(Read(picked.tag), picked)
    BY DEF TagNamesPick
  <2>1. PICK v \in kept : picked \in Pulled(v)
    BY <1>1 DEF IInv, PhaseInv, AnswerIsNewest
  <2>2. picked.tag \in Found(v) /\ picked = [v EXCEPT !.tag = picked.tag]
    BY <1>1, <2>1, PulledVersion DEF IInv
  <2>3. PICK u \in Tag : v = Read(u)
    BY <1>1 DEF IInv, KeptInv
  <2>4. picked.tag \in TagSpellings(v) /\ picked.tag \in Tag
    BY <1>1, <2>2, Inputs DEF IInv, Found
  <2>5. SameKey(Read(picked.tag), v)
    BY <2>3, <2>4, SpellingNamesBuild
  <2>6. v \in Ver
    BY <2>3, ReadTag
  <2>7. picked.nums = v.nums /\ picked.rebuild = v.rebuild /\ picked.variant = v.variant
    BY <2>2, <2>6 DEF Ver
  <2>8. QED
    BY <2>5, <2>7 DEF SameKey, SameNums, Places
<1>2. QED
  BY <1>1, Invariance, PTL

(* A bare tag is a spelling of every longer candidate of its build.        *)
LEMMA LongerSpelling ==
  ASSUME NEW t \in Tag, NEW k \in Ver, SameKey(k, Read(t)),
         ~Suffixed(t), ~t.prefixed, t.letter = 0,
         k.tag = None, k.letter = 0, Len(t.nums) <= Len(k.nums),
         t.rebuild # 0 => k.nums = t.nums
  PROVE  t \in TagSpellings(k)
<1>1. /\ t.nums \in Nums /\ k.nums \in Nums
      /\ k.rebuild = t.rebuild /\ k.variant = t.variant
  BY ReadTag DEF SameKey, Ver
<1>2. t = Plain(t.nums, 0, t.rebuild)
  BY DEF Tag, Plain, Suffixed
<1>3. CASE t.rebuild # 0
  BY <1>1, <1>2, <1>3 DEF TagSpellings, RegistryTag
<1>4. CASE t.rebuild = 0
  <2> DEFINE n == Len(t.nums)
             shorter == [i \in 1 .. n |-> At(k.nums, i)]
  <2>1. /\ n \in Nat /\ n > 0 /\ Len(k.nums) \in Nat
        /\ DOMAIN t.nums = 1 .. n /\ DOMAIN k.nums = 1 .. Len(k.nums)
    BY <1>1, Numbers
  <2>2. \A i \in Nat : At(k.nums, i) = At(t.nums, i)
    BY <1>1, ReadTag, SameEverywhere DEF SameKey
  <2>3. n \in Lengths(k)
    <3>1. ASSUME NEW i \in DOMAIN k.nums, i > n PROVE k.nums[i] = 0
      BY <2>1, <2>2, <3>1 DEF At
    <3>2. QED
      BY <2>1, <3>1 DEF Lengths
  <2>4. shorter = t.nums
    <3>1. t.nums \in [1 .. n -> Nat]
      BY <1>1, LenProperties DEF Nums
    <3>2. \A i \in 1 .. n : At(k.nums, i) = t.nums[i]
      BY <2>1, <2>2 DEF At
    <3>3. QED
      BY <3>1, <3>2
  <2>5. t = Plain(shorter, 0, 0)
    BY <1>2, <1>4, <2>4
  <2>6. QED
    BY <1>1, <1>4, <2>3, <2>5 DEF TagSpellings
<1>5. QED
  BY <1>3, <1>4

(* A bottle that is published under an unrivalled tag is found.            *)
THEOREM PublishedIsFoundHolds == Spec => []PublishedIsFound
<1>1. ASSUME IInv PROVE PublishedIsFound
  <2> SUFFICES ASSUME registry, answer \in {"elsewhere", "unsatisfied"},
                      NEW t \in here, Unrivalled(t), SatisfiesAll(Read(t))
               PROVE  FALSE
    BY DEF PublishedIsFound
  <2>1. /\ listed \subseteq Tag /\ t \in listed /\ t \in Tag /\ request \in Requests
    BY <1>1, Inputs DEF IInv, TypeOK
  <2>2. Mine(t)
    BY DEF Unrivalled, Suffixed, Mine
  <2>3. PICK k \in kept : SameKey(k, Read(t))
    BY <1>1, <2>1, <2>2 DEF IInv, KeptInv, Covers
  <2>4. PICK u \in listed : Mine(u) /\ k = Read(u) /\ (Clear(u) => u \in Foremost(listed))
    BY <1>1 DEF IInv, KeptInv, Sound
  <2>5. OneBuild(t, u) /\ OneBuild(u, t) /\ OneBuild(t, t)
    BY <2>1, <2>3, <2>4, OneBuildEquivalence DEF OneBuild
  <2>6. /\ ~Suffixed(u) /\ u.letter = 0 /\ (t.rebuild # 0 => u.nums = t.nums)
        /\ ~Suffixed(t) /\ t.letter = 0 /\ ~t.prefixed
    BY <2>1, <2>5 DEF Unrivalled
  <2>7. ASSUME NEW a \in listed, OneBuild(a, u) PROVE ~Suffixed(a)
    <3>1. OneBuild(t, a)
      BY <2>1, <2>5, <2>7, OneBuildEquivalence
    <3>2. QED
      BY <3>1 DEF Unrivalled
  <2>8. u \in Foremost(listed)
    BY <2>4, <2>7 DEF Clear
  <2>9. Len(t.nums) <= Len(u.nums)
    <3>1. ~Beats(t, u)
      BY <2>1, <2>2, <2>5, <2>8 DEF Foremost
    <3>2. QED
      BY <2>1, <2>6, <3>1, ReadTag DEF Beats
  <2>10. k \in Ver /\ k.nums = u.nums /\ k.letter = u.letter /\ k.tag = None
    BY <2>1, <2>4, <2>6, ReadTag
  <2>11. t \in TagSpellings(k)
    BY <2>1, <2>3, <2>6, <2>9, <2>10, LongerSpelling
  <2>12. SatisfiesAll(k)
    BY <2>1, <2>3, <2>10, ReadTag, SameSatisfaction DEF Ver
  <2>13. Installable(k)
    BY <2>11, <2>12 DEF Installable, Found
  <2>14. QED
    BY <1>1, <2>13 DEF IInv, AnswerIsNewest
<1>2. QED
  BY <1>1, Invariance, PTL
=============================================================================
