---------------------------- MODULE InstallProofs ----------------------------
(* Theorems about Completion and Stubs: for any bottles, machines, outages *)
(* and bounds.                                                             *)
EXTENDS Stubs, FiniteSetTheorems, TLAPS

-----------------------------------------------------------------------------
(* The operators of Completion.                                            *)

(* Every set of naturals that is not empty has a least element.            *)
LEMMA Least ==
  ASSUME NEW T, T \subseteq Nat, T # {}
  PROVE  \E x \in T : \A y \in T : x <= y
<1> DEFINE R == {p \in Nat \X Nat : p[1] < p[2]}
<1>1. IsWellFoundedOn(R, Nat)
  <2>1. OpToRel(<, Nat) = R
    BY DEF OpToRel
  <2>2. QED
    BY <2>1, NatLessThanWellFounded, Zenon
<1>2. \E x \in T : \A y \in T : <<y, x>> \notin R
  <2> HIDE DEF R
  <2> QED
    BY <1>1, WFMin
<1>3. PICK x \in T : \A y \in T : <<y, x>> \notin R
  BY <1>2
<1>4. ASSUME NEW y \in T PROVE x <= y
  <2>1. ~(y < x)
    BY <1>3, <1>4
  <2>2. x \in Nat /\ y \in Nat
    OBVIOUS
  <2>3. QED
    BY <2>1, <2>2
<1>5. QED
  BY <1>4

(* A finite set of naturals that is not empty has a greatest element: the  *)
(* least finite set without one would have one less.                       *)
LEMMA Greatest ==
  ASSUME NEW T, T \subseteq Nat, IsFiniteSet(T), T # {}
  PROVE  \E x \in T : \A y \in T : y <= x
<1> DEFINE Without(S) == S # {} /\ \A x \in S : \E y \in S : ~(y <= x)
           sizes == {Cardinality(S) : S \in {X \in SUBSET T : Without(X)}}
<1> SUFFICES ASSUME Without(T) PROVE FALSE
  OBVIOUS
<1>1. sizes # {} /\ sizes \subseteq Nat
  <2>1. \A S \in SUBSET T : Cardinality(S) \in Nat
    BY FS_Subset, FS_CardinalityType
  <2>2. T \in {X \in SUBSET T : Without(X)}
    OBVIOUS
  <2> HIDE DEF Without
  <2>3. QED
    BY <2>1, <2>2
<1>2. PICK n \in sizes : \A m \in sizes : n <= m
  BY <1>1, Least
<1>3. PICK S \in SUBSET T : Without(S) /\ Cardinality(S) = n
  OBVIOUS
<1>4. PICK x \in S : TRUE
  BY <1>3
<1>5. IsFiniteSet(S) /\ IsFiniteSet(S \ {x}) /\ S \ {x} \in SUBSET T
  BY FS_Subset
<1>6. Cardinality(S \ {x}) = Cardinality(S) - 1
  BY <1>4, <1>5, FS_RemoveElement
<1>7. ~ Without(S \ {x})
  <2> SUFFICES ASSUME Without(S \ {x}) PROVE FALSE
    OBVIOUS
  <2>1. Cardinality(S \ {x}) \in sizes
    BY <1>5
  <2> HIDE DEF sizes, Without
  <2>2. n \in Nat /\ n <= n - 1
    BY <1>1, <1>2, <1>3, <1>6, <2>1
  <2>3. QED
    BY <2>2
<1>8. CASE S \ {x} = {}
  BY <1>3, <1>4, <1>8
<1>9. CASE \E y \in S \ {x} : \A z \in S \ {x} : z <= y
  <2>1. PICK y \in S \ {x} : \A z \in S \ {x} : z <= y
    BY <1>9
  <2>2. x \in Nat /\ y \in Nat /\ \A z \in S : z \in Nat
    BY <1>3, <1>4
  <2>3. CASE x <= y
    <3>1. \A z \in S : z <= y
      BY <2>1, <2>3
    <3>2. QED
      BY <1>3, <2>1, <3>1
  <2>4. CASE y <= x
    <3>1. \A z \in S : z <= x
      BY <2>1, <2>2, <2>4
    <3>2. QED
      BY <1>3, <1>4, <3>1
  <2>5. QED
    BY <2>2, <2>3, <2>4
<1>10. QED
  BY <1>7, <1>8, <1>9

(* The newest of some bottles is one of them, and no older than any.       *)
LEMMA NewestIs ==
  ASSUME NEW S \in SUBSET Bottle, S # {}
  PROVE  Newest(S) \in S /\ \A c \in S : c.ver <= Newest(S).ver
<1> DEFINE f == [b \in S |-> b.ver]
           T == {f[b] : b \in S}
<1>1. IsFiniteSet(S)
  BY FS_Subset, CompletionAssumption
<1>2. IsFiniteSet(T)
  <2>1. f \in Surjection(S, T)
    BY DEF Surjection
  <2>2. QED
    BY <1>1, <2>1, FS_Surjection
<1>3. T \subseteq Nat /\ T # {} /\ T = {b.ver : b \in S}
  BY CompletionAssumption
<1> HIDE DEF T
<1>4. PICK x \in T : \A y \in T : y <= x
  BY <1>2, <1>3, Greatest
<1>5. \E b \in S : \A c \in S : c.ver <= b.ver
  BY <1>3, <1>4
<1>6. QED
  BY <1>5 DEF Newest

(* What is found among some versions is within reach and will do.          *)
LEMMA TriesFinds ==
  ASSUME NEW vs, NEW up, NEW good, Tries(vs, up, good).found # None
  PROVE  Tries(vs, up, good).found \in up \cap good
<1> DEFINE n == IF Len(vs) < MaxTry THEN Len(vs) ELSE MaxTry
           found == {i \in 1..n : vs[i] \in up \cap good}
           last == IF found = {} THEN n
                   ELSE CHOOSE i \in found : \A j \in found : i <= j
<1>1. Tries(vs, up, good).found = IF found = {} THEN None ELSE vs[last]
  BY DEF Tries
<1>2. found \subseteq Nat
  OBVIOUS
<1>3. found # {} => \E i \in found : \A j \in found : i <= j
  <2> HIDE DEF found
  <2> QED
    BY <1>2, Least
<1>4. found # {} => last \in found
  <2> HIDE DEF found
  <2> QED
    BY <1>3
<1>5. \A i \in found : vs[i] \in up \cap good
  OBVIOUS
<1> HIDE DEF found, last
<1>6. QED
  BY <1>1, <1>4, <1>5

(* Sequences that are joined have the elements of both.                    *)
LEMMA Joined ==
  ASSUME NEW S, NEW s \in Seq(S), NEW t \in Seq(S)
  PROVE  /\ s \o t \in Seq(S) /\ Len(s \o t) = Len(s) + Len(t)
         /\ ToSet(s \o t) = ToSet(s) \cup ToSet(t)
         /\ \A i \in 1..Len(s) : (s \o t)[i] = s[i]
         /\ \A i \in (Len(s) + 1)..Len(s \o t) : (s \o t)[i] \in ToSet(t)
<1>1. /\ s \o t \in Seq(S) /\ Len(s \o t) = Len(s) + Len(t)
      /\ \A i \in 1..Len(s) : (s \o t)[i] = s[i]
      /\ \A i \in 1..Len(t) : (s \o t)[i + Len(s)] = t[i]
  OBVIOUS
<1>2. \A i \in (Len(s) + 1)..Len(s \o t) :
        i - Len(s) \in 1..Len(t) /\ (s \o t)[i] = t[i - Len(s)]
  OBVIOUS
<1>3. /\ ToSet(s) = {s[i] : i \in 1..Len(s)} /\ ToSet(t) = {t[i] : i \in 1..Len(t)}
      /\ ToSet(s \o t) = {(s \o t)[i] : i \in 1..Len(s \o t)}
  <2>1. DOMAIN s = 1..Len(s) /\ DOMAIN t = 1..Len(t)
    OBVIOUS
  <2>2. DOMAIN (s \o t) = 1..Len(s \o t)
    BY <1>1
  <2>3. QED
    BY <2>1, <2>2, Zenon DEF ToSet
<1>4. Len(s) \in Nat /\ Len(t) \in Nat
  OBVIOUS
<1>5. \A x \in ToSet(s \o t) : x \in ToSet(s) \cup ToSet(t)
  <2> SUFFICES ASSUME NEW i \in 1..Len(s \o t)
               PROVE  (s \o t)[i] \in ToSet(s) \cup ToSet(t)
    BY <1>3
  <2>1. CASE i \in 1..Len(s)
    BY <1>1, <1>3, <2>1
  <2>2. CASE i \in (Len(s) + 1)..Len(s \o t)
    BY <1>2, <1>3, <2>2
  <2>3. QED
    BY <1>1, <1>4, <2>1, <2>2
<1>6. \A x \in ToSet(s) : x \in ToSet(s \o t)
  <2>1. \A i \in 1..Len(s) : i \in 1..Len(s \o t)
    BY <1>1, <1>4
  <2>2. QED
    BY <1>1, <1>3, <2>1
<1>7. \A x \in ToSet(t) : x \in ToSet(s \o t)
  <2>1. \A i \in 1..Len(t) : i + Len(s) \in 1..Len(s \o t)
    BY <1>1, <1>4
  <2>2. QED
    BY <1>1, <1>3, <2>1
<1>8. QED
  BY <1>1, <1>2, <1>3, <1>5, <1>6, <1>7

-----------------------------------------------------------------------------
(* What holds between the steps of a completion.                           *)

Entry == [bottle : Bottle, platform : UNION {{m.host, m.target} : m \in Machines}]

TypeInv ==
  /\ machine \in Machines
  /\ closure \in Seq(Bottle) /\ declared \in Seq(Bottle)
  /\ glibcPin \in {Unset, ResolveGlibcConstraint}
  /\ pc \in {"idle", "install", "scan", "implicit", "sonames", "repair", "done", "failed"}
  /\ pc = "scan" => target.os \in {"linux", "darwin"}
  /\ pc \in {"implicit", "sonames"} => target.os = "linux"
  /\ pc = "repair" => target.os = "darwin"

(* The declared bottles come first; a completed closure has all that were  *)
(* recorded, and what it lacks was looked for to the last.                 *)
DeclaredInv ==
  /\ ToSet(declared) \subseteq recorded
  /\ pc = "install" =>
       /\ Len(closure) <= Len(declared)
       /\ \A i \in 1..Len(closure) : closure[i] = declared[i]
       /\ recorded = ToSet(declared)
       /\ needed = {} /\ tried = {} /\ ~ changed
  /\ pc \in {"scan", "implicit", "sonames", "repair", "done"} =>
       /\ Len(declared) <= Len(closure)
       /\ \A i \in 1..Len(declared) : closure[i] = declared[i]
       /\ recorded \subseteq Members
  /\ pc = "done" => needed = {}
  /\ pc = "failed" => closure = <<>>

(* What was looked for is warned about or in the closure, and in a round   *)
(* that has changed nothing all that is missing was, or is looked for yet. *)
SonamesInv ==
  target.os = "linux" =>
    /\ pc \in {"implicit", "sonames"} =>
         needed \subseteq ScanNeeded(Members) \ AvailableSonames(ToSet(declared))
    /\ pc \in {"scan", "implicit", "sonames", "done"} =>
         \A s \in tried : s \in warned \/ s \in AvailableSonames(Members)
    /\ pc \in {"implicit", "sonames", "done"} /\ ~ changed =>
         \A s \in Missing(Members) : IsImplicitSoname(s) \/ s \in tried \cup needed
    /\ pc \in {"sonames", "done"} /\ ~ changed =>
         ImplicitRoots(ScanNeeded(Members)) \subseteq Projects(closure)

(* The same of the references of a closure for darwin, which depend on the *)
(* store; a bottle of the closure is in the store.                         *)
ReferencesInv ==
  target.os = "darwin" =>
    /\ store \in Seq(Entry) /\ Members \subseteq OnDisk
    /\ pc \in {"scan", "repair", "done"} =>
         \A k \in tried : \/ k \in warned
                          \/ \E b \in Members : /\ b.project = k[1]
                                                /\ k[2] \in Declares[host][b]
    /\ pc \in {"repair", "done"} /\ ~ changed =>
         \A w \in UnresolvedRefs(Members) :
            Key(w) \in tried \/ \E v \in needed : Key(v) = Key(w)

IInv == /\ TypeInv /\ DeclaredInv /\ SonamesInv /\ ReferencesInv
        /\ NothingInVain /\ KernelRuns

-----------------------------------------------------------------------------
(* What a closure holds, and what more of it changes.                      *)

Brought(M) ==
  UNION {{a} \cup DepsOf[a] : a \in {b \in M : b.project \in ImplicitRoots(ScanNeeded(M))}}
ForAReason(b, M, had) ==
  b \in Brought(M) \/ (Ships[b] \cap ScanNeeded(M \ {b})) \ had # {}

KernelMatters ==
  /\ host = target
  /\ machine.pin = None /\ machine.kernel # None
  /\ Usable(Newest(Published(Glibc)))
  /\ \E b \in Bottle : b.project = Glibc /\ Fits(b)

(* A reason stands when the closure grows.                                 *)
LEMMA ReasonStands ==
  ASSUME NEW M, NEW N, M \subseteq N, NEW b, NEW had, ForAReason(b, M, had)
  PROVE  ForAReason(b, N, had)
<1>1. ScanNeeded(M) \subseteq ScanNeeded(N) /\ ScanNeeded(M \ {b}) \subseteq ScanNeeded(N \ {b})
  BY DEF ScanNeeded
<1>2. ImplicitRoots(ScanNeeded(M)) \subseteq ImplicitRoots(ScanNeeded(N))
  BY <1>1 DEF ImplicitRoots
<1>3. Brought(M) \subseteq Brought(N)
  BY <1>2 DEF Brought
<1>4. QED
  BY <1>1, <1>3 DEF ForAReason

(* Who completes for whom does not change.                                 *)
LEMMA SameMachine ==
  ASSUME UNCHANGED inputs
  PROVE  /\ machine' = machine /\ legacy' = legacy
         /\ host' = host /\ target' = target
         /\ ResolveGlibcConstraint' = ResolveGlibcConstraint
         /\ KernelMatters' <=> KernelMatters
         /\ \A b : Fits(b)' <=> Fits(b)
<1>1. machine' = machine /\ legacy' = legacy
  BY DEF inputs
<1>2. host' = host /\ target' = target
  BY <1>1 DEF host, target
<1>3. \A b : (Usable(b)' <=> Usable(b)) /\ (Fits(b)' <=> Fits(b))
  BY <1>1, <1>2 DEF Usable, Fits
<1>4. ResolveGlibcConstraint' = ResolveGlibcConstraint
  BY <1>1, <1>2 DEF ResolveGlibcConstraint, NewestGlibcForKernel, Usable, Fits
<1>5. KernelMatters' <=> KernelMatters
  BY <1>1, <1>2 DEF KernelMatters, Usable, Fits
<1>6. QED
  BY <1>1, <1>2, <1>3, <1>4, <1>5

LEMMA SameClosure ==
  ASSUME IInv, UNCHANGED <<inputs, closure, declared>>
  PROVE  NothingInVain' /\ KernelRuns'
<1>1. machine' = machine
  BY SameMachine
<1>2. NothingInVain'
  <2>1. UNCHANGED <<closure, declared>>
    OBVIOUS
  <2>2. target' = target /\ Members' = Members
    BY <1>1, <2>1 DEF target, Members
  <2>3. ScanNeeded(Members)' = ScanNeeded(Members)
    BY <2>2 DEF ScanNeeded
  <2>4. ImplicitRoots(ScanNeeded(Members))' = ImplicitRoots(ScanNeeded(Members))
    BY <1>1, <2>3 DEF ImplicitRoots, IsImplicitSoname
  <2>5. AvailableSonames(ToSet(declared))' = AvailableSonames(ToSet(declared))
    BY <2>1 DEF AvailableSonames
  <2>6. \A b : ScanNeeded(Members \ {b})' = ScanNeeded(Members \ {b})
    BY <2>2 DEF ScanNeeded
  <2>7. QED
    BY <2>1, <2>2, <2>3, <2>4, <2>5, <2>6 DEF IInv, NothingInVain
<1>3. KernelRuns'
  BY <1>1 DEF IInv, KernelRuns, Members, Usable, Fits, host, target
<1>4. QED
  BY <1>2, <1>3

(* What a completed closure takes keeps these when there is a reason for   *)
(* it and, a C library, it runs.                                           *)
LEMMA MoreClosure ==
  ASSUME IInv, UNCHANGED <<inputs, declared>>, Len(declared) <= Len(closure),
         NEW more \in Seq(Bottle), closure' = closure \o more,
         \A b \in ToSet(more) :
           /\ target.os = "linux" =>
                ForAReason(b, Members \cup ToSet(more), AvailableSonames(ToSet(declared)))
           /\ b.project = Glibc /\ KernelMatters => Fits(b)
  PROVE  NothingInVain' /\ KernelRuns'
<1>1. closure \in Seq(Bottle) /\ declared \in Seq(Bottle)
  BY DEF IInv, TypeInv
<1>2. /\ Len(closure') = Len(closure) + Len(more)
      /\ ToSet(closure') = ToSet(closure) \cup ToSet(more)
      /\ \A i \in 1..Len(closure) : closure'[i] = closure[i]
      /\ \A i \in (Len(closure) + 1)..Len(closure') : closure'[i] \in ToSet(more)
  BY <1>1, Joined
<1>3. machine' = machine /\ (KernelMatters' <=> KernelMatters)
        /\ \A b : Fits(b)' <=> Fits(b)
  BY SameMachine
<1> DEFINE had == AvailableSonames(ToSet(declared))
           M == Members \cup ToSet(more)
<1>4. ASSUME target.os = "linux", NEW i \in (Len(declared) + 1)..Len(closure')
      PROVE  ForAReason(closure'[i], M, had)
  <2>1. CASE i \in 1..Len(closure)
    <3>1. i \in (Len(declared) + 1)..Len(closure)
      BY <1>1, <2>1
    <3>2. ForAReason(closure[i], Members, had)
      BY <1>4, <3>1 DEF IInv, NothingInVain, ForAReason, Brought
    <3>3. QED
      BY <1>2, <2>1, <3>2, ReasonStands
  <2>2. CASE i \in (Len(closure) + 1)..Len(closure')
    BY <1>2, <1>4, <2>2
  <2>3. Len(declared) \in Nat /\ Len(closure) \in Nat /\ Len(closure') \in Nat
    <3>1. Len(more) \in Nat
      OBVIOUS
    <3>2. QED
      BY <1>1, <1>2, <3>1
  <2>4. QED
    BY <2>1, <2>2, <2>3
<1>5. Members' = M
  BY <1>2 DEF Members
<1>6. NothingInVain'
  <2>1. ASSUME target.os = "linux", NEW i \in (Len(declared) + 1)..Len(closure')
        PROVE  \/ closure'[i] \in Brought(M)
               \/ (Ships[closure'[i]] \cap ScanNeeded(M \ {closure'[i]})) \ had # {}
    BY <1>4, <2>1 DEF ForAReason
  <2>2. Brought(M) = UNION {{a} \cup DepsOf[a] :
                              a \in {b \in M : b.project \in ImplicitRoots(ScanNeeded(Members))'}}
    BY <1>3, <1>5 DEF Brought, ImplicitRoots, IsImplicitSoname, ScanNeeded
  <2>3. AvailableSonames(ToSet(declared))' = had /\ declared' = declared
    BY DEF AvailableSonames
  <2>4. \A b : ScanNeeded(Members \ {b})' = ScanNeeded(M \ {b})
    BY <1>5 DEF ScanNeeded
  <2>5. target' = target
    BY SameMachine
  <2> HIDE DEF had, M
  <2>6. QED
    BY <1>5, <2>1, <2>2, <2>3, <2>4, <2>5 DEF NothingInVain
<1>7. KernelRuns'
  <2> SUFFICES ASSUME NEW g \in Members' \ ToSet(declared), g.project = Glibc, KernelMatters
               PROVE  Fits(g)
    BY <1>3 DEF KernelRuns, KernelMatters, Members
  <2>1. CASE g \in Members
    BY <2>1 DEF IInv, KernelRuns, KernelMatters
  <2>2. CASE g \in ToSet(more)
    BY <2>2
  <2>3. QED
    BY <1>5, <2>1, <2>2
<1>8. QED
  BY <1>6, <1>7

(* What is read of an unchanged closure, and of an unchanged store.        *)
LEMMA SameReads ==
  ASSUME UNCHANGED <<inputs, closure>>
  PROVE  /\ Members' = Members /\ Projects(closure)' = Projects(closure)
         /\ ScanNeeded(Members)' = ScanNeeded(Members)
         /\ AvailableSonames(Members)' = AvailableSonames(Members)
         /\ Missing(Members)' = Missing(Members)
         /\ ImplicitRoots(ScanNeeded(Members))' = ImplicitRoots(ScanNeeded(Members))
         /\ store' = store => OnDisk' = OnDisk /\ UnresolvedRefs(Members)' = UnresolvedRefs(Members)
<1>1. machine' = machine /\ legacy' = legacy /\ closure' = closure
  BY SameMachine
<1>2. Members' = Members
  BY <1>1 DEF Members
<1>3. Projects(closure)' = Projects(closure)
  BY <1>1 DEF Projects
<1>4. ScanNeeded(Members)' = ScanNeeded(Members)
  BY <1>2 DEF ScanNeeded
<1>5. AvailableSonames(Members)' = AvailableSonames(Members)
  BY <1>2 DEF AvailableSonames
<1>6. Missing(Members)' = Missing(Members)
  BY <1>4, <1>5 DEF Missing
<1>7. ImplicitRoots(ScanNeeded(Members))' = ImplicitRoots(ScanNeeded(Members))
  BY <1>1, <1>4 DEF ImplicitRoots, IsImplicitSoname
<1>8. ASSUME store' = store
      PROVE  OnDisk' = OnDisk /\ UnresolvedRefs(Members)' = UnresolvedRefs(Members)
  <2>1. OnDisk' = OnDisk
    BY <1>8 DEF OnDisk
  <2>2. \A w : Exists(w)' <=> Exists(w)
    BY <1>1, <1>8 DEF Exists
  <2>3. QED
    BY <1>2, <2>1, <2>2 DEF UnresolvedRefs
<1>9. QED
  BY <1>2, <1>3, <1>4, <1>5, <1>6, <1>7, <1>8

-----------------------------------------------------------------------------
(* Every reachable state satisfies the invariant.                          *)

LEMMA InitInv == ASSUME StubsInit PROVE IInv
<1>1. Init
  BY DEF StubsInit
<1>2. /\ machine \in Machines /\ legacy \in Seeds /\ glibcPin = Unset /\ pc = "idle"
      /\ closure = <<>> /\ declared = <<>> /\ recorded = {}
      /\ store = SetToSeq([bottle : legacy, platform : {target}])
  BY <1>1 DEF Init
<1>3. TypeInv
  BY <1>2 DEF TypeInv
<1>4. ToSet(<<>>) = {}
  BY DEF ToSet
<1>5. DeclaredInv
  BY <1>2, <1>4 DEF DeclaredInv
<1>6. SonamesInv
  BY <1>2 DEF SonamesInv
<1>7. Members = {}
  BY <1>2, <1>4 DEF Members
<1>8. NothingInVain
  BY <1>2 DEF NothingInVain
<1>9. KernelRuns
  BY <1>7 DEF KernelRuns
<1>10. store \in Seq(Entry)
  <2> DEFINE S == [bottle : legacy, platform : {target}]
             f == [b \in legacy |-> [bottle |-> b, platform |-> target]]
  <2>1. legacy \in SUBSET Bottle /\ IsFiniteSet(legacy)
    BY <1>2, CompletionAssumption, FS_Subset
  <2>2. f \in Surjection(legacy, S)
    BY DEF Surjection
  <2>3. IsFiniteSet(S)
    BY <2>1, <2>2, FS_Surjection
  <2>4. S \in SUBSET Entry
    BY <1>2, <2>1 DEF Entry, target
  <2> HIDE DEF S
  <2>5. Cardinality(S) \in Nat /\ ExistsBijection(1..Cardinality(S), S)
    BY <2>3, FS_CardinalityType
  <2>6. \E g \in [1..Cardinality(S) -> S] : IsInjective(g)
    BY <2>5 DEF ExistsBijection, Bijection, Injection
  <2>7. store \in [1..Cardinality(S) -> S]
    BY <1>2, <2>6 DEF SetToSeq, S
  <2>8. QED
    BY <2>4, <2>5, <2>7
<1>11. ReferencesInv
  BY <1>2, <1>7, <1>10 DEF ReferencesInv
<1>12. QED
  BY <1>3, <1>5, <1>6, <1>8, <1>9, <1>11 DEF IInv

LEMMA ResolveStep ==
  ASSUME IInv, NEW c \in Starts, Resolve(c)
  PROVE  IInv'
<1>1. /\ UNCHANGED <<inputs, store, glibcPin>>
      /\ declared' = c /\ closure' = <<>> /\ recorded' = ToSet(c)
      /\ tried' = {} /\ needed' = {} /\ changed' = FALSE /\ pc' = "install"
  BY DEF Resolve
<1>2. c \in Seq(Bottle)
  BY CompletionAssumption
<1>3. machine' = machine /\ target' = target /\ ResolveGlibcConstraint' = ResolveGlibcConstraint
  BY <1>1, SameMachine
<1>4. TypeInv'
  BY <1>1, <1>2, <1>3 DEF IInv, TypeInv
<1>5. DeclaredInv'
  BY <1>1, <1>2 DEF DeclaredInv
<1>6. SonamesInv'
  BY <1>1 DEF SonamesInv
<1>7. Members' = {}
  BY <1>1 DEF Members, ToSet
<1>8. NothingInVain'
  <2>1. ((Len(declared) + 1)..Len(closure))' = {}
    BY <1>1, <1>2
  <2>2. QED
    BY <2>1 DEF NothingInVain
<1>9. KernelRuns'
  BY <1>7 DEF KernelRuns
<1>10. ReferencesInv'
  BY <1>1, <1>3, <1>7 DEF IInv, ReferencesInv
<1>11. QED
  BY <1>4, <1>5, <1>6, <1>8, <1>9, <1>10 DEF IInv

LEMMA ChooseStep ==
  ASSUME IInv, Choose
  PROVE  IInv'
<1>1. /\ pc = "install" /\ Len(closure) = Len(declared)
      /\ pc' = IF target.os \in {"linux", "darwin"} THEN "scan" ELSE "done"
      /\ UNCHANGED <<inputs, store, glibcPin, declared, closure, recorded, loop>>
  BY DEF Choose
<1>2. UNCHANGED <<tried, warned, changed, needed>>
  BY <1>1 DEF loop
<1>3. target' = target /\ machine' = machine /\ ResolveGlibcConstraint' = ResolveGlibcConstraint
  BY <1>1, SameMachine
<1>4. Members' = Members /\ OnDisk' = OnDisk
  BY <1>1, SameReads
<1>5. closure \in Seq(Bottle) /\ declared \in Seq(Bottle)
  BY DEF IInv, TypeInv
<1>6. TypeInv'
  BY <1>1, <1>3 DEF IInv, TypeInv
<1>7. DeclaredInv'
  <2>1. \A i \in 1..Len(declared) : closure[i] = declared[i]
    BY <1>1 DEF IInv, DeclaredInv
  <2>2. ToSet(declared) \subseteq Members
    BY <1>1, <1>5, <2>1 DEF Members, ToSet
  <2>3. QED
    BY <1>1, <1>2, <1>4, <1>5, <2>1, <2>2 DEF IInv, DeclaredInv
<1>8. tried = {}
  BY <1>1 DEF IInv, DeclaredInv
<1>9. SonamesInv'
  BY <1>1, <1>2, <1>3, <1>8 DEF SonamesInv
<1>10. ReferencesInv'
  BY <1>1, <1>2, <1>3, <1>4, <1>8 DEF IInv, ReferencesInv
<1>11. QED
  BY <1>1, <1>6, <1>7, <1>9, <1>10, SameClosure DEF IInv

LEMMA EndRoundStep ==
  ASSUME IInv, EndRound
  PROVE  IInv'
<1>1. /\ pc \in {"sonames", "repair"} /\ needed = {}
      /\ pc' \in {"scan", "done"}
      /\ UNCHANGED <<inputs, store, glibcPin, declared, closure, recorded, tried,
                      warned, changed, needed>>
  BY DEF EndRound
<1>2. target' = target /\ host' = host /\ machine' = machine
        /\ ResolveGlibcConstraint' = ResolveGlibcConstraint
  BY <1>1, SameMachine
<1>3. /\ Members' = Members /\ Projects(closure)' = Projects(closure)
      /\ ScanNeeded(Members)' = ScanNeeded(Members)
      /\ AvailableSonames(Members)' = AvailableSonames(Members)
      /\ Missing(Members)' = Missing(Members)
      /\ ImplicitRoots(ScanNeeded(Members))' = ImplicitRoots(ScanNeeded(Members))
      /\ OnDisk' = OnDisk /\ UnresolvedRefs(Members)' = UnresolvedRefs(Members)
  BY <1>1, SameReads
<1>4. TypeInv'
  BY <1>1, <1>2 DEF IInv, TypeInv
<1>5. DeclaredInv'
  BY <1>1, <1>3 DEF IInv, DeclaredInv
<1>6. SonamesInv'
  <2>1. target.os = "linux" => pc = "sonames"
    BY <1>1 DEF IInv, TypeInv
  <2>2. QED
    BY <1>1, <1>2, <1>3, <2>1 DEF IInv, SonamesInv
<1>7. ReferencesInv'
  <2>1. target.os = "darwin" => pc = "repair"
    BY <1>1 DEF IInv, TypeInv
  <2>2. QED
    BY <1>1, <1>2, <1>3, <2>1 DEF IInv, ReferencesInv
<1>8. QED
  BY <1>1, <1>4, <1>5, <1>6, <1>7, SameClosure DEF IInv

(* Writing stubs and the links of the prefix leaves a completion as it is. *)
LEMMA StageStep ==
  ASSUME IInv, pc' \in {pc, "idle"},
         UNCHANGED <<inputs, store, glibcPin, declared, closure, recorded, loop>>
  PROVE  IInv'
<1>1. UNCHANGED <<tried, warned, changed, needed>>
  BY DEF loop
<1>2. target' = target /\ host' = host /\ machine' = machine
        /\ ResolveGlibcConstraint' = ResolveGlibcConstraint
  BY SameMachine
<1>3. /\ Members' = Members /\ Projects(closure)' = Projects(closure)
      /\ ScanNeeded(Members)' = ScanNeeded(Members)
      /\ AvailableSonames(Members)' = AvailableSonames(Members)
      /\ Missing(Members)' = Missing(Members)
      /\ ImplicitRoots(ScanNeeded(Members))' = ImplicitRoots(ScanNeeded(Members))
      /\ OnDisk' = OnDisk /\ UnresolvedRefs(Members)' = UnresolvedRefs(Members)
  BY SameReads
<1>4. TypeInv'
  BY <1>2 DEF IInv, TypeInv
<1>5. DeclaredInv'
  BY <1>1, <1>3 DEF IInv, DeclaredInv
<1>6. SonamesInv'
  <2>1. AvailableSonames(ToSet(declared))' = AvailableSonames(ToSet(declared))
    BY DEF AvailableSonames
  <2>2. QED
    BY <1>1, <1>2, <1>3, <2>1 DEF IInv, SonamesInv
<1>7. ReferencesInv'
  BY <1>1, <1>2, <1>3 DEF IInv, ReferencesInv
<1>8. QED
  BY <1>4, <1>5, <1>6, <1>7, SameClosure DEF IInv

(* A completion that fails leaves no closure.                              *)
LEMMA FailedStep ==
  ASSUME IInv, pc' = "failed", closure' = <<>>,
         UNCHANGED <<inputs, declared, recorded>>,
         glibcPin' \in {glibcPin, ResolveGlibcConstraint},
         target.os = "darwin" => store' = store
  PROVE  IInv'
<1>1. target' = target /\ machine' = machine
        /\ ResolveGlibcConstraint' = ResolveGlibcConstraint
  BY SameMachine
<1>2. Members' = {}
  BY DEF Members, ToSet
<1>3. TypeInv'
  BY <1>1 DEF IInv, TypeInv
<1>4. DeclaredInv'
  BY DEF IInv, DeclaredInv
<1>5. SonamesInv'
  BY DEF SonamesInv
<1>6. ReferencesInv'
  BY <1>1, <1>2 DEF IInv, ReferencesInv
<1>7. KernelRuns'
  BY <1>2 DEF KernelRuns
<1>8. NothingInVain'
  <2>1. ((Len(declared) + 1)..Len(closure))' = {}
    BY DEF IInv, TypeInv
  <2>2. QED
    BY <2>1 DEF NothingInVain
<1>9. QED
  BY <1>3, <1>4, <1>5, <1>6, <1>7, <1>8 DEF IInv

LEMMA OneMore ==
  ASSUME NEW S, NEW s \in Seq(S), NEW x \in S
  PROVE  Append(s, x) = s \o <<x>> /\ <<x>> \in Seq(S) /\ ToSet(<<x>>) = {x}
<1>1. Append(s, x) = s \o <<x>> /\ <<x>> \in Seq(S)
  OBVIOUS
<1>2. DOMAIN <<x>> = {1} /\ <<x>>[1] = x
  OBVIOUS
<1>3. QED
  BY <1>1, <1>2 DEF ToSet

LEMMA Appended ==
  ASSUME NEW S, NEW s \in Seq(S), NEW x \in S
  PROVE  /\ Append(s, x) \in Seq(S) /\ Len(Append(s, x)) = Len(s) + 1
         /\ ToSet(Append(s, x)) = ToSet(s) \cup {x}
         /\ \A i \in 1..Len(s) : Append(s, x)[i] = s[i]
         /\ Append(s, x)[Len(s) + 1] = x
<1> DEFINE one == <<x>>
<1>1. Append(s, x) = s \o one /\ one \in Seq(S) /\ ToSet(one) = {x}
  BY OneMore
<1> HIDE DEF one
<1>2. ToSet(Append(s, x)) = ToSet(s) \cup {x}
  <2>1. ToSet(s \o one) = ToSet(s) \cup ToSet(one)
    BY <1>1, Joined
  <2>2. QED
    BY <1>1, <2>1
<1>3. /\ Append(s, x) \in Seq(S) /\ Len(Append(s, x)) = Len(s) + 1
      /\ \A i \in 1..Len(s) : Append(s, x)[i] = s[i]
      /\ Append(s, x)[Len(s) + 1] = x
  OBVIOUS
<1>4. QED
  BY <1>2, <1>3

(* A bottle that is installed is in the store, with all that was.          *)
LEMMA Installed ==
  ASSUME store \in Seq(Entry), machine \in Machines, NEW b \in Bottle,
         NEW p \in {host, target}, store' = store \o InstallFor(b, p)
  PROVE  store' \in Seq(Entry) /\ OnDisk' = OnDisk \cup {b}
<1> DEFINE e == [bottle |-> b, platform |-> p]
<1>1. CASE b \in OnDisk
  <2>1. store' = store
    BY <1>1 DEF InstallFor
  <2>2. QED
    BY <1>1, <2>1 DEF OnDisk
<1>2. CASE b \notin OnDisk
  <2>1. e \in Entry
    BY DEF Entry, host, target
  <2>2. store' = Append(store, e)
    BY <1>2, <2>1 DEF InstallFor
  <2> HIDE DEF e
  <2>3. Append(store, e) \in Seq(Entry) /\ ToSet(Append(store, e)) = ToSet(store) \cup {e}
    BY <2>1, Appended
  <2>4. store' \in Seq(Entry) /\ ToSet(store') = ToSet(store) \cup {e}
    BY <2>2, <2>3
  <2>5. OnDisk' = OnDisk \cup {e.bottle}
    BY <2>4 DEF OnDisk
  <2>6. QED
    BY <2>4, <2>5 DEF e
<1>3. QED
  BY <1>1, <1>2

LEMMA InstallDeclaredStep ==
  ASSUME IInv, NEW out, InstallDeclared(out)
  PROVE  IInv'
<1> DEFINE b == declared[Len(closure) + 1]
<1>1. /\ pc = "install" /\ Len(closure) < Len(declared)
      /\ UNCHANGED <<inputs, glibcPin, declared, recorded, loop>>
      /\ \/ /\ closure' = Append(closure, b)
            /\ store' = store \o InstallFor(b, target)
            /\ pc' = pc
         \/ pc' = "failed" /\ closure' = <<>> /\ store' = store
  BY DEF InstallDeclared
<1>2. UNCHANGED <<tried, warned, changed, needed>>
  BY <1>1 DEF loop
<1>3. target' = target /\ host' = host /\ machine' = machine
        /\ ResolveGlibcConstraint' = ResolveGlibcConstraint
  BY <1>1, SameMachine
<1>4. /\ closure \in Seq(Bottle) /\ declared \in Seq(Bottle)
      /\ Len(closure) \in Nat /\ Len(declared) \in Nat
  BY DEF IInv, TypeInv
<1>5. b \in Bottle /\ b \in ToSet(declared)
  BY <1>1, <1>4 DEF ToSet
<1>6. /\ ToSet(declared) \subseteq recorded
      /\ \A i \in 1..Len(closure) : closure[i] = declared[i]
      /\ recorded = ToSet(declared) /\ needed = {} /\ tried = {} /\ ~ changed
  BY <1>1 DEF IInv, DeclaredInv
<1>7. SonamesInv'
  <2>1. pc' \in {"install", "failed"}
    BY <1>1
  <2>2. QED
    BY <2>1 DEF SonamesInv
<1> HIDE DEF b
<1>8. CASE /\ closure' = Append(closure, b) /\ pc' = pc
           /\ store' = store \o InstallFor(b, target)
  <2>1. /\ closure' \in Seq(Bottle) /\ Len(closure') = Len(closure) + 1
        /\ ToSet(closure') = ToSet(closure) \cup {b}
        /\ \A i \in 1..Len(closure) : closure'[i] = closure[i]
        /\ closure'[Len(closure) + 1] = b
    <3> DEFINE more == Append(closure, b)
    <3>1. /\ more \in Seq(Bottle) /\ Len(more) = Len(closure) + 1
          /\ ToSet(more) = ToSet(closure) \cup {b}
          /\ \A i \in 1..Len(closure) : more[i] = closure[i]
          /\ more[Len(closure) + 1] = b
      BY <1>4, <1>5, Appended
    <3>2. closure' = more
      BY <1>8
    <3> HIDE DEF more
    <3>3. QED
      BY <3>1, <3>2
  <2>2. TypeInv'
    BY <1>1, <1>3, <1>8, <2>1 DEF IInv, TypeInv
  <2>3. \A i \in 1..Len(closure') : closure'[i] = declared[i]
    BY <1>4, <1>6, <2>1 DEF b
  <2>4. DeclaredInv'
    BY <1>1, <1>2, <1>4, <1>6, <1>8, <2>1, <2>3 DEF DeclaredInv
  <2>5. ToSet(closure) \subseteq ToSet(declared)
    <3>1. \A i \in 1..Len(closure) : i \in 1..Len(declared)
      BY <1>1, <1>4
    <3>2. QED
      BY <1>4, <1>6, <3>1 DEF ToSet
  <2>6. KernelRuns'
    BY <1>1, <1>5, <2>1, <2>5 DEF KernelRuns, Members
  <2>7. NothingInVain'
    <3>1. ((Len(declared) + 1)..Len(closure))' = {}
      BY <1>1, <1>4, <2>1
    <3>2. QED
      BY <3>1 DEF NothingInVain
  <2>8. ReferencesInv'
    <3> SUFFICES ASSUME target.os = "darwin"
                 PROVE  store' \in Seq(Entry) /\ Members' \subseteq OnDisk'
      BY <1>1, <1>3, <1>8 DEF ReferencesInv
    <3>1. store \in Seq(Entry) /\ Members \subseteq OnDisk
      BY DEF IInv, ReferencesInv
    <3>2. store' \in Seq(Entry) /\ OnDisk' = OnDisk \cup {b}
      BY <1>5, <1>8, <3>1, Installed DEF IInv, TypeInv
    <3>3. QED
      BY <2>1, <3>1, <3>2 DEF Members
  <2>9. QED
    BY <1>7, <2>2, <2>4, <2>6, <2>7, <2>8 DEF IInv
<1>9. CASE pc' = "failed" /\ closure' = <<>> /\ store' = store
  BY <1>1, <1>9, FailedStep
<1>10. QED
  BY <1>1, <1>8, <1>9

LEMMA ScanStep ==
  ASSUME IInv, Scan
  PROVE  IInv'
<1>1. /\ pc = "scan" /\ changed' = FALSE
      /\ UNCHANGED <<inputs, store, glibcPin, declared, closure, recorded, tried, warned>>
  BY DEF Scan
<1>2. target' = target /\ host' = host /\ machine' = machine
        /\ ResolveGlibcConstraint' = ResolveGlibcConstraint
  BY <1>1, SameMachine
<1>3. /\ Members' = Members
      /\ ScanNeeded(Members)' = ScanNeeded(Members)
      /\ AvailableSonames(Members)' = AvailableSonames(Members)
      /\ Missing(Members)' = Missing(Members)
      /\ OnDisk' = OnDisk /\ UnresolvedRefs(Members)' = UnresolvedRefs(Members)
  BY <1>1, SameReads
<1>4. pc' \in {"implicit", "repair"}
  BY DEF Scan
<1>5. DeclaredInv'
  BY <1>1, <1>3, <1>4 DEF IInv, DeclaredInv
<1>6. NothingInVain' /\ KernelRuns'
  BY <1>1, SameClosure
<1>7. CASE target.os = "linux"
  <2>1. /\ needed' = {s \in Missing(Members) : ~ IsImplicitSoname(s)} \ tried
        /\ pc' = "implicit"
    BY <1>7 DEF Scan
  <2>2. TypeInv'
    BY <1>1, <1>2, <1>7, <2>1 DEF IInv, TypeInv
  <2>3. AvailableSonames(ToSet(declared)) \subseteq AvailableSonames(Members)
    <3>1. ToSet(declared) \subseteq Members
      BY <1>1 DEF IInv, DeclaredInv
    <3>2. QED
      BY <3>1 DEF AvailableSonames
  <2>4. needed' \subseteq ScanNeeded(Members) \ AvailableSonames(ToSet(declared))
    BY <2>1, <2>3 DEF Missing
  <2>5. AvailableSonames(ToSet(declared))' = AvailableSonames(ToSet(declared))
    BY <1>1 DEF AvailableSonames
  <2>6. \A s \in tried : s \in warned \/ s \in AvailableSonames(Members)
    BY <1>1, <1>7 DEF IInv, SonamesInv
  <2>7. SonamesInv'
    BY <1>1, <1>2, <1>3, <2>1, <2>4, <2>5, <2>6 DEF SonamesInv, IsImplicitSoname
  <2>8. ReferencesInv'
    BY <1>2, <1>7 DEF ReferencesInv
  <2>9. QED
    BY <1>5, <1>6, <2>2, <2>7, <2>8 DEF IInv
<1>8. CASE target.os # "linux"
  <2>1. target.os = "darwin"
    BY <1>1, <1>8 DEF IInv, TypeInv
  <2>2. PICK seen \in SUBSET UnresolvedRefs(Members) :
          /\ {Key(w) : w \in seen} = {Key(w) : w \in UnresolvedRefs(Members)}
          /\ needed' = {w \in seen : Key(w) \notin tried}
          /\ pc' = "repair"
    BY <1>8 DEF Scan
  <2>3. TypeInv'
    BY <1>1, <1>2, <2>1, <2>2 DEF IInv, TypeInv
  <2>4. \A w \in UnresolvedRefs(Members) :
          Key(w) \in tried \/ \E v \in needed' : Key(v) = Key(w)
    <3> SUFFICES ASSUME NEW w \in UnresolvedRefs(Members), Key(w) \notin tried
                 PROVE  \E v \in needed' : Key(v) = Key(w)
      OBVIOUS
    <3>1. PICK v \in seen : Key(v) = Key(w)
      BY <2>2
    <3>2. QED
      BY <2>2, <3>1
  <2>5. ReferencesInv'
    BY <1>1, <1>2, <1>3, <2>1, <2>2, <2>4 DEF IInv, ReferencesInv, Key
  <2>6. SonamesInv'
    BY <1>2, <1>8 DEF SonamesInv
  <2>7. QED
    BY <1>5, <1>6, <2>3, <2>5, <2>6 DEF IInv
<1>9. QED
  BY <1>7, <1>8

(* The newest C library that the resolver may pick runs on this kernel     *)
(* whenever one is known to.                                               *)
LEMMA PickedRuns ==
  ASSUME IInv, KernelMatters,
         NEW b, b = Newest(Candidates(Glibc, ResolveGlibcConstraint)),
         Candidates(Glibc, ResolveGlibcConstraint) # {}
  PROVE  Fits(b)
<1> DEFINE pin == ResolveGlibcConstraint
           all == Published(Glibc)
           fitting == {c \in all : Fits(c)}
<1>1. all \in SUBSET Bottle /\ fitting \in SUBSET Bottle /\ all # {} /\ fitting # {}
  BY DEF Published, KernelMatters
<1>2. /\ Newest(all) \in all /\ \A c \in all : c.ver <= Newest(all).ver
      /\ Newest(fitting) \in fitting
  BY <1>1, NewestIs
<1>3. pin = IF Fits(Newest(all)) THEN None ELSE Newest(fitting).ver
  BY <1>1 DEF ResolveGlibcConstraint, NewestGlibcForKernel, KernelMatters
<1>4. /\ b \in Candidates(Glibc, pin)
      /\ \A c \in Candidates(Glibc, pin) : c.ver <= b.ver
  <2>1. Candidates(Glibc, pin) \in SUBSET Bottle
    BY DEF Candidates, Published
  <2>2. QED
    BY <2>1, NewestIs
<1>5. b \in all /\ (pin # None => b.ver = pin)
  BY <1>4 DEF Candidates
<1>6. \A c, d \in all : c.ver = d.ver => c = d
  BY CompletionAssumption DEF Published
<1>7. CASE Fits(Newest(all))
  <2>1. Newest(all) \in Candidates(Glibc, pin)
    <3>1. Newest(all) \in Here[target] /\ pin = None
      BY <1>3, <1>7 DEF KernelMatters, Fits, Usable
    <3>2. QED
      BY <1>2, <3>1 DEF Candidates
  <2>2. Newest(all).ver <= b.ver /\ b.ver <= Newest(all).ver
    BY <1>2, <1>4, <1>5, <2>1
  <2>3. b.ver \in Nat /\ Newest(all).ver \in Nat
    BY <1>1, <1>2, <1>5, CompletionAssumption
  <2>4. b = Newest(all)
    <3>1. b.ver = Newest(all).ver
      BY <2>2, <2>3
    <3>2. QED
      BY <1>2, <1>5, <1>6, <3>1
  <2>5. QED
    BY <1>7, <2>4
<1>8. CASE ~ Fits(Newest(all))
  <2>1. Newest(fitting).ver # None
    BY <1>1, <1>2, CompletionAssumption
  <2>2. b.ver = Newest(fitting).ver
    BY <1>3, <1>5, <1>8, <2>1
  <2>3. Newest(fitting) \in all /\ Fits(Newest(fitting))
    BY <1>2
  <2>4. b = Newest(fitting)
    BY <1>5, <1>6, <2>2, <2>3
  <2>5. QED
    BY <2>3, <2>4
<1>9. QED
  BY <1>7, <1>8

MissingRoots == ImplicitRoots(ScanNeeded(Members)) \ Projects(closure)
AddedRoots ==
  Ordered[{b \in ResolveClosureFor(MissingRoots, ResolveGlibcConstraint) :
             b.project \notin Projects(closure)}]

(* What the resolver answers for the roots that are missing: each of them, *)
(* so none is missing when it answers nothing, and bottles that are there  *)
(* for the sake of a root.                                                 *)
LEMMA RootsAnswered ==
  ASSUME ~ Unresolvable(MissingRoots, ResolveGlibcConstraint)
  PROVE  /\ AddedRoots \in Seq(Bottle)
         /\ AddedRoots = <<>> => MissingRoots = {}
         /\ \A b \in ToSet(AddedRoots) :
              /\ b.project \notin Projects(closure)
              /\ \/ /\ b.project \in MissingRoots
                    /\ b = Newest(Candidates(b.project, ResolveGlibcConstraint))
                 \/ /\ b.project \notin MissingRoots
                    /\ \E a \in ToSet(AddedRoots) : a.project \in MissingRoots /\ b \in DepsOf[a]
<1> DEFINE have == Projects(closure)
           pin == ResolveGlibcConstraint
           picks == {Newest(Candidates(p, pin)) : p \in MissingRoots}
           below == UNION {DepsOf[a] : a \in picks}
           new == {b \in ResolveClosureFor(MissingRoots, pin) : b.project \notin have}
<1> HIDE DEF pin
<1>1. \A p \in MissingRoots :
        /\ Newest(Candidates(p, pin)) \in Candidates(p, pin)
        /\ Newest(Candidates(p, pin)) \in Bottle
        /\ Newest(Candidates(p, pin)).project = p
  <2> SUFFICES ASSUME NEW p \in MissingRoots
               PROVE  /\ Newest(Candidates(p, pin)) \in Candidates(p, pin)
                      /\ Newest(Candidates(p, pin)) \in Bottle
                      /\ Newest(Candidates(p, pin)).project = p
    OBVIOUS
  <2>1. Candidates(p, pin) # {} /\ Candidates(p, pin) \in SUBSET Bottle
    BY DEF Unresolvable, Candidates, Published, pin
  <2>2. Newest(Candidates(p, pin)) \in Candidates(p, pin)
    BY <2>1, NewestIs
  <2>3. QED
    BY <2>2 DEF Candidates, Published
<1>2. \A a \in picks : a \in Bottle /\ DepsOf[a] \in SUBSET Bottle
  BY <1>1, CompletionAssumption
<1>3. ResolveClosureFor(MissingRoots, pin) = picks \cup {b \in below : b.project \notin MissingRoots}
  BY DEF ResolveClosureFor
<1>4. new \in SUBSET Bottle
  BY <1>2, <1>3
<1>5. AddedRoots \in Seq(Bottle) /\ ToSet(AddedRoots) = new
  <2> HIDE DEF new
  <2>1. \A S \in SUBSET Bottle : Ordered[S] \in Seq(Bottle) /\ ToSet(Ordered[S]) = S
    BY CompletionAssumption
  <2>2. AddedRoots = Ordered[new]
    BY DEF new, AddedRoots, pin
  <2>3. Ordered[new] \in Seq(Bottle) /\ ToSet(Ordered[new]) = new
    BY <1>4, <2>1
  <2>4. QED
    BY <2>2, <2>3, Zenon
<1>6. \A a \in picks : a.project \in MissingRoots /\ a \in ToSet(AddedRoots)
                       /\ a = Newest(Candidates(a.project, pin))
  <2> SUFFICES ASSUME NEW a \in picks
               PROVE  /\ a.project \in MissingRoots /\ a \in ToSet(AddedRoots)
                      /\ a = Newest(Candidates(a.project, pin))
    OBVIOUS
  <2>1. PICK p \in MissingRoots : a = Newest(Candidates(p, pin))
    OBVIOUS
  <2>2. a.project = p
    BY <1>1, <2>1
  <2>3. p \notin have
    BY DEF MissingRoots
  <2>4. a \in ResolveClosureFor(MissingRoots, pin)
    BY <1>3
  <2>5. a \in new
    BY <2>2, <2>3, <2>4
  <2> HIDE DEF new
  <2>6. QED
    BY <1>5, <2>1, <2>2, <2>5
<1>7. AddedRoots = <<>> => MissingRoots = {}
  <2>1. AddedRoots = <<>> => ToSet(AddedRoots) = {}
    BY DEF ToSet
  <2>2. QED
    BY <1>6, <2>1
<1>8. \A b \in ToSet(AddedRoots) :
        /\ b.project \notin have
        /\ b \in picks \/ (b.project \notin MissingRoots /\ \E a \in picks : b \in DepsOf[a])
  BY <1>3, <1>5
<1> HIDE DEF picks
<1>9. QED
  BY <1>5, <1>6, <1>7, <1>8 DEF pin

LEMMA ImplicitStep ==
  ASSUME IInv, NEW out, Implicit(out)
  PROVE  IInv'
<1> DEFINE pin == ResolveGlibcConstraint
           roots == ImplicitRoots(ScanNeeded(Members))
           had == AvailableSonames(ToSet(declared))
<1>1. /\ pc = "implicit"
      /\ UNCHANGED <<inputs, declared, recorded, tried, warned, needed>>
  BY DEF Implicit
<1>2. target.os = "linux"
  BY <1>1 DEF IInv, TypeInv
<1>3. (IF glibcPin = Unset THEN ResolveGlibcConstraint ELSE glibcPin) = pin
  BY DEF IInv, TypeInv
<1>4. /\ glibcPin' \in {glibcPin, pin}
      /\ \/ pc' = "failed" /\ closure' = <<>>
         \/ /\ ~ Unresolvable(MissingRoots, pin)
            /\ pc' = "sonames" /\ closure' = closure \o AddedRoots
            /\ changed' = (changed \/ AddedRoots # <<>>)
  BY <1>3 DEF Implicit, MissingRoots, AddedRoots
<1>5. CASE pc' = "failed" /\ closure' = <<>>
  BY <1>1, <1>2, <1>4, <1>5, FailedStep
<1>6. CASE /\ ~ Unresolvable(MissingRoots, pin)
           /\ pc' = "sonames" /\ closure' = closure \o AddedRoots
           /\ changed' = (changed \/ AddedRoots # <<>>)
  <2>1. /\ target' = target /\ machine' = machine
        /\ ResolveGlibcConstraint' = ResolveGlibcConstraint
    BY <1>1, SameMachine
  <2>2. /\ closure \in Seq(Bottle) /\ declared \in Seq(Bottle)
        /\ Len(declared) <= Len(closure)
        /\ \A i \in 1..Len(declared) : closure[i] = declared[i]
        /\ recorded \subseteq Members /\ ToSet(declared) \subseteq recorded
    BY <1>1 DEF IInv, TypeInv, DeclaredInv
  <2>3. /\ AddedRoots \in Seq(Bottle)
        /\ AddedRoots = <<>> => MissingRoots = {}
        /\ \A b \in ToSet(AddedRoots) :
             /\ b.project \notin Projects(closure)
             /\ \/ b.project \in MissingRoots /\ b = Newest(Candidates(b.project, pin))
                \/ /\ b.project \notin MissingRoots
                   /\ \E a \in ToSet(AddedRoots) : a.project \in MissingRoots /\ b \in DepsOf[a]
    BY <1>6, RootsAnswered
  <2> DEFINE M == Members \cup ToSet(AddedRoots)
  <2>4. /\ closure' \in Seq(Bottle) /\ Len(closure) <= Len(closure')
        /\ ToSet(closure') = ToSet(closure) \cup ToSet(AddedRoots)
        /\ \A i \in 1..Len(closure) : closure'[i] = closure[i]
    <3>1. Len(closure) \in Nat /\ Len(AddedRoots) \in Nat
      BY <2>2, <2>3
    <3> DEFINE all == closure \o AddedRoots
    <3>2. /\ all \in Seq(Bottle) /\ Len(all) = Len(closure) + Len(AddedRoots)
          /\ ToSet(all) = ToSet(closure) \cup ToSet(AddedRoots)
          /\ \A i \in 1..Len(closure) : all[i] = closure[i]
      BY <2>2, <2>3, Joined
    <3>3. closure' = all
      BY <1>6
    <3> HIDE DEF all
    <3>4. QED
      BY <3>1, <3>2, <3>3
  <2>5. Members' = M
    BY <2>4 DEF Members
  <2>6. ScanNeeded(Members) \subseteq ScanNeeded(M) /\ roots \subseteq ImplicitRoots(ScanNeeded(M))
    BY DEF ScanNeeded, ImplicitRoots
  <2>7. ASSUME NEW b \in ToSet(AddedRoots)
        PROVE  ForAReason(b, M, had)
    <3>1. \A a \in ToSet(AddedRoots) : a.project \in MissingRoots =>
            a.project \in ImplicitRoots(ScanNeeded(M)) /\ a \in M
      BY <2>6 DEF MissingRoots
    <3> HIDE DEF roots, M, pin
    <3>2. CASE b.project \in MissingRoots
      BY <2>7, <3>1, <3>2 DEF ForAReason, Brought
    <3>3. CASE \E a \in ToSet(AddedRoots) : a.project \in MissingRoots /\ b \in DepsOf[a]
      BY <3>1, <3>3 DEF ForAReason, Brought
    <3>4. QED
      BY <2>3, <2>7, <3>2, <3>3
  <2>8. ASSUME NEW b \in ToSet(AddedRoots), b.project = Glibc, KernelMatters
        PROVE  Fits(b)
    <3>1. ~ machine.off
      <4>1. machine.off => MissingRoots = {}
        BY DEF ImplicitRoots, MissingRoots
      <4>2. QED
        BY <2>3, <2>8, <4>1
    <3>2. Glibc \in MissingRoots
      BY <2>3, <2>8, <3>1 DEF ImplicitRoots, MissingRoots
    <3>3. Candidates(Glibc, pin) # {}
      BY <1>6, <3>2 DEF Unresolvable
    <3>4. b = Newest(Candidates(Glibc, pin))
      BY <2>3, <2>8, <3>2
    <3>5. QED
      BY <2>8, <3>3, <3>4, PickedRuns
  <2>9. NothingInVain' /\ KernelRuns'
    <3>1. \A b \in ToSet(AddedRoots) :
            /\ target.os = "linux" =>
                 ForAReason(b, Members \cup ToSet(AddedRoots),
                            AvailableSonames(ToSet(declared)))
            /\ b.project = Glibc /\ KernelMatters => Fits(b)
      BY <2>7, <2>8
    <3>2. UNCHANGED <<inputs, declared>>
      BY <1>1
    <3>3. closure' = closure \o AddedRoots
      BY <1>6
    <3>4. QED
      BY <2>2, <2>3, <3>1, <3>2, <3>3, MoreClosure
  <2>10. TypeInv'
    BY <1>1, <1>2, <1>4, <1>6, <2>1, <2>4 DEF IInv, TypeInv
  <2>11. DeclaredInv'
    <3>1. \A i \in 1..Len(declared) : closure'[i] = declared[i]
      BY <2>2, <2>4
    <3>2. Len(declared) <= Len(closure')
      BY <2>2, <2>4
    <3>3. QED
      BY <1>1, <1>6, <2>2, <2>5, <3>1, <3>2 DEF DeclaredInv
  <2>12. SonamesInv'
    <3>1. /\ needed \subseteq ScanNeeded(Members) \ had
          /\ \A s \in tried : s \in warned \/ s \in AvailableSonames(Members)
          /\ ~ changed => \A s \in Missing(Members) : IsImplicitSoname(s) \/ s \in tried \cup needed
      BY <1>1, <1>2 DEF IInv, SonamesInv
    <3>2. ScanNeeded(Members) \subseteq ScanNeeded(Members')
          /\ AvailableSonames(Members) \subseteq AvailableSonames(Members')
      BY <2>5 DEF ScanNeeded, AvailableSonames
    <3>3. had' = had
      BY <1>1 DEF AvailableSonames
    <3>4. ASSUME ~ changed'
          PROVE  /\ \A s \in Missing(Members') : IsImplicitSoname(s) \/ s \in tried' \cup needed'
                 /\ ImplicitRoots(ScanNeeded(Members))' \subseteq Projects(closure')
      <4>1. AddedRoots = <<>> /\ ~ changed
        BY <1>6, <3>4
      <4>2. Members' = Members /\ ToSet(closure') = ToSet(closure)
        <5>1. ToSet(AddedRoots) = {}
          BY <4>1 DEF ToSet
        <5>2. QED
          BY <2>4, <2>5, <5>1
      <4>3. roots \subseteq Projects(closure)
        BY <2>3, <4>1 DEF MissingRoots
      <4>4. Projects(closure') = Projects(closure)
        BY <4>2 DEF Projects
      <4>5. ImplicitRoots(ScanNeeded(Members))' = roots
        <5>1. ScanNeeded(Members)' = ScanNeeded(Members)
          BY <4>2 DEF ScanNeeded
        <5>2. QED
          BY <2>1, <5>1 DEF ImplicitRoots, IsImplicitSoname
      <4>6. QED
        BY <1>1, <3>1, <4>1, <4>2, <4>3, <4>4, <4>5
    <3>5. needed' \subseteq ScanNeeded(Members') \ had'
      BY <1>1, <3>1, <3>2, <3>3
    <3>6. \A s \in tried' : s \in warned' \/ s \in AvailableSonames(Members')
      BY <1>1, <3>1, <3>2
    <3>7. \A s : IsImplicitSoname(s)' <=> IsImplicitSoname(s)
      BY DEF IsImplicitSoname
    <3>8. /\ ScanNeeded(Members)' = ScanNeeded(Members')
          /\ AvailableSonames(Members)' = AvailableSonames(Members')
          /\ Missing(Members)' = Missing(Members')
          /\ Projects(closure)' = Projects(closure')
      BY DEF ScanNeeded, AvailableSonames, Missing, Projects
    <3> HIDE DEF roots
    <3>9. QED
      BY <1>6, <3>4, <3>5, <3>6, <3>7, <3>8 DEF SonamesInv
  <2>13. ReferencesInv'
    BY <1>2, <2>1 DEF ReferencesInv
  <2>14. QED
    BY <2>9, <2>10, <2>11, <2>12, <2>13 DEF IInv
<1>7. QED
  BY <1>4, <1>5, <1>6

(* A bottle that completion takes comes last; the invariants that do not   *)
(* depend on why it is taken stand.                                        *)
LEMMA TakenClosure ==
  ASSUME IInv, pc \in {"sonames", "repair"}, NEW b \in Bottle,
         closure' = Append(closure, b), recorded' = recorded \cup {b},
         UNCHANGED <<inputs, glibcPin, declared, pc>>
  PROVE  /\ TypeInv' /\ DeclaredInv'
         /\ Members' = Members \cup {b}
<1>1. target' = target /\ host' = host /\ machine' = machine
        /\ ResolveGlibcConstraint' = ResolveGlibcConstraint
  BY SameMachine
<1>2. closure \in Seq(Bottle) /\ declared \in Seq(Bottle)
        /\ Len(closure) \in Nat /\ Len(declared) \in Nat
  BY DEF IInv, TypeInv
<1>3. /\ closure' \in Seq(Bottle) /\ Len(closure') = Len(closure) + 1
      /\ ToSet(closure') = ToSet(closure) \cup {b}
      /\ \A i \in 1..Len(closure) : closure'[i] = closure[i]
  <2> DEFINE more == Append(closure, b)
  <2>1. /\ more \in Seq(Bottle) /\ Len(more) = Len(closure) + 1
        /\ ToSet(more) = ToSet(closure) \cup {b}
        /\ \A i \in 1..Len(closure) : more[i] = closure[i]
    BY <1>2, Appended
  <2>2. closure' = more
    OBVIOUS
  <2> HIDE DEF more
  <2>3. QED
    BY <2>1, <2>2
<1>4. TypeInv'
  BY <1>1, <1>3 DEF IInv, TypeInv
<1>5. Members' = Members \cup {b}
  BY <1>3 DEF Members
<1>6. DeclaredInv'
  <2>1. /\ Len(declared) <= Len(closure) /\ recorded \subseteq Members
        /\ \A i \in 1..Len(declared) : closure[i] = declared[i]
        /\ ToSet(declared) \subseteq recorded
    BY DEF IInv, DeclaredInv
  <2>2. Len(declared) <= Len(closure')
    BY <1>2, <1>3, <2>1
  <2>3. \A i \in 1..Len(declared) : closure'[i] = declared[i]
    BY <1>2, <1>3, <2>1
  <2>4. recorded' \subseteq Members'
    BY <1>5, <2>1
  <2>5. pc' \notin {"install", "done", "failed"}
    OBVIOUS
  <2>6. ToSet(declared') \subseteq recorded'
    BY <2>1
  <2>7. QED
    BY <2>2, <2>3, <2>4, <2>5, <2>6 DEF DeclaredInv
<1>7. QED
  BY <1>4, <1>5, <1>6

(* A bottle that is not recorded and yet there was brought by completion.  *)
LEMMA TakenAgain ==
  ASSUME IInv, pc \in {"sonames", "repair"}, target.os = "linux",
         NEW b \in Members, b \notin recorded
  PROVE  ForAReason(b, Members, AvailableSonames(ToSet(declared)))
<1>1. closure \in Seq(Bottle) /\ declared \in Seq(Bottle)
        /\ Len(closure) \in Nat /\ Len(declared) \in Nat
  BY DEF IInv, TypeInv
<1>2. PICK i \in 1..Len(closure) : closure[i] = b
  BY <1>1 DEF Members, ToSet
<1>3. /\ \A j \in 1..Len(declared) : closure[j] = declared[j]
      /\ ToSet(declared) \subseteq recorded
  BY DEF IInv, DeclaredInv
<1>4. i \notin 1..Len(declared)
  <2> SUFFICES ASSUME i \in 1..Len(declared) PROVE b \in ToSet(declared)
    BY <1>3
  <2>1. b = declared[i]
    BY <1>2, <1>3
  <2>2. QED
    BY <1>1, <2>1 DEF ToSet
<1>5. i \in (Len(declared) + 1)..Len(closure)
  BY <1>1, <1>4
<1>6. QED
  BY <1>2, <1>5 DEF IInv, NothingInVain, ForAReason, Brought

LEMMA ProvideSonameStep ==
  ASSUME IInv, NEW s \in needed, NEW out, ProvideSoname(s, out)
  PROVE  IInv'
<1> DEFINE had == AvailableSonames(ToSet(declared))
           b == InstallProvidingSoname(ProjectForSoname(s), s, out).found
<1>1. /\ pc = "sonames" /\ pc' = pc
      /\ needed' = needed \ {s} /\ tried' = tried \cup {s}
      /\ UNCHANGED <<inputs, glibcPin, declared>>
      /\ \/ warned' = warned \cup {s} /\ UNCHANGED <<closure, recorded, changed>>
         \/ /\ ProjectForSoname(s) # None /\ b # None
            /\ warned' = warned
            /\ \/ b \in recorded /\ UNCHANGED <<closure, recorded, changed>>
               \/ /\ b \notin recorded
                  /\ closure' = Append(closure, b)
                  /\ recorded' = recorded \cup {b}
                  /\ changed' = TRUE
  BY DEF ProvideSoname, GiveUp, Take
<1>2. target.os = "linux"
  BY <1>1 DEF IInv, TypeInv
<1>3. /\ target' = target /\ host' = host /\ machine' = machine
      /\ ResolveGlibcConstraint' = ResolveGlibcConstraint
  BY <1>1, SameMachine
<1>4. /\ needed \subseteq ScanNeeded(Members) \ had
      /\ \A t \in tried : t \in warned \/ t \in AvailableSonames(Members)
      /\ ~ changed => \A t \in Missing(Members) : IsImplicitSoname(t) \/ t \in tried \cup needed
      /\ ~ changed => ImplicitRoots(ScanNeeded(Members)) \subseteq Projects(closure)
  BY <1>1, <1>2 DEF IInv, SonamesInv
<1>5. /\ recorded \subseteq Members /\ Members \subseteq Bottle
      /\ Len(declared) <= Len(closure)
  BY <1>1 DEF IInv, TypeInv, DeclaredInv, Members, ToSet
<1>6. ASSUME ProjectForSoname(s) # None, b # None
      PROVE  b \in Bottle /\ s \in Ships[b] /\ b.project # Glibc
  <2>1. b \in {c \in Published(ProjectForSoname(s)) : s \in Ships[c]}
    BY <1>6, TriesFinds DEF InstallProvidingSoname
  <2>2. s \in Soname
    BY <1>4, <1>5, CompletionAssumption DEF ScanNeeded
  <2>3. ProjectForSoname(s) # Glibc
    BY <1>6, <2>2, CompletionAssumption DEF ProjectForSoname
  <2> HIDE DEF b
  <2>4. QED
    BY <2>1, <2>3 DEF Published
<1> HIDE DEF b
<1>7. ReferencesInv'
  BY <1>2, <1>3 DEF ReferencesInv
<1>8. had' = had
  BY <1>1 DEF AvailableSonames
<1>9. CASE /\ UNCHANGED <<closure, recorded, changed>>
           /\ \/ warned' = warned \cup {s}
              \/ warned' = warned /\ s \in AvailableSonames(Members)
  <2>1. /\ Members' = Members /\ Projects(closure)' = Projects(closure)
        /\ ScanNeeded(Members)' = ScanNeeded(Members)
        /\ AvailableSonames(Members)' = AvailableSonames(Members)
        /\ Missing(Members)' = Missing(Members)
        /\ ImplicitRoots(ScanNeeded(Members))' = ImplicitRoots(ScanNeeded(Members))
    BY <1>1, <1>9, SameReads
  <2>2. TypeInv' /\ DeclaredInv'
    BY <1>1, <1>3, <1>9, <2>1 DEF IInv, TypeInv, DeclaredInv
  <2>3. NothingInVain' /\ KernelRuns'
    BY <1>1, <1>9, SameClosure
  <2>4. \A t : IsImplicitSoname(t)' <=> IsImplicitSoname(t)
    BY DEF IsImplicitSoname
  <2>5. SonamesInv'
    BY <1>1, <1>3, <1>4, <1>8, <1>9, <2>1, <2>4 DEF SonamesInv
  <2>6. QED
    BY <1>7, <2>2, <2>3, <2>5 DEF IInv
<1>10. CASE /\ ProjectForSoname(s) # None /\ b # None /\ b \notin recorded
            /\ warned' = warned /\ closure' = Append(closure, b)
            /\ recorded' = recorded \cup {b} /\ changed' = TRUE
  <2>1. b \in Bottle /\ s \in Ships[b] /\ b.project # Glibc
    BY <1>6, <1>10
  <2>2. TypeInv' /\ DeclaredInv' /\ Members' = Members \cup {b}
    BY <1>1, <1>10, <2>1, TakenClosure
  <2>3. ForAReason(b, Members \cup {b}, had)
    <3>1. CASE b \in Members
      BY <1>1, <1>2, <1>10, <3>1, ReasonStands, TakenAgain
    <3>2. CASE b \notin Members
      <4>1. Members \subseteq (Members \cup {b}) \ {b}
        BY <3>2
      <4>2. s \in ScanNeeded((Members \cup {b}) \ {b}) /\ s \notin had
        BY <1>4, <4>1 DEF ScanNeeded
      <4>3. QED
        BY <2>1, <4>2 DEF ForAReason
    <3>3. QED
      BY <3>1, <3>2
  <2>4. NothingInVain' /\ KernelRuns'
    <3> DEFINE more == <<b>>
    <3>1. /\ closure \in Seq(Bottle) /\ more \in Seq(Bottle)
          /\ ToSet(more) = {b} /\ Append(closure, b) = closure \o more
      BY <2>1, OneMore DEF IInv, TypeInv
    <3> HIDE DEF more
    <3>2. closure' = closure \o more /\ UNCHANGED <<inputs, declared>>
      BY <1>1, <1>10, <3>1
    <3>3. \A c \in ToSet(more) :
            /\ target.os = "linux" =>
                 ForAReason(c, Members \cup ToSet(more), AvailableSonames(ToSet(declared)))
            /\ c.project = Glibc /\ KernelMatters => Fits(c)
      BY <2>1, <2>3, <3>1
    <3>4. QED
      BY <1>5, <3>1, <3>2, <3>3, MoreClosure
  <2>5. SonamesInv'
    <3>1. ScanNeeded(Members) \subseteq ScanNeeded(Members')
      BY <2>2 DEF ScanNeeded
    <3>2. AvailableSonames(Members) \subseteq AvailableSonames(Members')
      BY <2>2 DEF AvailableSonames
    <3>3. s \in AvailableSonames(Members')
      BY <2>1, <2>2 DEF AvailableSonames
    <3>4. needed' \subseteq ScanNeeded(Members') \ had'
      BY <1>1, <1>4, <1>8, <3>1
    <3>5. \A t \in tried' : t \in warned' \/ t \in AvailableSonames(Members')
      BY <1>1, <1>4, <1>10, <3>2, <3>3
    <3>6. /\ ScanNeeded(Members)' = ScanNeeded(Members')
          /\ AvailableSonames(Members)' = AvailableSonames(Members')
      BY DEF ScanNeeded, AvailableSonames
    <3>7. changed' /\ pc' = "sonames"
      BY <1>1, <1>10
    <3>8. QED
      BY <3>4, <3>5, <3>6, <3>7 DEF SonamesInv
  <2>6. QED
    BY <1>7, <2>2, <2>4, <2>5 DEF IInv
<1>11. ASSUME ProjectForSoname(s) # None, b # None, b \in recorded
       PROVE  s \in AvailableSonames(Members)
  BY <1>5, <1>6, <1>11 DEF AvailableSonames
<1>12. QED
  BY <1>1, <1>9, <1>10, <1>11

LEMMA ProvideReferenceStep ==
  ASSUME IInv, NEW w \in needed, NEW out, ProvideReference(w, out)
  PROVE  IInv'
<1> DEFINE b == ProvideMachoSoname(w, out).found
<1>1. /\ pc = "repair" /\ pc' = pc
      /\ needed' = needed \ {w} /\ tried' = tried \cup {Key(w)}
      /\ UNCHANGED <<inputs, glibcPin, declared>>
      /\ \/ warned' = warned \cup {Key(w)} /\ UNCHANGED <<store, closure, recorded, changed>>
         \/ /\ b # None /\ warned' = warned
            /\ store' = store \o InstallFor(b, host)
            /\ \/ b \in recorded /\ UNCHANGED <<closure, recorded, changed>>
               \/ /\ b \notin recorded
                  /\ closure' = Append(closure, b)
                  /\ recorded' = recorded \cup {b}
                  /\ changed' = TRUE
  <2>1. b # None => ProvideMachoSoname(w, out).left = InstallFor(b, host)
    BY DEF ProvideMachoSoname
  <2> HIDE DEF b
  <2>2. /\ pc = "repair" /\ pc' = pc
        /\ needed' = needed \ {w} /\ tried' = tried \cup {Key(w)}
        /\ UNCHANGED <<inputs, glibcPin, declared>>
    BY DEF ProvideReference
  <2>3. \/ GiveUp(Key(w))
        \/ /\ b # None /\ store' = store \o ProvideMachoSoname(w, out).left
           /\ Take(b) /\ warned' = warned
    BY DEF ProvideReference, b
  <2>4. QED
    BY <2>1, <2>2, <2>3 DEF GiveUp, Take
<1>2. target.os = "darwin"
  BY <1>1 DEF IInv, TypeInv
<1>3. /\ target' = target /\ host' = host /\ machine' = machine
      /\ ResolveGlibcConstraint' = ResolveGlibcConstraint
  BY <1>1, SameMachine
<1>4. /\ store \in Seq(Entry) /\ Members \subseteq OnDisk
      /\ \A k \in tried : \/ k \in warned
                          \/ \E c \in Members : /\ c.project = k[1]
                                                /\ k[2] \in Declares[host][c]
      /\ ~ changed => \A u \in UnresolvedRefs(Members) :
           Key(u) \in tried \/ \E v \in needed : Key(v) = Key(u)
  BY <1>1, <1>2 DEF IInv, ReferencesInv
<1>5. /\ recorded \subseteq Members /\ Len(declared) <= Len(closure) /\ machine \in Machines
  BY <1>1 DEF IInv, TypeInv, DeclaredInv
<1>6. ASSUME b # None
      PROVE  b \in Bottle /\ b.project = Key(w)[1] /\ Key(w)[2] \in Declares[host][b]
  <2>1. b \in {c \in Published(w.project) : w.soname \in Declares[host][c]}
    BY <1>6, TriesFinds DEF ProvideMachoSoname
  <2> HIDE DEF b
  <2>2. QED
    BY <2>1 DEF Published, Key
<1> HIDE DEF b
<1>7. SonamesInv'
  BY <1>2, <1>3 DEF SonamesInv
<1>8. CASE /\ UNCHANGED <<store, closure, recorded, changed>>
           /\ \/ warned' = warned \cup {Key(w)}
              \/ /\ warned' = warned
                 /\ \E c \in Members : c.project = Key(w)[1] /\ Key(w)[2] \in Declares[host][c]
  <2>1. /\ Members' = Members
        /\ OnDisk' = OnDisk /\ UnresolvedRefs(Members)' = UnresolvedRefs(Members)
    BY <1>1, <1>8, SameReads
  <2>2. TypeInv' /\ DeclaredInv'
    BY <1>1, <1>3, <1>8, <2>1 DEF IInv, TypeInv, DeclaredInv
  <2>3. NothingInVain' /\ KernelRuns'
    BY <1>1, <1>8, SameClosure
  <2>4. \A k \in tried' : \/ k \in warned'
                          \/ \E c \in Members : /\ c.project = k[1]
                                                /\ k[2] \in Declares[host][c]
    BY <1>1, <1>4, <1>8
  <2>5. ~ changed' => \A u \in UnresolvedRefs(Members) :
          Key(u) \in tried' \/ \E v \in needed' : Key(v) = Key(u)
    BY <1>1, <1>4, <1>8
  <2>6. \A u : Key(u)' = Key(u)
    BY DEF Key
  <2>7. ReferencesInv'
    BY <1>1, <1>3, <1>4, <1>8, <2>1, <2>4, <2>5, <2>6 DEF ReferencesInv
  <2>8. QED
    BY <1>7, <2>2, <2>3, <2>7 DEF IInv
<1>9. CASE /\ b # None /\ b \notin recorded
           /\ warned' = warned /\ store' = store \o InstallFor(b, host)
           /\ closure' = Append(closure, b)
           /\ recorded' = recorded \cup {b} /\ changed' = TRUE
  <2>1. b \in Bottle /\ b.project = Key(w)[1] /\ Key(w)[2] \in Declares[host][b]
    BY <1>6, <1>9
  <2>2. TypeInv' /\ DeclaredInv' /\ Members' = Members \cup {b}
    BY <1>1, <1>9, <2>1, TakenClosure
  <2>3. store' \in Seq(Entry) /\ OnDisk' = OnDisk \cup {b}
    BY <1>4, <1>5, <1>9, <2>1, Installed
  <2>4. NothingInVain' /\ KernelRuns'
    <3>1. ~ KernelMatters
      BY <1>2, <1>5, CompletionAssumption DEF KernelMatters, host, target
    <3> DEFINE more == <<b>>
    <3>2. more \in Seq(Bottle) /\ Append(closure, b) = closure \o more
      BY <2>1, OneMore DEF IInv, TypeInv
    <3> HIDE DEF more
    <3>3. closure' = closure \o more /\ UNCHANGED <<inputs, declared>>
      BY <1>1, <1>9, <3>2
    <3>4. target.os # "linux"
      BY <1>2
    <3>5. \A c \in ToSet(more) :
            /\ target.os = "linux" =>
                 ForAReason(c, Members \cup ToSet(more), AvailableSonames(ToSet(declared)))
            /\ c.project = Glibc /\ KernelMatters => Fits(c)
      BY <3>1, <3>4
    <3>6. QED
      BY <1>5, <3>2, <3>3, <3>5, MoreClosure
  <2>5. ReferencesInv'
    <3>1. \A k \in tried' : \/ k \in warned'
                            \/ \E c \in Members' : /\ c.project = k[1]
                                                   /\ k[2] \in Declares[host][c]
      BY <1>1, <1>4, <1>9, <2>1, <2>2
    <3>2. Members' \subseteq OnDisk'
      BY <1>4, <2>2, <2>3
    <3>3. changed' /\ pc' = "repair"
      BY <1>1, <1>9
    <3>4. QED
      BY <1>3, <2>3, <3>1, <3>2, <3>3 DEF ReferencesInv
  <2>6. QED
    BY <1>7, <2>2, <2>4, <2>5 DEF IInv
<1>10. ASSUME b # None, b \in recorded, store' = store \o InstallFor(b, host)
       PROVE  /\ store' = store
              /\ \E c \in Members : c.project = Key(w)[1] /\ Key(w)[2] \in Declares[host][c]
  <2>1. b \in Members /\ b \in OnDisk
    BY <1>4, <1>5, <1>10
  <2>2. store' = store
    BY <1>4, <1>10, <2>1 DEF InstallFor
  <2>3. QED
    BY <1>6, <1>10, <2>1, <2>2
<1>11. QED
  BY <1>1, <1>8, <1>9, <1>10

(* Whatever is published and out of reach, every state of an installation  *)
(* satisfies the invariant.                                                *)
THEOREM Invariance == Spec => []IInv
<1>1. StubsInit => IInv
  BY InitInv
<1>2. ASSUME IInv, [Next]_allvars
      PROVE  IInv'
  <2>1. CASE CompletionNext /\ UNCHANGED stage
    BY <1>2, <2>1, ResolveStep, InstallDeclaredStep, ImplicitStep, ChooseStep, ScanStep,
       ProvideSonameStep, ProvideReferenceStep, EndRoundStep DEF CompletionNext
  <2>2. ASSUME NEW fails \in BOOLEAN, StubBins(fails)
        PROVE  IInv'
    BY <1>2, <2>2, StageStep DEF StubBins, vars
  <2>3. ASSUME NEW i \in NamePlaces, StubBinsStops(i)
        PROVE  IInv'
    BY <1>2, <2>3, FailedStep DEF StubBinsStops
  <2>4. CASE SetupScratchRootfs
    BY <1>2, <2>4, StageStep DEF SetupScratchRootfs
  <2>5. CASE UNCHANGED allvars
    BY <1>2, <2>5, StageStep DEF allvars, vars
  <2>6. QED
    BY <1>2, <2>1, <2>2, <2>3, <2>4, <2>5 DEF Next
<1>3. QED
  BY <1>1, <1>2, PTL DEF Spec

(* What the repair of an ELF closure brings is there for a reason: an      *)
(* implicit root and what that needs, or a soname that another bottle      *)
(* loads and no declared bottle has.                                       *)
THEOREM NothingInVainHolds == Spec => []NothingInVain
<1>1. IInv => NothingInVain
  BY DEF IInv
<1>2. QED
  BY <1>1, Invariance, PTL

(* The C library that completion brings runs on this kernel wherever one   *)
(* is published that is known to.                                          *)
THEOREM KernelRunsHolds == Spec => []KernelRuns
<1>1. IInv => KernelRuns
  BY DEF IInv
<1>2. QED
  BY <1>1, Invariance, PTL

-----------------------------------------------------------------------------
(* No gap goes unsaid.                                                     *)

(* On darwin the manifests that are asked are those of the host            *)
(* (provideMachoSoname asks HostSlug), so it is the host that the closure  *)
(* has to be for.                                                          *)
DarwinAtHome == \A m \in Machines : m.target.os = "darwin" => m.host = m.target

LEMMA NoGapUnsaid ==
  ASSUME IInv, pc = "done", ~ changed, target.os = "linux",
         NEW s \in Missing(Members)
  PROVE  s \in warned \/ Supplied(s)
<1>1. /\ \A t \in tried : t \in warned \/ t \in AvailableSonames(Members)
      /\ IsImplicitSoname(s) \/ s \in tried \cup needed
      /\ ImplicitRoots(ScanNeeded(Members)) \subseteq Projects(closure)
  BY DEF IInv, SonamesInv
<1>2. needed = {}
  BY DEF IInv, DeclaredInv
<1>3. s \in ScanNeeded(Members) /\ s \notin AvailableSonames(Members)
  BY DEF Missing
<1>4. CASE s \in tried
  BY <1>1, <1>3, <1>4
<1>5. CASE IsImplicitSoname(s)
  BY <1>1, <1>3, <1>5 DEF Supplied, IsImplicitSoname, ImplicitRoots
<1>6. QED
  BY <1>1, <1>2, <1>4, <1>5

(* A completion that ends because a round brought nothing has said of all  *)
(* that is missing from the closure that it is missing.                    *)
THEOREM NeverSilentHolds == DarwinAtHome => (Spec => []NeverSilent)
<1> SUFFICES ASSUME DarwinAtHome
             PROVE  Spec => []NeverSilent
  OBVIOUS
<1>1. ASSUME IInv
      PROVE  NeverSilent
  <2> SUFFICES ASSUME pc = "done", ~ changed
               PROVE  /\ target.os = "linux" =>
                           \A s \in ScanNeeded(Members) \ AvailableSonames(Members) :
                             s \in warned \/ Supplied(s)
                      /\ target.os = "darwin" =>
                           \A w \in UnresolvedRefs(Members) :
                             Key(w) \in warned \/ Offered(Members, w)
    BY DEF NeverSilent
  <2>1. target.os = "linux" => \A s \in Missing(Members) : s \in warned \/ Supplied(s)
    BY <1>1, NoGapUnsaid
  <2>2. ASSUME target.os = "darwin", NEW w \in UnresolvedRefs(Members)
        PROVE  Key(w) \in warned \/ Offered(Members, w)
    <3>1. /\ Key(w) \in tried
          /\ \A k \in tried : \/ k \in warned
                              \/ \E b \in Members : /\ b.project = k[1]
                                                    /\ k[2] \in Declares[host][b]
      BY <1>1, <2>2 DEF IInv, ReferencesInv, DeclaredInv
    <3>2. host = target
      BY <1>1, <2>2 DEF DarwinAtHome, IInv, TypeInv, host, target
    <3>3. Key(w)[1] = w.project /\ Key(w)[2] = w.soname
      BY DEF Key
    <3>4. QED
      BY <3>1, <3>2, <3>3 DEF Offered
  <2>3. QED
    BY <2>1, <2>2 DEF Missing
<1>2. QED
  BY <1>1, Invariance, PTL

-----------------------------------------------------------------------------
(* What is written for a closure.                                          *)

(* Every version of an implicit root ships the sonames it is a root for.   *)
RootsShip ==
  \A b \in Bottle : \A s \in Soname : b.project = ImplicitFor[s] => s \in Ships[b]

StubsInv == written \in Nat /\ StubsRun

LEMMA SameStubs ==
  ASSUME StubsInv, UNCHANGED machine, UNCHANGED stubs
  PROVE  StubsRun'
<1>1. target' = target
  BY DEF target
<1>2. \A B : AvailableSonames(B)' = AvailableSonames(B)
  BY DEF AvailableSonames
<1>3. QED
  BY <1>1, <1>2 DEF StubsInv, StubsRun

(* What a stub for a bottle of the closure gives it: all that it loads,    *)
(* but for what was said to be missing.                                    *)
LEMMA StubServes ==
  ASSUME RootsShip, IInv, pc = "done", NEW b \in Members
  PROVE  /\ StubFor(b).starts = b
         /\ target.os = "linux" =>
              \A s \in Needs[b] \ AvailableSonames(StubFor(b).path) :
                s \in StubFor(b).said \/ (machine.off /\ ImplicitFor[s] # None)
<1>1. Members \subseteq Bottle
  BY DEF Members, ToSet, IInv, TypeInv
<1>2. /\ StubFor(b).starts = b /\ StubFor(b).path = Members
      /\ StubFor(b).said = IF changed THEN Soname ELSE warned
  BY DEF StubFor, LibPath, Members
<1>3. ASSUME target.os = "linux", NEW s \in Needs[b] \ AvailableSonames(Members)
      PROVE  s \in StubFor(b).said \/ (machine.off /\ ImplicitFor[s] # None)
  <2>1. s \in Soname
    BY <1>1, <1>3, CompletionAssumption
  <2>2. s \in Missing(Members)
    BY <1>1, <1>3 DEF Missing, ScanNeeded
  <2>3. CASE changed
    BY <1>2, <2>1, <2>3
  <2>4. CASE ~ changed
    <3>1. s \in warned \/ Supplied(s)
      BY <1>3, <2>2, <2>4, NoGapUnsaid
    <3>2. ~ (ImplicitFor[s] \in Projects(closure))
      <4> SUFFICES ASSUME NEW c \in Members, c.project = ImplicitFor[s] PROVE FALSE
        BY DEF Projects, Members
      <4>1. s \in Ships[c]
        BY <1>1, <2>1 DEF RootsShip
      <4>2. QED
        BY <1>3, <4>1 DEF AvailableSonames
    <3>3. QED
      BY <1>2, <2>4, <3>1, <3>2 DEF Supplied
  <2>5. QED
    BY <2>3, <2>4
<1>4. QED
  BY <1>2, <1>3

(* A step that writes stubs for programs that a bottle of the closure has, *)
(* and removes others, leaves stubs that run.                              *)
LEMMA StubsWritten ==
  ASSUME RootsShip, IInv, StubsInv, pc = "done", UNCHANGED machine,
         NEW b \in Members, NEW offered \in SUBSET Has[b],
         \A n \in Bin : \/ stubs'[n] \in {None, stubs[n]}
                        \/ n \in offered /\ stubs'[n] = StubFor(b)
  PROVE  StubsRun'
<1>1. target' = target /\ \A B : AvailableSonames(B)' = AvailableSonames(B)
  BY DEF target, AvailableSonames
<1>2. ASSUME target.os = "linux", NEW n \in Bin, stubs'[n] # None
      PROVE  /\ n \in Has[stubs'[n].starts]
             /\ \A s \in Needs[stubs'[n].starts] \ AvailableSonames(stubs'[n].path) :
                  s \in stubs'[n].said \/ (machine.off /\ ImplicitFor[s] # None)
  <2>1. CASE n \in offered /\ stubs'[n] = StubFor(b)
    BY <1>2, <2>1, StubServes
  <2>2. CASE stubs'[n] = stubs[n]
    BY <1>2, <2>2 DEF StubsInv, StubsRun
  <2>3. QED
    BY <1>2, <2>1, <2>2
<1>3. QED
  BY <1>1, <1>2 DEF StubsRun

(* The bottle whose turn it is, is one of the closure.                     *)
LEMMA TurnIs ==
  ASSUME IInv, StubsInv, written < Len(closure)
  PROVE  closure[written + 1] \in Members /\ written + 1 \in Nat
<1>1. written \in Nat /\ closure \in Seq(Bottle) /\ Len(closure) \in Nat
  BY DEF StubsInv, IInv, TypeInv
<1>2. QED
  BY <1>1 DEF Members, ToSet

LEMMA StubBinsStep ==
  ASSUME RootsShip, IInv, StubsInv, NEW fails \in BOOLEAN, StubBins(fails)
  PROVE  StubsInv'
<1> DEFINE b == closure[written + 1]
           offered == BinNames(b) \cap Has[b]
<1>1. /\ pc = "done" /\ written < Len(closure) /\ written' = written + 1
      /\ machine' = machine
      /\ stubs' = [n \in Bin |-> IF n \in offered /\ ~ fails THEN StubFor(b) ELSE stubs[n]]
  BY DEF StubBins, vars, inputs
<1>2. b \in Members /\ offered \in SUBSET Has[b] /\ written + 1 \in Nat
  BY <1>1, TurnIs
<1> HIDE DEF b, offered
<1>3. \A n \in Bin : \/ stubs'[n] \in {None, stubs[n]}
                     \/ n \in offered /\ stubs'[n] = StubFor(b)
  <2> SUFFICES ASSUME NEW n \in Bin
               PROVE  \/ stubs'[n] \in {None, stubs[n]}
                      \/ n \in offered /\ stubs'[n] = StubFor(b)
    OBVIOUS
  <2>1. stubs'[n] = IF n \in offered /\ ~ fails THEN StubFor(b) ELSE stubs[n]
    BY <1>1
  <2>2. QED
    BY <2>1
<1>4. StubsRun'
  BY <1>1, <1>2, <1>3, StubsWritten
<1>5. QED
  BY <1>1, <1>2, <1>4 DEF StubsInv

LEMMA StubBinsStopsStep ==
  ASSUME RootsShip, IInv, StubsInv, NEW i \in NamePlaces, StubBinsStops(i)
  PROVE  StubsInv'
<1> DEFINE b == closure[written + 1]
           names == Provides[b.project]
           before == ToSet(SubSeq(names, 1, i - 1)) \cap Has[b]
<1>1. /\ pc = "done" /\ written < Len(closure) /\ written' = 0
      /\ machine' = machine
      /\ stubs' = [n \in Bin |-> IF n = names[i] THEN None
                                ELSE IF n \in before THEN StubFor(b) ELSE stubs[n]]
  BY DEF StubBinsStops, inputs
<1>2. b \in Members /\ before \in SUBSET Has[b]
  BY <1>1, TurnIs
<1> HIDE DEF b, names, before
<1>3. \A n \in Bin : \/ stubs'[n] \in {None, stubs[n]}
                     \/ n \in before /\ stubs'[n] = StubFor(b)
  <2> SUFFICES ASSUME NEW n \in Bin
               PROVE  \/ stubs'[n] \in {None, stubs[n]}
                      \/ n \in before /\ stubs'[n] = StubFor(b)
    OBVIOUS
  <2>1. stubs'[n] = IF n = names[i] THEN None
                    ELSE IF n \in before THEN StubFor(b) ELSE stubs[n]
    BY <1>1
  <2>2. QED
    BY <2>1
<1>4. StubsRun'
  BY <1>1, <1>2, <1>3, StubsWritten
<1>5. QED
  BY <1>1, <1>4 DEF StubsInv

(* A stub starts a bottle that has the program and gives it every library  *)
(* it loads, but for what was said to be missing: also after another       *)
(* closure was staged in the same prefix.                                  *)
THEOREM StubsRunHolds == RootsShip => (Spec => []StubsRun)
<1> SUFFICES ASSUME RootsShip
             PROVE  Spec => []StubsRun
  OBVIOUS
<1>1. StubsInit => StubsInv
  BY DEF StubsInit, StubsInv, StubsRun
<1>2. ASSUME IInv, StubsInv, [Next]_allvars
      PROVE  StubsInv'
  <2>1. CASE CompletionNext /\ UNCHANGED stage
    <3>1. UNCHANGED machine
      BY <2>1 DEF CompletionNext, Resolve, InstallDeclared, Implicit, Choose, Scan,
         ProvideSoname, ProvideReference, EndRound, inputs
    <3>2. UNCHANGED written /\ UNCHANGED stubs
      BY <2>1 DEF stage
    <3>3. QED
      BY <1>2, <3>1, <3>2, SameStubs DEF StubsInv
  <2>2. ASSUME NEW fails \in BOOLEAN, StubBins(fails)
        PROVE  StubsInv'
    BY <1>2, <2>2, StubBinsStep
  <2>3. ASSUME NEW i \in NamePlaces, StubBinsStops(i)
        PROVE  StubsInv'
    BY <1>2, <2>3, StubBinsStopsStep
  <2>4. CASE SetupScratchRootfs
    <3>1. UNCHANGED machine /\ UNCHANGED stubs /\ written' = 0
      BY <2>4 DEF SetupScratchRootfs, inputs
    <3>2. QED
      BY <1>2, <3>1, SameStubs DEF StubsInv
  <2>5. CASE UNCHANGED allvars
    <3>1. UNCHANGED machine /\ UNCHANGED stubs /\ written' = written
      BY <2>5 DEF allvars, vars, inputs, stage
    <3>2. QED
      BY <1>2, <3>1, SameStubs DEF StubsInv
  <2>6. QED
    BY <1>2, <2>1, <2>2, <2>3, <2>4, <2>5 DEF Next
<1>3. Spec => []StubsInv
  BY <1>1, <1>2, Invariance, PTL DEF Spec
<1>4. StubsInv => StubsRun
  BY DEF StubsInv
<1>5. QED
  BY <1>3, <1>4, PTL

=============================================================================
