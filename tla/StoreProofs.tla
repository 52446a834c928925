---------------------------- MODULE StoreProofs ----------------------------
(* Theorems about Store, for any number of installers and viewers, any     *)
(* versions and builds, and any store that held whole trees to begin with. *)
EXTENDS Store, FiniteSetTheorems, TLAPS

-----------------------------------------------------------------------------
(* The inductive invariant.                                                *)

(* An installer has a temporary directory only while it fills and moves    *)
(* it, and what it moves is whole and is the bottle it fetched.            *)
WorkInv ==
  \A i \in Installer :
    /\ pc[i] \in {"extract", "rename", "annotate", "unlink", "link"} => bottle[i] \in Digest
    /\ pc[i] \in {"extract", "rename"} => tmp[i] \in Tree /\ tmp[i].bottle = bottle[i]
    /\ pc[i] = "rename" => tmp[i].whole
    /\ pc[i] \notin {"extract", "rename", "crashed"} => tmp[i] = None

(* What request r may be answered with is installed.                       *)
Satisfied(r) ==
  IF r.variant # None
  THEN store[[raw |-> r.raw, hash |-> r.variant]] # None
  ELSE BuildsOf(r.raw) # {}

AnswerInv ==
  \A i \in Installer :
    (pc[i] \in {"annotate", "unlink", "link"} \/ result[i] \in Answers)
      => Satisfied(ask[i])

(* A viewer that was let through links what is installed.                  *)
ViewerInv ==
  \A v \in Viewer :
    vpc[v] \in {"remove", "link", "linked"} => target[v] \in Dir /\ store[target[v]] # None

IInv == TypeOK /\ WorkInv /\ InstalledWhole /\ AnswerInv /\ ViewerInv /\ ViewKept

-----------------------------------------------------------------------------
(* Paths.                                                                  *)

(* Where an installer puts its build is a directory that satisfies its     *)
(* request.                                                                *)
LEMMA BuildPrefix ==
  ASSUME TypeOK, NEW i \in Installer, bottle[i] \in Digest
  PROVE  /\ StoreBuildPrefix(i) \in Dir
         /\ StoreBuildPrefix(i).raw = ask[i].raw
         /\ ask[i].variant # None
              => StoreBuildPrefix(i) = [raw |-> ask[i].raw, hash |-> ask[i].variant]
<1>1. ask[i].raw \in Raw /\ ask[i].variant \in Variant \cup {None}
  BY DEF TypeOK, Request
<1>2. StoreHash(i) \in Hash
  BY <1>1, StoreAssumption DEF StoreHash, Hash
<1>3. ask[i].variant # None => StoreHash(i) = ask[i].variant
  BY DEF StoreHash
<1>4. QED
  BY <1>1, <1>2, <1>3 DEF StoreBuildPrefix, Dir

(* Where a request finds its prefix occupied, it is satisfied.             *)
LEMMA PrefixSatisfies ==
  ASSUME NEW r \in Request, store[StorePrefix(r)] # None
  PROVE  Satisfied(r)
<1>1. r.raw \in Raw /\ r.variant \in Variant \cup {None}
  BY DEF Request
<1>2. CASE r.variant # None
  BY <1>2 DEF StorePrefix, Satisfied
<1>3. CASE r.variant = None /\ Cardinality(BuildsOf(r.raw)) = 1
  <2>1. BuildsOf(r.raw) # {}
    BY <1>3, FS_EmptySet
  <2>2. QED
    BY <1>3, <2>1 DEF Satisfied
<1>4. CASE r.variant = None /\ Cardinality(BuildsOf(r.raw)) # 1
  <2> DEFINE d == [raw |-> r.raw, hash |-> r.variant]
  <2>1. StorePrefix(r) = d
    BY <1>4 DEF StorePrefix
  <2>2. d \in Dir
    BY <1>1, <1>4 DEF Dir
  <2>3. d \in BuildsOf(r.raw)
    BY <2>1, <2>2 DEF BuildsOf, Installed
  <2>4. QED
    BY <1>4, <2>3 DEF Satisfied
<1>5. QED
  BY <1>2, <1>3, <1>4

(* What satisfies a request goes on satisfying it.                         *)
LEMMA SatisfiedStays ==
  ASSUME NEW r \in Request, Satisfied(r),
         \A d \in Dir : store[d] # None => store'[d] # None
  PROVE  Satisfied(r)'
<1>1. r.raw \in Raw /\ r.variant \in Variant \cup {None}
  BY DEF Request
<1>2. r.variant # None => [raw |-> r.raw, hash |-> r.variant] \in Dir
  BY <1>1 DEF Dir, Hash
<1>3. BuildsOf(r.raw) \subseteq BuildsOf(r.raw)'
  BY DEF BuildsOf, Installed
<1>4. QED
  BY <1>2, <1>3 DEF Satisfied

(* A build where a request's build goes satisfies it.                      *)
LEMMA BuildSatisfies ==
  ASSUME TypeOK, NEW i \in Installer, bottle[i] \in Digest,
         store[StoreBuildPrefix(i)] # None
  PROVE  Satisfied(ask[i])
<1> DEFINE d == StoreBuildPrefix(i)
<1>1. /\ d \in Dir
      /\ d.raw = ask[i].raw
      /\ ask[i].variant # None => d = [raw |-> ask[i].raw, hash |-> ask[i].variant]
  BY BuildPrefix
<1>2. d \in BuildsOf(ask[i].raw)
  BY <1>1 DEF BuildsOf, Installed
<1>3. QED
  BY <1>1, <1>2 DEF Satisfied

-----------------------------------------------------------------------------
(* Types.                                                                  *)

LEMMA InitType == Init => TypeOK
<1>1. Asks \subseteq [Installer -> Request] /\ Dists \subseteq BOOLEAN
  BY StoreAssumption
<1>2. Seeds \subseteq [Dir -> Tree \cup {None}]
  BY StoreAssumption
<1>3. SUFFICES ASSUME Init PROVE TypeOK
  OBVIOUS
<1>4. /\ store \in [Dir -> Tree \cup {None}]
      /\ ask \in [Installer -> Request]
      /\ told \in BOOLEAN
  BY <1>1, <1>2, <1>3 DEF Init
<1>5. /\ marker \in Platform \cup {None}
      /\ abi \in [Soname -> Raw \cup {None}]
      /\ view \in [Raw -> Dir \cup {None}]
      /\ bottle \in [Installer -> Digest \cup {None}]
      /\ tmp \in [Installer -> Tree \cup {None}]
      /\ target \in [Viewer -> Dir \cup {None}]
  BY <1>3 DEF Init
<1>6. /\ pc \in [Installer -> {"mark", "marking", "check", "fetch", "extract",
                               "rename", "annotate", "unlink", "link"} \cup Ended]
      /\ links \in [Installer -> SUBSET Soname]
      /\ result \in [Installer -> Answers \cup {"error", "none"}]
      /\ vpc \in [Viewer -> {"idle", "remove", "link", "linked", "refused"}]
  BY <1>3 DEF Init
<1>7. QED
  BY <1>4, <1>5, <1>6, Zenon DEF TypeOK

LEMMA StepType ==
  ASSUME TypeOK, WorkInv, [Next]_vars
  PROVE  TypeOK'
<1> USE DEF TypeOK, Goto, Report, Ended, Answers, disk, installers, viewers
<1>1. ASSUME NEW i \in Installer, Mark(i)
      PROVE  TypeOK'
  BY <1>1 DEF Mark
<1>2. ASSUME NEW i \in Installer, WriteMarker(i)
      PROVE  TypeOK'
  <2>1. PlatformOf[i] \in Platform
    BY StoreAssumption
  <2>2. QED
    BY <1>2, <2>1 DEF WriteMarker
<1>3. ASSUME NEW i \in Installer, CheckPrefix(i)
      PROVE  TypeOK'
  BY <1>3 DEF CheckPrefix
<1>4. ASSUME NEW i \in Installer, Fetch(i)
      PROVE  TypeOK'
  <2>1. PICK b \in Served(ask[i]) :
          /\ bottle' = [bottle EXCEPT ![i] = b]
          /\ tmp' = [tmp EXCEPT ![i] = [bottle |-> b, whole |-> FALSE]]
    BY <1>4 DEF Fetch
  <2>2. b \in Digest
    BY <2>1, StoreAssumption DEF Served, Bottles
  <2>3. [bottle |-> b, whole |-> FALSE] \in Tree
    BY <2>2 DEF Tree
  <2>4. bottle' \in [Installer -> Digest \cup {None}] /\ tmp' \in [Installer -> Tree \cup {None}]
    BY <2>1, <2>2, <2>3
  <2>5. QED
    BY <1>4, <2>4 DEF Fetch
<1>5. ASSUME NEW i \in Installer, Fail(i)
      PROVE  TypeOK'
  BY <1>5 DEF Fail, CleanUp
<1>6. ASSUME NEW i \in Installer, Extract(i)
      PROVE  TypeOK'
  <2>1. tmp[i] \in Tree
    BY <1>6 DEF Extract, WorkInv
  <2>2. Unpacked(i) \in Tree
    BY <2>1 DEF Unpacked, Tree
  <2>3. QED
    BY <1>6, <2>2 DEF Extract
<1>7. ASSUME NEW i \in Installer, Rename(i)
      PROVE  TypeOK'
  <2>1. tmp[i] \in Tree
    BY <1>7 DEF Rename, WorkInv
  <2>2. QED
    BY <1>7, <2>1 DEF Rename, CleanUp
<1>8. ASSUME NEW i \in Installer, Annotate(i)
      PROVE  TypeOK'
  <2>1. \A b \in Served(ask[i]) : b \in Digest
    BY StoreAssumption DEF Served, Bottles
  <2>2. Annotations(i) \subseteq SUBSET Soname
    BY <2>1, StoreAssumption DEF Annotations
  <2>3. QED
    BY <1>8, <2>2 DEF Annotate
<1>9. ASSUME NEW i \in Installer, Unlink(i)
      PROVE  TypeOK'
  BY <1>9 DEF Unlink
<1>10. ASSUME NEW i \in Installer, Link(i)
       PROVE  TypeOK'
  BY <1>10 DEF Link, AbiTarget, Request
<1>11. ASSUME NEW i \in Installer, Crash(i)
       PROVE  TypeOK'
  BY <1>11 DEF Crash
<1>12. ASSUME NEW v \in Viewer, NEW d \in Wanted, LinkView(v, d)
       PROVE  TypeOK'
  BY <1>12, StoreAssumption DEF LinkView
<1>13. ASSUME NEW v \in Viewer, RemoveAlias(v)
       PROVE  TypeOK'
  BY <1>13 DEF RemoveAlias
<1>14. ASSUME NEW v \in Viewer, WriteAlias(v)
       PROVE  TypeOK'
  BY <1>14 DEF WriteAlias
<1>15. CASE UNCHANGED vars
  BY <1>15 DEF vars
<1>16. QED
  BY <1>1, <1>2, <1>3, <1>4, <1>5, <1>6, <1>7, <1>8, <1>9, <1>10, <1>11, <1>12,
     <1>13, <1>14, <1>15 DEF Next, Step, View

-----------------------------------------------------------------------------
(* The temporary directories.                                              *)

LEMMA StepWork ==
  ASSUME TypeOK, WorkInv, [Next]_vars
  PROVE  WorkInv'
<1> USE DEF TypeOK, Goto, Report, Ended, disk, installers, viewers
<1>1. ASSUME NEW i \in Installer, Mark(i) \/ WriteMarker(i) \/ CheckPrefix(i)
      PROVE  WorkInv'
  BY <1>1 DEF Mark, WriteMarker, CheckPrefix, WorkInv
<1>2. ASSUME NEW i \in Installer, Fetch(i)
      PROVE  WorkInv'
  <2>1. PICK b \in Served(ask[i]) :
          /\ bottle' = [bottle EXCEPT ![i] = b]
          /\ tmp' = [tmp EXCEPT ![i] = [bottle |-> b, whole |-> FALSE]]
    BY <1>2 DEF Fetch
  <2>2. b \in Digest
    BY <2>1, StoreAssumption DEF Served, Bottles
  <2>3. [bottle |-> b, whole |-> FALSE] \in Tree
    BY <2>2 DEF Tree
  <2>4. pc' = [pc EXCEPT ![i] = "extract"]
    BY <1>2 DEF Fetch
  <2>5. QED
    BY <2>1, <2>2, <2>3, <2>4 DEF WorkInv
<1>3. ASSUME NEW i \in Installer, Fail(i)
      PROVE  WorkInv'
  BY <1>3 DEF Fail, CleanUp, WorkInv
<1>4. ASSUME NEW i \in Installer, Extract(i)
      PROVE  WorkInv'
  <2>1. tmp[i] \in Tree /\ tmp[i].bottle = bottle[i] /\ bottle[i] \in Digest
    BY <1>4 DEF Extract, WorkInv
  <2>2. Unpacked(i) \in Tree /\ Unpacked(i).bottle = bottle[i] /\ Unpacked(i).whole
    BY <2>1 DEF Unpacked, Tree
  <2>3. QED
    BY <1>4, <2>1, <2>2 DEF Extract, WorkInv
<1>5. ASSUME NEW i \in Installer, Rename(i)
      PROVE  WorkInv'
  BY <1>5 DEF Rename, CleanUp, WorkInv
<1>6. ASSUME NEW i \in Installer, Annotate(i) \/ Unlink(i) \/ Link(i) \/ Crash(i)
      PROVE  WorkInv'
  BY <1>6 DEF Annotate, Unlink, Link, Crash, WorkInv
<1>7. ASSUME NEW v \in Viewer, View(v)
      PROVE  WorkInv'
  BY <1>7 DEF View, LinkView, RemoveAlias, WriteAlias, WorkInv
<1>8. CASE UNCHANGED vars
  BY <1>8 DEF vars, WorkInv
<1>9. QED
  BY <1>1, <1>2, <1>3, <1>4, <1>5, <1>6, <1>7, <1>8 DEF Next, Step

-----------------------------------------------------------------------------
(* The store.                                                              *)

(* A step leaves the store alone or is the rename that fills one of its    *)
(* empty directories with a whole tree.                                    *)
LEMMA StoreSteps ==
  ASSUME TypeOK, WorkInv, [Next]_vars
  PROVE  \/ UNCHANGED store
         \/ \E i \in Installer :
              /\ Rename(i)
              /\ bottle[i] \in Digest
              /\ tmp[i] \in Tree /\ tmp[i].whole
              /\ StoreBuildPrefix(i) \in Dir
              /\ store[StoreBuildPrefix(i)] = None
              /\ store' = [store EXCEPT ![StoreBuildPrefix(i)] = tmp[i]]
<1>1. ASSUME NEW i \in Installer, Rename(i), store' # store
      PROVE  /\ bottle[i] \in Digest
             /\ tmp[i] \in Tree /\ tmp[i].whole
             /\ StoreBuildPrefix(i) \in Dir
             /\ store[StoreBuildPrefix(i)] = None
             /\ store' = [store EXCEPT ![StoreBuildPrefix(i)] = tmp[i]]
  <2>1. bottle[i] \in Digest /\ tmp[i] \in Tree /\ tmp[i].whole
    BY <1>1 DEF Rename, WorkInv
  <2>2. StoreBuildPrefix(i) \in Dir
    BY <2>1, BuildPrefix
  <2>3. QED
    BY <1>1, <2>1, <2>2 DEF Rename, Occupied
<1>2. ASSUME NEW i \in Installer, Step(i), ~Rename(i)
      PROVE  UNCHANGED store
  BY <1>2 DEF Step, disk, Mark, WriteMarker, CheckPrefix, Fetch, Fail, Extract,
              Annotate, Unlink, Link, Crash
<1>3. ASSUME NEW v \in Viewer, View(v)
      PROVE  UNCHANGED store
  BY <1>3 DEF View, disk, LinkView, RemoveAlias, WriteAlias
<1>4. CASE UNCHANGED vars
  BY <1>4 DEF vars, disk
<1>5. QED
  BY <1>1, <1>2, <1>3, <1>4 DEF Next

LEMMA StoreGrows ==
  ASSUME TypeOK, WorkInv, [Next]_vars, NEW d \in Dir, store[d] # None
  PROVE  store'[d] = store[d]
  BY StoreSteps DEF TypeOK

LEMMA StepWhole ==
  ASSUME TypeOK, WorkInv, InstalledWhole, [Next]_vars
  PROVE  InstalledWhole'
  BY StoreSteps DEF TypeOK, InstalledWhole, Installed

-----------------------------------------------------------------------------
(* Answers.                                                                *)

LEMMA StepAnswers ==
  ASSUME TypeOK, WorkInv, AnswerInv, [Next]_vars
  PROVE  AnswerInv'
<1> DEFINE Owes(i) == pc[i] \in {"annotate", "unlink", "link"} \/ result[i] \in Answers
<1>1. \A r \in Request : Satisfied(r) => Satisfied(r)'
  <2>1. \A d \in Dir : store[d] # None => store'[d] # None
    BY StoreGrows
  <2>2. QED
    BY <2>1, SatisfiedStays
<1>2. \A i \in Installer : ask[i] \in Request /\ ask'[i] = ask[i]
  <2>1. UNCHANGED ask
    <3>1. ASSUME NEW i \in Installer, Step(i)
          PROVE  UNCHANGED ask
      BY <3>1 DEF Step, installers, Mark, WriteMarker, CheckPrefix, Fetch, Fail, Extract,
                  Rename, Annotate, Unlink, Link, Crash
    <3>2. ASSUME NEW v \in Viewer, View(v)
          PROVE  UNCHANGED ask
      BY <3>2 DEF View, installers, LinkView, RemoveAlias, WriteAlias
    <3>3. QED
      BY <3>1, <3>2 DEF Next, vars, installers
  <2>2. QED
    BY <2>1 DEF TypeOK
<1>3. ASSUME NEW i \in Installer, Owes(i)', ~Owes(i)
      PROVE  Satisfied(ask[i])'
  <2> USE DEF TypeOK, Goto, Report, Ended, Answers, disk, installers, viewers
  <2>1. CheckPrefix(i) \/ Rename(i)
    <3>1. ASSUME NEW j \in Installer, Step(j), ~(CheckPrefix(i) \/ Rename(i))
          PROVE  FALSE
      <4>1. CASE CheckPrefix(j) \/ Rename(j)
        BY <1>3, <3>1, <4>1 DEF CheckPrefix, Rename
      <4>2. CASE Mark(j) \/ WriteMarker(j) \/ Fetch(j) \/ Extract(j)
        BY <1>3, <4>2 DEF Mark, WriteMarker, Fetch, Extract
      <4>3. CASE Fail(j)
        BY <1>3, <4>3 DEF Fail
      <4>4. CASE Annotate(j) \/ Unlink(j) \/ Link(j) \/ Crash(j)
        BY <1>3, <4>4 DEF Annotate, Unlink, Link, Crash
      <4>5. QED
        BY <3>1, <4>1, <4>2, <4>3, <4>4 DEF Step
    <3>2. ASSUME NEW v \in Viewer, View(v)
          PROVE  FALSE
      BY <1>3, <3>2 DEF View, LinkView, RemoveAlias, WriteAlias
    <3>3. QED
      BY <1>3, <3>1, <3>2 DEF Next, vars
  <2>2. CASE CheckPrefix(i)
    <3>1. store[StorePrefix(ask[i])] # None
      BY <1>3, <2>2 DEF CheckPrefix
    <3>2. Satisfied(ask[i])
      BY <1>2, <3>1, PrefixSatisfies
    <3>3. QED
      BY <1>1, <1>2, <3>2
  <2>3. CASE Rename(i)
    <3>1. bottle[i] \in Digest /\ tmp[i] \in Tree /\ tmp[i] # None
      BY <2>3, StoreAssumption DEF Rename, WorkInv
    <3>2. StoreBuildPrefix(i) \in Dir
      BY <3>1, BuildPrefix
    <3>3. store'[StoreBuildPrefix(i)] # None
      BY <2>3, <3>1, <3>2 DEF Rename, Occupied
    <3>4. UNCHANGED <<ask, bottle, told>>
      BY <2>3 DEF Rename
    <3>5. StoreBuildPrefix(i).raw = ask[i].raw
          /\ (ask[i].variant # None
                => StoreBuildPrefix(i) = [raw |-> ask[i].raw, hash |-> ask[i].variant])
      BY <3>1, BuildPrefix
    <3>6. StoreBuildPrefix(i) \in BuildsOf(ask[i].raw)'
      BY <3>2, <3>3, <3>4, <3>5 DEF BuildsOf, Installed
    <3>7. QED
      BY <3>3, <3>4, <3>5, <3>6 DEF Satisfied
  <2>4. QED
    BY <2>1, <2>2, <2>3
<1>4. ASSUME NEW i \in Installer, Owes(i)', Owes(i)
      PROVE  Satisfied(ask[i])'
  <2>1. Satisfied(ask[i])
    BY <1>4 DEF AnswerInv
  <2>2. QED
    BY <1>1, <1>2, <2>1
<1>5. QED
  BY <1>3, <1>4 DEF AnswerInv

-----------------------------------------------------------------------------
(* Viewers.                                                                *)

LEMMA StepViewers ==
  ASSUME TypeOK, WorkInv, ViewerInv, [Next]_vars
  PROVE  ViewerInv'
<1> USE DEF TypeOK, disk, installers, viewers
<1>1. \A d \in Dir : store[d] # None => store'[d] # None
  BY StoreGrows
<1>2. ASSUME NEW i \in Installer, Step(i)
      PROVE  UNCHANGED <<vpc, target>>
  BY <1>2 DEF Step, Mark, WriteMarker, CheckPrefix, Fetch, Fail, Extract,
              Rename, Annotate, Unlink, Link, Crash
<1>3. ASSUME NEW i \in Installer, Step(i)
      PROVE  ViewerInv'
  BY <1>1, <1>2, <1>3 DEF ViewerInv
<1>4. ASSUME NEW v \in Viewer, NEW d \in Wanted, LinkView(v, d)
      PROVE  ViewerInv'
  <2>1. d \in Dir
    BY StoreAssumption
  <2>2. vpc'[v] # "refused" => store[d] # None
    BY <1>4 DEF LinkView, Viewable
  <2>3. QED
    BY <1>4, <2>1, <2>2 DEF ViewerInv, LinkView
<1>5. ASSUME NEW v \in Viewer, RemoveAlias(v) \/ WriteAlias(v)
      PROVE  ViewerInv'
  BY <1>5 DEF ViewerInv, RemoveAlias, WriteAlias
<1>6. CASE UNCHANGED vars
  BY <1>6 DEF vars, ViewerInv
<1>7. QED
  BY <1>3, <1>4, <1>5, <1>6 DEF Next, View

LEMMA StepView ==
  ASSUME TypeOK, WorkInv, ViewerInv, ViewKept, [Next]_vars
  PROVE  ViewKept'
<1> USE DEF TypeOK, disk, installers, viewers
<1>1. \A d \in Dir : store[d] # None => store'[d] # None
  BY StoreGrows
<1>2. ASSUME NEW i \in Installer, Step(i)
      PROVE  UNCHANGED <<view, vpc, target>>
  BY <1>2 DEF Step, Mark, WriteMarker, CheckPrefix, Fetch, Fail, Extract,
              Rename, Annotate, Unlink, Link, Crash
<1>3. \A v \in Viewer : vpc[v] \in {"remove", "link", "linked"} => target[v].raw \in Raw
  BY DEF ViewerInv, Dir
<1>4. ASSUME NEW i \in Installer, Step(i)
      PROVE  ViewKept'
  BY <1>1, <1>2, <1>4 DEF ViewKept
<1>5. ASSUME NEW v \in Viewer, NEW d \in Wanted, LinkView(v, d)
      PROVE  ViewKept'
  BY <1>5 DEF LinkView, ViewKept
<1>6. ASSUME NEW v \in Viewer, RemoveAlias(v)
      PROVE  ViewKept'
  <2> DEFINE r == target[v].raw
  <2>1. /\ r \in Raw
        /\ view' = [view EXCEPT ![r] = None]
        /\ vpc' = [vpc EXCEPT ![v] = "link"]
        /\ UNCHANGED <<store, target>>
    BY <1>3, <1>6 DEF RemoveAlias
  <2>2. QED
    BY <2>1 DEF ViewKept
<1>7. ASSUME NEW v \in Viewer, WriteAlias(v)
      PROVE  ViewKept'
  <2> DEFINE r == target[v].raw
  <2>1. /\ r \in Raw
        /\ target[v] \in Dir
        /\ target[v] # None
        /\ store[target[v]] # None
        /\ UNCHANGED <<store, target>>
    BY <1>3, <1>7, StoreAssumption DEF WriteAlias, ViewerInv
  <2>2. CASE view[r] = None
    <3>1. view' = [view EXCEPT ![r] = target[v]] /\ vpc' = [vpc EXCEPT ![v] = "linked"]
      BY <1>7, <2>2 DEF WriteAlias
    <3>2. QED
      BY <2>1, <3>1 DEF ViewKept
  <2>3. CASE view[r] # None
    <3>1. view' = view /\ vpc' = [vpc EXCEPT ![v] = "refused"]
      BY <1>7, <2>3 DEF WriteAlias
    <3>2. QED
      BY <2>1, <2>3, <3>1 DEF ViewKept
  <2>4. QED
    BY <2>2, <2>3
<1>8. CASE UNCHANGED vars
  BY <1>8 DEF vars, ViewKept
<1>9. QED
  BY <1>4, <1>5, <1>6, <1>7, <1>8 DEF Next, View

-----------------------------------------------------------------------------
(* The theorems.                                                           *)

LEMMA InitInv == Init => IInv
<1> SUFFICES ASSUME Init PROVE IInv
  OBVIOUS
<1>1. TypeOK
  BY InitType
<1>2. WorkInv /\ AnswerInv /\ ViewerInv /\ ViewKept
  BY DEF Init, WorkInv, AnswerInv, ViewerInv, ViewKept, Answers
<1>3. InstalledWhole
  BY StoreAssumption DEF Init, InstalledWhole, Installed
<1>4. QED
  BY <1>1, <1>2, <1>3 DEF IInv

LEMMA NextInv == IInv /\ [Next]_vars => IInv'
  BY StepType, StepWork, StepWhole, StepAnswers, StepViewers, StepView DEF IInv

LEMMA Invariance == Spec => []IInv
<1>1. Init => IInv
  BY InitInv
<1>2. IInv /\ [Next]_vars => IInv'
  BY NextInv
<1>3. QED
  BY <1>1, <1>2, PTL DEF Spec

(* Every reachable state of every store is well typed.                     *)
THEOREM TypeCorrect == Spec => []TypeOK
<1>1. IInv => TypeOK
  BY DEF IInv
<1>2. QED
  BY <1>1, Invariance, PTL

(* No install leaves a half-extracted tree where readers look, whoever     *)
(* dies between its calls (InstallFor).                                    *)
THEOREM InstalledWholeHolds == Spec => []InstalledWhole
<1>1. IInv => InstalledWhole
  BY DEF IInv
<1>2. QED
  BY <1>1, Invariance, PTL

(* An install that reports success left what it was asked for (InstallFor, *)
(* renameOrExplain).                                                       *)
THEOREM AnsweredHolds == Spec => []Answered
<1>1. IInv => Answered
  BY DEF IInv, AnswerInv, Answered, Satisfied
<1>2. QED
  BY <1>1, Invariance, PTL

(* No exit of an install but death leaves its temporary directory.         *)
THEOREM TemporaryGoneHolds == Spec => []TemporaryGone
<1>1. IInv => TemporaryGone
  BY DEF IInv, WorkInv, TemporaryGone
<1>2. QED
  BY <1>1, Invariance, PTL

(* An alias of a view survives any number of viewers that replace it at    *)
(* once, and names an installed build (LinkView).                          *)
THEOREM ViewKeptHolds == Spec => []ViewKept
<1>1. IInv => ViewKept
  BY DEF IInv
<1>2. QED
  BY <1>1, Invariance, PTL

(* The store implements one whose directories appear once and for good.    *)
THEOREM OnlyGrowsHolds == Spec => OnlyGrows
<1> DEFINE h == [d \in Dir |-> IF store[d] = None THEN None ELSE store[d].bottle]
<1>1. Init => Shelf!Init
  <2>1. SUFFICES ASSUME Init PROVE Shelf!Init
    OBVIOUS
  <2>2. store \in [Dir -> Tree \cup {None}]
    BY <2>1, InitType DEF TypeOK
  <2>3. h \in [Dir -> Digest \cup {None}]
    BY <2>2 DEF Tree
  <2>4. QED
    BY <2>3 DEF Shelf!Init
<1>2. IInv /\ [Next]_vars => [Shelf!Next]_h
  <2>1. SUFFICES ASSUME IInv, [Next]_vars PROVE [Shelf!Next]_h
    OBVIOUS
  <2>2. CASE UNCHANGED store
    BY <2>2
  <2>3. CASE \E i \in Installer :
               /\ Rename(i)
               /\ bottle[i] \in Digest
               /\ tmp[i] \in Tree /\ tmp[i].whole
               /\ StoreBuildPrefix(i) \in Dir
               /\ store[StoreBuildPrefix(i)] = None
               /\ store' = [store EXCEPT ![StoreBuildPrefix(i)] = tmp[i]]
    <3>1. PICK i \in Installer :
            /\ tmp[i] \in Tree
            /\ StoreBuildPrefix(i) \in Dir
            /\ store[StoreBuildPrefix(i)] = None
            /\ store' = [store EXCEPT ![StoreBuildPrefix(i)] = tmp[i]]
      BY <2>3
    <3> DEFINE d == StoreBuildPrefix(i)
               b == tmp[i].bottle
    <3>2. b \in Digest /\ tmp[i] # None
      BY <3>1, StoreAssumption DEF Tree
    <3>3. store \in [Dir -> Tree \cup {None}]
      BY <2>1 DEF IInv, TypeOK
    <3>4. h[d] = None
      BY <3>1
    <3>5. h' = [h EXCEPT ![d] = b]
      BY <3>1, <3>2, <3>3
    <3>6. d \in Dir /\ b \in Digest
      BY <3>1, <3>2
    <3>7. Shelf!Next
      BY <3>4, <3>5, <3>6 DEF Shelf!Next, Shelf!Install
    <3>8. QED
      BY <3>7
  <2>4. QED
    BY <2>1, <2>2, <2>3, StoreSteps DEF IInv
<1>3. QED
  BY <1>1, <1>2, Invariance, PTL DEF Spec, OnlyGrows, Shelf!Spec
=============================================================================
