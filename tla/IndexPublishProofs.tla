------------------------ MODULE IndexPublishProofs ------------------------
(* Theorems about IndexPublish, for every number of publishers, platforms, *)
(* attestations and attempts.                                              *)
EXTENDS IndexPublish, FiniteSetTheorems, TLAPS

-----------------------------------------------------------------------------
(* Type correctness.                                                       *)

LEMMA SeedsType == Seeds \subseteq Manifest
  BY PublishAssumption DEF Seeds, Listed, Listing

(* The environment of a behaviour never changes.                           *)
LEMMA EnvFixed == [Next]_vars => env' = env
  BY DEF Next, vars, Step, PushLayer, PackManifest, PushReferrer, TagPlatform,
     ReadIndex, ListTags, FetchTag, WriteIndex, Verify, Confirm, EnsureIndexed,
     Abort, Rerun

LEMMA FreshType == FreshIndex \in Listing
  BY DEF FreshIndex, Listing

LEMMA UpsertType ==
  ASSUME NEW listing \in Listing, NEW pl \in Platform,
         NEW m \in Manifest \cup {None}
  PROVE  upsertPlatform(listing, pl, m) \in Listing
  BY DEF Listing, upsertPlatform

LEMMA ReadsType ==
  ASSUME TypeOK
  PROVE  IndexReads \subseteq Listing /\ TagListings \subseteq SUBSET Platform
  BY FreshType DEF TypeOK, IndexReads, TagListings, Listed

LEMMA InitType == Init => TypeOK
  BY PublishAssumption, SeedsType, FreshType
  DEF Init, TypeOK, Pushing, Merging, Ended

LEMMA RetryType ==
  ASSUME TypeOK, NEW p \in Publisher, Retry(p)
  PROVE  /\ attempt' \in [Publisher -> 0 .. MaxAttempts - 1]
         /\ pc' \in [Publisher -> Pushing \cup Merging \cup Ended]
  BY PublishAssumption DEF TypeOK, Retry, Goto, Pushing, Merging, Ended

LEMMA NextType ==
  ASSUME TypeOK, [Next]_vars
  PROVE  TypeOK'
<1>1. CASE UNCHANGED vars
  BY <1>1 DEF TypeOK, vars, registry
<1>2. CASE Next
  <2>0. PICK p \in Publisher : Step(p) \/ Abort(p) \/ Rerun(p)
    BY <1>2 DEF Next
  <2> USE PublishAssumption DEF TypeOK, registry, Goto, Pushing, Merging, Ended
  <2>1. CASE PushLayer(p)
    BY <2>1 DEF PushLayer
  <2>2. CASE PackManifest(p)
    BY <2>2 DEF PackManifest
  <2>3. CASE \E r \in Ref : PushReferrer(p, r)
    BY <2>3 DEF PushReferrer
  <2>4. CASE TagPlatform(p)
    BY <2>4 DEF TagPlatform, Listing
  <2>5. CASE ReadIndex(p)
    BY <2>5, ReadsType DEF ReadIndex
  <2>6. CASE ListTags(p)
    BY <2>6, ReadsType DEF ListTags
  <2>7. CASE \E pl \in Platform : FetchTag(p, pl)
    <3>1. PICK pl \in Platform : FetchTag(p, pl)
      BY <2>7
    <3>2. tags[pl] \in Manifest \cup {None}
      BY DEF Listing
    <3>3. upsertPlatform(idx[p], pl, tags[pl]) \in Listing
      BY <3>2, UpsertType
    <3>4. QED
      BY <3>1, <3>3 DEF FetchTag
  <2>8. CASE WriteIndex(p)
    <3>1. idx' \in [Publisher -> Listing]
      BY <2>8, FreshType DEF WriteIndex
    <3>2. index' \in Listing
      BY <2>8, UpsertType DEF WriteIndex
    <3>3. racers' \in [Publisher -> SUBSET Publisher]
      BY <2>8 DEF WriteIndex, Landed
    <3>4. QED
      BY <2>8, <3>1, <3>2, <3>3 DEF WriteIndex
  <2>9. CASE Verify(p)
    BY <2>9, RetryType DEF Verify, InFlight
  <2>10. CASE Confirm(p)
    BY <2>10, RetryType DEF Confirm
  <2>11. CASE EnsureIndexed(p)
    BY <2>11 DEF EnsureIndexed
  <2>12. CASE Abort(p)
    BY <2>12, FreshType DEF Abort, Landed
  <2>13. CASE Rerun(p)
    BY <2>13 DEF Rerun
  <2>14. QED
    BY <2>0, <2>1, <2>2, <2>3, <2>4, <2>5, <2>6, <2>7, <2>8, <2>9, <2>10,
       <2>11, <2>12, <2>13 DEF Step
<1>3. QED
  BY <1>1, <1>2

(* Every variable keeps its type in every instance: in particular the      *)
(* attempts of mergePlatformIntoIndex stay below indexRetryAttempts.       *)
THEOREM TypeCorrect == Spec => []TypeOK
<1>1. QED
  BY InitType, NextType, PTL DEF Spec

-----------------------------------------------------------------------------
(* Attestations before listings.  The inductive invariant follows the       *)
(* objects a publisher has pushed through its program counter, and says     *)
(* that whatever any tag or any index, stored or being composed, names for  *)
(* a publisher's platform is complete.                                      *)

Complete(p) ==
  /\ ManifestOf[p] \in layers \cap manifests
  /\ {ManifestOf[p]} \X RefsOf[p] \subseteq referrers

NamedFor(p, listing) == listing[PlatformOf[p]] = ManifestOf[p]

AttestInv ==
  \A p \in Publisher :
    /\ pc[p] \in {"layer", "manifest"} => left[p] = RefsOf[p]
    /\ pc[p] = "manifest" => ManifestOf[p] \in layers
    /\ pc[p] = "referrers" =>
         /\ ManifestOf[p] \in layers \cap manifests
         /\ {ManifestOf[p]} \X (RefsOf[p] \ left[p]) \subseteq referrers
    /\ pc[p] \in Merging \cup {"done", "ensured"} => Complete(p)
    /\ NamedFor(p, tags) => Complete(p)
    /\ NamedFor(p, index) => Complete(p)
    /\ \A q \in Publisher : NamedFor(p, idx[q]) => Complete(p)

(* Two jobs of one platform that pack the same manifest would attach        *)
(* different attestations to it: the one claim made of the batch.           *)
JobsDiffer ==
  \A p, q \in Publisher :
    PlatformOf[p] = PlatformOf[q] /\ ManifestOf[p] = ManifestOf[q] => p = q

LEMMA FreshNames ==
  ASSUME NEW p \in Publisher
  PROVE  ~NamedFor(p, FreshIndex)
  BY PublishAssumption DEF NamedFor, FreshIndex

LEMMA AttestInit == Init => AttestInv
<1>1. ASSUME Init, NEW p \in Publisher,
             NamedFor(p, tags) \/ NamedFor(p, index)
      PROVE  Complete(p)
  <2>1. ManifestOf[p] \in Seeds
    BY <1>1, PublishAssumption DEF Init, NamedFor, Seeds, Listed
  <2>2. RefsOf[p] \subseteq Ref
    BY PublishAssumption
  <2>3. QED
    BY <1>1, <2>1, <2>2 DEF Init, Complete
<1>2. QED
  BY <1>1, FreshNames DEF Init, AttestInv, Merging

(* Objects are never deleted, so a complete manifest stays complete.        *)
LEMMA CompleteStays ==
  ASSUME NEW p \in Publisher, Complete(p),
         layers \subseteq layers', manifests \subseteq manifests',
         referrers \subseteq referrers'
  PROVE  Complete(p)'
  BY DEF Complete

LEMMA AttestNext ==
  ASSUME JobsDiffer, TypeOK, AttestInv, [Next]_vars
  PROVE  AttestInv'
<1>1. CASE UNCHANGED vars
  BY <1>1 DEF AttestInv, Complete, NamedFor, vars, registry
<1>2. CASE Next
  <2>0. PICK a \in Publisher : Step(a) \/ Abort(a) \/ Rerun(a)
    BY <1>2 DEF Next
  <2>m. /\ layers \subseteq layers'
        /\ manifests \subseteq manifests'
        /\ referrers \subseteq referrers'
    BY <2>0 DEF Step, PushLayer, PackManifest, PushReferrer, TagPlatform, ReadIndex,
       ListTags, FetchTag, WriteIndex, Verify, Confirm, EnsureIndexed, Abort,
       Rerun, registry
  <2> SUFFICES ASSUME NEW p \in Publisher
               PROVE  /\ pc'[p] \in {"layer", "manifest"} => left'[p] = RefsOf[p]
                      /\ pc'[p] = "manifest" => ManifestOf[p] \in layers'
                      /\ pc'[p] = "referrers" =>
                           /\ ManifestOf[p] \in layers' \cap manifests'
                           /\ {ManifestOf[p]} \X (RefsOf[p] \ left'[p])
                                \subseteq referrers'
                      /\ pc'[p] \in Merging \cup {"done", "ensured"} => Complete(p)'
                      /\ NamedFor(p, tags') => Complete(p)'
                      /\ NamedFor(p, index') => Complete(p)'
                      /\ \A q \in Publisher : NamedFor(p, idx'[q]) => Complete(p)'
    BY DEF AttestInv
  <2>c. Complete(p) => Complete(p)'
    BY <2>m, CompleteStays
  <2>p. /\ pc[p] \in {"layer", "manifest"} => left[p] = RefsOf[p]
        /\ pc[p] = "manifest" => ManifestOf[p] \in layers
        /\ pc[p] = "referrers" =>
             /\ ManifestOf[p] \in layers \cap manifests
             /\ {ManifestOf[p]} \X (RefsOf[p] \ left[p]) \subseteq referrers
        /\ pc[p] \in Merging \cup {"done", "ensured"} => Complete(p)
        /\ NamedFor(p, tags) => Complete(p)
        /\ NamedFor(p, index) => Complete(p)
        /\ \A q \in Publisher : NamedFor(p, idx[q]) => Complete(p)
    BY DEF AttestInv
  <2> USE <2>c, <2>p, <2>m DEF TypeOK, registry, Goto, Merging
  <2>1. CASE PushLayer(a)
    BY <2>1 DEF PushLayer
  <2>2. CASE PackManifest(a)
    BY <2>2 DEF PackManifest
  <2>3. CASE \E r \in Ref : PushReferrer(a, r)
    BY <2>3 DEF PushReferrer
  <2>4. CASE TagPlatform(a)
    <3>1. Complete(a)
      BY <2>4 DEF TagPlatform, Attached, AttestInv, Complete
    <3>2. NamedFor(p, tags') => NamedFor(p, tags) \/ p = a
      BY <2>4, PublishAssumption DEF TagPlatform, NamedFor, JobsDiffer, Listing
    <3>3. UNCHANGED <<index, idx>>
      BY <2>4 DEF TagPlatform
    <3>4. /\ pc'[p] \in {"layer", "manifest"} =>
               pc[p] \in {"layer", "manifest"} /\ left'[p] = left[p]
          /\ pc'[p] = "manifest" => pc[p] = "manifest"
          /\ pc'[p] = "referrers" => pc[p] = "referrers" /\ left'[p] = left[p]
          /\ pc'[p] \in Merging => pc[p] \in Merging \/ p = a
          /\ pc'[p] \in {"done", "ensured"} => pc[p] \in {"done", "ensured"}
      BY <2>4 DEF TagPlatform
    <3>5. QED
      BY <3>1, <3>2, <3>3, <3>4
  <2>5. CASE ReadIndex(a)
    <3>1. \A q \in Publisher : idx'[q] \in {idx[q], index, FreshIndex}
      BY <2>5 DEF ReadIndex, IndexReads
    <3>2. QED
      BY <2>5, <3>1, FreshNames DEF ReadIndex
  <2>6. CASE ListTags(a)
    BY <2>6 DEF ListTags
  <2>7. CASE \E pl \in Platform : FetchTag(a, pl)
    <3>1. PICK pl \in Platform : FetchTag(a, pl)
      BY <2>7
    <3>2. \A q \in Publisher :
            idx'[q] = idx[q] \/ idx'[q] = upsertPlatform(idx[q], pl, tags[pl])
      BY <3>1 DEF FetchTag
    <3>3. \A q \in Publisher :
            NamedFor(p, idx'[q]) => NamedFor(p, idx[q]) \/ NamedFor(p, tags)
      <4> SUFFICES ASSUME NEW q \in Publisher, NamedFor(p, idx'[q])
                   PROVE  NamedFor(p, idx[q]) \/ NamedFor(p, tags)
        OBVIOUS
      <4>1. idx[q] \in [Platform -> Manifest \cup {None}] /\ PlatformOf[p] \in Platform
        BY PublishAssumption DEF Listing
      <4>2. CASE idx'[q] = idx[q]
        BY <4>2
      <4>3. CASE idx'[q] = upsertPlatform(idx[q], pl, tags[pl])
        BY <4>1, <4>3 DEF NamedFor, upsertPlatform
      <4>4. QED
        BY <3>2, <4>2, <4>3
    <3>4. QED
      BY <3>1, <3>3 DEF FetchTag
  <2>8. CASE WriteIndex(a)
    <3>1. Complete(a)
      BY <2>8 DEF WriteIndex, AttestInv
    <3>2. NamedFor(p, index') => NamedFor(p, idx[a]) \/ p = a
      BY <2>8, PublishAssumption
      DEF WriteIndex, NamedFor, upsertPlatform, JobsDiffer, Listing
    <3>3. \A q \in Publisher : NamedFor(p, idx'[q]) => NamedFor(p, idx[q])
      BY <2>8, FreshNames DEF WriteIndex
    <3>4. UNCHANGED tags
      BY <2>8 DEF WriteIndex
    <3>5. /\ pc'[p] \in {"layer", "manifest"} =>
               pc[p] \in {"layer", "manifest"} /\ left'[p] = left[p]
          /\ pc'[p] = "manifest" => pc[p] = "manifest"
          /\ pc'[p] = "referrers" => pc[p] = "referrers" /\ left'[p] = left[p]
          /\ pc'[p] \in Merging => pc[p] \in Merging
          /\ pc'[p] \in {"done", "ensured"} => pc[p] \in {"done", "ensured"}
      BY <2>8 DEF WriteIndex
    <3>6. QED
      BY <3>1, <3>2, <3>3, <3>4, <3>5
  <2>9. CASE Verify(a)
    BY <2>9 DEF Verify, Retry
  <2>10. CASE Confirm(a)
    BY <2>10 DEF Confirm, Retry
  <2>11. CASE EnsureIndexed(a)
    BY <2>11 DEF EnsureIndexed
  <2>12. CASE Abort(a)
    BY <2>12, FreshNames DEF Abort, Ended
  <2>13. CASE Rerun(a)
    BY <2>13 DEF Rerun
  <2>14. QED
    BY <2>0, <2>1, <2>2, <2>3, <2>4, <2>5, <2>6, <2>7, <2>8, <2>9, <2>10,
       <2>11, <2>12, <2>13 DEF Step
<1>3. QED
  BY <1>1, <1>2

(* A reader that resolves the index or a platform tag finds a stored        *)
(* manifest with its layer and all its attestations, whatever dies, fails   *)
(* or races: PushWithReferrers pushes them first.                           *)
THEOREM AttestedBeforeListedHolds ==
  JobsDiffer => (Spec => []AttestedBeforeListed)
<1> SUFFICES ASSUME JobsDiffer
             PROVE  Spec => []AttestedBeforeListed
  OBVIOUS
<1>1. AttestInv => AttestedBeforeListed
  BY DEF AttestInv, AttestedBeforeListed, Complete, NamedFor
<1>2. Init => AttestInv
  BY AttestInit
<1>3. TypeOK /\ AttestInv /\ [Next]_vars => AttestInv'
  BY AttestNext
<1>4. QED
  BY <1>1, <1>2, <1>3, TypeCorrect, PTL DEF Spec

-----------------------------------------------------------------------------
(* Entries that predate platform tags.  Nothing but the index itself         *)
(* remembers them, so they survive exactly as long as no composition starts  *)
(* from anything else than the index.                                        *)

LegacyInv ==
  "read" \notin env.faults => \A pl \in Legacy :
    /\ index[pl] = SeedIndex[pl]
    /\ tags[pl] = None
    /\ \A q \in Publisher :
         /\ pc[q] \in {"list", "fetch"} => idx[q][pl] = SeedIndex[pl]
         /\ pc[q] = "fetch" => pl \notin todo[q]

LEMMA LegacyFacts ==
  ASSUME NEW pl \in Legacy
  PROVE  /\ pl \in Platform
         /\ SeedTags[pl] = None
         /\ \A p \in Publisher : PlatformOf[p] # pl
  BY DEF Legacy, Listed

LEMMA LegacyInit == Init => LegacyInv
  BY LegacyFacts DEF Init, LegacyInv

LEMMA LegacyNext ==
  ASSUME TypeOK, LegacyInv, [Next]_vars
  PROVE  LegacyInv'
<1>1. CASE UNCHANGED vars
  BY <1>1 DEF LegacyInv, vars, registry
<1>2. CASE Next
  <2>0. PICK a \in Publisher : Step(a) \/ Abort(a) \/ Rerun(a)
    BY <1>2 DEF Next
  <2> SUFFICES ASSUME "read" \notin env'.faults, NEW pl \in Legacy
               PROVE  /\ index'[pl] = SeedIndex[pl]
                      /\ tags'[pl] = None
                      /\ \A q \in Publisher :
                           /\ pc'[q] \in {"list", "fetch"} => idx'[q][pl] = SeedIndex[pl]
                           /\ pc'[q] = "fetch" => pl \notin todo'[q]
    BY DEF LegacyInv
  <2>r. "read" \notin env.faults
    BY EnvFixed
  <2>l. pl \in Platform /\ \A p \in Publisher : PlatformOf[p] # pl
    BY LegacyFacts
  <2>i. /\ index[pl] = SeedIndex[pl]
        /\ tags[pl] = None
        /\ \A q \in Publisher :
             /\ pc[q] \in {"list", "fetch"} => idx[q][pl] = SeedIndex[pl]
             /\ pc[q] = "fetch" => pl \notin todo[q]
    BY <2>r DEF LegacyInv
  <2> USE <2>i DEF TypeOK, registry, Goto
  <2>1. CASE PushLayer(a)
    BY <2>1 DEF PushLayer
  <2>2. CASE PackManifest(a)
    BY <2>2 DEF PackManifest
  <2>3. CASE \E r \in Ref : PushReferrer(a, r)
    BY <2>3 DEF PushReferrer
  <2>4. CASE TagPlatform(a)
    BY <2>4, <2>l DEF TagPlatform, Listing
  <2>5. CASE ReadIndex(a)
    BY <2>5, <2>r DEF ReadIndex, IndexReads
  <2>6. CASE ListTags(a)
    BY <2>6 DEF ListTags, TagListings, Listed
  <2>7. CASE \E n \in Platform : FetchTag(a, n)
    <3>1. PICK n \in Platform : FetchTag(a, n)
      BY <2>7
    <3>2. n # pl
      BY <3>1 DEF FetchTag
    <3>3. upsertPlatform(idx[a], n, tags[n])[pl] = idx[a][pl]
      BY <3>2, <2>l DEF upsertPlatform, Listing
    <3>4. QED
      BY <3>1, <3>3 DEF FetchTag
  <2>8. CASE WriteIndex(a)
    <3>1. index'[pl] = idx[a][pl]
      BY <2>8, <2>l DEF WriteIndex, upsertPlatform, Listing
    <3>2. QED
      BY <2>8, <3>1 DEF WriteIndex
  <2>9. CASE Verify(a)
    BY <2>9 DEF Verify, Retry
  <2>10. CASE Confirm(a)
    BY <2>10 DEF Confirm, Retry
  <2>11. CASE EnsureIndexed(a)
    BY <2>11 DEF EnsureIndexed
  <2>12. CASE Abort(a)
    BY <2>12 DEF Abort
  <2>13. CASE Rerun(a)
    BY <2>13 DEF Rerun
  <2>14. QED
    BY <2>0, <2>1, <2>2, <2>3, <2>4, <2>5, <2>6, <2>7, <2>8, <2>9, <2>10,
       <2>11, <2>12, <2>13 DEF Step
<1>3. QED
  BY <1>1, <1>2

(* With reads of the index that do not fail, a platform published before     *)
(* platform tags existed is never lost, even if the registry lists no tags   *)
(* or publishers die (mergePlatformIntoIndex starts from the index).         *)
THEOREM LegacyKeptHolds == Spec => []LegacyKept
<1>1. LegacyInv => LegacyKept
  BY DEF LegacyInv, LegacyKept, LegacySecured
<1>2. Init => LegacyInv
  BY LegacyInit
<1>3. TypeOK /\ LegacyInv /\ [Next]_vars => LegacyInv'
  BY LegacyNext
<1>4. QED
  BY <1>1, <1>2, <1>3, TypeCorrect, PTL DEF Spec

-----------------------------------------------------------------------------
(* Success is for good.  The parts of the inductive invariant: a publisher   *)
(* past its tag owns its tag; nobody's manifest is named for another         *)
(* platform; EnsureIndexed runs where the batch is over; and every index     *)
(* being composed carries, or still has to fetch the tag of, each publisher  *)
(* it owes that to.  The last part is the heart of it: an index composed     *)
(* from before a publisher's tag may still land, but only inside that        *)
(* publisher's settle window, or before the batch is over.                   *)

Tagged == Merging \cup {"done", "ensured"}

TagsOwn == \A p \in Publisher : pc[p] \in Tagged => NamedFor(p, tags)

OwnNames ==
  \A p \in Publisher : \A pl \in Platform \ {PlatformOf[p]} :
    /\ tags[pl] # ManifestOf[p]
    /\ index[pl] # ManifestOf[p]
    /\ \A q \in Publisher : idx[q][pl] # ManifestOf[p]

EnsurePhase ==
  \A p \in Publisher :
    /\ ensuring[p] => pc[p] \notin Pushing \cup {"done"}
    /\ pc[p] = "ensured" => ensuring[p]
    /\ env.barrier /\ ensuring[p] =>
         \A q \in Publisher : ensuring[q] \/ pc[q] \in Ended

Owed(q, p) ==
  \/ p \in Secured
  \/ env.settle /\ pc[p] = "settle" /\ q \notin racers[p]
  \/ env.barrier /\ ensuring[q] /\ pc[p] \in Tagged

Carries(q, p) == NamedFor(p, idx[q]) \/ PlatformOf[p] \in todo[q]

CarryInv ==
  Dependable => \A p, q \in Publisher : pc[q] = "fetch" /\ Owed(q, p) => Carries(q, p)

SecureInv ==
  TagsOwn /\ OwnNames /\ EnsurePhase /\ CarryInv /\ SecuredListed

LEMMA Constants ==
  ASSUME NEW p \in Publisher
  PROVE  /\ PlatformOf[p] \in Platform
         /\ ManifestOf[p] \in Manifest
         /\ ManifestOf[p] # None
  BY PublishAssumption

LEMMA EnvType == TypeOK => env \in Environment
  BY PublishAssumption DEF TypeOK

LEMMA Upserted ==
  ASSUME NEW listing \in Listing, NEW pl \in Platform, NEW m,
         NEW n \in Platform
  PROVE  upsertPlatform(listing, pl, m)[n] = IF n = pl THEN m ELSE listing[n]
  BY DEF Listing, upsertPlatform

LEMMA TagsOwnNext ==
  ASSUME OneJobPerPlatform, TypeOK, TagsOwn, [Next]_vars
  PROVE  TagsOwn'
<1>1. CASE UNCHANGED vars
  BY <1>1 DEF TagsOwn, NamedFor, vars, registry
<1>2. CASE Next
  <2>0. PICK a \in Publisher : Step(a) \/ Abort(a) \/ Rerun(a)
    BY <1>2 DEF Next
  <2> SUFFICES ASSUME NEW p \in Publisher, pc'[p] \in Tagged
               PROVE  NamedFor(p, tags')
    BY DEF TagsOwn
  <2>i. pc[p] \in Tagged => NamedFor(p, tags)
    BY DEF TagsOwn
  <2> USE <2>i DEF TypeOK, registry, Goto, Merging, Pushing, Tagged
  <2>1. CASE PushLayer(a)
    BY <2>1 DEF PushLayer
  <2>2. CASE PackManifest(a)
    BY <2>2 DEF PackManifest
  <2>3. CASE \E r \in Ref : PushReferrer(a, r)
    BY <2>3 DEF PushReferrer
  <2>4. CASE TagPlatform(a)
    BY <2>4, Constants DEF TagPlatform, NamedFor, OneJobPerPlatform, Listing
  <2>5. CASE ReadIndex(a)
    BY <2>5 DEF ReadIndex
  <2>6. CASE ListTags(a)
    BY <2>6 DEF ListTags
  <2>7. CASE \E n \in Platform : FetchTag(a, n)
    BY <2>7 DEF FetchTag
  <2>8. CASE WriteIndex(a)
    BY <2>8 DEF WriteIndex
  <2>9. CASE Verify(a)
    BY <2>9 DEF Verify, Retry
  <2>10. CASE Confirm(a)
    BY <2>10 DEF Confirm, Retry
  <2>11. CASE EnsureIndexed(a)
    BY <2>11 DEF EnsureIndexed
  <2>12. CASE Abort(a)
    BY <2>12 DEF Abort
  <2>13. CASE Rerun(a)
    BY <2>13 DEF Rerun
  <2>14. QED
    BY <2>0, <2>1, <2>2, <2>3, <2>4, <2>5, <2>6, <2>7, <2>8, <2>9, <2>10,
       <2>11, <2>12, <2>13 DEF Step
<1>3. QED
  BY <1>1, <1>2

LEMMA OwnNamesInit == OneJobPerPlatform /\ Init => OwnNames
  BY Constants DEF OneJobPerPlatform, Init, OwnNames, FreshIndex

LEMMA OwnNamesNext ==
  ASSUME OneJobPerPlatform, TypeOK, OwnNames, [Next]_vars
  PROVE  OwnNames'
<1>1. CASE UNCHANGED vars
  BY <1>1 DEF OwnNames, vars, registry
<1>2. CASE Next
  <2>0. PICK a \in Publisher : Step(a) \/ Abort(a) \/ Rerun(a)
    BY <1>2 DEF Next
  <2> SUFFICES ASSUME NEW p \in Publisher, NEW pl \in Platform \ {PlatformOf[p]}
               PROVE  /\ tags'[pl] # ManifestOf[p]
                      /\ index'[pl] # ManifestOf[p]
                      /\ \A q \in Publisher : idx'[q][pl] # ManifestOf[p]
    BY DEF OwnNames
  <2>i. /\ tags[pl] # ManifestOf[p]
        /\ index[pl] # ManifestOf[p]
        /\ \A q \in Publisher : idx[q][pl] # ManifestOf[p]
    BY DEF OwnNames
  <2>f. FreshIndex[pl] # ManifestOf[p]
    BY Constants DEF FreshIndex
  <2>w. PlatformOf[a] = pl => ManifestOf[a] # ManifestOf[p]
    BY DEF OneJobPerPlatform
  <2> USE <2>i DEF TypeOK, registry
  <2>1. CASE PushLayer(a)
    BY <2>1 DEF PushLayer
  <2>2. CASE PackManifest(a)
    BY <2>2 DEF PackManifest
  <2>3. CASE \E r \in Ref : PushReferrer(a, r)
    BY <2>3 DEF PushReferrer
  <2>4. CASE TagPlatform(a)
    BY <2>4, <2>w, Constants DEF TagPlatform, Listing
  <2>5. CASE ReadIndex(a)
    BY <2>5, <2>f DEF ReadIndex, IndexReads
  <2>6. CASE ListTags(a)
    BY <2>6 DEF ListTags
  <2>7. CASE \E n \in Platform : FetchTag(a, n)
    <3>1. PICK n \in Platform : FetchTag(a, n)
      BY <2>7
    <3>2. upsertPlatform(idx[a], n, tags[n])[pl] # ManifestOf[p]
      BY Upserted
    <3>3. QED
      BY <3>1, <3>2 DEF FetchTag
  <2>8. CASE WriteIndex(a)
    <3>1. index'[pl] # ManifestOf[p]
      BY <2>8, <2>w, Constants, Upserted DEF WriteIndex
    <3>2. QED
      BY <2>8, <2>f, <3>1 DEF WriteIndex
  <2>9. CASE Verify(a)
    BY <2>9 DEF Verify
  <2>10. CASE Confirm(a)
    BY <2>10 DEF Confirm
  <2>11. CASE EnsureIndexed(a)
    BY <2>11 DEF EnsureIndexed
  <2>12. CASE Abort(a)
    BY <2>12, <2>f DEF Abort
  <2>13. CASE Rerun(a)
    BY <2>13 DEF Rerun
  <2>14. QED
    BY <2>0, <2>1, <2>2, <2>3, <2>4, <2>5, <2>6, <2>7, <2>8, <2>9, <2>10,
       <2>11, <2>12, <2>13 DEF Step
<1>3. QED
  BY <1>1, <1>2

LEMMA EnsurePhaseNext ==
  ASSUME TypeOK, EnsurePhase, [Next]_vars
  PROVE  EnsurePhase'
<1>1. CASE UNCHANGED vars
  BY <1>1 DEF EnsurePhase, vars, registry
<1>2. CASE Next
  <2>0. PICK a \in Publisher : Step(a) \/ Abort(a) \/ Rerun(a)
    BY <1>2 DEF Next
  <2> USE DEF EnsurePhase, TypeOK, registry, Goto, Pushing, Merging, Ended
  <2>1. CASE PushLayer(a)
    BY <2>1 DEF PushLayer
  <2>2. CASE PackManifest(a)
    BY <2>2 DEF PackManifest
  <2>3. CASE \E r \in Ref : PushReferrer(a, r)
    BY <2>3 DEF PushReferrer
  <2>4. CASE TagPlatform(a)
    BY <2>4 DEF TagPlatform
  <2>5. CASE ReadIndex(a)
    BY <2>5 DEF ReadIndex
  <2>6. CASE ListTags(a)
    BY <2>6 DEF ListTags
  <2>7. CASE \E n \in Platform : FetchTag(a, n)
    BY <2>7 DEF FetchTag
  <2>8. CASE WriteIndex(a)
    BY <2>8 DEF WriteIndex
  <2>9. CASE Verify(a)
    BY <2>9 DEF Verify, Retry
  <2>10. CASE Confirm(a)
    BY <2>10 DEF Confirm, Retry
  <2>11. CASE EnsureIndexed(a)
    BY <2>11 DEF EnsureIndexed, BatchOver
  <2>12. CASE Abort(a)
    BY <2>12 DEF Abort
  <2>13. CASE Rerun(a)
    BY <2>13 DEF Rerun
  <2>14. QED
    BY <2>0, <2>1, <2>2, <2>3, <2>4, <2>5, <2>6, <2>7, <2>8, <2>9, <2>10,
       <2>11, <2>12, <2>13 DEF Step
<1>3. QED
  BY <1>1, <1>2

(* Only a publisher whose tag is its own is owed anything.                   *)
LEMMA OwedTagged ==
  ASSUME TagsOwn, NEW p \in Publisher, NEW q \in Publisher, Owed(q, p)
  PROVE  pc[p] \in Tagged /\ NamedFor(p, tags)
  BY DEF TagsOwn, Owed, Secured, Tagged, Merging

LEMMA CarryNext ==
  ASSUME OneJobPerPlatform, TypeOK, TagsOwn, EnsurePhase, CarryInv, [Next]_vars
  PROVE  CarryInv'
<1>1. CASE UNCHANGED vars
  BY <1>1 DEF CarryInv, Owed, Carries, NamedFor, Secured, Dependable, vars, registry
<1>2. CASE Next
  <2>0. PICK a \in Publisher : Step(a) \/ Abort(a) \/ Rerun(a)
    BY <1>2 DEF Next
  <2> SUFFICES ASSUME Dependable', NEW p \in Publisher, NEW q \in Publisher,
                      pc'[q] = "fetch", Owed(q, p)'
               PROVE  Carries(q, p)'
    BY DEF CarryInv
  <2>v. env' = env /\ Dependable
    BY EnvFixed DEF Dependable
  <2>i. pc[q] = "fetch" /\ Owed(q, p) => Carries(q, p)
    BY <2>v DEF CarryInv
  <2>e. env.barrier => \A r \in Publisher : ensuring[r] => ensuring[q] \/ pc[q] \in Ended
    BY DEF EnsurePhase
  <2>b. /\ env.settle \in BOOLEAN /\ env.barrier \in BOOLEAN
        /\ env.faults = {} /\ (env.settle \/ env.barrier)
    BY <2>v, EnvType DEF Dependable, Environment
  <2> USE <2>i, <2>v DEF TypeOK, registry, Goto, Merging, Pushing, Ended, Tagged,
                   Secured, Owed, Carries, NamedFor
  <2>1. CASE PushLayer(a)
    BY <2>1 DEF PushLayer
  <2>2. CASE PackManifest(a)
    BY <2>2 DEF PackManifest
  <2>3. CASE \E r \in Ref : PushReferrer(a, r)
    BY <2>3 DEF PushReferrer
  <2>4. CASE TagPlatform(a)
    BY <2>4 DEF TagPlatform, EnsurePhase
  <2>5. CASE ReadIndex(a)
    BY <2>5 DEF ReadIndex
  <2>6. CASE ListTags(a)
    <3>1. q # a => pc[q] = "fetch" /\ UNCHANGED <<idx[q], todo[q]>>
      BY <2>6 DEF ListTags
    <3>2. Owed(q, p)
      BY <2>6 DEF ListTags
    <3>3. CASE q = a
      <4>1. todo'[a] = Listed(tags)
        BY <2>6, <2>b DEF ListTags, TagListings
      <4>2. PlatformOf[p] \in Listed(tags)
        BY <3>2, OwedTagged, Constants DEF Listed
      <4>3. QED
        BY <3>3, <4>1, <4>2
    <3>4. QED
      BY <3>1, <3>2, <3>3
  <2>7. CASE \E n \in Platform : FetchTag(a, n)
    <3>1. PICK n \in Platform : FetchTag(a, n)
      BY <2>7
    <3>2. Owed(q, p) /\ pc[q] = "fetch"
      BY <3>1 DEF FetchTag
    <3>3. CASE q = a
      <4>1. /\ idx'[a] = upsertPlatform(idx[a], n, tags[n])
            /\ todo'[a] = todo[a] \ {n}
        BY <3>1, <2>b DEF FetchTag
      <4>2. idx'[a][PlatformOf[p]] =
              IF PlatformOf[p] = n THEN tags[n] ELSE idx[a][PlatformOf[p]]
        BY <4>1, Upserted, Constants
      <4>3. QED
        BY <3>2, <3>3, <4>1, <4>2, OwedTagged
    <3>4. CASE q # a
      BY <3>1, <3>2, <3>4 DEF FetchTag
    <3>5. QED
      BY <3>3, <3>4
  <2>8. CASE WriteIndex(a)
    <3>1. q # a /\ pc[q] = "fetch" /\ idx'[q] = idx[q] /\ UNCHANGED todo
      BY <2>8 DEF WriteIndex
    <3>2. q \notin racers'[p] => q \notin racers[p]
      BY <2>8, <3>1 DEF WriteIndex, Landed
    <3>3. QED
      BY <2>8, <3>1, <3>2 DEF WriteIndex
  <2>9. CASE Verify(a)
    <3>1. pc[q] = "fetch" /\ q # a /\ UNCHANGED <<idx, todo>>
      BY <2>9 DEF Verify, Retry
    <3>2. pc'[p] = "settle" /\ q \notin racers'[p] /\ p = a => FALSE
      BY <2>9, <3>1 DEF Verify, Retry, InFlight
    <3>3. QED
      BY <2>9, <3>1, <3>2 DEF Verify, Retry
  <2>10. CASE Confirm(a)
    <3>1. pc[q] = "fetch" /\ q # a /\ UNCHANGED <<idx, todo>>
      BY <2>10 DEF Confirm, Retry
    <3>2. CASE p = a /\ p \in Secured'
      BY <2>10, <3>1, <3>2, <2>e, <2>b DEF Confirm, Retry
    <3>3. CASE ~(p = a /\ p \in Secured')
      BY <2>10, <3>1, <3>3 DEF Confirm, Retry
    <3>4. QED
      BY <3>2, <3>3
  <2>11. CASE EnsureIndexed(a)
    <3>1. pc[q] = "fetch" /\ q # a /\ UNCHANGED <<idx, todo>>
      BY <2>11 DEF EnsureIndexed
    <3>2. QED
      BY <2>11, <3>1, <2>b DEF EnsureIndexed, BatchOver
  <2>12. CASE Abort(a)
    <3>1. q # a /\ pc[q] = "fetch" /\ idx'[q] = idx[q] /\ todo'[q] = todo[q]
      BY <2>12 DEF Abort
    <3>2. q \notin racers'[p] /\ p # a => q \notin racers[p]
      BY <2>12, <3>1 DEF Abort, Landed
    <3>3. QED
      BY <2>12, <3>1, <3>2 DEF Abort
  <2>13. CASE Rerun(a)
    BY <2>13 DEF Rerun
  <2>14. QED
    BY <2>0, <2>1, <2>2, <2>3, <2>4, <2>5, <2>6, <2>7, <2>8, <2>9, <2>10,
       <2>11, <2>12, <2>13 DEF Step
<1>3. QED
  BY <1>1, <1>2

(* The comparison by digest finds a publisher's own entry, and no other.     *)
LEMMA HasOwn ==
  ASSUME OwnNames, NEW p \in Publisher, indexHasManifest(index, ManifestOf[p])
  PROVE  NamedFor(p, index)
  BY DEF OwnNames, indexHasManifest, NamedFor

LEMMA SecuredNext ==
  ASSUME OneJobPerPlatform, TypeOK, OwnNames, EnsurePhase, CarryInv, SecuredListed,
         [Next]_vars
  PROVE  SecuredListed'
<1>1. CASE UNCHANGED vars
  BY <1>1 DEF SecuredListed, Secured, Dependable, vars, registry
<1>2. CASE Next
  <2>0. PICK a \in Publisher : Step(a) \/ Abort(a) \/ Rerun(a)
    BY <1>2 DEF Next
  <2> SUFFICES ASSUME NEW p \in Publisher, p \in Secured'
               PROVE  NamedFor(p, index')
    BY DEF SecuredListed, Secured, NamedFor
  <2>i. p \in Secured => NamedFor(p, index)
    BY DEF SecuredListed, NamedFor
  <2>v. env' = env /\ Dependable
    BY EnvFixed DEF Dependable, Secured
  <2>b. env.settle \in BOOLEAN /\ IndexReads = {index}
    BY <2>v, EnvType DEF Dependable, IndexReads, Environment
  <2> USE <2>i, <2>v DEF TypeOK, registry, Goto, Secured
  <2>1. CASE PushLayer(a)
    BY <2>1 DEF PushLayer
  <2>2. CASE PackManifest(a)
    BY <2>2 DEF PackManifest
  <2>3. CASE \E r \in Ref : PushReferrer(a, r)
    BY <2>3 DEF PushReferrer
  <2>4. CASE TagPlatform(a)
    BY <2>4 DEF TagPlatform
  <2>5. CASE ReadIndex(a)
    BY <2>5 DEF ReadIndex
  <2>6. CASE ListTags(a)
    BY <2>6 DEF ListTags
  <2>7. CASE \E n \in Platform : FetchTag(a, n)
    BY <2>7 DEF FetchTag
  <2>8. CASE WriteIndex(a)
    <3>1. p # a /\ p \in Secured
      BY <2>8 DEF WriteIndex
    <3>2. NamedFor(p, idx[a])
      BY <2>8, <3>1 DEF WriteIndex, CarryInv, Owed, Carries
    <3>3. PlatformOf[p] # PlatformOf[a]
      BY <3>1 DEF OneJobPerPlatform
    <3>4. QED
      BY <2>8, <3>2, <3>3, Constants, Upserted DEF WriteIndex, NamedFor
  <2>9. CASE Verify(a)
    BY <2>9 DEF Verify, Retry
  <2>10. CASE Confirm(a)
    BY <2>10, <2>b, HasOwn DEF Confirm, Retry
  <2>11. CASE EnsureIndexed(a)
    BY <2>11, <2>b, HasOwn DEF EnsureIndexed
  <2>12. CASE Abort(a)
    BY <2>12 DEF Abort
  <2>13. CASE Rerun(a)
    BY <2>13 DEF Rerun
  <2>14. QED
    BY <2>0, <2>1, <2>2, <2>3, <2>4, <2>5, <2>6, <2>7, <2>8, <2>9, <2>10,
       <2>11, <2>12, <2>13 DEF Step
<1>3. QED
  BY <1>1, <1>2

LEMMA SecureInit == OneJobPerPlatform /\ Init => SecureInv
  BY OwnNamesInit
  DEF Init, SecureInv, TagsOwn, EnsurePhase, CarryInv, SecuredListed, Secured,
      Tagged, Merging

LEMMA SecureNext ==
  OneJobPerPlatform /\ TypeOK /\ SecureInv /\ [Next]_vars => SecureInv'
  BY TagsOwnNext, OwnNamesNext, EnsurePhaseNext, CarryNext, SecuredNext
  DEF SecureInv

LEMMA SecureCorrect == ASSUME OneJobPerPlatform PROVE Spec => []SecureInv
<1>1. Init => SecureInv
  BY SecureInit
<1>2. TypeOK /\ SecureInv /\ [Next]_vars => SecureInv'
  BY SecureNext
<1>3. QED
  BY <1>1, <1>2, TypeCorrect, PTL DEF Spec

(* A publisher that was told it succeeded stays listed for its platform, for *)
(* any number of publishers dying, retrying and racing it.                   *)
THEOREM SecuredListedHolds == OneJobPerPlatform => (Spec => []SecuredListed)
<1> SUFFICES ASSUME OneJobPerPlatform
             PROVE  Spec => []SecuredListed
  OBVIOUS
<1>1. SecureInv => SecuredListed
  BY DEF SecureInv
<1>2. QED
  BY <1>1, SecureCorrect, PTL

-----------------------------------------------------------------------------
(* Reconciling converges.  The counting argument: only a write composed      *)
(* from a listing that predates a publisher's tag can leave its platform     *)
(* out, every rival has at most one such write in flight, and none starts    *)
(* another: what is left of them, an overwriting that was not noticed yet    *)
(* and the attempts used up are fewer than the publishers.                   *)

Rivals(p) == {q \in Publisher \ {p} : pc[q] = "fetch" /\ ~ Carries(q, p)}

Overwritten(p) ==
  IF pc[p] \in {"verify", "settle"} /\ ~ NamedFor(p, index) THEN 1 ELSE 0

RivalsInv ==
  env.faults = {} =>
    \A p \in Publisher : pc[p] \in Merging =>
      attempt[p] + Cardinality(Rivals(p)) + Overwritten(p) < Cardinality(Publisher)

(* No rival starts a write that leaves out a publisher's tag.                *)
LEMMA RivalsShrink ==
  ASSUME OneJobPerPlatform, TypeOK, TagsOwn, env.faults = {},
         NEW a \in Publisher, Step(a) \/ Abort(a) \/ Rerun(a),
         NEW p \in Publisher, pc[p] \in Merging
  PROVE  Rivals(p)' \subseteq Rivals(p)
<1> SUFFICES ASSUME NEW q \in Publisher \ {p}, pc'[q] = "fetch", ~ Carries(q, p)'
             PROVE  pc[q] = "fetch" /\ ~ Carries(q, p)
  BY DEF Rivals
<1>1. NamedFor(p, tags)
  BY DEF TagsOwn, Tagged
<1> USE DEF TypeOK, Goto, Carries, NamedFor
<1>2. CASE q # a
  <2>1. pc'[q] = pc[q] /\ idx'[q] = idx[q] /\ todo'[q] = todo[q]
    BY <1>2 DEF Step, PushLayer, PackManifest, PushReferrer, TagPlatform, ReadIndex,
       ListTags, FetchTag, WriteIndex, Verify, Confirm, EnsureIndexed, Abort, Rerun, Retry
  <2>2. QED
    BY <2>1
<1>3. CASE q = a
  <2>1. CASE ListTags(a)
    BY <1>1, <1>3, <2>1, Constants DEF ListTags, TagListings, Listed
  <2>2. CASE \E n \in Platform : FetchTag(a, n)
    <3>1. PICK n \in Platform : FetchTag(a, n)
      BY <2>2
    <3>2. upsertPlatform(idx[a], n, tags[n])[PlatformOf[p]] =
            IF PlatformOf[p] = n THEN tags[n] ELSE idx[a][PlatformOf[p]]
      BY Constants, Upserted
    <3>3. QED
      BY <1>1, <1>3, <3>1, <3>2 DEF FetchTag
  <2>3. CASE ~ ListTags(a) /\ ~ \E n \in Platform : FetchTag(a, n)
    BY <1>3, <2>3 DEF Step, PushLayer, PackManifest, PushReferrer, TagPlatform,
       ReadIndex, WriteIndex, Verify, Confirm, EnsureIndexed, Abort, Rerun, Retry
  <2>4. QED
    BY <2>1, <2>2, <2>3
<1>4. QED
  BY <1>2, <1>3

(* Whose steps count: a publisher notices that it was overwritten, or a      *)
(* rival writes and is a rival no more.                                      *)
LEMMA RivalsCount ==
  ASSUME OneJobPerPlatform, TypeOK, TagsOwn, env.faults = {},
         NEW a \in Publisher, Step(a) \/ Abort(a) \/ Rerun(a),
         NEW p \in Publisher, pc[p] \in Merging, pc'[p] \in Merging
  PROVE  \/ attempt'[p] = attempt[p] /\ Overwritten(p)' <= Overwritten(p)
         \/ attempt'[p] = attempt[p] + 1 /\ Overwritten(p) = 1 /\ Overwritten(p)' = 0
         \/ /\ attempt'[p] = attempt[p] /\ Overwritten(p)' = 1
            /\ a \in Rivals(p) /\ a \notin Rivals(p)'
<1> USE DEF TypeOK, Goto, NamedFor, Merging
<1>0. IndexReads = {index}
  BY DEF IndexReads
<1>1. CASE WriteIndex(a)
  <2>1. index'[PlatformOf[p]] =
          IF PlatformOf[p] = PlatformOf[a] THEN ManifestOf[a] ELSE idx[a][PlatformOf[p]]
    BY <1>1, Constants, Upserted DEF WriteIndex
  <2>2. attempt' = attempt /\ pc'[a] = "verify" /\ pc[a] = "fetch" /\ todo[a] = {}
    BY <1>1 DEF WriteIndex
  <2>3. CASE a = p \/ NamedFor(p, idx[a])
    BY <2>1, <2>2, <2>3 DEF OneJobPerPlatform, Overwritten
  <2>4. CASE a # p /\ ~ NamedFor(p, idx[a])
    <3>1. a \in Rivals(p) /\ a \notin Rivals(p)'
      BY <2>2, <2>4 DEF Rivals, Carries
    <3>2. Overwritten(p)' \in {0, 1} /\ Overwritten(p) \in {0, 1}
      BY DEF Overwritten
    <3>3. QED
      BY <2>2, <3>1, <3>2
  <2>5. QED
    BY <2>3, <2>4
<1>2. CASE index' = index /\ pc'[p] = pc[p] /\ attempt'[p] = attempt[p]
  BY <1>2 DEF Overwritten
<1>3. CASE a = p /\ (ReadIndex(p) \/ ListTags(p) \/ \E n \in Platform : FetchTag(p, n))
  BY <1>3 DEF ReadIndex, ListTags, FetchTag, registry, Overwritten
<1>4. CASE a = p /\ (Verify(p) \/ Confirm(p))
  <2>1. index' = index /\ pc[p] \in {"verify", "settle"}
    BY <1>4 DEF Verify, Confirm, registry
  <2>2. CASE indexHasManifest(index, ManifestOf[p])
    BY <1>0, <1>4, <2>1, <2>2 DEF Verify, Confirm, Overwritten
  <2>3. CASE ~ indexHasManifest(index, ManifestOf[p])
    <3>1. Overwritten(p) = 1
      BY <2>1, <2>3, Constants DEF Overwritten, indexHasManifest
    <3>2. Retry(p)
      BY <1>0, <1>4, <2>3 DEF Verify, Confirm
    <3>3. attempt'[p] = attempt[p] + 1 /\ pc'[p] = "read"
      BY <3>2 DEF Retry
    <3>4. Overwritten(p)' = 0
      BY <3>3 DEF Overwritten
    <3>5. QED
      BY <3>1, <3>3, <3>4
  <2>4. QED
    BY <2>2, <2>3
<1>5. a # p /\ ~ WriteIndex(a) => index' = index /\ pc'[p] = pc[p] /\ attempt'[p] = attempt[p]
  BY DEF Step, PushLayer, PackManifest, PushReferrer, TagPlatform, ReadIndex,
     ListTags, FetchTag, Verify, Confirm, EnsureIndexed, Abort, Rerun, Retry, registry
<1>6. a = p => WriteIndex(a) \/ ReadIndex(p) \/ ListTags(p) \/ Verify(p) \/ Confirm(p)
                 \/ \E n \in Platform : FetchTag(p, n)
  BY DEF Step, PushLayer, PackManifest, PushReferrer, TagPlatform, EnsureIndexed,
     Abort, Rerun
<1>7. QED
  BY <1>1, <1>2, <1>3, <1>4, <1>5, <1>6

LEMMA RivalsFinite ==
  ASSUME IsFiniteSet(Publisher), NEW p \in Publisher
  PROVE  /\ IsFiniteSet(Rivals(p)) /\ Cardinality(Rivals(p)) \in Nat
         /\ Cardinality(Publisher) \in Nat
         /\ Cardinality(Rivals(p)) < Cardinality(Publisher)
<1>1. Rivals(p) \in SUBSET (Publisher \ {p})
  BY DEF Rivals
<1>2. /\ IsFiniteSet(Publisher \ {p})
      /\ Cardinality(Publisher \ {p}) = Cardinality(Publisher) - 1
  BY FS_RemoveElement
<1>3. /\ IsFiniteSet(Rivals(p))
      /\ Cardinality(Rivals(p)) <= Cardinality(Publisher \ {p})
  BY <1>1, <1>2, FS_Subset
<1>4. Cardinality(Publisher) \in Nat /\ Cardinality(Rivals(p)) \in Nat
  BY <1>3, FS_CardinalityType
<1>5. QED
  BY <1>2, <1>3, <1>4

LEMMA RivalsNext ==
  ASSUME IsFiniteSet(Publisher), OneJobPerPlatform, TypeOK, TagsOwn, RivalsInv, [Next]_vars
  PROVE  RivalsInv'
<1>1. CASE UNCHANGED vars
  <2>1. \A p \in Publisher : Rivals(p)' = Rivals(p) /\ Overwritten(p)' = Overwritten(p)
    BY <1>1 DEF vars, registry, Rivals, Carries, Overwritten, NamedFor
  <2>2. QED
    BY <1>1, <2>1 DEF vars, RivalsInv
<1>2. CASE Next
  <2>0. PICK a \in Publisher : Step(a) \/ Abort(a) \/ Rerun(a)
    BY <1>2 DEF Next
  <2>e. env' = env
    BY EnvFixed
  <2> SUFFICES ASSUME env.faults = {}, NEW p \in Publisher, pc'[p] \in Merging
               PROVE  attempt'[p] + Cardinality(Rivals(p)') + Overwritten(p)'
                        < Cardinality(Publisher)
    BY <2>e DEF RivalsInv
  <2>1. /\ Cardinality(Rivals(p)') \in Nat /\ Cardinality(Publisher) \in Nat
        /\ Cardinality(Rivals(p)') < Cardinality(Publisher)
    <3>1. Rivals(p)' \in SUBSET (Publisher \ {p})
      BY DEF Rivals
    <3>2. /\ IsFiniteSet(Publisher \ {p})
          /\ Cardinality(Publisher \ {p}) = Cardinality(Publisher) - 1
      BY FS_RemoveElement
    <3>3. /\ IsFiniteSet(Rivals(p)')
          /\ Cardinality(Rivals(p)') <= Cardinality(Publisher \ {p})
      BY <3>1, <3>2, FS_Subset
    <3>4. Cardinality(Publisher) \in Nat /\ Cardinality(Rivals(p)') \in Nat
      BY <3>3, FS_CardinalityType
    <3>5. QED
      BY <3>2, <3>3, <3>4
  <2>2. CASE pc[p] \notin Merging
    <3>1. a = p /\ (TagPlatform(p) \/ EnsureIndexed(p))
      BY <2>0, <2>2 DEF TypeOK, Goto, Merging, Step, PushLayer, PackManifest, PushReferrer,
         ReadIndex, ListTags, FetchTag, WriteIndex, Verify, Confirm, EnsureIndexed,
         TagPlatform, Abort, Rerun, Retry
    <3>2. attempt'[p] = 0 /\ pc'[p] = "read"
      BY <3>1 DEF TypeOK, Goto, Merging, TagPlatform, EnsureIndexed
    <3>3. Overwritten(p)' = 0
      BY <3>2 DEF Overwritten
    <3>4. QED
      BY <2>1, <3>2, <3>3
  <2>3. CASE pc[p] \in Merging
    <3>1. /\ attempt[p] + Cardinality(Rivals(p)) + Overwritten(p) < Cardinality(Publisher)
          /\ attempt[p] \in Nat /\ Overwritten(p) \in {0, 1} /\ Overwritten(p)' \in {0, 1}
      BY <2>3, PublishAssumption DEF RivalsInv, TypeOK, Overwritten
    <3>2. IsFiniteSet(Rivals(p)) /\ Cardinality(Rivals(p)) \in Nat
      BY RivalsFinite
    <3>3. Rivals(p)' \in SUBSET Rivals(p)
      BY <2>0, <2>3, RivalsShrink
    <3>4. Cardinality(Rivals(p)') <= Cardinality(Rivals(p))
      BY <3>2, <3>3, FS_Subset
    <3>5. a \in Rivals(p) /\ a \notin Rivals(p)'
            => Cardinality(Rivals(p)') < Cardinality(Rivals(p))
      <4> SUFFICES ASSUME a \in Rivals(p), a \notin Rivals(p)'
                   PROVE  Cardinality(Rivals(p)') < Cardinality(Rivals(p))
        OBVIOUS
      <4>1. Cardinality(Rivals(p)') # Cardinality(Rivals(p))
        BY <3>2, <3>3, FS_Subset
      <4>2. QED
        BY <2>1, <3>2, <3>4, <4>1
    <3>6. \/ attempt'[p] = attempt[p] /\ Overwritten(p)' <= Overwritten(p)
          \/ attempt'[p] = attempt[p] + 1 /\ Overwritten(p) = 1 /\ Overwritten(p)' = 0
          \/ /\ attempt'[p] = attempt[p] /\ Overwritten(p)' = 1
             /\ a \in Rivals(p) /\ a \notin Rivals(p)'
      BY <2>0, <2>3, RivalsCount
    <3>7. QED
      BY <2>1, <3>1, <3>2, <3>4, <3>5, <3>6
  <2>4. QED
    BY <2>2, <2>3
<1>3. QED
  BY <1>1, <1>2

(* A publisher gives up only when an attempt more would be one too many.     *)
LEMMA ConvergesNext ==
  ASSUME IsFiniteSet(Publisher), OneJobPerPlatform, TypeOK, RivalsInv, ReconcileConverges,
         [Next]_vars
  PROVE  ReconcileConverges'
<1> SUFFICES ASSUME env'.faults = {}, MaxAttempts >= Cardinality(Publisher),
                    NEW p \in Publisher, pc'[p] = "exhausted"
             PROVE  FALSE
  BY DEF ReconcileConverges
<1>1. env.faults = {} /\ pc[p] # "exhausted"
  BY EnvFixed DEF ReconcileConverges
<1>2. Next
  BY <1>1 DEF vars
<1>3. PICK a \in Publisher : Step(a) \/ Abort(a) \/ Rerun(a)
  BY <1>2 DEF Next
<1>4. IndexReads = {index}
  BY <1>1 DEF IndexReads
<1>5. (Verify(p) \/ Confirm(p)) /\ Retry(p)
  BY <1>1, <1>3, <1>4 DEF TypeOK, Goto, Step, PushLayer, PackManifest, PushReferrer,
     ReadIndex, ListTags, FetchTag, WriteIndex, Verify, Confirm, EnsureIndexed,
     TagPlatform, Abort, Rerun, Retry
<1>6. pc[p] \in {"verify", "settle"} /\ ~ indexHasManifest(index, ManifestOf[p])
  BY <1>4, <1>5 DEF TypeOK, Goto, Verify, Confirm
<1>7. Overwritten(p) = 1
  BY <1>6, Constants DEF Overwritten, NamedFor, indexHasManifest
<1>8. attempt[p] + 1 >= MaxAttempts
  BY <1>5, PublishAssumption DEF TypeOK, Goto, Retry
<1>9. /\ attempt[p] + Cardinality(Rivals(p)) + 1 < Cardinality(Publisher)
      /\ attempt[p] \in Nat
  BY <1>1, <1>6, <1>7, PublishAssumption DEF RivalsInv, TypeOK, Merging
<1>10. Cardinality(Rivals(p)) \in Nat /\ Cardinality(Publisher) \in Nat
  BY RivalsFinite
<1>11. QED
  BY <1>8, <1>9, <1>10, PublishAssumption

(* With as many attempts as there are publishers, none is ever told that     *)
(* its platform did not survive, whoever dies and is run again.              *)
THEOREM ReconcileConvergesHolds ==
  IsFiniteSet(Publisher) /\ OneJobPerPlatform => (Spec => []ReconcileConverges)
<1> SUFFICES ASSUME IsFiniteSet(Publisher), OneJobPerPlatform
             PROVE  Spec => []ReconcileConverges
  OBVIOUS
<1>1. Init => RivalsInv /\ ReconcileConverges
  BY DEF Init, RivalsInv, ReconcileConverges, Merging
<1>2. SecureInv => TagsOwn
  BY DEF SecureInv
<1>3. TypeOK /\ TagsOwn /\ RivalsInv /\ ReconcileConverges /\ [Next]_vars
        => RivalsInv' /\ ReconcileConverges'
  BY RivalsNext, ConvergesNext
<1>4. QED
  BY <1>1, <1>2, <1>3, TypeCorrect, SecureCorrect, PTL DEF Spec

-----------------------------------------------------------------------------
(* IndexPublish implements VersionListing.                                   *)

LEMMA PromisedType ==
  TypeOK => Promised \subseteq Platform \X Manifest
  BY PublishAssumption DEF Promised, Secured, LegacySecured, Legacy, Listed, Listing

LEMMA PromisedKept ==
  SecuredListed /\ LegacyKept => Reader!Keeps(index)
  BY DEF SecuredListed, LegacyKept, Promised, Reader!Keeps

(* No step takes a promise back, and only one publisher learns of its        *)
(* success in a step.                                                        *)
LEMMA SecuredGrows ==
  ASSUME TypeOK, SecureInv, [Next]_vars
  PROVE  \/ Secured' = Secured
         \/ UNCHANGED index /\ \E a \in Publisher : Secured' = Secured \cup {a}
<1>1. CASE UNCHANGED vars
  BY <1>1 DEF Secured, Dependable, vars
<1>2. CASE Next
  <2>0. PICK a \in Publisher : Step(a) \/ Abort(a) \/ Rerun(a)
    BY <1>2 DEF Next
  <2>v. env' = env /\ Dependable' = Dependable
    BY EnvFixed DEF Dependable
  <2>1. \A p \in Publisher \ {a} : pc'[p] = pc[p]
    BY <2>0 DEF TypeOK, Step, PushLayer, PackManifest, PushReferrer, TagPlatform,
       ReadIndex, ListTags, FetchTag, WriteIndex, Verify, Confirm, EnsureIndexed,
       Abort, Rerun, Retry, Goto
  <2>2. a \in Secured => a \in Secured'
    <3>1. SUFFICES ASSUME a \in Secured PROVE a \in Secured'
      OBVIOUS
    <3> USE <2>v
    <3>2. pc[a] = "ensured" => pc'[a] = "ensured"
      BY <2>0 DEF TypeOK, Step, PushLayer, PackManifest, PushReferrer,
         TagPlatform, ReadIndex, ListTags, FetchTag, WriteIndex, Verify, Confirm,
         EnsureIndexed, Abort, Rerun, Goto, Ended
    <3>3. CASE pc[a] = "done"
      <4>1. NamedFor(a, index)
        BY <3>1 DEF SecureInv, SecuredListed, NamedFor
      <4>2. indexHasManifest(index, ManifestOf[a]) /\ IndexReads = {index}
        BY <3>1, <4>1, Constants
        DEF indexHasManifest, NamedFor, IndexReads, Dependable, Secured
      <4>3. CASE EnsureIndexed(a)
        BY <3>1, <4>2, <4>3 DEF EnsureIndexed, Goto, TypeOK, Secured
      <4>4. CASE UNCHANGED pc
        BY <3>1, <4>4 DEF Secured
      <4>5. QED
        BY <2>0, <3>3, <4>3, <4>4 DEF TypeOK, Step, PushLayer, PackManifest,
           PushReferrer, TagPlatform, ReadIndex, ListTags, FetchTag, WriteIndex,
           Verify, Confirm, Abort, Rerun, Goto, Ended
    <3>4. QED
      BY <3>1, <3>2, <3>3 DEF Secured
  <2>3. a \in Secured' => a \in Secured \/ UNCHANGED index
    BY <2>0, <2>v DEF TypeOK, Secured, Step, PushLayer, PackManifest, PushReferrer,
       TagPlatform, ReadIndex, ListTags, FetchTag, WriteIndex, Verify, Confirm,
       EnsureIndexed, Abort, Rerun, Goto, registry
  <2>4. QED
    BY <2>1, <2>2, <2>3, <2>v DEF Secured
<1>3. QED
  BY <1>1, <1>2

LEMMA ListingInit ==
  ASSUME Init, TypeOK, SecureInv, LegacyInv
  PROVE  Reader!Init
<1>1. LegacyKept /\ SecuredListed
  BY DEF LegacyInv, LegacyKept, LegacySecured, SecureInv
<1>2. QED
  BY <1>1, PromisedType, PromisedKept DEF Reader!Init, TypeOK, Listing

LEMMA ListingNext ==
  ASSUME TypeOK, SecureInv, TypeOK', SecuredListed', LegacyKept',
         [Next]_vars
  PROVE  [Reader!Next]_<<index, Promised>>
<1>0. LegacySecured' = LegacySecured
  BY EnvFixed DEF LegacySecured
<1>1. CASE Secured' = Secured
  <2>1. Promised' = Promised
    BY <1>0, <1>1 DEF Promised
  <2>2. index' \in [Platform -> Manifest \cup {None}]
    BY DEF TypeOK, Listing
  <2>3. \A e \in Promised : index'[e[1]] = e[2]
    BY <1>0, <1>1 DEF SecuredListed, LegacyKept, Promised
  <2>4. Reader!Rewrite
    BY <2>1, <2>2, <2>3 DEF Reader!Rewrite, Reader!Keeps
  <2>5. QED
    BY <2>4 DEF Reader!Next
<1>2. CASE UNCHANGED index /\ \E a \in Publisher : Secured' = Secured \cup {a}
  <2>1. PICK a \in Publisher : Secured' = Secured \cup {a}
    BY <1>2
  <2>2. Promised' = Promised \cup {<<PlatformOf[a], ManifestOf[a]>>}
    BY <1>0, <2>1 DEF Promised
  <2>3. index[PlatformOf[a]] = ManifestOf[a]
    BY <1>2, <2>1 DEF SecuredListed
  <2>4. Reader!Promise(PlatformOf[a], ManifestOf[a])
    BY <1>2, <2>2, <2>3 DEF Reader!Promise
  <2>5. QED
    BY <2>4, Constants DEF Reader!Next
<1>3. QED
  BY <1>1, <1>2, SecuredGrows

(* A reader of the version tag sees a listing whose promises are kept: the   *)
(* racing publishers implement VersionListing.                               *)
THEOREM ListingKeptHolds == OneJobPerPlatform => (Spec => ListingKept)
<1> SUFFICES ASSUME OneJobPerPlatform
             PROVE  Spec => ListingKept
  OBVIOUS
<1>1. TypeOK /\ SecureInv /\ LegacyInv /\ Init => Reader!Init
  BY ListingInit
<1>2. SecureInv => SecuredListed
  BY DEF SecureInv
<1>3. TypeOK /\ SecureInv /\ TypeOK' /\ SecuredListed' /\ LegacyKept' /\ [Next]_vars
        => [Reader!Next]_<<index, Promised>>
  BY ListingNext
<1>4. Init => LegacyInv
  BY LegacyInit
<1>5. QED
  BY <1>1, <1>2, <1>3, <1>4, LegacyKeptHolds, TypeCorrect, SecureCorrect, PTL
  DEF Spec, ListingKept, Reader!Spec
=============================================================================
