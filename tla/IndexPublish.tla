---------------------------- MODULE IndexPublish ----------------------------
(***************************************************************************)
(* Publishing one version of one project to an OCI registry (oci.go,       *)
(* ensure.go).  Several publishers, one per platform, push their bottle    *)
(* and then race on the version tag: an image index that each of them      *)
(* reads, recomposes and rewrites with no lock in the registry.            *)
(*                                                                         *)
(* Every registry call is a step of its own.  A publisher that dies, or    *)
(* whose call fails for good, aborts between two calls; a call that took   *)
(* effect and whose reply was lost is the call followed by the abort.      *)
(***************************************************************************)
EXTENDS Naturals, FiniteSets

CONSTANTS
  Publisher,      \* the jobs that publish this version
  Platform,       \* os/arch pairs
  Manifest,       \* digests of per-platform image manifests
  Ref,            \* attestations: signatures, SBOMs, provenance
  None,           \* no manifest
  PlatformOf,     \* the platform a publisher builds for
  ManifestOf,     \* the manifest its bottle packs to
  RefsOf,         \* the attestations it attaches
  SeedIndex,      \* what the version tag lists before anyone starts
  SeedTags,       \* the platform tags that exist before anyone starts
  Environments,   \* what registry, clock and batch may be like
  MaxAttempts,    \* indexRetryAttempts
  MaxReruns       \* bound: how often an aborted job is run again

(* An environment says which reads may fail although the publisher goes    *)
(* on, whether publishers may die between two calls, whether indexSettle   *)
(* outlasts every write in flight when it starts, and whether              *)
(* EnsureIndexed is run as its comment asks: once the batch is over.       *)
Environment == [faults : SUBSET {"read", "list", "fetch"},
                abort : BOOLEAN, settle : BOOLEAN, barrier : BOOLEAN]

Listing == [Platform -> Manifest \cup {None}]

ASSUME PublishAssumption ==
  /\ None \notin Manifest
  /\ PlatformOf \in [Publisher -> Platform]
  /\ ManifestOf \in [Publisher -> Manifest]
  /\ RefsOf \in [Publisher -> SUBSET Ref]
  /\ SeedIndex \in Listing
  /\ SeedTags \in Listing
  /\ Environments \subseteq Environment
  /\ MaxAttempts \in Nat \ {0}
  /\ MaxReruns \in Nat

VARIABLES
  layers,      \* manifests whose tarball layer is stored
  manifests,   \* manifests that are stored
  referrers,   \* <<manifest, attestation>> pairs that are stored
  tags,        \* platform tags: `<ver>--<os>-<arch>`
  index,       \* the image index under the version tag
  pc,          \* what each publisher does next
  left,        \* attestations it has still to push
  idx,         \* the index it is composing
  todo,        \* platform tags it has listed and not yet resolved
  attempt,     \* reconcile attempts it has used up
  racers,      \* writers in flight when its settle window opened
  ensuring,    \* it is in EnsureIndexed rather than in push
  reruns,      \* how often its job was run again
  env          \* the environment of this behaviour

registry == <<layers, manifests, referrers, tags, index>>
vars == <<registry, pc, left, idx, todo, attempt, racers, ensuring, reruns, env>>

Pushing == {"layer", "manifest", "referrers"}
Merging == {"read", "list", "fetch", "verify", "settle"}
Ended == {"done", "failed", "exhausted", "ensured"}

TypeOK ==
  /\ layers \subseteq Manifest
  /\ manifests \subseteq Manifest
  /\ referrers \subseteq Manifest \X Ref
  /\ tags \in Listing
  /\ index \in Listing
  /\ pc \in [Publisher -> Pushing \cup Merging \cup Ended]
  /\ left \in [Publisher -> SUBSET Ref]
  /\ idx \in [Publisher -> Listing]
  /\ todo \in [Publisher -> SUBSET Platform]
  /\ attempt \in [Publisher -> 0 .. MaxAttempts - 1]
  /\ racers \in [Publisher -> SUBSET Publisher]
  /\ ensuring \in [Publisher -> BOOLEAN]
  /\ reruns \in [Publisher -> 0 .. MaxReruns]
  /\ env \in Environments

FreshIndex == [pl \in Platform |-> None]
Listed(listing) == {pl \in Platform : listing[pl] # None}
Seeds == {SeedIndex[pl] : pl \in Listed(SeedIndex)}
            \cup {SeedTags[pl] : pl \in Listed(SeedTags)}

Init ==
  /\ layers = Seeds
  /\ manifests = Seeds
  /\ referrers = Seeds \X Ref
  /\ tags = SeedTags
  /\ index = SeedIndex
  /\ pc = [p \in Publisher |-> "layer"]
  /\ left = RefsOf
  /\ idx = [p \in Publisher |-> FreshIndex]
  /\ todo = [p \in Publisher |-> {}]
  /\ attempt = [p \in Publisher |-> 0]
  /\ racers = [p \in Publisher |-> {}]
  /\ ensuring = [p \in Publisher |-> FALSE]
  /\ reruns = [p \in Publisher |-> 0]
  /\ env \in Environments

Goto(p, label) == pc' = [pc EXCEPT ![p] = label]

-----------------------------------------------------------------------------
(* push: the bottle, its manifest, its attestations, its platform tag.     *)

PushLayer(p) ==
  /\ pc[p] = "layer"
  /\ layers' = layers \cup {ManifestOf[p]}
  /\ Goto(p, "manifest")
  /\ UNCHANGED <<manifests, referrers, tags, index, left, idx, todo, attempt,
                 racers, ensuring, reruns, env>>

PackManifest(p) ==
  /\ pc[p] = "manifest"
  /\ manifests' = manifests \cup {ManifestOf[p]}
  /\ Goto(p, "referrers")
  /\ UNCHANGED <<layers, referrers, tags, index, left, idx, todo, attempt,
                 racers, ensuring, reruns, env>>

PushReferrer(p, r) ==
  /\ pc[p] = "referrers"
  /\ r \in left[p]
  /\ referrers' = referrers \cup {<<ManifestOf[p], r>>}
  /\ left' = [left EXCEPT ![p] = @ \ {r}]
  /\ UNCHANGED <<layers, manifests, tags, index, pc, idx, todo, attempt,
                 racers, ensuring, reruns, env>>

(* Every attestation of the push is attached before anything names it.     *)
AttachedEarly(p) == TRUE
Attached(p) == left[p] = {}

TagPlatform(p) ==
  /\ pc[p] = "referrers"
  /\ Attached(p)
  /\ tags' = [tags EXCEPT ![PlatformOf[p]] = ManifestOf[p]]
  /\ attempt' = [attempt EXCEPT ![p] = 0]
  /\ Goto(p, "read")
  /\ UNCHANGED <<layers, manifests, referrers, index, left, idx, todo, racers,
                 ensuring, reruns, env>>

-----------------------------------------------------------------------------
(* mergePlatformIntoIndex: read, recompose, write, confirm twice.          *)

IndexReads == {index} \cup (IF "read" \in env.faults THEN {FreshIndex} ELSE {})

ReadIndex(p) ==
  /\ pc[p] = "read"
  /\ \E seen \in IndexReads : idx' = [idx EXCEPT ![p] = seen]
  /\ Goto(p, "list")
  /\ UNCHANGED <<registry, left, todo, attempt, racers, ensuring, reruns, env>>

(* platformManifests: a registry that will not list its tags yields none.  *)
TagListingsNone == {{}}
TagListings == {Listed(tags)} \cup (IF "list" \in env.faults THEN {{}} ELSE {})

ListTags(p) ==
  /\ pc[p] = "list"
  /\ \E names \in TagListings : todo' = [todo EXCEPT ![p] = names]
  /\ Goto(p, "fetch")
  /\ UNCHANGED <<registry, left, idx, attempt, racers, ensuring, reruns, env>>

upsertPlatformAlone(listing, pl, m) == [FreshIndex EXCEPT ![pl] = m]
upsertPlatform(listing, pl, m) == [listing EXCEPT ![pl] = m]

FetchTag(p, pl) ==
  /\ pc[p] = "fetch"
  /\ pl \in todo[p]
  /\ todo' = [todo EXCEPT ![p] = @ \ {pl}]
  /\ \/ idx' = [idx EXCEPT ![p] = upsertPlatform(@, pl, tags[pl])]
     \/ "fetch" \in env.faults /\ UNCHANGED idx
  /\ UNCHANGED <<registry, pc, left, attempt, racers, ensuring, reruns, env>>

(* Whoever waits for the writes in flight no longer waits for p's.         *)
Landed(p) == [q \in Publisher |-> racers[q] \ {p}]

WriteIndex(p) ==
  /\ pc[p] = "fetch"
  /\ todo[p] = {}
  /\ index' = upsertPlatform(idx[p], PlatformOf[p], ManifestOf[p])
  /\ idx' = [idx EXCEPT ![p] = FreshIndex]
  /\ racers' = Landed(p)
  /\ Goto(p, "verify")
  /\ UNCHANGED <<layers, manifests, referrers, tags, left, todo, attempt,
                 ensuring, reruns, env>>

(* The comparison is by digest alone: any platform's entry will do.        *)
indexHasAny(listing, m) == \E pl \in Platform : listing[pl] # None
indexHasManifest(listing, m) == \E pl \in Platform : listing[pl] = m

Retry(p) ==
  IF attempt[p] + 1 < MaxAttempts
  THEN /\ attempt' = [attempt EXCEPT ![p] = @ + 1]
       /\ Goto(p, "read")
  ELSE /\ Goto(p, "exhausted")
       /\ UNCHANGED attempt

InFlight == {q \in Publisher : pc[q] \in {"list", "fetch"}}

Verify(p) ==
  /\ pc[p] = "verify"
  /\ \E seen \in IndexReads :
       IF indexHasManifest(seen, ManifestOf[p])
       THEN /\ Goto(p, "settle")
            /\ racers' = [racers EXCEPT ![p] = InFlight]
            /\ UNCHANGED attempt
       ELSE Retry(p) /\ UNCHANGED racers
  /\ UNCHANGED <<registry, left, idx, todo, ensuring, reruns, env>>

(* indexSettle, then the second read.  Where the window covers the writes  *)
(* that were in flight when it opened, it has waited them out.             *)
Confirm(p) ==
  /\ pc[p] = "settle"
  /\ env.settle => racers[p] = {}
  /\ racers' = [racers EXCEPT ![p] = {}]
  /\ \E seen \in IndexReads :
       IF indexHasManifest(seen, ManifestOf[p])
       THEN /\ Goto(p, IF ensuring[p] THEN "ensured" ELSE "done")
            /\ UNCHANGED attempt
       ELSE Retry(p)
  /\ UNCHANGED <<registry, left, idx, todo, ensuring, reruns, env>>

-----------------------------------------------------------------------------
(* EnsureIndexed, and what happens to a publisher from outside.            *)

BatchOver == \A q \in Publisher : ensuring[q] \/ pc[q] \in Ended

EnsureIndexed(p) ==
  /\ pc[p] = "done"
  /\ env.barrier => BatchOver
  /\ ensuring' = [ensuring EXCEPT ![p] = TRUE]
  /\ attempt' = [attempt EXCEPT ![p] = 0]
  /\ \E seen \in IndexReads :
       Goto(p, IF indexHasManifest(seen, ManifestOf[p]) THEN "ensured" ELSE "read")
  /\ UNCHANGED <<registry, left, idx, todo, racers, reruns, env>>

Abort(p) ==
  /\ env.abort
  /\ pc[p] \notin Ended
  /\ Goto(p, "failed")
  /\ idx' = [idx EXCEPT ![p] = FreshIndex]
  /\ todo' = [todo EXCEPT ![p] = {}]
  /\ racers' = [Landed(p) EXCEPT ![p] = {}]
  /\ UNCHANGED <<registry, left, attempt, ensuring, reruns, env>>

(* The job is run again from the start; every push is of bytes the         *)
(* registry may already hold.                                              *)
Rerun(p) ==
  /\ pc[p] \in {"failed", "exhausted"}
  /\ reruns[p] < MaxReruns
  /\ ~ensuring[p]
  /\ env.barrier => \A q \in Publisher : ~ensuring[q]
  /\ reruns' = [reruns EXCEPT ![p] = @ + 1]
  /\ left' = [left EXCEPT ![p] = RefsOf[p]]
  /\ Goto(p, "layer")
  /\ UNCHANGED <<registry, idx, todo, attempt, racers, ensuring, env>>

Step(p) ==
  \/ PushLayer(p)
  \/ PackManifest(p)
  \/ \E r \in Ref : PushReferrer(p, r)
  \/ TagPlatform(p)
  \/ ReadIndex(p)
  \/ ListTags(p)
  \/ \E pl \in Platform : FetchTag(p, pl)
  \/ WriteIndex(p)
  \/ Verify(p)
  \/ Confirm(p)
  \/ EnsureIndexed(p)

Next == \E p \in Publisher : Step(p) \/ Abort(p) \/ Rerun(p)

Spec == Init /\ [][Next]_vars

(* A publisher that is neither killed nor stuck in a call keeps going.     *)
FairSpec == Spec /\ \A p \in Publisher : WF_vars(Step(p))

-----------------------------------------------------------------------------
(* What publishing promises.                                               *)

(* The batch as the code expects it: a platform has one job, and no two    *)
(* platforms pack to the same manifest.                                    *)
OneJobPerPlatform ==
  /\ \A p, q \in Publisher :
       p # q => PlatformOf[p] # PlatformOf[q] /\ ManifestOf[p] # ManifestOf[q]
  /\ \A p \in Publisher, pl \in Platform :
       pl # PlatformOf[p] => ManifestOf[p] \notin {SeedIndex[pl], SeedTags[pl]}

(* Platforms published before platform tags existed, which nobody in this  *)
(* batch publishes again.                                                  *)
Legacy == {pl \in Listed(SeedIndex) :
             SeedTags[pl] = None /\ \A p \in Publisher : PlatformOf[p] # pl}

(* No read fails, and either the settle window covers the writes in flight *)
(* or EnsureIndexed is run once the batch is over.                         *)
Dependable == env.faults = {} /\ (env.settle \/ env.barrier)

(* The publishers that were told their platform is published and may rely  *)
(* on it: told by EnsureIndexed, or already by push where its settle       *)
(* window suffices.                                                        *)
Secured == {p \in Publisher : Dependable /\ \/ pc[p] = "ensured"
                                            \/ pc[p] = "done" /\ env.settle}

LegacySecured == {pl \in Legacy : "read" \notin env.faults}

(* What a reader of the version tag may rely on: see VersionListing.       *)
Promised == {<<PlatformOf[p], ManifestOf[p]>> : p \in Secured}
              \cup {<<pl, SeedIndex[pl]>> : pl \in LegacySecured}

(* A manifest that a tag or the index names for a publisher's platform is  *)
(* complete: its layer is stored, it is stored, and every attestation the  *)
(* publisher attaches is already there (PushWithReferrers, oci.go).        *)
AttestedBeforeListed ==
  \A p \in Publisher :
    ManifestOf[p] \in {tags[PlatformOf[p]], index[PlatformOf[p]]} =>
      /\ ManifestOf[p] \in layers \cap manifests
      /\ {ManifestOf[p]} \X RefsOf[p] \subseteq referrers

(* A publisher that was told it succeeded stays listed, whoever races it   *)
(* and whoever dies: neither a late write nor a later recomposition drops  *)
(* it (mergePlatformIntoIndex, EnsureIndexed).                             *)
SecuredListed ==
  \A p \in Secured : index[PlatformOf[p]] = ManifestOf[p]

(* Versions published before platform tags existed keep their entries: the *)
(* index's own contents are merged in (oci.go, mergePlatformIntoIndex).    *)
LegacySurvives == \A pl \in Legacy : index[pl] = SeedIndex[pl]

(* They do where no read of the index fails, even in a registry that lists *)
(* no tags.                                                                *)
LegacyKept == \A pl \in LegacySecured : index[pl] = SeedIndex[pl]

(* A publisher is never told that its platform did not survive as long as  *)
(* it has as many attempts as there are publishers: each rival can clobber *)
(* it with one write composed from a listing that predates its tag.        *)
ReconcileConverges ==
  env.faults = {} /\ MaxAttempts >= Cardinality(Publisher) =>
    \A p \in Publisher : pc[p] # "exhausted"

(* Once its batch is over and checked, every platform is listed for good.  *)
EventuallyListed ==
  \A p \in Publisher : <>[](index[PlatformOf[p]] = ManifestOf[p])

(* The version tag implements a listing that keeps its promises.           *)
Reader == INSTANCE VersionListing WITH listing <- index, promised <- Promised

ListingKept == Reader!Spec
=============================================================================
