-------------------------------- MODULE Trust --------------------------------
(***************************************************************************)
(* Who vouches for a bottle (trust.go, verify.go, attest.go and the reads  *)
(* of oci.go): builders attach signatures to a published manifest, a copy  *)
(* is mirrored to another registry, and a client that pulled a bottle      *)
(* loads its trust set, lists the referrers of what the tag names by now,  *)
(* fetches them one by one and counts distinct keys against a threshold.   *)
(*                                                                         *)
(* Cryptography is abstract: a signature is by one key over a payload that *)
(* names one bottle.  The order of a listing is the registry's.            *)
(***************************************************************************)
EXTENDS Naturals, Sequences, FiniteSets

CONSTANTS
  Key,             \* public keys
  Digest,          \* bottles, by content
  Manifest,        \* published manifests
  LayerOf,         \* the bottle of a manifest, or None
  Ref,             \* the attestations that may be attached
  Builder,         \* what a provenance statement may name
  DefaultKeys,     \* the project's current key and those it retired
  RevokedKeys,     \* keys of the project that are not believed any more
  Envs,            \* configurations a client may run under
  Questions,       \* what it may ask
  MaxTrustedKeys,
  MaxSignatures,
  MaxAttached,     \* bound: how much is attached to each manifest
  None

Site == {"origin", "mirror"}
Bad == "unparsable"
Entry == Key \cup {Bad}
Env == [keys : Seq(Entry), extra : Seq(Entry), threshold : Nat \cup {None}]

(* A referrer of either kind may lack its layer, a signature its           *)
(* annotation.  The key id beside a signature is what its pusher wrote.    *)
Attestation ==
  [kind : {"signature"}, form : {"whole", "bare", "layerless"},
   key : Key, digest : Digest, hint : Key \cup {None}]
Provenance == [kind : {"provenance"}, form : {"whole", "layerless"},
               builder : Builder \cup {None}]

ASSUME TrustAssumption ==
  /\ LayerOf \in [Manifest -> Digest \cup {None}]
  /\ Ref \subseteq Attestation \cup Provenance
  /\ DefaultKeys \subseteq Key /\ RevokedKeys \subseteq Key
  /\ IsFiniteSet(Key) /\ IsFiniteSet(Ref)
  /\ Envs \subseteq Env
  /\ Questions \subseteq [site : Site, by : {"digest"}, digest : Digest]
                            \cup [site : Site, by : {"tag"}, digest : {None}]
  /\ MaxTrustedKeys \in Nat /\ MaxSignatures \in Nat
  /\ MaxAttached \in [Manifest -> Nat]
  /\ None \notin Key \cup Digest \cup Manifest \cup Builder \cup Nat

VARIABLES
  tag,       \* the manifest that the platform tag of each registry names
  refs,      \* the referrers of each manifest there
  mirror,    \* the copy in progress: of what, listed and fetched
  env,       \* the configuration of the client
  pc,        \* what the client does next
  query,     \* what it asks about: a registry, a bottle or what the tag names
  trust,     \* the trust set it loaded
  target,    \* the manifest it resolved
  listed,    \* the referrers the registry listed
  atts,      \* signatures fetched and not yet counted
  report,    \* what it has found
  builder,   \* what a listing says built the bottle
  result,    \* its verdict
  vouched    \* history: what was accepted, where

registry == <<tag, refs>>
client == <<env, pc, query, trust, target, listed, atts, report,
            builder, result, vouched>>
vars == <<registry, mirror, client>>

Nobody == [signers |-> {}, untrusted |-> 0, malformed |-> 0, revoked |-> {}]
Idle == [manifest |-> None, listed |-> {}, fetched |-> {}]
NoTrust == [signers |-> {}, threshold |-> 1]

TypeOK ==
  /\ tag \in [Site -> Manifest]
  /\ refs \in [Site -> [Manifest -> SUBSET Ref]]
  /\ mirror \in [manifest : Manifest \cup {None}, listed : SUBSET Ref, fetched : SUBSET Ref]
  /\ env \in Env
  /\ pc \in {"load", "resolve", "list", "fetch", "count", "builder", "done"}
  /\ query \in [site : Site, by : {"digest", "tag"}, digest : Digest \cup {None}]
  /\ trust \in [signers : SUBSET Key, threshold : Nat]
  /\ target \in Manifest \cup {None}
  /\ listed \in SUBSET Ref /\ atts \in SUBSET Ref
  /\ report \in [signers : SUBSET Key, untrusted : Nat, malformed : Nat,
                 revoked : SUBSET Key]
  /\ builder \in Builder \cup {None}
  /\ result \in {"none", "error", "accepted", "unsigned", "short"}
  /\ vouched \in SUBSET (Site \X Manifest \X (Digest \cup {None}))

Init ==
  /\ tag \in {[s \in Site |-> m] : m \in Manifest}
  /\ refs = [s \in Site |-> [m \in Manifest |-> {}]]
  /\ mirror = Idle
  /\ env \in Envs
  /\ pc = "load"
  /\ query \in Questions
  /\ trust = NoTrust
  /\ target = None
  /\ listed = {} /\ atts = {}
  /\ report = Nobody
  /\ builder = None
  /\ result = "none"
  /\ vouched = {}

-----------------------------------------------------------------------------
(* The trust set.                                                          *)

Elements(s) == {s[i] : i \in DOMAIN s}
Parses(list) == Len(list) <= MaxTrustedKeys /\ Bad \notin Elements(list)

WithoutRevoked(keys) == keys \ RevokedKeys
DefaultTrustSet == [signers |-> WithoutRevoked(DefaultKeys), threshold |-> 1]

(* One entry per key id, however often the lists name it.                  *)
Configured(e) ==
  (IF e.keys = <<>> THEN DefaultTrustSet.signers ELSE Elements(e.keys))
    \cup Elements(e.extra)
Threshold(e) ==
  IF e.threshold = None THEN DefaultTrustSet.threshold ELSE e.threshold
Loads(e) ==
  /\ Parses(e.keys) /\ Parses(e.extra)
  /\ Threshold(e) >= 1
  /\ Threshold(e) <= Cardinality(Configured(e))

-----------------------------------------------------------------------------
(* What one signature is worth.                                            *)

CommitsTo(a, digest) == a.digest = digest
Verifies(k, a, digest) == a.key = k /\ CommitsTo(a, digest)

RevokedBy(a, digest) == {k \in RevokedKeys : Verifies(k, a, digest)}

(* The hinted key first, and then every other.                             *)
VerifyOne(a, digest) ==
  LET verifying == {k \in trust.signers : Verifies(k, a, digest)}
      hinted == {k \in verifying : k = a.hint}
  IN  IF hinted # {} THEN hinted ELSE verifying

(* As it would be if the operator's list came before revocation.         *)
CountOneConfigured(rep, a, digest) ==
  LET by == VerifyOne(a, digest)
  IN  IF by # {} THEN [rep EXCEPT !.signers = @ \cup by]
      ELSE [rep EXCEPT !.untrusted = @ + 1]

(* Revocation first; then a key counts once, and a stranger not at all.    *)
CountOne(rep, a, digest) ==
  LET revoked == RevokedBy(a, digest)
      by == VerifyOne(a, digest)
  IN  IF revoked # {} THEN [rep EXCEPT !.revoked = @ \cup revoked]
      ELSE IF by = {} THEN [rep EXCEPT !.untrusted = @ + 1]
      ELSE [rep EXCEPT !.signers = @ \cup by]

Signed(rep) ==
  rep.signers # {} \/ rep.untrusted > 0 \/ rep.malformed > 0 \/ rep.revoked # {}

(* As it would be if a stranger could spoil a verdict.                     *)
VerdictUnanimous(rep) ==
  IF Cardinality(rep.signers) >= trust.threshold /\ rep.untrusted = 0 THEN "accepted"
  ELSE IF Signed(rep) THEN "short" ELSE "unsigned"
Verdict(rep) ==
  IF Cardinality(rep.signers) >= trust.threshold THEN "accepted"
  ELSE IF Signed(rep) THEN "short" ELSE "unsigned"

-----------------------------------------------------------------------------
(* The registry, its builders and the mirror.                              *)

(* A job publishes another manifest under the tag.                         *)
Republish(m) ==
  /\ tag["origin"] # m
  /\ tag' = [tag EXCEPT !["origin"] = m]
  /\ UNCHANGED <<refs, mirror, client>>

(* AttachReferrer attaches to the manifest it resolved, which the tag may  *)
(* not name any more.                                                      *)
AttachReferrer(m, r) ==
  /\ Cardinality(refs["origin"][m]) < MaxAttached[m]
  /\ refs' = [refs EXCEPT !["origin"][m] = @ \cup {r}]
  /\ UNCHANGED <<tag, mirror, client>>

(* As it would be if only signatures that name their key were carried.     *)
CarriedHinted(r) ==
  IF r.form = "layerless" \/ (r.kind = "signature" /\ r.hint = None) THEN {} ELSE {r}
(* referrerFrom: an attestation without a payload is skipped.              *)
Carried(r) == IF r.form = "layerless" THEN {} ELSE {r}

(* FetchAttestations: all that is attached to the manifest it resolved; a  *)
(* call that fails ends it with nothing.                                   *)
FetchAttestations(m) ==
  /\ mirror = Idle
  /\ mirror' = [manifest |-> m, listed |-> refs["origin"][m],
                fetched |-> UNION {Carried(r) : r \in refs["origin"][m]}]
  /\ UNCHANGED <<registry, client>>

(* The push of it all at the other registry.                               *)
MirrorPush ==
  /\ mirror # Idle
  /\ refs' = [refs EXCEPT !["mirror"][mirror.manifest] = @ \cup mirror.fetched]
  /\ tag' = [tag EXCEPT !["mirror"] = mirror.manifest]
  /\ mirror' = Idle
  /\ UNCHANGED client

-----------------------------------------------------------------------------
(* The client: SignaturesOfDigest for a bottle it pulled, ProvenanceOfTag  *)
(* for a listing.                                                          *)

Answer(verdict) == result' = verdict /\ pc' = "done"

Load ==
  /\ pc = "load"
  /\ IF Loads(env)
     THEN /\ trust' = [signers |-> Configured(env), threshold |-> Threshold(env)]
          /\ pc' = "resolve"
          /\ UNCHANGED result
     ELSE Answer("error") /\ UNCHANGED trust
  /\ UNCHANGED <<registry, mirror, env, query, target, listed, atts,
                 report, builder, vouched>>

(* The bottle a signature has to name.                                     *)
BottleDigest == IF query.by = "tag" THEN LayerOf[target] ELSE query.digest

Resolve ==
  /\ pc = "resolve"
  /\ target' = tag[query.site]
  /\ IF query.by = "tag" /\ LayerOf[tag[query.site]] = None
     THEN Answer("error")
     ELSE pc' = "list" /\ UNCHANGED result
  /\ UNCHANGED <<registry, mirror, env, query, trust, listed, atts, report, builder, vouched>>

List ==
  /\ pc = "list"
  /\ listed' = refs[query.site][target]
  /\ pc' = "fetch"
  /\ UNCHANGED <<registry, mirror, env, query, trust, target, atts,
                 report, builder, result, vouched>>

(* Every signature is fetched, or none counts: more of them than it will   *)
(* examine are refused and not cut.  The broken ones are told apart.       *)
Fetch ==
  /\ pc = "fetch"
  /\ LET signatures == {r \in listed : r.kind = "signature"}
         readable == {r \in signatures : r.form = "whole"}
     IN  IF Cardinality(signatures) > MaxSignatures
         THEN Answer("error") /\ UNCHANGED <<atts, report>>
         ELSE /\ atts' = readable
              /\ report' = [report EXCEPT !.malformed =
                              Cardinality(signatures) - Cardinality(readable)]
              /\ pc' = "count"
              /\ UNCHANGED result
  /\ UNCHANGED <<registry, mirror, env, query, trust, target, listed,
                 builder, vouched>>

Count(a) ==
  /\ pc = "count" /\ a \in atts
  /\ report' = CountOne(report, a, BottleDigest)
  /\ atts' = atts \ {a}
  /\ UNCHANGED <<registry, mirror, env, pc, query, trust, target,
                 listed, builder, result, vouched>>

Counted ==
  /\ pc = "count" /\ atts = {}
  /\ result' = Verdict(report)
  /\ vouched' = IF Verdict(report) = "accepted"
                THEN vouched \cup {<<query.site, target, BottleDigest>>}
                ELSE vouched
  /\ pc' = IF query.by = "tag" THEN "builder" ELSE "done"
  /\ UNCHANGED <<registry, mirror, env, query, trust, target, listed,
                 atts, report, builder>>

(* builderFrom: the first statement that can be read and names a builder.  *)
NamedBuilders == {r.builder : r \in {p \in listed : p.kind = "provenance" /\ p.form = "whole"}}
BuilderFrom ==
  /\ pc = "builder"
  /\ builder' \in NamedBuilders \cup {None}
  /\ pc' = "done"
  /\ UNCHANGED <<registry, mirror, env, query, trust, target, listed,
                 atts, report, result, vouched>>

(* Any call of the registry may fail, and that is not a verdict.           *)
CallFails ==
  /\ pc \in {"resolve", "list", "fetch"}
  /\ Answer("error")
  /\ UNCHANGED <<registry, mirror, env, query, trust, target, listed,
                 atts, report, builder, vouched>>

(* The client asks again, about the same or about something else.          *)
Ask(q) ==
  /\ pc = "done"
  /\ query' = q
  /\ pc' = "load"
  /\ trust' = NoTrust
  /\ target' = None
  /\ listed' = {} /\ atts' = {}
  /\ report' = Nobody
  /\ builder' = None
  /\ result' = "none"
  /\ UNCHANGED <<registry, mirror, env, vouched>>

Next ==
  \/ \E m \in Manifest : Republish(m)
  \/ \E m \in Manifest, r \in Ref : AttachReferrer(m, r)
  \/ \E m \in Manifest : FetchAttestations(m)
  \/ MirrorPush
  \/ Load \/ Resolve \/ List
  \/ Fetch
  \/ \E r \in Ref : Count(r)
  \/ Counted \/ BuilderFrom \/ CallFails
  \/ \E q \in Questions : Ask(q)

Spec == Init /\ [][Next]_vars

-----------------------------------------------------------------------------
(* Properties.                                                             *)

(* The keys that can vouch for a bottle by a set of attestations: trusted, *)
(* not revoked, and having really signed a payload that names it.          *)
Vouchers(S, digest) ==
  {k \in trust.signers \ RevokedKeys :
     \E r \in S : /\ r.kind = "signature" /\ r.form = "whole"
                  /\ r.key = k /\ r.digest = digest}

(* The verdict of Count and Err (trust.go) depends on what was attached    *)
(* and on nothing else: neither on the order of the listing, nor on a key  *)
(* that signed twice, a stranger's signature, a key id that lies, a broken *)
(* referrer or a key that was revoked, even one the operator configured.   *)
VerdictIsCount ==
  pc \in {"builder", "done"} /\ result # "error" =>
    (result = "accepted"
       <=> Cardinality(Vouchers(listed, BottleDigest)) >= Threshold(env))

(* AttachReferrer and push only add: a bottle that was accepted is not     *)
(* refused later by the same policy.  What anybody attaches meanwhile can  *)
(* at most make the client decline to look (MaxSignatures).                *)
AcceptedStays ==
  pc \in {"builder", "done"} /\ result \in {"short", "unsigned"} =>
    <<query.site, target, BottleDigest>> \notin vouched

(* A mirrored bottle carries every signature that its original had when it *)
(* was copied, or the copy is not made at all (FetchAttestations).         *)
MirrorIsWhole ==
  [][tag'["mirror"] # tag["mirror"] \/ refs'["mirror"] # refs["mirror"]
       => \A k \in Key, d \in Digest :
            (\E r \in mirror.listed : r.kind = "signature" /\ r.form = "whole"
                                        /\ Verifies(k, r, d))
              => \E r \in refs'["mirror"][mirror.manifest] :
                   r.kind = "signature" /\ r.form = "whole" /\ Verifies(k, r, d)]_vars
=============================================================================
