---------------------------- MODULE TrustProofs ----------------------------
(* Theorems about Trust, for any keys, bottles, attestations, bounds and   *)
(* configurations.                                                         *)
EXTENDS Trust, FiniteSetTheorems, TLAPS

-----------------------------------------------------------------------------
(* What the configuration of the client believes of a set of attestations. *)

Believed(S, digest) ==
  {k \in Configured(env) \ RevokedKeys :
     \E r \in S : /\ r.kind = "signature" /\ r.form = "whole"
                  /\ r.key = k /\ r.digest = digest}

Readable(S) == {r \in S : r.kind = "signature" /\ r.form = "whole"}

Asking == {"resolve", "list", "fetch", "count", "builder"}
Judged == pc = "builder" \/ (pc = "done" /\ result # "error")

(* The client goes by the trust set of its configuration, and vouched for  *)
(* something only where that loaded.                                       *)
PolicyInv ==
  /\ pc \in Asking \/ Judged =>
       /\ Loads(env)
       /\ trust.signers = Configured(env) /\ trust.threshold = Threshold(env)
       /\ target \in Manifest \/ pc = "resolve"
  /\ vouched # {} => Loads(env)

(* The signers found are those of the signatures that were counted.        *)
CountInv ==
  /\ pc \in {"load", "resolve", "list", "fetch"} => report.signers = {}
  /\ pc = "count" =>
       /\ atts \subseteq Readable(listed)
       /\ report.signers = Believed(Readable(listed) \ atts, BottleDigest)
  /\ Judged => /\ report.signers = Believed(listed, BottleDigest)
               /\ result = Verdict(report)

(* What vouched for a bottle is still attached, and what is listed later   *)
(* has it.                                                                 *)
Enough(S, digest) == Cardinality(Believed(S, digest)) >= Threshold(env)
VouchedInv ==
  /\ \A s \in Site, m \in Manifest, d \in Digest \cup {None} :
       <<s, m, d>> \in vouched => Enough(refs[s][m], d)
  /\ pc \in {"fetch", "count"} => listed \subseteq refs[query.site][target]
  /\ pc \in {"fetch", "count"} \/ Judged =>
       (<<query.site, target, BottleDigest>> \in vouched => Enough(listed, BottleDigest))

(* The copy in progress has everything that was listed and can be carried. *)
MirrorInv ==
  mirror # Idle => /\ mirror.manifest \in Manifest
                   /\ mirror.fetched = UNION {Carried(r) : r \in mirror.listed}

IInv == TypeOK /\ PolicyInv /\ CountInv /\ VouchedInv /\ MirrorInv

-----------------------------------------------------------------------------
(* The operators.                                                          *)

(* A configuration that loads is one of keys.                              *)
LEMMA LoadsKeys ==
  ASSUME env \in Env, Loads(env)
  PROVE  Configured(env) \subseteq Key /\ Threshold(env) \in Nat
<1>1. ASSUME NEW list \in Seq(Entry), Parses(list)
      PROVE  Elements(list) \subseteq Key
  BY <1>1 DEF Parses, Elements, Entry
<1>2. env.keys \in Seq(Entry) /\ env.extra \in Seq(Entry)
        /\ env.threshold \in Nat \cup {None}
  BY DEF Env
<1>3. Elements(env.keys) \subseteq Key /\ Elements(env.extra) \subseteq Key
  BY <1>1, <1>2 DEF Loads
<1>4. DefaultTrustSet.signers \subseteq Key /\ DefaultTrustSet.threshold = 1
  BY TrustAssumption DEF DefaultTrustSet, WithoutRevoked
<1>5. Configured(env) \subseteq Key
  BY <1>3, <1>4 DEF Configured
<1>6. Threshold(env) \in Nat
  BY <1>2, <1>4 DEF Threshold
<1>7. QED
  BY <1>5, <1>6

(* More attestations are believed to be of no fewer keys.                  *)
LEMMA BelievedGrows ==
  ASSUME env \in Env, Loads(env), NEW S, NEW T, S \subseteq T, NEW d
  PROVE  /\ Cardinality(Believed(S, d)) \in Nat /\ Cardinality(Believed(T, d)) \in Nat
         /\ Cardinality(Believed(S, d)) <= Cardinality(Believed(T, d))
<1>1. Believed(T, d) \subseteq Key
  BY LoadsKeys DEF Believed
<1>2. Believed(S, d) \subseteq Believed(T, d)
  BY DEF Believed
<1>3. IsFiniteSet(Believed(T, d))
  BY <1>1, FS_Subset, TrustAssumption
<1>4. IsFiniteSet(Believed(S, d))
  BY <1>2, <1>3, FS_Subset
<1>5. QED
  BY <1>2, <1>3, <1>4, FS_Subset, FS_CardinalityType

(* Only whole signatures are believed.                                     *)
LEMMA BelievedReadable ==
  ASSUME NEW S, NEW d
  PROVE  Believed(Readable(S), d) = Believed(S, d)
  BY DEF Believed, Readable

(* One more signature counts for its key, if that is trusted and not       *)
(* revoked, whatever its hint.                                             *)
LEMMA CountOneAdds ==
  ASSUME trust.signers = Configured(env),
         NEW rep, DOMAIN rep = {"signers", "untrusted", "malformed", "revoked"},
         rep = [f \in DOMAIN rep |-> rep[f]],
         NEW a, a.kind = "signature", a.form = "whole",
         NEW S, NEW d, rep.signers = Believed(S, d)
  PROVE  CountOne(rep, a, d).signers = Believed(S \cup {a}, d)
<1> DEFINE revoked == RevokedBy(a, d)
           by == VerifyOne(a, d)
<1>1. by = {k \in Configured(env) : k = a.key /\ a.digest = d}
  BY DEF VerifyOne, Verifies, CommitsTo
<1>2. revoked = {k \in RevokedKeys : k = a.key /\ a.digest = d}
  BY DEF RevokedBy, Verifies, CommitsTo
<1>3. Believed(S \cup {a}, d) = Believed(S, d) \cup (by \ RevokedKeys)
  BY <1>1 DEF Believed
<1>4. CASE revoked # {}
  <2>1. by \ RevokedKeys = {}
    BY <1>1, <1>2, <1>4
  <2>2. CountOne(rep, a, d).signers = rep.signers
    BY <1>4 DEF CountOne
  <2>3. QED
    BY <1>3, <2>1, <2>2
<1>5. CASE revoked = {} /\ by = {}
  <2>1. CountOne(rep, a, d).signers = rep.signers
    BY <1>5 DEF CountOne
  <2>2. QED
    BY <1>3, <1>5, <2>1
<1>6. CASE revoked = {} /\ by # {}
  <2>1. CountOne(rep, a, d).signers = rep.signers \cup by
    BY <1>6 DEF CountOne
  <2>2. by \ RevokedKeys = by
    BY <1>1, <1>2, <1>6
  <2>3. QED
    BY <1>3, <2>1, <2>2
<1>7. QED
  BY <1>4, <1>5, <1>6

-----------------------------------------------------------------------------
(* Every reachable state satisfies the invariant.                          *)

LEMMA InitInv == ASSUME Init PROVE IInv
<1>1. TypeOK
  <2>1. refs \in [Site -> [Manifest -> SUBSET Ref]] /\ tag \in [Site -> Manifest]
    BY DEF Init, Site
  <2>2. query \in [site : Site, by : {"digest", "tag"}, digest : Digest \cup {None}]
    BY TrustAssumption DEF Init
  <2>3. env \in Env
    BY TrustAssumption DEF Init
  <2>4. QED
    BY <2>1, <2>2, <2>3 DEF Init, TypeOK, Idle, NoTrust, Nobody
<1>2. PolicyInv /\ CountInv /\ VouchedInv /\ MirrorInv
  BY DEF Init, PolicyInv, CountInv, VouchedInv, MirrorInv, Asking, Judged, Nobody
<1>3. QED
  BY <1>1, <1>2 DEF IInv

(* What the registries and the copy do takes nothing from the client.      *)
LEMMA RefsGrow ==
  ASSUME IInv, UNCHANGED client,
         \A s \in Site, m \in Manifest : refs[s][m] \subseteq refs'[s][m]
  PROVE  PolicyInv' /\ CountInv' /\ VouchedInv'
<1>1. PolicyInv'
  BY DEF IInv, PolicyInv, client, Judged, Asking, Loads, Threshold, Configured,
         Parses, Elements, DefaultTrustSet
<1>2. CountInv'
  BY DEF IInv, CountInv, client, Judged, Believed, BottleDigest, Verdict
<1>3. VouchedInv'
  <2>1. ASSUME NEW s \in Site, NEW m \in Manifest, NEW d \in Digest \cup {None},
               <<s, m, d>> \in vouched
        PROVE  Cardinality(Believed(refs'[s][m], d)) >= Threshold(env)
    <3>1. Enough(refs[s][m], d)
      BY <2>1 DEF IInv, VouchedInv
    <3>2. env \in Env /\ Loads(env)
      BY <2>1 DEF IInv, TypeOK, PolicyInv
    <3>3. Threshold(env) \in Nat
      BY <3>2, LoadsKeys
    <3>4. refs[s][m] \subseteq refs'[s][m]
      OBVIOUS
    <3>5. /\ Cardinality(Believed(refs[s][m], d)) \in Nat
          /\ Cardinality(Believed(refs'[s][m], d)) \in Nat
          /\ Cardinality(Believed(refs[s][m], d)) <= Cardinality(Believed(refs'[s][m], d))
      BY <3>2, <3>4, BelievedGrows
    <3>6. QED
      BY <3>1, <3>3, <3>5 DEF Enough
  <2>2. \A s \in Site, m \in Manifest, d \in Digest \cup {None} :
          (<<s, m, d>> \in vouched => Enough(refs[s][m], d))'
    BY <2>1 DEF client, Enough, Believed
  <2>3. pc \in {"fetch", "count"} => query.site \in Site /\ target \in Manifest
    BY DEF IInv, TypeOK, PolicyInv, Asking
  <2>4. (pc \in {"fetch", "count"} => listed \subseteq refs[query.site][target])'
    BY <2>3 DEF client, IInv, VouchedInv
  <2>5. (pc \in {"fetch", "count"} \/ Judged =>
          (<<query.site, target, BottleDigest>> \in vouched => Enough(listed, BottleDigest)))'
    BY DEF client, IInv, VouchedInv, Enough, Judged, BottleDigest, Believed
  <2>6. QED
    BY <2>2, <2>4, <2>5 DEF VouchedInv
<1>4. QED
  BY <1>1, <1>2, <1>3

(* A step of a registry, a builder or the mirror.                          *)
LEMMA OthersStep ==
  ASSUME IInv,
         \/ \E m \in Manifest : Republish(m)
         \/ \E m \in Manifest, r \in Ref : AttachReferrer(m, r)
         \/ \E m \in Manifest : FetchAttestations(m)
         \/ MirrorPush
  PROVE  IInv'
<1> USE DEF IInv
<1>1. CASE \E m \in Manifest : Republish(m)
  <2>1. TypeOK'
    <3>1. tag' \in [Site -> Manifest]
      BY <1>1 DEF Republish, TypeOK
    <3>2. QED
      BY <1>1, <3>1 DEF Republish, TypeOK, client
  <2>2. refs' = refs /\ UNCHANGED client /\ UNCHANGED mirror
    BY <1>1 DEF Republish
  <2>3. QED
    BY <2>1, <2>2, RefsGrow DEF MirrorInv, Carried, Idle
<1>2. CASE \E m \in Manifest, r \in Ref : AttachReferrer(m, r)
  <2>1. PICK m \in Manifest, r \in Ref : AttachReferrer(m, r)
    BY <1>2
  <2>2. TypeOK'
    <3>1. refs' \in [Site -> [Manifest -> SUBSET Ref]]
      BY <2>1 DEF AttachReferrer, TypeOK
    <3>2. QED
      BY <2>1, <3>1 DEF AttachReferrer, TypeOK, client
  <2>3. \A s \in Site, n \in Manifest : refs[s][n] \subseteq refs'[s][n]
    BY <2>1 DEF AttachReferrer, TypeOK, Site
  <2>4. UNCHANGED client /\ UNCHANGED mirror
    BY <2>1 DEF AttachReferrer
  <2>5. QED
    BY <2>2, <2>3, <2>4, RefsGrow DEF MirrorInv, Carried, Idle
<1>3. CASE \E m \in Manifest : FetchAttestations(m)
  <2>1. PICK m \in Manifest : FetchAttestations(m)
    BY <1>3
  <2>2. refs["origin"][m] \subseteq Ref
    BY DEF TypeOK, Site
  <2>3. UNION {Carried(r) : r \in refs["origin"][m]} \subseteq Ref
    BY <2>2 DEF Carried
  <2>4. TypeOK'
    BY <2>1, <2>2, <2>3 DEF FetchAttestations, TypeOK, registry, client
  <2>5. UNCHANGED client /\ refs' = refs
    BY <2>1 DEF FetchAttestations, registry
  <2>6. MirrorInv'
    BY <2>1 DEF FetchAttestations, MirrorInv, Carried, Idle
  <2>7. QED
    BY <2>4, <2>5, <2>6, RefsGrow
<1>4. CASE MirrorPush
  <2>1. mirror.manifest \in Manifest /\ mirror.fetched \subseteq Ref
    BY <1>4 DEF MirrorPush, MirrorInv, TypeOK
  <2>2. TypeOK'
    BY <1>4, <2>1 DEF MirrorPush, TypeOK, client, Idle, Site
  <2>3. \A s \in Site, n \in Manifest : refs[s][n] \subseteq refs'[s][n]
    BY <1>4, <2>1 DEF MirrorPush, TypeOK, Site
  <2>4. UNCHANGED client
    BY <1>4 DEF MirrorPush
  <2>5. MirrorInv'
    BY <1>4 DEF MirrorPush, MirrorInv, Idle
  <2>6. QED
    BY <2>2, <2>3, <2>4, <2>5, RefsGrow
<1>5. QED
  BY <1>1, <1>2, <1>3, <1>4

(* A step of the client before it counts, and a question asked anew.       *)
LEMMA AskingStep ==
  ASSUME IInv, Load \/ Resolve \/ List \/ CallFails \/ \E q \in Questions : Ask(q)
  PROVE  IInv'
<1> USE DEF IInv
<1>1. UNCHANGED <<registry, mirror, env, vouched>>
  BY DEF Load, Resolve, List, CallFails, Ask
<1>2. MirrorInv'
  BY <1>1 DEF MirrorInv, Carried, Idle
<1>3. (\A s \in Site, m \in Manifest, d \in Digest \cup {None} :
         <<s, m, d>> \in vouched => Enough(refs[s][m], d))'
  BY <1>1 DEF VouchedInv, Enough, Believed, registry
<1>4. (vouched # {} => Loads(env))'
  BY <1>1 DEF PolicyInv
<1>5. CASE Load
  <2>1. CASE Loads(env)
    <3>1. Configured(env) \subseteq Key /\ Threshold(env) \in Nat
      BY <2>1, LoadsKeys DEF TypeOK
    <3>2. TypeOK'
      BY <1>5, <2>1, <3>1 DEF Load, TypeOK, registry
    <3>3. PolicyInv'
      BY <1>4, <1>5, <2>1 DEF Load, PolicyInv, Asking, Judged
    <3>4. CountInv' /\ VouchedInv'
      BY <1>3, <1>5, <2>1 DEF Load, CountInv, VouchedInv, Judged
    <3>5. QED
      BY <1>2, <3>2, <3>3, <3>4
  <2>2. CASE ~Loads(env)
    <3>1. TypeOK'
      BY <1>5, <2>2 DEF Load, Answer, TypeOK, registry
    <3>2. PolicyInv' /\ CountInv' /\ VouchedInv'
      BY <1>3, <1>4, <1>5, <2>2 DEF Load, Answer, PolicyInv, CountInv, VouchedInv,
             Asking, Judged
    <3>3. QED
      BY <1>2, <3>1, <3>2
  <2>3. QED
    BY <2>1, <2>2
<1>6. CASE Resolve
  <2>1. tag[query.site] \in Manifest
    BY DEF TypeOK
  <2>2. TypeOK'
    BY <1>6, <2>1 DEF Resolve, Answer, TypeOK, registry
  <2>3. PolicyInv'
    BY <1>1, <1>4, <1>6, <2>1 DEF Resolve, Answer, PolicyInv, Asking, Judged
  <2>4. CountInv' /\ VouchedInv'
    BY <1>3, <1>6 DEF Resolve, Answer, CountInv, VouchedInv, Judged
  <2>5. QED
    BY <1>2, <2>2, <2>3, <2>4
<1>7. CASE List
  <2>1. target \in Manifest /\ query.site \in Site
    BY <1>7 DEF List, PolicyInv, Asking, TypeOK
  <2>2. BottleDigest \in Digest \cup {None}
    BY <2>1, TrustAssumption DEF TypeOK, BottleDigest
  <2>3. TypeOK'
    BY <1>7, <2>1 DEF List, TypeOK, registry
  <2>4. PolicyInv'
    BY <1>1, <1>4, <1>7 DEF List, PolicyInv, Asking, Judged
  <2>5. CountInv'
    BY <1>7 DEF List, CountInv, Judged
  <2>6. <<query.site, target, BottleDigest>> \in vouched
          => Enough(refs[query.site][target], BottleDigest)
    BY <2>1, <2>2 DEF VouchedInv
  <2>7. VouchedInv'
    BY <1>3, <1>7, <2>6 DEF List, VouchedInv, registry, Judged, Enough, Believed,
           BottleDigest
  <2>8. QED
    BY <1>2, <2>3, <2>4, <2>5, <2>7
<1>8. CASE CallFails
  <2>1. TypeOK'
    BY <1>8 DEF CallFails, Answer, TypeOK, registry
  <2>2. PolicyInv' /\ CountInv' /\ VouchedInv'
    BY <1>3, <1>4, <1>8 DEF CallFails, Answer, PolicyInv, CountInv, VouchedInv,
           Asking, Judged
  <2>3. QED
    BY <1>2, <2>1, <2>2
<1>9. CASE \E q \in Questions : Ask(q)
  <2>1. PICK q \in Questions : Ask(q)
    BY <1>9
  <2>2. q \in [site : Site, by : {"digest", "tag"}, digest : Digest \cup {None}]
    BY TrustAssumption
  <2>3. TypeOK'
    BY <2>1, <2>2 DEF Ask, TypeOK, registry, NoTrust, Nobody
  <2>4. PolicyInv' /\ CountInv' /\ VouchedInv'
    BY <1>3, <1>4, <2>1 DEF Ask, PolicyInv, CountInv, VouchedInv, Asking, Judged,
           Nobody
  <2>5. QED
    BY <1>2, <2>3, <2>4
<1>10. QED
  BY <1>5, <1>6, <1>7, <1>8, <1>9

(* A step of the client that fetches, counts or judges.                    *)
LEMMA JudgingStep ==
  ASSUME IInv, Fetch \/ (\E r \in Ref : Count(r)) \/ Counted \/ BuilderFrom
  PROVE  IInv'
<1> USE DEF IInv
<1>1. UNCHANGED <<registry, mirror, env, query, trust, target, listed>>
  BY DEF Fetch, Count, Counted, BuilderFrom
<1>2. MirrorInv'
  BY <1>1 DEF MirrorInv, Carried, Idle
<1>3. /\ pc \in {"fetch", "count", "builder"}
      /\ target \in Manifest /\ query.site \in Site
      /\ Loads(env) /\ trust.signers = Configured(env)
      /\ trust.threshold = Threshold(env)
  BY DEF Fetch, Count, Counted, BuilderFrom, PolicyInv, Asking, TypeOK
<1>4. PolicyInv'
  BY <1>1, <1>3 DEF PolicyInv
<1>5. vouched' = vouched =>
        (\A s \in Site, m \in Manifest, d \in Digest \cup {None} :
           <<s, m, d>> \in vouched => Enough(refs[s][m], d))'
  BY <1>1 DEF VouchedInv, Enough, Believed, registry
<1>6. listed \in SUBSET Ref /\ IsFiniteSet(listed)
  BY FS_Subset, TrustAssumption DEF TypeOK
<1>7. CASE Fetch
  <2> DEFINE signatures == {r \in listed : r.kind = "signature"}
             readable == {r \in signatures : r.form = "whole"}
  <2>1. CASE Cardinality(signatures) > MaxSignatures
    <3>1. TypeOK'
      BY <1>7, <2>1 DEF Fetch, Answer, TypeOK, registry
    <3>2. CountInv' /\ VouchedInv'
      BY <1>5, <1>7, <2>1 DEF Fetch, Answer, CountInv, VouchedInv, Judged
    <3>3. QED
      BY <1>2, <1>4, <3>1, <3>2
  <2>2. CASE ~(Cardinality(signatures) > MaxSignatures)
    <3>1. /\ Cardinality(signatures) \in Nat /\ Cardinality(readable) \in Nat
          /\ Cardinality(readable) <= Cardinality(signatures)
      BY <1>6, FS_Subset, FS_CardinalityType
    <3>2. /\ pc = "fetch" /\ pc' = "count" /\ result' = result
          /\ builder' = builder /\ vouched' = vouched
          /\ atts' = readable
          /\ report' = [report EXCEPT !.malformed =
                          Cardinality(signatures) - Cardinality(readable)]
      BY <1>7, <2>2 DEF Fetch
    <3>3. readable = Readable(listed)
      BY DEF Readable
    <3>4. readable \in SUBSET Ref
      BY <1>6
    <3>5. TypeOK'
      <4>1. Cardinality(signatures) - Cardinality(readable) \in Nat
        BY <3>1
      <4>2. report' \in [signers : SUBSET Key, untrusted : Nat, malformed : Nat,
                         revoked : SUBSET Key]
        BY <3>2, <4>1 DEF TypeOK
      <4>3. QED
        BY <1>1, <3>2, <3>4, <4>2 DEF TypeOK, registry
    <3>6. CountInv'
      <4>1. report'.signers = {}
        BY <3>2 DEF TypeOK, CountInv
      <4>2. Believed(Readable(listed) \ readable, BottleDigest)' = {}
        BY <1>1, <3>3 DEF Believed, Readable
      <4>3. QED
        BY <1>1, <3>2, <3>3, <4>1, <4>2 DEF CountInv, Judged, Readable, Believed
    <3>7. VouchedInv'
      BY <1>1, <1>5, <3>2 DEF VouchedInv, Judged, Enough, Believed, BottleDigest,
             registry
    <3>8. QED
      BY <1>2, <1>4, <3>5, <3>6, <3>7
  <2>3. QED
    BY <2>1, <2>2
<1>8. CASE \E r \in Ref : Count(r)
  <2>1. PICK a \in Ref : Count(a)
    BY <1>8
  <2>2. /\ pc = "count" /\ a \in atts /\ pc' = "count"
        /\ atts' = atts \ {a} /\ report' = CountOne(report, a, BottleDigest)
        /\ UNCHANGED <<builder, result, vouched>>
    BY <2>1 DEF Count
  <2>3. /\ atts \subseteq Readable(listed)
        /\ report.signers = Believed(Readable(listed) \ atts, BottleDigest)
    BY <2>2 DEF CountInv
  <2>4. a.kind = "signature" /\ a.form = "whole"
    BY <2>2, <2>3 DEF Readable
  <2>5. /\ report \in [signers : SUBSET Key, untrusted : Nat, malformed : Nat,
                       revoked : SUBSET Key]
        /\ trust.signers \subseteq Key
    BY DEF TypeOK
  <2>6. report'.signers
          = Believed((Readable(listed) \ atts) \cup {a}, BottleDigest)
    BY <1>3, <2>2, <2>3, <2>4, <2>5, CountOneAdds
  <2>7. (Readable(listed) \ atts) \cup {a} = Readable(listed) \ atts'
    BY <2>2, <2>3
  <2>8. CountInv'
    <3>1. (Readable(listed) \ atts)' = Readable(listed) \ atts'
      BY <1>1 DEF Readable
    <3>2. report'.signers = Believed(Readable(listed) \ atts, BottleDigest)'
      BY <1>1, <2>6, <2>7, <3>1 DEF Believed, BottleDigest
    <3>3. QED
      BY <1>1, <2>2, <2>3, <3>2 DEF CountInv, Judged, Readable
  <2>9. TypeOK'
    <3>1. RevokedBy(a, BottleDigest) \subseteq Key /\ VerifyOne(a, BottleDigest) \subseteq Key
      BY <2>5, TrustAssumption DEF RevokedBy, VerifyOne
    <3>2. report' \in [signers : SUBSET Key, untrusted : Nat, malformed : Nat,
                       revoked : SUBSET Key]
      BY <2>2, <2>5, <3>1 DEF CountOne
    <3>3. QED
      BY <1>1, <2>2, <3>2 DEF TypeOK, registry
  <2>10. VouchedInv'
    BY <1>1, <1>5, <2>2 DEF VouchedInv, Judged, Enough, Believed, BottleDigest,
           registry
  <2>11. QED
    BY <1>2, <1>4, <2>8, <2>9, <2>10
<1>9. CASE Counted
  <2>1. /\ pc = "count" /\ atts = {} /\ result' = Verdict(report)
        /\ pc' \in {"builder", "done"} /\ UNCHANGED <<atts, report, builder>>
        /\ vouched' = IF Verdict(report) = "accepted"
                      THEN vouched \cup {<<query.site, target, BottleDigest>>}
                      ELSE vouched
    BY <1>9 DEF Counted
  <2>2. report.signers = Believed(listed, BottleDigest)
    <3>1. Readable(listed) \ atts = Readable(listed)
      BY <2>1
    <3>2. QED
      BY <2>1, <3>1, BelievedReadable DEF CountInv
  <2>3. BottleDigest \in Digest \cup {None}
    BY <1>3, TrustAssumption DEF TypeOK, BottleDigest
  <2>4. TypeOK'
    <3>1. Verdict(report) \in {"accepted", "short", "unsigned"}
      BY DEF Verdict
    <3>2. QED
      BY <1>1, <1>3, <2>1, <2>3, <3>1 DEF TypeOK, registry
  <2>5. CountInv'
    BY <1>1, <2>1, <2>2 DEF CountInv, Judged, Believed, BottleDigest, Verdict, Signed
  <2>6. Verdict(report) = "accepted" => Enough(listed, BottleDigest)
    BY <1>3, <2>2 DEF Verdict, Enough
  <2>7. listed \subseteq refs[query.site][target]
    BY <2>1 DEF VouchedInv
  <2>8. Enough(listed, BottleDigest) => Enough(refs[query.site][target], BottleDigest)
    <3>1. env \in Env
      BY DEF TypeOK
    <3>2. Threshold(env) \in Nat
      BY <1>3, <3>1, LoadsKeys
    <3>3. /\ Cardinality(Believed(listed, BottleDigest)) \in Nat
          /\ Cardinality(Believed(refs[query.site][target], BottleDigest)) \in Nat
          /\ Cardinality(Believed(listed, BottleDigest))
               <= Cardinality(Believed(refs[query.site][target], BottleDigest))
      BY <1>3, <2>7, <3>1, BelievedGrows
    <3>4. QED
      BY <3>2, <3>3 DEF Enough
  <2>9. VouchedInv'
    <3>1. (\A s \in Site, m \in Manifest, d \in Digest \cup {None} :
             <<s, m, d>> \in vouched => Enough(refs[s][m], d))'
      <4>1. \A s \in Site, m \in Manifest, d \in Digest \cup {None} :
              <<s, m, d>> \in vouched' => Enough(refs[s][m], d)
        BY <2>1, <2>6, <2>8 DEF VouchedInv
      <4>2. QED
        BY <1>1, <4>1 DEF Enough, Believed, registry
    <3>2. (<<query.site, target, BottleDigest>> \in vouched
             => Enough(listed, BottleDigest))'
      BY <1>1, <2>1, <2>6 DEF VouchedInv, Enough, Believed, BottleDigest
    <3>3. QED
      BY <2>1, <3>1, <3>2 DEF VouchedInv
  <2>10. PolicyInv'
    BY <1>1, <1>3 DEF PolicyInv
  <2>11. QED
    BY <1>2, <2>4, <2>5, <2>9, <2>10
<1>10. CASE BuilderFrom
  <2>1. pc = "builder" /\ pc' = "done" /\ UNCHANGED <<atts, report, result, vouched>>
    BY <1>10 DEF BuilderFrom
  <2>2. TypeOK'
    <3>1. NamedBuilders \subseteq Builder \cup {None}
      BY <1>6, TrustAssumption DEF NamedBuilders, Attestation, Provenance
    <3>2. builder' \in Builder \cup {None}
      BY <1>10, <3>1 DEF BuilderFrom
    <3>3. QED
      BY <1>1, <2>1, <3>2 DEF TypeOK, registry
  <2>3. CountInv' /\ VouchedInv'
    BY <1>1, <1>5, <2>1 DEF CountInv, VouchedInv, Judged, Enough, Believed,
           BottleDigest, Verdict, Signed
  <2>4. QED
    BY <1>2, <1>4, <2>2, <2>3
<1>11. QED
  BY <1>7, <1>8, <1>9, <1>10

(* Whoever signs, mirrors and verifies, every state satisfies the          *)
(* invariant.                                                              *)
THEOREM Invariance == Spec => []IInv
<1>1. Init => IInv
  BY InitInv
<1>2. IInv /\ [Next]_vars => IInv'
  <2> SUFFICES ASSUME IInv, [Next]_vars PROVE IInv'
    OBVIOUS
  <2>1. CASE Next
    BY <2>1, OthersStep, AskingStep, JudgingStep DEF Next
  <2>2. CASE UNCHANGED vars
    <3>1. UNCHANGED <<tag, refs, mirror, client>>
      BY <2>2 DEF vars, registry
    <3>2. TypeOK' /\ MirrorInv'
      BY <3>1 DEF IInv, TypeOK, MirrorInv, client, Idle, Carried
    <3>3. QED
      BY <3>1, <3>2, RefsGrow DEF IInv
  <2>3. QED
    BY <2>1, <2>2
<1>3. QED
  BY <1>1, <1>2, PTL DEF Spec

-----------------------------------------------------------------------------
(* The properties.                                                         *)

(* Every variable has its type.                                            *)
THEOREM TypeCorrect == Spec => []TypeOK
<1>1. IInv => TypeOK
  BY DEF IInv
<1>2. QED
  BY <1>1, Invariance, PTL

(* The verdict of Count and Err is the number of keys that are trusted,    *)
(* not revoked and signed this bottle, against the threshold.              *)
THEOREM VerdictIsCountHolds == Spec => []VerdictIsCount
<1>1. IInv => VerdictIsCount
  <2> SUFFICES ASSUME IInv, pc \in {"builder", "done"}, result # "error"
               PROVE  result = "accepted"
                        <=> Cardinality(Vouchers(listed, BottleDigest)) >= Threshold(env)
    BY DEF VerdictIsCount
  <2>1. Judged
    BY DEF Judged
  <2>2. trust.signers = Configured(env) /\ trust.threshold = Threshold(env)
    BY <2>1 DEF IInv, PolicyInv
  <2>3. Vouchers(listed, BottleDigest) = Believed(listed, BottleDigest)
    BY <2>2 DEF Vouchers, Believed
  <2>4. report.signers = Believed(listed, BottleDigest) /\ result = Verdict(report)
    BY <2>1 DEF IInv, CountInv
  <2>5. QED
    BY <2>2, <2>3, <2>4 DEF Verdict
<1>2. QED
  BY <1>1, Invariance, PTL

(* A bottle that was accepted is not refused later by the same policy.     *)
THEOREM AcceptedStaysHolds == Spec => []AcceptedStays
<1>1. IInv => AcceptedStays
  <2> SUFFICES ASSUME IInv, pc \in {"builder", "done"}, result \in {"short", "unsigned"},
                      <<query.site, target, BottleDigest>> \in vouched
               PROVE  FALSE
    BY DEF AcceptedStays
  <2>1. Judged
    BY DEF Judged
  <2>2. Enough(listed, BottleDigest)
    BY <2>1 DEF IInv, VouchedInv
  <2>3. trust.threshold = Threshold(env)
    BY <2>1 DEF IInv, PolicyInv
  <2>4. report.signers = Believed(listed, BottleDigest) /\ result = Verdict(report)
    BY <2>1 DEF IInv, CountInv
  <2>5. QED
    BY <2>2, <2>3, <2>4 DEF Verdict, Enough
<1>2. QED
  BY <1>1, Invariance, PTL

(* A mirrored bottle carries every whole signature that its original had   *)
(* when it was copied.                                                     *)
THEOREM MirrorIsWholeHolds == Spec => MirrorIsWhole
<1> DEFINE Changed == tag'["mirror"] # tag["mirror"] \/ refs'["mirror"] # refs["mirror"]
           Whole == \A k \in Key, d \in Digest :
                      (\E r \in mirror.listed : r.kind = "signature" /\ r.form = "whole"
                                                  /\ Verifies(k, r, d))
                        => \E r \in refs'["mirror"][mirror.manifest] :
                             r.kind = "signature" /\ r.form = "whole" /\ Verifies(k, r, d)
<1>1. ASSUME IInv, Next, Changed PROVE Whole
  <2>1. MirrorPush
    <3>1. ASSUME NEW m \in Manifest, Republish(m) \/ FetchAttestations(m) PROVE ~Changed
      BY <1>1, <3>1 DEF Republish, FetchAttestations, registry, IInv, TypeOK, Site
    <3>2. ASSUME NEW m \in Manifest, NEW r \in Ref, AttachReferrer(m, r) PROVE ~Changed
      BY <1>1, <3>2 DEF AttachReferrer, IInv, TypeOK, Site
    <3>3. ASSUME NEW r \in Ref, Count(r) PROVE ~Changed
      BY <3>3 DEF Count, registry
    <3>4. ASSUME NEW q \in Questions, Ask(q) PROVE ~Changed
      BY <3>4 DEF Ask, registry
    <3>5. ASSUME Load \/ Resolve \/ List \/ Fetch \/ Counted \/ BuilderFrom \/ CallFails
          PROVE  ~Changed
      BY <3>5 DEF Load, Resolve, List, Fetch, Counted, BuilderFrom, CallFails, registry
    <3>6. QED
      BY <1>1, <3>1, <3>2, <3>3, <3>4, <3>5 DEF Next
  <2>2. /\ mirror.manifest \in Manifest
        /\ mirror.fetched = UNION {Carried(r) : r \in mirror.listed}
    BY <1>1, <2>1 DEF IInv, MirrorInv, MirrorPush
  <2>3. mirror.fetched \subseteq refs'["mirror"][mirror.manifest]
    BY <1>1, <2>1, <2>2 DEF MirrorPush, IInv, TypeOK, Site
  <2>4. ASSUME NEW r \in mirror.listed, r.form = "whole"
        PROVE  r \in refs'["mirror"][mirror.manifest]
    BY <2>2, <2>3, <2>4 DEF Carried
  <2>5. QED
    BY <2>4
<1>2. IInv /\ [Next]_vars => [Changed => Whole]_vars
  BY <1>1
<1>3. QED
  BY <1>2, Invariance, PTL DEF Spec, MirrorIsWhole
=============================================================================
