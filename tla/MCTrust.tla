------------------------------ MODULE MCTrust ------------------------------
(* Instances of Trust for TLC.                                             *)
EXTENDS Trust

CONSTANTS
  us, retired, alice, leaked,   \* keys: ours, an old one, a friend, a revoked one
  bytes, other,                 \* two bottles
  m1, m2, hollow,               \* manifests; the last has no layer
  factory

Layers == [m \in Manifest |->
             CASE m = m1 -> bytes [] m = m2 -> other [] OTHER -> None]

Room == [m \in Manifest |-> IF m = m1 THEN 3 ELSE 0]

By(key, digest) == [kind |-> "signature", form |-> "whole", key |-> key,
                    digest |-> digest, hint |-> None]
SomeRefs ==
  {[By(us, bytes) EXCEPT !.hint = alice],
   [By(alice, bytes) EXCEPT !.hint = us], By(leaked, bytes),
   [By(alice, other) EXCEPT !.hint = alice],
   [By(us, bytes) EXCEPT !.form = "layerless"],
   [kind |-> "provenance", form |-> "whole", builder |-> factory]}

Configure(keys, extra, threshold) ==
  [keys |-> keys, extra |-> extra, threshold |-> threshold]
SomeEnvs ==
  {Configure(<<>>, <<alice, us>>, 2),
   Configure(<<us, leaked>>, <<>>, 1),
   Configure(<<alice, alice>>, <<>>, 2)}

SomeQuestions ==
  {[site |-> "origin", by |-> "digest", digest |-> bytes],
   [site |-> "origin", by |-> "digest", digest |-> other],
   [site |-> "mirror", by |-> "digest", digest |-> bytes],
   [site |-> "origin", by |-> "tag", digest |-> None]}
=============================================================================
