------------------------------ MODULE MCStore ------------------------------
(* Instances of Store for TLC.                                             *)
EXTENDS Store, TLC

CONSTANTS one, two,          \* installers
          cuda, plain,       \* hashes of two builds of version 1
          bytes, other,      \* the bottles they name
          me, you            \* viewers

(* Two builds of one version, of which the bare tag has named both.        *)
Tags ==
  {[raw |-> "1", variant |-> cuda, bottle |-> bytes],
   [raw |-> "1", variant |-> plain, bottle |-> other],
   [raw |-> "1", variant |-> None, bottle |-> bytes],
   [raw |-> "1", variant |-> None, bottle |-> other]}

Sonames == [b \in Digest |-> {"so"}]
Platforms == [i \in Installer |-> "linux"]

AnyAsks == [Installer -> Request]
Builds == [raw : Raw, hash : Variant]

(* An empty store; one of a release that did not hash; one with a build.   *)
Whole(d, b) == d :> [bottle |-> b, whole |-> TRUE]
Nothing == [d \in Dir |-> None]
SomeSeeds ==
  {Nothing,
   Whole([raw |-> "1", hash |-> None], bytes) @@ Nothing,
   Whole([raw |-> "1", hash |-> plain], other) @@ Nothing}

Interchangeable == Permutations(Installer) \cup Permutations(Viewer)
=============================================================================
