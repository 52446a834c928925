--------------------------- MODULE MCIndexPublish ---------------------------
(* Instances of IndexPublish for TLC.                                      *)
EXTENDS IndexPublish, TLC

CONSTANTS linux, darwin, legacy,      \* platforms
          arm, amd, mac,              \* publishers
          mOld, mLegacy               \* manifests published before

Empty == [pl \in Platform |-> None]

(* Two publishers beside a platform that predates platform tags; the first *)
(* replaces a bottle published and tagged earlier.                         *)
TwoPlatformOf == arm :> linux @@ amd :> darwin
TwoManifestOf == arm :> "m1" @@ amd :> "m2"
TwoRefsOf == arm :> {"sig", "sbom"} @@ amd :> {"sig"}
TwoSeedIndex == linux :> mOld @@ darwin :> None @@ legacy :> mLegacy
TwoSeedTags == linux :> mOld @@ darwin :> None @@ legacy :> None

(* Three publishers and nothing published before.                          *)
ThreePlatformOf == arm :> "linux/arm64" @@ amd :> "linux/amd64" @@ mac :> "darwin/arm64"
ThreeManifestOf == arm :> "m1" @@ amd :> "m2" @@ mac :> "m3"
ThreeRefsOf == arm :> {} @@ amd :> {} @@ mac :> {}

(* The registry as the code hopes for it, with either of the two guards    *)
(* against a late write; and one whose every read may fail.                *)
AllEnvironments ==
  {[faults |-> {}, abort |-> TRUE, settle |-> TRUE, barrier |-> FALSE],
   [faults |-> {}, abort |-> TRUE, settle |-> FALSE, barrier |-> TRUE],
   [faults |-> {"list", "fetch"}, abort |-> TRUE, settle |-> FALSE, barrier |-> FALSE],
   [faults |-> {"read", "list"}, abort |-> FALSE, settle |-> FALSE, barrier |-> FALSE]}

(* Publishers that are not killed, on a settle window that is too short.   *)
RaceEnvironments ==
  {[faults |-> {}, abort |-> FALSE, settle |-> FALSE, barrier |-> TRUE]}

FlakyEnvironments ==
  {[faults |-> {"read"}, abort |-> FALSE, settle |-> TRUE, barrier |-> TRUE]}
=============================================================================
