--------------------------- MODULE VersionListing ---------------------------
(***************************************************************************)
(* What the version tag of a published project promises the readers that   *)
(* resolve a platform through it (resolvePlatform): whatever else          *)
(* publishers do to the listing, an entry that was once promised, because  *)
(* its publisher was told it is published or because it predates this      *)
(* batch, is never lost or replaced.                                       *)
(***************************************************************************)
CONSTANTS Platform, Manifest, None

VARIABLES listing, promised

Keeps(list) == \A e \in promised : list[e[1]] = e[2]

Init ==
  /\ listing \in [Platform -> Manifest \cup {None}]
  /\ promised \subseteq Platform \X Manifest
  /\ Keeps(listing)

(* A publisher rewrites the index.                                         *)
Rewrite ==
  /\ listing' \in [Platform -> Manifest \cup {None}]
  /\ Keeps(listing')
  /\ UNCHANGED promised

(* A publisher learns that its entry is there, and from then on it is.     *)
Promise(pl, m) ==
  /\ listing[pl] = m
  /\ promised' = promised \cup {<<pl, m>>}
  /\ UNCHANGED listing

Next == Rewrite \/ \E pl \in Platform, m \in Manifest : Promise(pl, m)

Spec == Init /\ [][Next]_<<listing, promised>>
=============================================================================
