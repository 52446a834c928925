----------------------------- MODULE BuildStore -----------------------------
(***************************************************************************)
(* What a bottle store promises whoever reads it: a directory appears      *)
(* whole, under a name that nothing else had, and from then on it is there *)
(* and holds the same bottle.  Readers may share it, and freeze it.        *)
(***************************************************************************)
CONSTANTS Dir, Bottle, None

VARIABLE held     \* the bottle each directory of the store holds

Init == held \in [Dir -> Bottle \cup {None}]

Install(d, b) ==
  /\ held[d] = None
  /\ held' = [held EXCEPT ![d] = b]

Next == \E d \in Dir, b \in Bottle : Install(d, b)

Spec == Init /\ [][Next]_held
=============================================================================
