--------------------------- MODULE MCBottleFetch ---------------------------
(* Instances of BottleFetch for TLC.                                       *)
EXTENDS BottleFetch

(* Two bottles of the same size that differ in one block, and a shorter    *)
(* one: pieces of one can be taken for pieces of another.                  *)
Bottle == <<"a", "b", "c">>
Other == <<"a", "x", "c">>
Short == <<"a">>
Blobs == {Bottle, Other, Short}

(* Any configuration; registries that lack the bottle, have it or have     *)
(* another one; a dist that signed its bottle or did not.                  *)
AllEnvironments ==
  {e \in [verify : BOOLEAN, oci : BOOLEAN, cache : BOOLEAN,
          blob : [Source -> {Bottle, Other, None}],
          signed : {{}, {Bottle}}, honest : SUBSET Source] :
     ~e.oci => ~e.cache /\ e.blob["cache"] = None /\ e.honest = {}}
=============================================================================
