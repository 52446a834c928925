------------------------------ MODULE MCResolve ------------------------------
(* Instances of Resolve for TLC: an application a, its dependency b, and a *)
(* library c whose versions are contested.                                 *)
EXTENDS Resolve, SequencesExt

Names == <<"a", "b", "c">>
SortedNames == [S \in SUBSET {"a", "b", "c"} |-> SelectSeq(Names, LAMBDA p : p \in S)]
AdmitsSome == [old |-> {1}, mid |-> {1, 2}, new |-> {2, 3}]

Recipe(a, b, c) == [p \in {"a", "b", "c"} |->
                      IF p = "a" THEN a ELSE IF p = "b" THEN b ELSE c]
Graphs ==
  {[p \in {"a", "b", "c", Requested} |->
      IF p = Requested THEN Recipe(Anything, None, r)
      ELSE IF p = "a" THEN Recipe(None, ab, ac)
      ELSE IF p = "b" THEN Recipe(ba, None, bc)
      ELSE Recipe(ca, None, None)] :
     r \in {None, "old", "mid"}, ab \in {None, Anything}, ba \in {None, Anything},
     ac \in {None, Anything, "old", "new"}, bc \in {None, "mid", "new"},
     ca \in {None, Anything}}

(* What c is published as, on which lines support has ended, and whether   *)
(* its newest version has libraries of its own.                            *)
OfC(c, other) == Recipe(other, other, c)
Libraries == {<<{"s1"}, {"s1"}, {"s3"}>>, <<{"s1"}, {"s1"}, {"s1", "s3"}>>}
Registered(published, dead, reliable) ==
  {[published |-> OfC(p, {1}), dead |-> OfC(d, {}),
    sonames |-> OfC(s, <<{}, {}, {}>>), reliable |-> r] :
     p \in published, d \in dead, s \in Libraries, r \in reliable}
SomeRegistries ==
  Registered({{1, 2, 3}, {1, 3}}, {{}}, BOOLEAN) \cup
  Registered({{1, 2, 3}}, {{2}}, {TRUE})
=============================================================================
