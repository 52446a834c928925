---------------------------- MODULE MCCatalogue -----------------------------
(* Instances of Catalogue for TLC.                                         *)
EXTENDS Catalogue

A == <<"a">>
AB == <<"a", "b">>
CD == <<"c", "D">>
R == <<"r">>
U == <<"u">>              \* needed, but listed nowhere
X == <<"x">>
Dots == <<"../x">>
NoName == <<>>
Ordered == <<NoName, Dots, A, AB, CD, R, U, X>>

(* Diamonds, a cycle, a long way and a short way to one project.           *)
Arrows == {<<R, A>>, <<R, AB>>, <<R, X>>, <<A, CD>>, <<A, X>>, <<AB, CD>>, <<AB, X>>,
           <<CD, X>>, <<X, A>>, <<X, U>>}
Versioned(p) == IF p = X THEN <<"bad", "2", "1">> ELSE <<"1">>
Commands(p) == CASE p = R -> <<"Rscript", "run">> [] p = X -> <<"ru", "x">> [] p = AB -> <<"b">>
                 [] OTHER -> <<>>
Row(p, arrows) ==
  [project |-> p, versions |-> Versioned(p), platforms |-> <<"linux", "bad">>,
   summary |-> IF p = A THEN "Runs" ELSE "",
   deps |-> SetToSortSeq({a[2] : a \in {b \in arrows : b[1] = p}},
                         LAMBDA x, y : Rank(x) > Rank(y)),
   provides |-> Commands(p)]
Drawn(arrows) ==
  [generated |-> "now", dropped |-> 0, null |-> FALSE,
   projects |-> <<Row(X, arrows), Row(R, arrows), Row(CD, arrows),
                  Row(AB, arrows), Row(A, arrows)>>]
Documents == {Drawn(S) : S \in SUBSET Arrows}
             \cup {[Drawn({}) EXCEPT !.projects[1].deps = <<Dots>>],
                   [Drawn({}) EXCEPT !.projects[2].deps = <<NoName>>],
                   [generated |-> "", dropped |-> 0, null |-> FALSE, projects |-> <<>>]}
Strings == <<"", "../x", "1", "2", "D", "RUN", "Rscript", "Runs", "a", "b", "bad", "c", "d",
             "linux", "now", "r", "rscript", "ru", "run", "runs", "u", "x">>
LowerCase(s) ==
  CASE s = "D" -> "d" [] s \in {"RUN", " run"} -> "run" [] s = "Rscript" -> "rscript"
    [] s = "Runs" -> "runs" [] s = " " -> "" [] OTHER -> s

SomeForgeries == {Drawn({<<R, X>>})}
Starts == {<<"run", "ru">>, <<"x", "x">>, <<"b", "b">>, <<"d", "d">>}
Holding == {<<"runs", "run">>, <<"runs", "ru">>, <<"runs", "r">>,
            <<"b", "b">>, <<"x", "x">>}
Paths == {<<CD, "c/d">>}
Ends == {R, X}
Forgeds == {Dots, NoName}
=============================================================================
