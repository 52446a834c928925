------------------------------ MODULE MCBuilds ------------------------------
(* Instances of Builds and of Locks for TLC.                               *)
EXTENDS Locks

Strings == <<"1", "2", "a", "arm", "cuda", "dep", "f", "false", "lib", "ssl", "true", "x">>

Dep(p, v, h) == [project |-> p, version |-> v, hash |-> h]
Plain == [NoSpec EXCEPT !.platform = "arm", !.recipe = "f"]

(* A build; one with an option and a newer library; one that is newer on   *)
(* what only the second has, too; the second without its option, by        *)
(* another recipe.  The next two differ only in where a list ends.  The    *)
(* last is the first by another recipe.                                    *)
Specs ==
  <<[Plain EXCEPT !.deps = <<Dep("lib", "1", "")>>],
    [Plain EXCEPT !.deps = <<Dep("ssl", "1", "a"), Dep("lib", "2", "")>>,
                  !.variants = "cuda" :> <<"true">>],
    [Plain EXCEPT !.deps = <<Dep("ssl", "2", "a")>>, !.variants = "x" :> <<"a", "1">>],
    [Plain EXCEPT !.deps = <<Dep("ssl", "1", "a"), Dep("lib", "2", "")>>, !.recipe = "x"],
    [NoSpec EXCEPT !.variants = "cuda" :> <<"2">>, !.deps = <<Dep("lib", "ssl", "x")>>],
    [NoSpec EXCEPT !.variants = "cuda" :> <<"2", "dep", "lib", "ssl", "x">>],
    [Plain EXCEPT !.deps = <<Dep("lib", "1", "")>>, !.recipe = "x"]>>

Canons == [i \in DOMAIN Specs |-> Canonical(Specs[i])]
Number(i) == <<(i - 1) % 2, i>>
Sum(k) ==
  IF \E i \in DOMAIN Canons : Canons[i] = k
  THEN Number(CHOOSE i \in DOMAIN Canons : Canons[i] = k)
  ELSE <<9, 9>>
Begin(s) == s

Tag(v, i) == [raw |-> v, hash |-> Hash(Specs[i])]
Bare(v) == [raw |-> v, hash |-> NoHash]
AllTags == {Tag("1", i) : i \in {3, 5}} \cup {Bare("1"), Bare("1.0"), Tag("1.0", 3), Tag("2", 1)}

(* Two spellings of one version, the second the more precise.              *)
Numbered(v) == IF v = "2" THEN 2 ELSE 1
Precise(v) == IF v = "1.0" THEN 2 ELSE 1
Seconds == {{"1", "2"}, {"2"}}

Sources == [h \in {Number(i) : i \in DOMAIN Specs} |-> Specs[h[2]]]

Written(S) == [t \in {Tag("1", i) : i \in S} |-> MarshalSpec(Sources[t.hash])]
SomeAnnotations ==
  {Garbage, MarshalSpec(Specs[3]), MarshalSpec(Specs[6]),
   [MarshalSpec(Specs[2]) EXCEPT !.v = 2]}

Digested == [raw |-> "1", hash |-> <<0, 7>>]
SomeDirs == {Tag("1", 2), Tag("1", 3), Tag("2", 1), Digested}
SomeParts == {<<0>>, <<1>>, <<1, 2>>}

Withdraw(v, h) == [version |-> v, hash |-> h]
World(tags, dirs, list) == [registry |-> tags, store |-> dirs, withdrawn |-> list]
SomeWorlds ==
  {World(Written({1, 2, 3}), Tag("1", 2) :> 1, <<>>),
   World(Written({2, 3, 4}), <<>>, <<Withdraw("1", NoHash), Withdraw("1", Hash(Specs[2]))>>),
   World(Written({2, 5}) @@ (Bare("1") :> Unannotated), Digested :> 1,
         <<Withdraw("2", NoHash), Withdraw("1", Hash(Specs[5]))>>),
   World(Written({1, 7}) @@ (Tag("1.0", 7) :> Unannotated), <<>>, <<>>),
   World(<<>>, Tag("1", 2) :> 1, <<>>),
   World(Written({2}), Bare("1") :> 1, <<>>)}

Ask(sign, name, values) == [sign |-> sign, name |-> name, values |-> values]
SomeQuestions ==
  {<<>>, <<Ask("+", "cuda", <<>>)>>, <<Ask("~", "cuda", <<>>)>>,
   <<Ask(":=", "x", <<"1">>), Ask("=", "x", <<"1">>)>>,
   <<Ask("=", "x", <<"a", "">>), Ask("=", "x", <<"a">>), Ask("++", "cuda", <<>>)>>,
   <<Ask(":=", "x", <<"1", "a">>)>>, <<Ask("==", "x", <<"">>)>>}

Pin(v, ok) == "p" :> [version |-> <<v>>, valid |-> ok]
File(version, pinned, locked) == [version |-> version, pinned |-> pinned, locked |-> locked]
SomeFiles ==
  {File(1, "", Pin("1", TRUE)), File(2, "", Pin("1", TRUE)), File(1, "other", Pin("1", TRUE)),
   File(1, "recipes", <<>>), File(1, "", Pin("1", FALSE))}
=============================================================================
