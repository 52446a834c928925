------------------------------ MODULE MCInstall ------------------------------
(* Instances of Stubs for TLC: two applications, a library of which two    *)
(* lines are published and what the older one needs, and the C runtimes.   *)
EXTENDS Stubs, TLC

Of(p, v) == [project |-> p, ver |-> v]
app == Of("app", 1)          tool == Of("tool", 1)
xml16 == Of("xml", 15)       xml2 == Of("xml", 13)
zlib == Of("zlib", 1)        gcc == Of("gcc", 1)       gmp == Of("gmp", 1)
glibc44 == Of("glibc", 44)   glibc36 == Of("glibc", 36)
glibc27 == Of("glibc", 27)
SomeBottles == {app, tool, xml16, xml2, zlib, gcc, gmp, glibc44, glibc36, glibc27}
SomeSonames == {"c", "gomp", "gmp", "x2", "x16", "z", "cuda", "odd"}

For(default, f) == f @@ [b \in SomeBottles |-> default]
SomeNeeds == For({}, app :> {"c", "x16"} @@ tool :> {"c", "x2", "gomp", "gmp"}
                       @@ xml2 :> {"c", "z"} @@ zlib :> {"cuda", "odd"})
SomeShips == For({"c"}, app :> {} @@ tool :> {} @@ xml16 :> {"x16"} @@ xml2 :> {"x2"}
                       @@ zlib :> {"z"} @@ gcc :> {"gomp"} @@ gmp :> {"gmp"})
Through(p, s, abi) == [project |-> p, soname |-> s, abi |-> abi]
SomeRefs == For({}, app :> {Through("xml", "x16", TRUE)}
                 @@ tool :> {Through("xml", "x2", TRUE), Through("zlib", "z", FALSE),
                             Through(None, "odd", TRUE)}
                 @@ xml2 :> {Through("zlib", "z", TRUE)})
SomeMajors == [b \in SomeBottles |-> IF b.project = "xml" THEN 2 ELSE b.ver]
SomeHints == [s \in SomeSonames |-> IF s = "x16" THEN 16 ELSE IF s = "x2" THEN 2 ELSE 1]
SomeProviders == [s \in SomeSonames |->
  CASE s \in {"x2", "x16"} -> "xml" [] s = "z" -> "zlib" [] s = "gmp" -> "gmp"
    [] OTHER -> None]
SomeImplicit == [s \in SomeSonames |->
  CASE s = "c" -> "glibc" [] s = "gomp" -> "gcc" [] OTHER -> None]
SomeDeps == For({}, gcc :> {gmp, glibc44})
Order == <<glibc27, glibc36, glibc44, gmp, gcc, zlib, xml2, xml16, app, tool>>
SomeOrder == [S \in SUBSET SomeBottles |-> SelectSeq(Order, LAMBDA b : b \in S)]
SomeFloors == For(None, glibc44 :> 5 @@ glibc36 :> 4 @@ glibc27 :> 3)

linux == [os |-> "linux", arch |-> "x86-64"]
mac == [os |-> "darwin", arch |-> "aarch64"]
other == [os |-> "windows", arch |-> "x86-64"]
Platforms == {linux, mac, other}
AllHere == [p \in Platforms |-> SomeBottles]
Declared == [p \in Platforms |-> IF p = mac THEN SomeShips ELSE For({}, app :> {})]

Completing(h, t, k, pin, off) ==
  [host |-> h, target |-> t, kernel |-> k, pin |-> pin, off |-> off]
SomeMachines ==
  {Completing(linux, linux, 3, None, FALSE), Completing(linux, linux, 6, 36, FALSE),
   Completing(mac, linux, None, None, TRUE),
   Completing(mac, mac, None, None, FALSE), Completing(other, other, None, None, FALSE)}
SomeStarts == {<<xml16, app>>, <<tool>>}
SomeSeeds == {{}, {xml16, xml2, zlib}}
SomeOutages == {{}, {xml2, gmp}}

SomeProvides == [p \in Project |->
  CASE p = "xml" -> <<"xmlcat", "xmllint">> [] p \in {"app", "tool"} -> <<p>> [] OTHER -> <<>>]
SomeBins == For({}, app :> {"app"} @@ tool :> {"tool"}
                 @@ xml16 :> {"xmlcat", "xmllint"} @@ xml2 :> {"xmllint"})
SomeLoaders == For(None, glibc44 :> 44 @@ glibc36 :> 36 @@ glibc27 :> 27)
Sorted == <<glibc27, glibc36, glibc44>>
AShell == [project |-> "tool", bin |-> "tool"]
=============================================================================
