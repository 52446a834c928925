------------------------------ MODULE Concrete ------------------------------
(***************************************************************************)
(* What a build is made of and the address computed from it: the canonical *)
(* form and its hash (concrete.go), the annotation that carries it and the *)
(* check of one against the other (concretewire.go), what is asked of its  *)
(* options, and the lines that tell several builds apart (distinguish.go). *)
(*                                                                         *)
(* A string is one of Words, "" where the source has the empty string.  A  *)
(* hash is a tuple of digits, so that it has prefixes; NoHash is "".       *)
(***************************************************************************)
EXTENDS Ranking, SequencesExt

CONSTANTS Words,        \* the strings of specs, in the order of their bytes
          Short(_),     \* the first characters of a hash or of a digest
          Digest(_),    \* the hash of a canonical form
          Garbage       \* an annotation that does not parse

NoHash == <<>>
Order(w) == IF \E i \in DOMAIN Words : Words[i] = w
            THEN CHOOSE i \in DOMAIN Words : Words[i] = w ELSE 0

Names(S) == Ranked(S, {p \in S \X S : Order(p[1]) < Order(p[2])})

(* A sequence by its bytes, equals in the order in which they stand.        *)
ByBytes(s) ==
  {p \in (DOMAIN s) \X (DOMAIN s) :
     \/ Order(s[p[1]]) < Order(s[p[2]])
     \/ s[p[1]] = s[p[2]] /\ p[1] < p[2]}

SortedWords(s) ==
  LET places == Ranked(DOMAIN s, ByBytes(s))
  IN  [k \in DOMAIN s |-> s[places[k]]]

-----------------------------------------------------------------------------
(* The identity of a build.                                                *)

NoSpec == [platform |-> "", variants |-> <<>>, deps |-> <<>>, recipe |-> "", graft |-> ""]

IsZero(c) ==
  /\ c.platform = "" /\ c.recipe = "" /\ c.graft = ""
  /\ DOMAIN c.variants = {} /\ c.deps = <<>>

Keyed(key, value) == IF value = "" THEN <<>> ELSE <<key, value>>

DepBefore(d, e) ==
  LET size == Len(Words) + 1
      Key(x) == (Order(x.project) * size + Order(x.version)) * size + Order(x.hash)
  IN  Key(d) < Key(e)

(* As it would be if a list of values were written without its length.     *)
CanonicalUncounted(c) ==
  LET names == Names(DOMAIN c.variants)
      deps == SortSeq(c.deps, DepBefore)
  IN  <<"v1">> \o Keyed("platform", c.platform)
      \o FlattenSeq([i \in DOMAIN names |->
                       <<"var", names[i]>> \o SortedWords(c.variants[names[i]])])
      \o FlattenSeq([i \in DOMAIN deps |->
                       <<"dep", deps[i].project, deps[i].version, deps[i].hash>>])
      \o Keyed("recipe", c.recipe) \o Keyed("graft", c.graft)

(* Every part is written with its length before it, so that a part is one  *)
(* token here, and a list of values with its length, so that what follows  *)
(* it is not one of them.                                                  *)
Canonical(c) ==
  LET names == Names(DOMAIN c.variants)
      deps == SortSeq(c.deps, DepBefore)
      Var(n) == <<"var", n, ToString(Len(c.variants[n]))>> \o SortedWords(c.variants[n])
  IN  <<"v1">> \o Keyed("platform", c.platform)
      \o FlattenSeq([i \in DOMAIN names |-> Var(names[i])])
      \o FlattenSeq([i \in DOMAIN deps |->
                       <<"dep", deps[i].project, deps[i].version, deps[i].hash>>])
      \o Keyed("recipe", c.recipe) \o Keyed("graft", c.graft)

Hash(c) == IF IsZero(c) THEN NoHash ELSE Digest(Canonical(c))

(* What has to be the same for two specs to be of one build.               *)
SameBuild(c, d) ==
  /\ <<c.platform, c.recipe, c.graft>> = <<d.platform, d.recipe, d.graft>>
  /\ DOMAIN c.variants = DOMAIN d.variants
  /\ \A n \in DOMAIN c.variants :
        SortedWords(c.variants[n]) = SortedWords(d.variants[n])
  /\ SortSeq(c.deps, DepBefore) = SortSeq(d.deps, DepBefore)

-----------------------------------------------------------------------------
(* The annotation of a published build.                                    *)

SpecVersion == 1
Unannotated == [v |-> 0, spec |-> NoSpec]    \* no annotation, or an empty one

MarshalSpec(c) == [v |-> SpecVersion, spec |-> c]

(* The spec of an annotation as the set that holds it, or nothing.         *)
UnmarshalSpec(a) == IF a = Garbage \/ a.v > SpecVersion THEN {} ELSE {a.spec}

VerifySpec(a, wantHash) ==
  {c \in UnmarshalSpec(a) : wantHash = NoHash \/ Hash(c) = wantHash}

SpecOf(a, wantHash) == IF a = Unannotated THEN {} ELSE VerifySpec(a, wantHash)

-----------------------------------------------------------------------------
(* What is asked of the options of a build.  A token is its sign, the name *)
(* it gives and the values after the sign, empty ones between commas       *)
(* included: "++", "~~", "+", "~", ":=", "==", "=" or none of them.        *)

ParseConstraint(tok) ==
  LET values == CASE tok.sign \in {"++", "+"} -> <<"true">>
                  [] tok.sign \in {"~~", "~"} -> <<"false">>
                  [] OTHER -> Kept(tok.values, {i \in DOMAIN tok.values : tok.values[i] # ""})
  IN  IF \/ tok.sign \notin {"++", "~~", "+", "~", ":=", "==", "="}
         \/ values = <<>>
         \/ Order(tok.name) = 0
      THEN {}
      ELSE {[values |-> SortedWords(values), exact |-> tok.sign = ":=",
             propagate |-> tok.sign \in {"++", "~~", "=="}]}

(* As it would be if "exactly these" and "these at least" were one.        *)
SameConstraintValues(a, b) == a.values = b.values

SameConstraint(a, b) == a = b

(* The constraint of each name, or nothing at all when a token is not one  *)
(* or contradicts an earlier one.  Of equal tokens the last one stands.    *)
ParseConstraints(toks) ==
  LET Of(i) == CHOOSE c \in ParseConstraint(toks[i]) : TRUE
      Latest(n) == Max({i \in DOMAIN toks : toks[i].name = n})
      names == {toks[i].name : i \in DOMAIN toks}
      clash == \E i, j \in DOMAIN toks :
                  /\ i < j /\ toks[i].name = toks[j].name
                  /\ \A k \in i+1 .. j-1 : toks[k].name # toks[i].name
                  /\ ~SameConstraint(Of(i), Of(j))
  IN  IF \E i \in DOMAIN toks : ParseConstraint(toks[i]) = {} THEN {}
      ELSE IF clash THEN {}
      ELSE {[n \in names |-> Of(Latest(n))]}

Satisfies(cs, have) ==
  \A n \in DOMAIN cs :
     /\ n \in DOMAIN have
     /\ ToSet(cs[n].values) \subseteq ToSet(have[n])
     /\ cs[n].exact => Len(have[n]) = Len(cs[n].values)

-----------------------------------------------------------------------------
(* The lines of a listing: what differs among its builds, for each of them.*)

Values(c, n) == IF n \in DOMAIN c.variants THEN SortedWords(c.variants[n]) ELSE <<>>

DepEdge(c, p) ==
  LET of == {i \in DOMAIN c.deps : c.deps[i].project = p}
  IN  IF of = {} THEN <<>> ELSE <<c.deps[Min(of)].version, c.deps[Min(of)].hash>>

Differ(specs, F(_)) == \E i \in DOMAIN specs : F(specs[i]) # F(specs[1])

DifferingVariants(specs) ==
  Names({n \in UNION {DOMAIN specs[i].variants : i \in DOMAIN specs} :
           Differ(specs, LAMBDA c : Values(c, n))})

DifferingDeps(specs) ==
  Names({p \in UNION {{d.project : d \in ToSet(specs[i].deps)} : i \in DOMAIN specs} :
           Differ(specs, LAMBDA c : DepEdge(c, p))})

RenderVariant(n, values) ==
  IF values \in {<<>>, <<"false">>} THEN <<"~", n>>
  ELSE IF values = <<"true">> THEN <<"+", n>>
  ELSE <<"=", n>> \o values

(* A dependency that there is none of is the project alone.                *)
RenderDep(c, p) ==
  LET edge == DepEdge(c, p)
  IN  IF edge = <<>> THEN <<p>>
      ELSE IF edge[2] = "" THEN <<p, edge[1]>>
      ELSE <<p, edge[1], Short(edge[2])>>

(* As it would be if two specs that differ in the recipe alone were said   *)
(* to be no different.                                                     *)
RecipeSilent(specs, c) == <<>>

(* Told only where there is nothing else to tell.                          *)
RecipePart(specs, c) ==
  IF Differ(specs, LAMBDA d : d.recipe) THEN <<<<"recipe", Short(c.recipe)>>>> ELSE <<>>

(* The axes are those of the whole listing.                                *)
Distinguish(specs) ==
  LET vars == DifferingVariants(specs)
      deps == DifferingDeps(specs)
      Axis(on, part) == IF on THEN <<part>> ELSE <<>>
      graft == Differ(specs, LAMBDA c : c.graft)
      Parts(c) ==
        Axis(Differ(specs, LAMBDA d : d.platform), <<c.platform>>)
        \o [i \in DOMAIN vars |-> RenderVariant(vars[i], Values(c, vars[i]))]
        \o [i \in DOMAIN deps |-> RenderDep(c, deps[i])]
        \o Axis(graft, IF c.graft = "" THEN <<"not grafted">> ELSE <<"grafted", c.graft>>)
      Line(c) ==
        IF IsZero(c) THEN <<>>
        ELSE IF Parts(c) # <<>> THEN Parts(c)
        ELSE RecipePart(specs, c)
  IN  [i \in DOMAIN specs |-> Line(specs[i])]
=============================================================================
