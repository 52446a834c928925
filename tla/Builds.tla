------------------------------- MODULE Builds -------------------------------
(***************************************************************************)
(* The builds of a version: which there are in the store and in the        *)
(* registry and what each is (builds.go), in which order they are shown    *)
(* (buildorder.go), which are set aside (withdrawn.go) and which one a     *)
(* part of a hash names; while others publish, rewrite and install.        *)
(*                                                                         *)
(* A tag and a directory are a spelling of the version and a hash.         *)
(***************************************************************************)
EXTENDS Concrete

CONSTANTS Version,        \* the version that is asked about
          Tags,           \* tags that are published, or may be
          Annotations,    \* what may be written beside any of them
          Dirs,           \* directories that installs may make
          Worlds,         \* registries, stores and withdrawal lists at first
          HashParts,      \* parts of hashes that are asked for
          Truth,          \* the spec that each hash was computed from
          Questions,      \* what is asked of options: sequences of tokens
          NumberOf(_),    \* the number that a version spells: "1" and "1.0" are one
          PrecisionOf(_), \* how precise a spelling is, then how high its bytes
          Upstreams,      \* what versions the second distribution may list
          MaxPushes,      \* bound on the pushes while builds are listed
          MaxAsked        \* bound on the listings

(* A tag or a directory; a spec whose strings are known; an annotation.    *)
IsName(t) == t = [raw |-> t.raw, hash |-> t.hash] /\ t.hash \in Seq(Nat)

IsSpec(c) ==
  /\ IsFiniteSet(DOMAIN c.variants) /\ DOMAIN c.variants \subseteq ToSet(Words)
  /\ \A n \in DOMAIN c.variants : c.variants[n] \in Seq(ToSet(Words))
  /\ DOMAIN c.deps = 1 .. Len(c.deps) /\ Len(c.deps) \in Nat
  /\ \A d \in ToSet(c.deps) : d.project \in ToSet(Words)

IsAnnotation(a) == a = Garbage \/ IsSpec(a.spec)

(* What is asked of options, of strings that are known or empty.           *)
IsQuestion(toks) ==
  /\ DOMAIN toks = 1 .. Len(toks) /\ Len(toks) \in Nat
  /\ \A i \in DOMAIN toks : toks[i].values \in Seq(ToSet(Words) \cup {""})

ASSUME BuildsAssumption ==
  /\ Words \in Seq(STRING) /\ \A i, j \in DOMAIN Words : Words[i] = Words[j] => i = j
  /\ {"true", "false"} \subseteq ToSet(Words) /\ \A toks \in Questions : IsQuestion(toks)
  /\ \A t \in Tags \cup Dirs : IsName(t)
  /\ \A a \in Annotations : IsAnnotation(a)
  /\ HashParts \subseteq Seq(Nat) \ {NoHash}
  /\ \A w \in Worlds :
       /\ IsFiniteSet(DOMAIN w.registry) /\ IsFiniteSet(DOMAIN w.store)
       /\ \A t \in DOMAIN w.registry \cup DOMAIN w.store : IsName(t)
       /\ \A d \in DOMAIN w.store : w.store[d] \in Nat \ {0}
       /\ \A t \in DOMAIN w.registry : IsAnnotation(w.registry[t])
       /\ DOMAIN w.withdrawn = 1 .. Len(w.withdrawn) /\ Len(w.withdrawn) \in Nat

VARIABLES registry,       \* published tags, with the annotation of each
          store,          \* installed directories, with the time of each
          withdrawn,      \* the withdrawals, read once
          call,           \* the listing under way
          named,          \* which builds the parts of hashes have named
          pushes, asked

vars == <<registry, store, withdrawn, call, named, pushes, asked>>

Idle == [at |-> "idle", rows |-> <<>>, next |-> 1, had |-> <<>>, saw |-> {}]

Init ==
  /\ \E w \in Worlds :
        registry = w.registry /\ store = w.store /\ withdrawn = w.withdrawn
  /\ call = Idle /\ named = {} /\ pushes = 0 /\ asked = 0

-----------------------------------------------------------------------------
(* Hashes are compared as strings are.                                     *)
HashBefore(g, h) ==
  \E i \in DOMAIN h :
     /\ \A j \in 1 .. i-1 : j \in DOMAIN g /\ g[j] = h[j]
     /\ i \in DOMAIN g => g[i] < h[i]

(* What is recorded of a withdrawn build: its own entry, or else the first *)
(* one for all builds of its version.                                      *)
WithdrawalOf(version, hash) ==
  LET its == {i \in DOMAIN withdrawn : withdrawn[i].version = version}
      own == {i \in its : withdrawn[i].hash = hash /\ hash # NoHash}
      wide == {i \in its : withdrawn[i].hash = NoHash}
  IN  IF own # {} THEN <<withdrawn[Min(own)]>>
      ELSE IF wide # {} THEN <<withdrawn[Min(wide)]>> ELSE <<>>

IsWithdrawn(b) == WithdrawalOf(Version, b.hash) # <<>>

PreferNotWithdrawn(builds) ==
  LET good == {i \in DOMAIN builds : ~IsWithdrawn(builds[i])}
  IN  IF good = {} THEN builds ELSE Kept(builds, good)

-----------------------------------------------------------------------------
(* The order of a listing.                                                 *)

(* At least as new on every dependency that both have, newer on one.       *)
ClosureIsLater(a, b) ==
  LET shared == {p \in ToSet(a.deps) \X ToSet(b.deps) : p[1].project = p[2].project}
      CmpVer(d, e) == Order(d.version) - Order(e.version)
  IN  /\ ~IsZero(a) /\ ~IsZero(b)
      /\ \A p \in shared : CmpVer(p[1], p[2]) >= 0
      /\ \E p \in shared : CmpVer(p[1], p[2]) > 0

ClosureRank(builds, b) ==
  Cardinality({i \in DOMAIN builds :
                 builds[i].hash # b.hash /\ ClosureIsLater(builds[i].spec, b.spec)})

(* As it would be if the builds were compared by their closures directly.  *)
LessByDominance(builds, by, a, b) ==
  IF by = "closure" /\ ClosureIsLater(a.spec, b.spec) THEN TRUE
  ELSE IF by = "closure" /\ ClosureIsLater(b.spec, a.spec) THEN FALSE
  ELSE HashBefore(a.hash, b.hash)

Less(builds, by, a, b) ==
  LET ra == ClosureRank(builds, a)
      rb == ClosureRank(builds, b)
      aw == IsWithdrawn(a)
      bw == IsWithdrawn(b)
  IN  IF by = "closure" /\ ra # rb THEN ra < rb
      ELSE IF by = "installed" /\ a.time # b.time
           THEN a.time # 0 /\ (b.time = 0 \/ a.time > b.time)
      ELSE IF by = "status" /\ aw # bw THEN bw
      ELSE HashBefore(a.hash, b.hash)

(* sort.SliceStable of a few elements: each moves left past those that it  *)
(* is less than.                                                           *)
Insert(builds, by, s, b) ==
  LET stays == {i \in DOMAIN s : ~Less(builds, by, b, s[i])}
      k == IF stays = {} THEN 0 ELSE Max(stays)
  IN  InsertAt(s, k + 1, b)

SortBuilds(builds, by) ==
  LET Sorted[n \in 0 .. Len(builds)] ==
        IF n = 0 THEN <<>> ELSE Insert(builds, by, Sorted[n - 1], builds[n])
  IN  Sorted[Len(builds)]

-----------------------------------------------------------------------------
(* Listing the builds of Version.                                          *)

Row(hash, time, published) ==
  [hash |-> hash, time |-> time, published |-> published,
   spec |-> NoSpec]

(* As it would be if the hash were no part of what a tag names.            *)
OneNumber(t, u) == NumberOf(t.raw) = NumberOf(u.raw)

(* Spellings of one build.                                                 *)
OneBuild(t, u) == NumberOf(t.raw) = NumberOf(u.raw) /\ t.hash = u.hash

(* What a listing of tags comes to, for each order they may come in: one   *)
(* spelling of each build, the most precise one of tags without a hash,    *)
(* the first that is listed of the others.                                 *)
SelectVersions(tags) ==
  {T \in SUBSET tags :
     /\ \A t \in tags : \E u \in T : OneBuild(t, u)
     /\ \A t, u \in T : OneBuild(t, u) => t = u
     /\ \A t \in tags, u \in T :
           u.hash = NoHash /\ OneBuild(t, u) => PrecisionOf(t.raw) <= PrecisionOf(u.raw)}

(* The lists of hashes that asking for Version may get: of the tags, which *)
(* are for any platform; or, of a registry that has none of the project,   *)
(* those of the second distribution, which has no hashes.                  *)
VersionsFor(other) ==
  LET Theirs(names) == {t.hash : t \in {u \in names : u.raw = Version}}
  IN  IF registry = <<>>
      THEN {Theirs([raw : other, hash : {NoHash}])}
      ELSE {Theirs(names) : names \in SelectVersions(DOMAIN registry)}

(* The rows of a set by their hashes.                                      *)
Collect(rows) ==
  Ranked(rows, {p \in rows \X rows : HashBefore(p[1].hash, p[2].hash)})

InstalledHere == {d \in DOMAIN store : d.raw = Version}

(* A directory whose name has no hash, which older releases made, is given *)
(* to StoreBuildDirName, which panics.                                     *)
ListInstalled ==
  /\ call.at = "idle" /\ asked < MaxAsked
  /\ asked' = asked + 1
  /\ call' = [at |-> IF \E d \in InstalledHere : d.hash = NoHash
                     THEN "panicked" ELSE "listing",
              rows |-> Collect({Row(d.hash, store[d], FALSE) : d \in InstalledHere}),
              next |-> 1, had |-> store, saw |-> DOMAIN registry]
  /\ UNCHANGED <<registry, store, withdrawn, named, pushes>>

(* The builds of both sources, each of them once.                          *)
Join(rows, hashes) ==
  {[r EXCEPT !.published = r.hash \in hashes] : r \in rows}
    \cup {Row(h, 0, TRUE) : h \in hashes \ {r.hash : r \in rows}}

(* Who is asked answers, or does not, or there is nobody to ask after a    *)
(* registry that has nothing: then what is installed is all.               *)
ListPublished(answers, other) ==
  /\ call.at = "listing"
  /\ IF answers
     THEN \E hashes \in VersionsFor(other) :
            call' = [call EXCEPT !.at = "describing", !.rows = Collect(Join(ToSet(@), hashes))]
     ELSE call' = [call EXCEPT !.at = "failed"]
  /\ UNCHANGED <<registry, store, withdrawn, named, pushes, asked>>

(* One row after the other, as far as the registry lets it be known.  Who  *)
(* vouches for it, which is read with it, is the matter of Trust.          *)
Describe(annotated) ==
  /\ call.at = "describing" /\ call.next <= Len(call.rows)
  /\ LET row == call.rows[call.next]
         tag == [raw |-> Version, hash |-> row.hash]
         spec == IF annotated /\ tag \in DOMAIN registry
                 THEN SpecOf(registry[tag], row.hash) ELSE {}
     IN  IF row.published
         THEN call' = [call EXCEPT !.next = @ + 1,
                         !.rows[call.next] =
                            [row EXCEPT !.spec = IF spec = {} THEN NoSpec
                                                 ELSE CHOOSE c \in spec : TRUE]]
         ELSE call' = [call EXCEPT !.next = @ + 1]
  /\ UNCHANGED <<registry, store, withdrawn, named, pushes, asked>>

(* Every row was looked at, or there is no client to look with.            *)
Return(client) ==
  /\ call.at = "describing"
  /\ client => call.next > Len(call.rows)
  /\ ~client => call.next = 1
  /\ call' = [call EXCEPT !.at = "done"]
  /\ UNCHANGED <<registry, store, withdrawn, named, pushes, asked>>

-----------------------------------------------------------------------------
(* As it would be if the first of several were taken.                      *)
MatchFirst(builds, prefix) ==
  LET hit == {i \in DOMAIN builds : IsPrefix(prefix, builds[i].hash)}
  IN  {builds[i].hash : i \in {j \in hit : \A k \in hit : j <= k}}

(* The build that part of a hash names: one, or an error.                  *)
MatchBuild(builds, prefix) ==
  LET hit == {i \in DOMAIN builds : IsPrefix(prefix, builds[i].hash)}
  IN  IF Cardinality(hit) = 1 THEN {builds[i].hash : i \in hit} ELSE {}

Name(prefix) ==
  /\ call.at = "done"
  /\ named' = named \cup {<<prefix, h>> : h \in MatchBuild(call.rows, prefix)}
  /\ call' = Idle
  /\ UNCHANGED <<registry, store, withdrawn, pushes, asked>>

Leave ==
  /\ call.at \in {"failed", "panicked", "done"}
  /\ call' = Idle
  /\ UNCHANGED <<registry, store, withdrawn, named, pushes, asked>>

Put(f, x, y) == [z \in DOMAIN f \cup {x} |-> IF z = x THEN y ELSE f[z]]

(* Somebody publishes, or writes another annotation beside a build.        *)
Push(tag, annotation) ==
  /\ pushes < MaxPushes
  /\ pushes' = pushes + 1
  /\ registry' = Put(registry, tag, annotation)
  /\ UNCHANGED <<store, withdrawn, call, named, asked>>

Install(dir, time) ==
  /\ pushes < MaxPushes
  /\ pushes' = pushes + 1
  /\ dir \notin DOMAIN store
  /\ dir.hash # NoHash
  /\ store' = Put(store, dir, time)
  /\ UNCHANGED <<registry, withdrawn, call, named, asked>>

Now == Max({0} \cup {store[d] : d \in DOMAIN store})

Listing ==
  \/ ListInstalled
  \/ \E answers \in BOOLEAN, other \in Upstreams : ListPublished(answers, other)
  \/ \E annotated \in BOOLEAN : Describe(annotated)
  \/ \E client \in BOOLEAN : Return(client)

Next ==
  \/ Listing
  \/ \E prefix \in HashParts : Name(prefix)
  \/ Leave
  \/ \E tag \in Tags, annotation \in Annotations : Push(tag, annotation)
  \/ \E dir \in Dirs, time \in {Now, Now + 1} \ {0} : Install(dir, time)

Spec == Init /\ [][Next]_vars

-----------------------------------------------------------------------------
(* A listing has every build once, and every installed one as it is.  A    *)
(* row that is marked as published has its tag in the registry, unless it  *)
(* came from the second distribution, for want of any tag when the listing *)
(* began; and each tag of the version that was there then has its row,     *)
(* unless another spelling of the same build stands for it.  Of a registry *)
(* that gave no answer it says nothing (BuildsOf).  All that whatever is   *)
(* published and installed meanwhile.                                      *)
NothingOverlooked ==
  call.at \in {"describing", "failed", "done"} =>
    LET rows == call.rows
        shown == {r.hash : r \in {q \in ToSet(rows) : q.published}}
        StandsFor(u, t) ==
          /\ u.raw # t.raw /\ u.hash = t.hash /\ NumberOf(u.raw) = NumberOf(t.raw)
          /\ t.hash = NoHash => PrecisionOf(t.raw) <= PrecisionOf(u.raw)
    IN  /\ \A i \in DOMAIN rows, j \in DOMAIN rows : i < j => HashBefore(rows[i].hash, rows[j].hash)
        /\ {<<r.hash, r.time>> : r \in {q \in ToSet(rows) : q.time # 0}} =
             {<<d.hash, call.had[d]>> : d \in {e \in DOMAIN call.had : e.raw = Version}}
        /\ call.at = "failed" => (shown = {} /\ \A r \in ToSet(rows) : r.time # 0)
        /\ \A h \in shown :
              [raw |-> Version, hash |-> h] \in DOMAIN registry \/ (h = NoHash /\ call.saw = {})
        /\ call.at # "failed" =>
             \A t \in {u \in call.saw : u.raw = Version} :
                t.hash \in shown \/ \E u \in DOMAIN registry : StandsFor(u, t)

(* What a listing says a build is made of is what its hash was computed    *)
(* from, whatever anybody wrote beside it (VerifySpec).                    *)
DescribedTruly ==
  \A i \in DOMAIN call.rows :
     LET r == call.rows[i]
     IN  r.hash \in DOMAIN Truth /\ ~IsZero(r.spec) => SameBuild(r.spec, Truth[r.hash])

(* Part of a hash that named a build never comes to name another one, as   *)
(* more of them are published (MatchBuild), as long as no build with a     *)
(* hash is published under two spellings of its version: a listing has     *)
(* only one of them.                                                       *)
NamesHold ==
  (\A t, u \in DOMAIN registry : t.hash # NoHash /\ OneBuild(t, u) => t = u)
    => \A m, n \in named : m[1] = n[1] => m = n

(* The order of a listing does not depend on the order in which the builds *)
(* came, and a build stands behind each that is later, unless that one has *)
(* more before it than what is before this one (SortBuilds, closureRank).  *)
OrderStands ==
  call.at = "done" =>
    LET rows == call.rows
        Arrived(p) == [i \in DOMAIN rows |-> rows[p[i]]]
        arrivals == Bijection(DOMAIN rows, DOMAIN rows)
        orders == {"hash", "status", "installed", "closure"}
        late == SortBuilds(rows, "closure")
        Later(i, j) == ClosureIsLater(late[i].spec, late[j].spec)
    IN  /\ \A by \in orders, p \in arrivals :
              SortBuilds(Arrived(p), by) = SortBuilds(rows, by)
        /\ \A i, j \in DOMAIN late :
              /\ Later(i, j)
              /\ \A k \in DOMAIN late : Later(k, i) => Later(k, j)
              => i < j

(* Who asks for options and sets aside what was withdrawn gets the builds  *)
(* that meet everything that was asked, and a withdrawn one only where all *)
(* of them are; a question that contradicts itself gets no answer; and the *)
(* reason that is given is the build's own if it has one (ParseConstraints,*)
(* Satisfies, PreferNotWithdrawn, WithdrawalOf).                           *)
ChosenSoundly ==
  call.at = "done" =>
    \A toks \in Questions :
      LET Met(b, tok) ==
            \E c \in ParseConstraint(tok) :
               LET have == Values(b.spec, tok.name)
               IN  IF tok.sign = ":=" THEN have = c.values
                   ELSE ToSet(c.values) \subseteq ToSet(have)
          Meet == {b \in ToSet(call.rows) : \A i \in DOMAIN toks : Met(b, toks[i])}
          good == {b \in Meet : ~\E i \in DOMAIN withdrawn :
                     withdrawn[i].version = Version /\ withdrawn[i].hash \in {NoHash, b.hash}}
          Those(cs) == {i \in DOMAIN call.rows : Satisfies(cs, call.rows[i].spec.variants)}
          answer == {ToSet(PreferNotWithdrawn(Kept(call.rows, Those(cs))))
                       : cs \in ParseConstraints(toks)}
          contradicts == \E i, j \in DOMAIN toks :
                            /\ toks[i].name = toks[j].name
                            /\ ParseConstraint(toks[i]) # ParseConstraint(toks[j])
      IN  /\ contradicts => answer = {}
          /\ answer \subseteq {IF good = {} THEN Meet ELSE good}
          /\ \A b \in ToSet(call.rows), i \in DOMAIN withdrawn :
                withdrawn[i].version = Version /\ withdrawn[i].hash = b.hash /\ b.hash # NoHash
                  => WithdrawalOf(Version, b.hash)[1].hash = b.hash

(* Two builds of one listing have the same line only when the line has no  *)
(* room for the difference: they have the same platform, graft, options    *)
(* and, as far as hashes are shown, dependencies; and, as far as digests   *)
(* are shown, the same recipe, unless a build of the listing differs from  *)
(* them in one of the other parts, which keeps the recipe out of all lines *)
(* (Distinguish).                                                          *)
RowsTellApart ==
  call.at = "done" =>
    LET rows == call.rows
        lines == Distinguish([i \in DOMAIN rows |-> rows[i].spec])
        Projects(c) == {d.project : d \in ToSet(c.deps)}
        Edges(c) == {<<p, RenderDep(c, p)>> : p \in Projects(c)}
        Alike(c, d) ==
          /\ <<c.platform, c.graft>> = <<d.platform, d.graft>>
          /\ \A n \in DOMAIN c.variants \cup DOMAIN d.variants : Values(c, n) = Values(d, n)
          /\ \A p \in Projects(c) \cup Projects(d) : DepEdge(c, p) = DepEdge(d, p)
    IN  \A i, j \in DOMAIN rows :
          LET c == rows[i].spec
              d == rows[j].spec
          IN  ~IsZero(c) /\ ~IsZero(d) /\ lines[i] = lines[j] =>
                /\ <<c.platform, c.graft>> = <<d.platform, d.graft>>
                /\ \A n \in DOMAIN c.variants \cup DOMAIN d.variants :
                      RenderVariant(n, Values(c, n)) = RenderVariant(n, Values(d, n))
                /\ Edges(c) = Edges(d)
                /\ \/ Short(c.recipe) = Short(d.recipe)
                   \/ \E k \in DOMAIN rows : ~Alike(rows[k].spec, c)
=============================================================================
