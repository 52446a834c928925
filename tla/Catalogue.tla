----------------------------- MODULE Catalogue ------------------------------
(***************************************************************************)
(* The catalogue of a registry: how it is published and fetched, browsed   *)
(* by name and searched, and what it answers about dependencies: the tree  *)
(* below or above a project and the shortest reason for one (catalog.go,   *)
(* search.go).                                                             *)
(*                                                                         *)
(* A project is the sequence of the segments of its name.                  *)
(***************************************************************************)
EXTENDS Ranking, SequencesExt

CONSTANTS TextOrder,      \* strings, in the order of their bytes
          NameOrder,      \* the names of projects, in the order of their bytes
          BadNames,       \* those that are not names
          BadVersions,    \* versions that are not, or platforms
          Catalogs,       \* the catalogues that a factory publishes
          Forgeries,      \* what else a registry may serve
          Queries,        \* what is searched for
          Lower(_),       \* a string trimmed and in lower case
          Brief,          \* queries of one or two characters
          Begins,         \* <<s, q>> such that string s begins with q
          Inside,         \* <<s, q>> such that string s contains q
          InName,         \* <<p, q>> such that the name p in lower case contains q
          Roots,          \* projects that are asked about
          Depths          \* how deep: 0 is without a limit

Text == ToSet(TextOrder)
ProjectName == ToSet(NameOrder)

Entry == [project : ProjectName, versions : Seq(Text), platforms : Seq(Text), summary : Text,
          deps : Seq(ProjectName), provides : Seq(Text)]

(* The list of projects may be missing, which is not the same as empty.    *)
Document == [generated : Text, dropped : Nat, null : BOOLEAN, projects : Seq(Entry)]

(* No name is in two places of the order, the empty one is none, and a     *)
(* factory lists a project once, and what that needs once, as the recipe   *)
(* does (FetchMetaFor answers with a map).                                 *)
ASSUME CatalogueAssumption ==
  /\ TextOrder \in Seq(STRING)
  /\ ProjectName \subseteq Seq(Text)
  /\ NameOrder \in Seq(ProjectName)
  /\ \A i, j \in DOMAIN NameOrder : NameOrder[i] = NameOrder[j] => i = j
  /\ <<>> \in BadNames
  /\ Catalogs \subseteq Document
  /\ \A c \in Catalogs : \A i, j \in DOMAIN c.projects :
        c.projects[i].project = c.projects[j].project => i = j
  /\ \A c \in Catalogs : \A e \in ToSet(c.projects) :
        \A i, j \in DOMAIN e.deps : e.deps[i] = e.deps[j] => i = j
  /\ Roots \subseteq ProjectName
  /\ Depths \subseteq Nat

VARIABLES published,      \* the catalogue behind the moving tag, signed
          held,           \* the one that a reader has, in a set, or none
          walk,           \* the tree under way
          why             \* the reason under way

catalogue == <<published, held, walk, why>>

Rank(name) == CHOOSE i \in DOMAIN NameOrder : NameOrder[i] = name
ByName(S) == Ranked(S, {p \in S \X S : Rank(p[1]) < Rank(p[2])})
First(S) == ByName(S)[1]

-----------------------------------------------------------------------------
(* The document.                                                           *)

Place(t) == CHOOSE i \in DOMAIN TextOrder : TextOrder[i] = t

InOrder(s) ==
  LET before == {p \in (DOMAIN s) \X (DOMAIN s) :
                   \/ Place(s[p[1]]) < Place(s[p[2]])
                   \/ s[p[1]] = s[p[2]] /\ p[1] < p[2]}
      places == Ranked(DOMAIN s, before)
  IN  [k \in DOMAIN s |-> s[places[k]]]

(* The projects by name, the platforms of each sorted; a list of none is   *)
(* written as if it were missing.                                          *)
MarshalCatalog(c) ==
  LET all == c.projects
      before == {p \in (DOMAIN all) \X (DOMAIN all) :
                   Rank(all[p[1]].project) < Rank(all[p[2]].project)}
      places == Ranked(DOMAIN all, before)
      Sorted(p) == [p EXCEPT !.platforms = InOrder(@)]
  IN  [c EXCEPT !.projects = [i \in DOMAIN all |-> Sorted(all[places[i]])],
                !.null = all = <<>>]

(* A document without content is refused, and one with a forged name; what *)
(* is no version, or no platform, is dropped and counted.                  *)
Clean(s) == Kept(s, {i \in DOMAIN s : s[i] \notin BadVersions})
CleanEntry(p) == [p EXCEPT !.versions = Clean(@), !.platforms = Clean(@)]

Dropped(c) ==
  LET Unusable(p) == Len(p.versions) - Len(Clean(p.versions))
                + Len(p.platforms) - Len(Clean(p.platforms))
  IN  FoldLeft(LAMBDA n, p : n + Unusable(p), 0, c.projects)

Forged(c) ==
  \E i \in DOMAIN c.projects :
     ({c.projects[i].project} \cup ToSet(c.projects[i].deps)) \cap BadNames # {}

UnmarshalCatalog(c) ==
  IF (c.generated = "" /\ c.null) \/ Forged(c) THEN {}
  ELSE {[c EXCEPT !.projects = [i \in DOMAIN @ |-> CleanEntry(@[i])], !.dropped = Dropped(c)]}

Listed(c) == {c.projects[i].project : i \in DOMAIN c.projects}
Of(c, p) == c.projects[CHOOSE i \in DOMAIN c.projects : c.projects[i].project = p]

-----------------------------------------------------------------------------
(* Browsing and searching.                                                 *)

(* As it would be if a name that has others below it were only a heading.  *)
ChildrenOrLeaf(c, prefix) ==
  LET below == {p \in Listed(c) : IsStrictPrefix(prefix, p)}
      Under(n) == Cardinality({p \in below : IsStrictPrefix(n, p)})
  IN  {[name |-> n, leaf |-> Under(n) = 0, under |-> Under(n)]
         : n \in {SubSeq(p, 1, Len(prefix) + 1) : p \in below}}

Children(c, prefix) ==
  LET below == {p \in Listed(c) : IsStrictPrefix(prefix, p)}
  IN  {[name |-> n, leaf |-> n \in below,
        under |-> Cardinality({p \in below : IsStrictPrefix(n, p)})]
         : n \in {SubSeq(p, 1, Len(prefix) + 1) : p \in below}}

Complete(c, node, seg) ==
  {n \in Children(c, node) : seg = "" \/ Last(n.name) = seg \/ <<Last(n.name), seg>> \in Begins}

(* Who has a command of that name.                                         *)
ProvidersOf(c, command) ==
  {p \in Listed(c) : command # "" /\ command \in ToSet(Of(c, p).provides)}

(* The reasons for which a project may have been meant.  Names and         *)
(* summaries are compared in lower case, which the query is in already,    *)
(* commands as they are.  A short query is looked for in no name.          *)
Score(c, p, q) ==
  LET provides == ToSet(Of(c, p).provides)
      leaf == Lower(Last(p))
      command == {0 : cmd \in provides \cap {q}}
                   \cup {2 : cmd \in {d \in provides \ {q} : <<d, q>> \in Begins}}
      name == IF leaf = q THEN {1}
              ELSE IF q \in Brief THEN {}
              ELSE IF <<leaf, q>> \in Inside THEN {3}
              ELSE IF <<p, q>> \in InName THEN {4} ELSE {}
      summary == {5 : s \in {t \in {Lower(Of(c, p).summary)} : <<t, q>> \in Inside}}
  IN  command \cup name \cup summary

(* Each project that was meant, by the best of the reasons.                *)
Hits(c, q) ==
  LET best == [p \in {d \in Listed(c) : Score(c, d, q) # {}} |-> Min(Score(c, p, q))]
      before == {p \in (DOMAIN best) \X (DOMAIN best) :
                   \/ best[p[1]] < best[p[2]]
                   \/ best[p[1]] = best[p[2]] /\ Rank(p[1]) < Rank(p[2])}
  IN  Ranked(DOMAIN best, before)

Search(c, query) == IF Lower(query) = "" THEN <<>> ELSE Hits(c, Lower(query))

-----------------------------------------------------------------------------
(* Publishing and fetching.                                                *)

Resting == [at |-> "rest", root |-> <<>>, depth |-> 0, up |-> FALSE,
            seen |-> {}, stack |-> <<>>, shown |-> <<>>]
Unasked == [at |-> "rest", from |-> <<>>, to |-> <<>>,
            prev |-> <<>>, queue |-> <<>>, path |-> <<>>]

CatalogueInit == published = {} /\ held = {} /\ walk = Resting /\ why = Unasked

PublishCatalog(c) ==
  /\ published = {}
  /\ published' = {MarshalCatalog(c)}
  /\ UNCHANGED <<held, walk, why>>

(* What is served is taken only if it was signed, which what is published  *)
(* is, and reads as a catalogue.                                           *)
FetchCatalog(served) ==
  /\ held = {}
  /\ held' = IF served \in published THEN UnmarshalCatalog(served) ELSE {}
  /\ UNCHANGED <<published, walk, why>>

-----------------------------------------------------------------------------
(* The tree of what a project needs, or, upwards, of what needs it.        *)

Edges(c, up, p) ==
  IF up THEN {e.project : e \in {x \in ToSet(c.projects) : p \in ToSet(x.deps)}}
  ELSE IF p \in Listed(c) THEN ToSet(Of(c, p).deps) ELSE {}

(* The level below a project: nothing beyond the depth that was asked for. *)
(* All of it is marked before any of it is descended into.                 *)
Level(c, w, p, level) ==
  LET kids == IF w.depth > 0 /\ level >= w.depth THEN {} ELSE Edges(c, w.up, p)
  IN  [of |-> p, level |-> level, kids |-> kids, fresh |-> kids \ w.seen]

DepTree(c, root, depth, up) ==
  /\ walk.at = "rest" /\ why.at = "rest"
  /\ LET begun == [Resting EXCEPT !.at = "walk", !.root = root, !.depth = depth,
                                  !.up = up, !.seen = {root}]
         top == Level(c, begun, root, 0)
     IN  walk' = [begun EXCEPT !.stack = <<top>>, !.seen = @ \cup top.fresh]
  /\ UNCHANGED <<published, held, why>>

(* As it would be if a project were marked when it is come to.             *)
VisitMarking(c) ==
  /\ walk.at = "walk" /\ walk.stack # <<>>
  /\ LET top == Last(walk.stack)
         d == First(top.kids)
         repeat == d = walk.root \/ \E i \in DOMAIN walk.shown : walk.shown[i].project = d
         node == [project |-> d, of |-> top.of, level |-> top.level + 1,
                  known |-> d \in Listed(c), repeat |-> repeat]
         below == Level(c, [walk EXCEPT !.seen = {walk.root}], d, top.level + 1)
         rest == Append(Front(walk.stack), [top EXCEPT !.kids = @ \ {d}])
     IN  /\ top.kids # {}
         /\ walk' = [walk EXCEPT
                       !.shown = Append(@, node),
                       !.stack = IF repeat THEN rest ELSE Append(rest, below)]
  /\ UNCHANGED <<published, held, why>>

(* The next of a level: below a fresh one its own level comes first.       *)
Visit(c) ==
  /\ walk.at = "walk" /\ walk.stack # <<>>
  /\ LET top == Last(walk.stack)
         d == First(top.kids)
         node == [project |-> d, of |-> top.of, level |-> top.level + 1,
                  known |-> d \in Listed(c), repeat |-> d \notin top.fresh]
         below == Level(c, walk, d, top.level + 1)
         rest == Append(Front(walk.stack), [top EXCEPT !.kids = @ \ {d}])
     IN  /\ top.kids # {}
         /\ walk' = [walk EXCEPT
                       !.shown = Append(@, node),
                       !.seen = IF node.repeat THEN @ ELSE @ \cup below.fresh,
                       !.stack = IF node.repeat THEN rest ELSE Append(rest, below)]
  /\ UNCHANGED <<published, held, why>>

Ascend ==
  /\ walk.at = "walk"
  /\ IF walk.stack = <<>> THEN walk' = [walk EXCEPT !.at = "shown"]
     ELSE /\ Last(walk.stack).kids = {}
          /\ walk' = [walk EXCEPT !.stack = Front(@)]
  /\ UNCHANGED <<published, held, why>>

-----------------------------------------------------------------------------
(* The shortest reason for a dependency, breadth first.                    *)

WhyDepends(from, to) ==
  /\ walk.at = "rest" /\ why.at = "rest"
  /\ why' = [Unasked EXCEPT !.at = IF from = to THEN "told" ELSE "search",
                            !.from = from, !.to = to, !.prev = [d \in {from} |-> <<>>],
                            !.queue = <<from>>, !.path = IF from = to THEN <<from>> ELSE <<>>]
  /\ UNCHANGED <<published, held, walk>>

(* As it would be if the last that was found were looked at first.         *)
LookDeeper(c) ==
  /\ why.at = "search" /\ why.queue # <<>>
  /\ LET p == Last(why.queue)
         new == Edges(c, FALSE, p) \ DOMAIN why.prev
         prev == [d \in new \cup DOMAIN why.prev |-> IF d \in new THEN p ELSE why.prev[d]]
     IN  why' = IF why.to \in new
                THEN [why EXCEPT !.at = "found", !.prev = prev, !.path = <<why.to>>]
                ELSE [why EXCEPT !.prev = prev, !.queue = Front(@) \o ByName(new)]
  /\ UNCHANGED <<published, held, walk>>

Look(c) ==
  /\ why.at = "search" /\ why.queue # <<>>
  /\ LET p == Head(why.queue)
         new == Edges(c, FALSE, p) \ DOMAIN why.prev
         prev == [d \in new \cup DOMAIN why.prev |-> IF d \in new THEN p ELSE why.prev[d]]
     IN  why' = IF why.to \in new
                THEN [why EXCEPT !.at = "found", !.prev = prev, !.path = <<why.to>>]
                ELSE [why EXCEPT !.prev = prev, !.queue = Tail(@) \o ByName(new)]
  /\ UNCHANGED <<published, held, walk>>

(* The way back from the end.                                              *)
Retrace ==
  /\ why.at = "found"
  /\ LET p == why.prev[Head(why.path)]
     IN  why' = IF p = <<>> THEN [why EXCEPT !.at = "told"]
                ELSE [why EXCEPT !.path = <<p>> \o @]
  /\ UNCHANGED <<published, held, walk>>

NoReason ==
  /\ why.at = "search" /\ why.queue = <<>>
  /\ why' = [why EXCEPT !.at = "told"]
  /\ UNCHANGED <<published, held, walk>>

-----------------------------------------------------------------------------
CatalogueNext ==
  \/ \E c \in Catalogs : PublishCatalog(c)
  \/ \E served \in published \cup Forgeries : FetchCatalog(served)
  \/ \E c \in held, root \in Roots, depth \in Depths, up \in BOOLEAN :
        DepTree(c, root, depth, up)
  \/ \E c \in held : Visit(c)
  \/ Ascend
  \/ \E from, to \in Roots : held # {} /\ WhyDepends(from, to)
  \/ \E c \in held : Look(c)
  \/ Retrace
  \/ NoReason

CatalogueSpec == CatalogueInit /\ [][CatalogueNext]_catalogue

-----------------------------------------------------------------------------
(* What a reader may rely on.                                              *)

(* What is reached from a set in at most one step, and in at most n.       *)
Further(c, up, S) == S \cup UNION {Edges(c, up, p) : p \in S}

Within(c, up, from, n) ==
  LET R[k \in 0 .. n] == IF k = 0 THEN from ELSE Further(c, up, R[k - 1])
  IN  R[n]

(* A tree without a limit shows all that is reached and nothing else,      *)
(* each project with everything below it once, and below it exactly its    *)
(* edges; whatever the limit, what is one step away is shown as such and   *)
(* not as a repetition, and nothing is shown beyond it (walkGraph).        *)
WholeTree ==
  walk.at = "shown" =>
    \A c \in held :
      LET shown == walk.shown
          names == {shown[i].project : i \in DOMAIN shown}
          Below(p) == {i \in DOMAIN shown : shown[i].of = p}
          reach == Within(c, walk.up, {walk.root}, Len(NameOrder))
      IN  /\ \A i \in DOMAIN shown : shown[i].known <=> shown[i].project \in Listed(c)
          /\ \A i \in Below(walk.root) : shown[i].repeat => shown[i].project = walk.root
          /\ walk.depth > 0 => names \subseteq Within(c, walk.up, {walk.root}, walk.depth)
          /\ walk.depth = 0 =>
               /\ names \cup {walk.root} = reach
               /\ \A p \in reach \ {walk.root} :
                     Cardinality({i \in DOMAIN shown : shown[i].project = p /\ ~shown[i].repeat}) = 1
               /\ \A p \in reach :
                     /\ {shown[i].project : i \in Below(p)} = Edges(c, walk.up, p)
                     /\ Cardinality(Below(p)) = Cardinality(Edges(c, walk.up, p))

(* A reason is a path of dependencies from one end to the other, there is  *)
(* none that is shorter, and no reason means that there is no path         *)
(* (WhyDepends).                                                           *)
ReasonIsShortest ==
  why.at = "told" =>
    \A c \in held :
      LET path == why.path
          Near(n) == why.to \in Within(c, FALSE, {why.from}, n)
      IN  IF path = <<>> THEN ~Near(Len(NameOrder))
          ELSE /\ Head(path) = why.from /\ Last(path) = why.to
               /\ \A i \in 2 .. Len(path) : path[i] \in Edges(c, FALSE, path[i - 1])
               /\ Len(path) > 1 => ~Near(Len(path) - 2)

(* Whoever goes down the names comes to every project and to no other, is  *)
(* told how many there are below each, and is offered what completes a     *)
(* segment; a search lists a project once, and before any other those that *)
(* have a command that is spelt as the query is in lower case, which the   *)
(* query itself need not be; no bad name or version is ever held.          *)
(* (Children, Complete, Search, UnmarshalCatalog)                          *)
Browsable ==
  \A c \in held :
    LET headings == UNION {{SubSeq(p, 1, k) : k \in 0 .. Len(p)} : p \in Listed(c)}
        nodes == UNION {Children(c, h) : h \in headings}
    IN  /\ {n.name : n \in {m \in nodes : m.leaf}} = Listed(c)
        /\ \A n \in nodes :
              /\ n.under = Cardinality({p \in Listed(c) : IsStrictPrefix(n.name, p)})
              /\ n \in Complete(c, Front(n.name), Last(n.name))
        /\ Listed(c) \cap BadNames = {}
        /\ \A i \in DOMAIN c.projects : ToSet(c.projects[i].versions) \cap BadVersions = {}
        /\ \A query \in Queries :
             LET hits == Search(c, query)
                 meant == ProvidersOf(c, Lower(query))
             IN  /\ Cardinality(ToSet(hits)) = Len(hits)
                 /\ ToSet(SubSeq(hits, 1, Cardinality(meant))) = meant
=============================================================================
