------------------------------- MODULE Resolve -------------------------------
(***************************************************************************)
(* The resolution of a closure: the walk over the recipes that collects    *)
(* every demand on every project it reaches (collectGraph), then a version *)
(* for each project (ResolveClosureFor), or several versions where the     *)
(* demands do not intersect but their libraries do not meet either         *)
(* (pickABILines).                                                         *)
(*                                                                         *)
(* What a recipe asks for does not depend on versions.  The choice of one  *)
(* version is Versions' subject; here it is the newest one that is         *)
(* published for the platform and meets the demands, supported lines       *)
(* first.                                                                  *)
(***************************************************************************)
EXTENDS Integers, Sequences, Functions

CONSTANTS
  Project,
  Sorted,      \* the projects of a set, by name
  Version,     \* versions, as their places in the order
  Demand,      \* constraints that not every version meets
  Admits,      \* the versions that meet a demand
  Anything,         \* the constraint that every version meets
  Soname,
  Recipes,     \* what recipes may ask for
  Registries,  \* what a registry may hold
  Requested,   \* stands for the user, as the one who asks
  None

Asking == [Project \cup {Requested} -> [Project -> Demand \cup {Anything, None}]]
Registry ==
  [published : [Project -> SUBSET Version],
   dead : [Project -> SUBSET Version],
   sonames : [Project -> [Version -> SUBSET Soname]],
   reliable : BOOLEAN]
Answers == {"resolved", "unsatisfied", "conflict", "unread"}

ASSUME ResolveAssumption ==
  /\ Version \subseteq Nat
  /\ Requested \notin Project
  /\ {Anything, None} \cap Demand = {} /\ Anything # None
  /\ None \notin Answers
  /\ Admits \in [Demand -> SUBSET Version]
  /\ \A S \in SUBSET Project :
       Sorted[S] \in Seq(Project) /\ Range(Sorted[S]) = S
  /\ Recipes \subseteq Asking
  /\ Registries \subseteq Registry

VARIABLES
  asks,         \* who asks for what under which constraint
  registry,     \* what is published, and whether every call succeeds and
                \* no version is ambiguous
  pc,
  queue,        \* projects to visit
  order,        \* the projects visited
  constraints,  \* the demands collected, by project
  askedBy,      \* who made each
  todo,         \* projects that still need a version
  rest,         \* the demands that have not been placed in a group
  groups,       \* groups of demands that one version can meet
  at,           \* the group that is tried next
  lines,        \* a version for each of the first groups
  closure,      \* the versions chosen, by project
  answer

walk == <<queue, order, constraints, askedBy>>
split == <<rest, groups, at, lines>>
inputs == <<asks, registry>>
vars == <<inputs, pc, walk, todo, split, closure, answer>>

TypeOK ==
  /\ asks \in Recipes
  /\ registry \in Registries
  /\ pc \in {"walk", "pick", "split", "done"}
  /\ queue \in Seq(Project)
  /\ order \in Seq(Project)
  /\ constraints \in [Project -> Seq(Demand)]
  /\ askedBy \in [Project -> Seq(Project \cup {Requested})]
  /\ todo \in Seq(Project)
  /\ rest \in Seq(Demand)
  /\ groups \in Seq(SUBSET Demand)
  /\ at \in Nat
  /\ lines \in Seq(Version)
  /\ closure \in [Project -> SUBSET Version]
  /\ answer \in Answers \cup {None}

-----------------------------------------------------------------------------
Targets(p) == {q \in Project : asks[p][q] # None}
Seen == Range(order)

(* What add makes of one ask: none of what every version meets, and        *)
(* nothing twice.                                                          *)
NewDemandFirst(p, q, have) == asks[p][q] \notin {None, Anything} /\ have = <<>>
NewDemand(p, q, have) == asks[p][q] \notin {None, Anything} \cup Range(have)
Added(p, have) ==
  [q \in Project |-> IF NewDemand(p, q, have[q])
                     THEN Append(have[q], asks[p][q]) ELSE have[q]]
BlamedEachTime(p, have, who) ==
  [q \in Project |-> IF asks[p][q] \notin {None, Anything}
                     THEN Append(who[q], p) ELSE who[q]]
Blamed(p, have, who) ==
  [q \in Project |-> IF NewDemand(p, q, have[q])
                     THEN Append(who[q], p) ELSE who[q]]

(* PickVersionForAll: the versions it may choose from, and the choice.     *)
Meeting(p, demands) ==
  {v \in registry.published[p] : \A d \in demands : v \in Admits[d]}
RankedSupported(p, demands) == Meeting(p, demands) \ registry.dead[p]
Ranked(p, demands) ==
  LET supported == Meeting(p, demands) \ registry.dead[p]
  IN IF supported # {} THEN supported ELSE Meeting(p, demands)
Pick(p, demands) ==
  {v \in Ranked(p, demands) : \A w \in Ranked(p, demands) : w <= v}
PickFails(p, demands) == Ranked(p, demands) = {} \/ ~registry.reliable

(* sonamesDisjoint                                                         *)
Sonames(p, v) == registry.sonames[p][v]
Disjoint(p, vs) ==
  \A i, j \in DOMAIN vs :
    /\ Sonames(p, vs[i]) # {}
    /\ i # j => Sonames(p, vs[i]) \cap Sonames(p, vs[j]) = {}

-----------------------------------------------------------------------------
Init ==
  /\ asks \in Recipes
  /\ registry \in Registries
  /\ pc = "walk"
  /\ queue = Sorted[Targets(Requested)]
  /\ order = <<>>
  /\ constraints = Added(Requested, [q \in Project |-> <<>>])
  /\ askedBy = Blamed(Requested, [q \in Project |-> <<>>], [q \in Project |-> <<>>])
  /\ todo = <<>>
  /\ rest = <<>> /\ groups = <<>> /\ at = 1 /\ lines = <<>>
  /\ closure = [p \in Project |-> {}]
  /\ answer = None

Answer(what) ==
  /\ answer' = what /\ pc' = "done"
  /\ UNCHANGED <<inputs, walk, todo, split, closure>>

(* A project that was queued twice.                                        *)
Skip ==
  /\ pc = "walk" /\ queue # <<>> /\ Head(queue) \in Seen
  /\ queue' = Tail(queue)
  /\ UNCHANGED <<inputs, pc, order, constraints, askedBy, todo, split, closure, answer>>

Visiting(p) == pc = "walk" /\ queue # <<>> /\ p = Head(queue) /\ p \notin Seen

Visit(p) ==
  /\ Visiting(p)
  /\ order' = Append(order, p)
  /\ constraints' = Added(p, constraints)
  /\ askedBy' = Blamed(p, constraints, askedBy)
  /\ queue' = Tail(queue) \o Sorted[Targets(p) \ Range(order')]
  /\ UNCHANGED <<inputs, pc, todo, split, closure, answer>>

(* FetchMetaFor fails.                                                     *)
Unread(p) == Visiting(p) /\ ~registry.reliable /\ Answer("unread")

Walked ==
  /\ pc = "walk" /\ queue = <<>>
  /\ pc' = "pick" /\ todo' = order
  /\ UNCHANGED <<inputs, walk, split, closure, answer>>

-----------------------------------------------------------------------------
Demands(p) == Range(constraints[p])
Picking(p) == pc = "pick" /\ todo # <<>> /\ p = Head(todo)

Choose(p, vs) ==
  /\ closure' = [closure EXCEPT ![p] = vs]
  /\ todo' = Tail(todo) /\ pc' = "pick"
  /\ rest' = <<>> /\ groups' = <<>> /\ at' = 1 /\ lines' = <<>>
  /\ UNCHANGED <<inputs, walk, answer>>

PickOne(p) ==
  Picking(p) /\ \E v \in Pick(p, Demands(p)) : Choose(p, {v})

(* One demand cannot be split.                                             *)
Unsatisfied(p) ==
  /\ Picking(p) /\ PickFails(p, Demands(p))
  /\ Len(constraints[p]) < 2 /\ Answer("unsatisfied")

StartSplit(p) ==
  /\ Picking(p) /\ PickFails(p, Demands(p)) /\ Len(constraints[p]) >= 2
  /\ pc' = "split" /\ rest' = constraints[p]
  /\ UNCHANGED <<inputs, walk, todo, groups, at, lines, closure, answer>>

(* partitionConstraints: a demand joins the first group that still         *)
(* resolves with it, and starts a group of its own otherwise.              *)
Placing(p) == pc = "split" /\ p = Head(todo) /\ rest # <<>>
Placed(gs) ==
  /\ groups' = gs /\ rest' = Tail(rest) /\ at' = 1
  /\ UNCHANGED <<inputs, pc, walk, todo, lines, closure, answer>>

Join(p) ==
  /\ Placing(p) /\ at <= Len(groups)
  /\ Pick(p, groups[at] \cup {Head(rest)}) # {}
  /\ Placed([groups EXCEPT ![at] = @ \cup {Head(rest)}])

TryNext(p) ==
  /\ Placing(p) /\ at <= Len(groups)
  /\ PickFails(p, groups[at] \cup {Head(rest)})
  /\ at' = at + 1
  /\ UNCHANGED <<inputs, pc, walk, todo, rest, groups, lines, closure, answer>>

Alone(p) ==
  /\ Placing(p) /\ at > Len(groups)
  /\ Pick(p, {Head(rest)}) # {}
  /\ Placed(Append(groups, {Head(rest)}))

DeadDemand(p) ==
  /\ Placing(p) /\ at > Len(groups)
  /\ PickFails(p, {Head(rest)}) /\ Answer("conflict")

(* pickABILines, when every demand has a group.                            *)
Lining(p) == pc = "split" /\ p = Head(todo) /\ rest = <<>>

OneGroup(p) == Lining(p) /\ Len(groups) < 2 /\ Answer("conflict")

NextLine(p) ==
  /\ Lining(p) /\ Len(groups) >= 2 /\ Len(lines) < Len(groups)
  /\ \E v \in Pick(p, groups[Len(lines) + 1]) : lines' = Append(lines, v)
  /\ UNCHANGED <<inputs, pc, walk, todo, rest, groups, at, closure, answer>>

NoLine(p) ==
  /\ Lining(p) /\ Len(groups) >= 2 /\ Len(lines) < Len(groups)
  /\ PickFails(p, groups[Len(lines) + 1]) /\ Answer("conflict")

AllLines(p) == Lining(p) /\ Len(groups) >= 2 /\ Len(lines) = Len(groups)

HoldNewest(p) ==
  /\ AllLines(p) /\ Disjoint(p, lines)
  /\ Choose(p, {v \in Range(lines) : \A w \in Range(lines) : w <= v})
Hold(p) == AllLines(p) /\ Disjoint(p, lines) /\ Choose(p, Range(lines))

(* Annotations that cannot be read declare no sonames.                     *)
Overlap(p) ==
  AllLines(p) /\ (~Disjoint(p, lines) \/ ~registry.reliable) /\ Answer("conflict")

Resolved == pc = "pick" /\ todo = <<>> /\ Answer("resolved")

Next ==
  \/ Skip \/ Walked \/ Resolved
  \/ \E p \in Project :
       \/ Visit(p) \/ Unread(p)
       \/ PickOne(p) \/ Unsatisfied(p) \/ StartSplit(p)
       \/ Join(p) \/ TryNext(p) \/ Alone(p) \/ DeadDemand(p)
       \/ OneGroup(p) \/ NextLine(p) \/ NoLine(p) \/ Hold(p) \/ Overlap(p)

Spec == Init /\ [][Next]_vars

-----------------------------------------------------------------------------
(* Properties.                                                             *)

(* The projects that the request reaches: those in every set that holds    *)
(* what is requested and what its members ask for.                         *)
Closed(S) ==
  Targets(Requested) \subseteq S /\ \A p \in S : Targets(p) \subseteq S
Reach == {p \in Project : \A S \in SUBSET Project : Closed(S) => p \in S}

DemandsOn(q) ==
  {asks[p][q] : p \in Reach \cup {Requested}} \ {None, Anything}

(* Before any version is chosen, the walk has visited what the request     *)
(* reaches, each project once, and has collected every demand that anybody *)
(* there makes, and no other: no choice is made from a part of them.       *)
(* (collectGraph)                                                          *)
Collected ==
  pc \in {"pick", "split"} \/ answer \in {"resolved", "conflict", "unsatisfied"}
WalkComplete ==
  Collected =>
    /\ Seen = Reach
    /\ \A i, j \in DOMAIN order : order[i] = order[j] => i = j
    /\ \A q \in Project : Demands(q) = DemandsOn(q)

(* Who is named for a demand on a project made that demand, and is in the  *)
(* closure: what a refusal prints.  (collectGraph, closureErr)             *)
BlameRight ==
  \A q \in Project :
    /\ DOMAIN askedBy[q] = DOMAIN constraints[q]
    /\ \A i \in DOMAIN constraints[q] :
         /\ askedBy[q][i] \in Seen \cup {Requested}
         /\ asks[askedBy[q][i]][q] = constraints[q][i]

(* A closure that is resolved holds the projects that are reached and no   *)
(* other, in versions published for the platform, and each demand of each  *)
(* of them is met by a version in it.  (ResolveClosureFor)                 *)
EveryDemandMet ==
  answer = "resolved" =>
    \A q \in Project :
      /\ closure[q] # {} <=> q \in Reach
      /\ closure[q] \subseteq registry.published[q]
      /\ q \in Reach =>
           \A d \in DemandsOn(q) : closure[q] \cap Admits[d] # {}

(* Two versions of a project are held only if no library of one can be     *)
(* taken for one of the other.  (sonamesDisjoint)                          *)
LinesApart ==
  \A q \in Project : \A v, w \in closure[q] : v # w =>
    /\ Sonames(q, v) # {} /\ Sonames(q, w) # {}
    /\ Sonames(q, v) \cap Sonames(q, w) = {}

(* Without failing calls, two versions of a project are held, or a closure *)
(* refused, only if no version of a project that is reached meets the      *)
(* demands on it.  (ResolveClosureFor, pickABILines)                       *)
Impossible(q) == Meeting(q, DemandsOn(q)) = {}
OnlyForCause ==
  registry.reliable =>
    /\ \A q \in Project : \A v, w \in closure[q] : v # w => Impossible(q)
    /\ answer \notin {None, "resolved"} => \E q \in Reach : Impossible(q)
=============================================================================
