--------------------------- MODULE ResolveProofs ---------------------------
(* Theorems about Resolve, for any recipes and registries.                 *)
EXTENDS Resolve, SequenceTheorems, TLAPS

-----------------------------------------------------------------------------
(* The inductive invariant.                                                *)

DemandsBy(q, S) == {asks[p][q] : p \in S} \ {None, Anything}
Pending == Seen \cup Range(queue)

(* The walk: what was visited or is queued is reached, and holds what the  *)
(* visited ask for; their demands, and no other, are collected.            *)
WalkInv ==
  /\ \A i, j \in DOMAIN order : order[i] = order[j] => i = j
  /\ Pending \subseteq Reach
  /\ Targets(Requested) \subseteq Pending
  /\ \A p \in Seen : Targets(p) \subseteq Pending
  /\ \A q \in Project : Demands(q) = DemandsBy(q, Seen \cup {Requested})
  /\ BlameRight
  /\ Collected => queue = <<>>

Apart(q, v, w) ==
  /\ Sonames(q, v) # {} /\ Sonames(q, w) # {}
  /\ Sonames(q, v) \cap Sonames(q, w) = {}
  /\ registry.reliable => Meeting(q, Demands(q)) = {}
Fits(q, vs) ==
  /\ vs \subseteq registry.published[q]
  /\ \A d \in Demands(q) : vs \cap Admits[d] # {}
  /\ \A v, w \in vs : v # w => Apart(q, v, w)

(* The choices: a project that was visited has one that fits, or waits.    *)
ChoiceInv ==
  /\ pc = "walk" => todo = <<>> /\ \A q \in Project : closure[q] = {}
  /\ Range(todo) \subseteq Seen
  /\ \A q \in Project : closure[q] # {} => q \in Seen /\ Fits(q, closure[q])
  /\ pc \in {"pick", "split"} \/ answer = "resolved" =>
       \A q \in Seen : q \in Range(todo) \/ closure[q] # {}
  /\ answer = "resolved" => todo = <<>>

(* A split: every demand is to be placed, or in a group; each line is of a *)
(* version that meets its group.                                           *)
SplitInv ==
  /\ at \in Nat \ {0}
  /\ pc \in {"walk", "pick"} => rest = <<>> /\ groups = <<>> /\ at = 1 /\ lines = <<>>
  /\ Len(lines) <= Len(groups)
  /\ \A i \in 1..Len(lines) :
       /\ lines[i] \in registry.published[Head(todo)]
       /\ \A d \in groups[i] : lines[i] \in Admits[d]
  /\ pc = "split" =>
       /\ todo # <<>>
       /\ \A d \in Demands(Head(todo)) : d \in Range(rest) \/ \E i \in 1..Len(groups) : d \in groups[i]
       /\ registry.reliable => Impossible(Head(todo))
       /\ rest # <<>> => lines = <<>>

AnswerInv ==
  /\ pc = "done" <=> answer # None
  /\ answer = "unread" => ~registry.reliable
  /\ registry.reliable /\ answer \in {"unsatisfied", "conflict"} =>
       \E q \in Reach : Impossible(q)

IInv == TypeOK /\ WalkInv /\ ChoiceInv /\ SplitInv /\ AnswerInv

-----------------------------------------------------------------------------
(* Sequences and sets.                                                     *)

LEMMA RangeTail ==
  ASSUME NEW S, NEW s \in Seq(S), s # << >>
  PROVE  /\ Head(s) \in S /\ Tail(s) \in Seq(S)
         /\ Range(s) = {Head(s)} \cup Range(Tail(s))
<1>1. /\ Head(s) \in S /\ Tail(s) \in Seq(S) /\ Len(Tail(s)) = Len(s) - 1
      /\ \A i \in 1 .. Len(Tail(s)) : Tail(s)[i] = s[i + 1]
  BY HeadTailProperties
<1>2. Len(s) \in Nat \ {0} /\ Head(s) = s[1]
  BY EmptySeq
<1>3. Range(s) = {s[i] : i \in 1 .. Len(s)}
  BY RangeEquality
<1>4. Range(Tail(s)) = {Tail(s)[i] : i \in 1 .. Len(Tail(s))}
  BY <1>1, RangeEquality
<1>5. ASSUME NEW x \in Range(s) PROVE x \in {Head(s)} \cup Range(Tail(s))
  <2>1. PICK i \in 1 .. Len(s) : x = s[i]
    BY <1>3
  <2>2. CASE i = 1
    BY <2>1, <2>2, <1>2
  <2>3. CASE i # 1
    <3>1. i - 1 \in 1 .. Len(Tail(s)) /\ Tail(s)[i - 1] = s[i]
      BY <2>3, <1>1, <1>2
    <3>2. QED
      BY <3>1, <2>1, <1>4
  <2>4. QED
    BY <2>2, <2>3
<1>6. ASSUME NEW x \in Range(Tail(s)) PROVE x \in Range(s)
  <2>1. PICK i \in 1 .. Len(Tail(s)) : x = Tail(s)[i]
    BY <1>4
  <2>2. x = s[i + 1] /\ i + 1 \in 1 .. Len(s)
    BY <2>1, <1>1, <1>2
  <2>3. QED
    BY <2>2, <1>3
<1>7. Head(s) \in Range(s)
  BY <1>2, <1>3
<1>8. QED
  BY <1>1, <1>5, <1>6, <1>7

LEMMA RangeAppend ==
  ASSUME NEW S, NEW s \in Seq(S), NEW e \in S
  PROVE  Range(Append(s, e)) = Range(s) \cup {e}
<1>1. Append(s, e) = s \o <<e>> /\ <<e>> \in Seq(S)
  BY AppendIsConcat
<1>2. Range(<<e>>) = {e}
  BY DEF Range
<1>3. Range(s \o <<e>>) = Range(s) \cup Range(<<e>>)
  BY <1>1, RangeConcatenation
<1>4. QED
  BY <1>1, <1>2, <1>3

LEMMA RangeRest ==
  ASSUME NEW S, NEW s \in Seq(S), s # << >>, NEW t \in Seq(S)
  PROVE  Range(Tail(s) \o t) = Range(Tail(s)) \cup Range(t)
<1>1. PICK r \in Seq(S) : r = Tail(s)
  BY RangeTail
<1>2. Range(r \o t) = Range(r) \cup Range(t)
  BY RangeConcatenation
<1>3. QED
  BY <1>1, <1>2

LEMMA RangeEmpty == Range(<< >>) = {}
  BY DEF Range

LEMMA Singleton ==
  ASSUME NEW x, NEW S, x \in S
  PROVE  Append(<< >>, x) = <<x>> /\ <<x>> \in Seq(S) /\ Len(<<x>>) = 1
  OBVIOUS

(* Reach is the least set that is closed.                                  *)
LEMMA ReachClosed ==
  /\ Reach \subseteq Project
  /\ Targets(Requested) \subseteq Reach
  /\ \A p \in Reach : Targets(p) \subseteq Reach
  /\ \A S \in SUBSET Project : Closed(S) => Reach \subseteq S
  BY DEF Reach, Closed, Targets

LEMMA Sort ==
  ASSUME NEW S \in SUBSET Project
  PROVE  Sorted[S] \in Seq(Project) /\ Range(Sorted[S]) = S
  BY ResolveAssumption

-----------------------------------------------------------------------------
(* Adding the demands of one project.                                      *)

LEMMA Adding ==
  ASSUME asks \in Asking, NEW p \in Project \cup {Requested},
         NEW have \in [Project -> Seq(Demand)],
         NEW who \in [Project -> Seq(Project \cup {Requested})]
  PROVE  /\ Added(p, have) \in [Project -> Seq(Demand)]
         /\ Blamed(p, have, who) \in [Project -> Seq(Project \cup {Requested})]
         /\ \A q \in Project :
              Range(Added(p, have)[q]) = Range(have[q]) \cup ({asks[p][q]} \ {None, Anything})
<1>1. SUFFICES ASSUME NEW q \in Project
      PROVE /\ Added(p, have)[q] \in Seq(Demand)
            /\ Blamed(p, have, who)[q] \in Seq(Project \cup {Requested})
            /\ Range(Added(p, have)[q])
                 = Range(have[q]) \cup ({asks[p][q]} \ {None, Anything})
  BY DEF Added, Blamed
<1>2. have[q] \in Seq(Demand) /\ who[q] \in Seq(Project \cup {Requested})
  OBVIOUS
<1>3. asks[p][q] \in Demand \cup {Anything, None}
  BY DEF Asking
<1>4. CASE NewDemand(p, q, have[q])
  <2>1. asks[p][q] \in Demand /\ asks[p][q] \notin {None, Anything}
    BY <1>3, <1>4 DEF NewDemand
  <2>2. /\ Added(p, have)[q] = Append(have[q], asks[p][q])
        /\ Blamed(p, have, who)[q] = Append(who[q], p)
    BY <1>4 DEF Added, Blamed
  <2>3. Range(Append(have[q], asks[p][q])) = Range(have[q]) \cup {asks[p][q]}
    BY <1>2, <2>1, RangeAppend
  <2>4. QED
    BY <1>2, <2>1, <2>2, <2>3, AppendProperties
<1>5. CASE ~NewDemand(p, q, have[q])
  BY <1>2, <1>5 DEF Added, Blamed, NewDemand
<1>6. QED
  BY <1>4, <1>5

(* Whoever was named for a demand stays, and p is named for a new one.     *)
LEMMA Blaming ==
  ASSUME asks \in Asking, NEW p \in Project \cup {Requested}, NEW q \in Project,
         NEW have \in [Project -> Seq(Demand)],
         NEW who \in [Project -> Seq(Project \cup {Requested})],
         DOMAIN who[q] = DOMAIN have[q]
  PROVE  /\ DOMAIN Blamed(p, have, who)[q] = DOMAIN Added(p, have)[q]
         /\ \A i \in DOMAIN Added(p, have)[q] :
              \/ /\ i \in DOMAIN have[q]
                 /\ Added(p, have)[q][i] = have[q][i]
                 /\ Blamed(p, have, who)[q][i] = who[q][i]
              \/ /\ Added(p, have)[q][i] = asks[p][q]
                 /\ Blamed(p, have, who)[q][i] = p
<1>1. have[q] \in Seq(Demand) /\ who[q] \in Seq(Project \cup {Requested})
  OBVIOUS
<1>2. CASE NewDemand(p, q, have[q])
  <2>1. asks[p][q] \in Demand
    BY <1>2 DEF NewDemand, Asking
  <2>2. /\ Added(p, have)[q] = Append(have[q], asks[p][q])
        /\ Blamed(p, have, who)[q] = Append(who[q], p)
    BY <1>2 DEF Added, Blamed
  <2>3. /\ Len(who[q]) = Len(have[q]) /\ Len(have[q]) \in Nat
        /\ DOMAIN have[q] = 1 .. Len(have[q])
    BY <1>1, LenProperties
  <2>4. /\ Append(have[q], asks[p][q]) \in Seq(Demand)
        /\ Len(Append(have[q], asks[p][q])) = Len(have[q]) + 1
        /\ \A i \in 1 .. Len(have[q]) : Append(have[q], asks[p][q])[i] = have[q][i]
        /\ Append(have[q], asks[p][q])[Len(have[q]) + 1] = asks[p][q]
    BY <1>1, <2>1, AppendProperties
  <2>5. /\ Append(who[q], p) \in Seq(Project \cup {Requested})
        /\ Len(Append(who[q], p)) = Len(who[q]) + 1
        /\ \A i \in 1 .. Len(who[q]) : Append(who[q], p)[i] = who[q][i]
        /\ Append(who[q], p)[Len(who[q]) + 1] = p
    BY <1>1, AppendProperties
  <2>6. /\ DOMAIN Append(have[q], asks[p][q]) = 1 .. Len(have[q]) + 1
        /\ DOMAIN Append(who[q], p) = 1 .. Len(have[q]) + 1
    BY <2>3, <2>4, <2>5, LenProperties
  <2>7. QED
    BY <2>2, <2>3, <2>4, <2>5, <2>6
<1>3. CASE ~NewDemand(p, q, have[q])
  BY <1>3 DEF Added, Blamed
<1>4. QED
  BY <1>2, <1>3

-----------------------------------------------------------------------------
(* The walk.                                                               *)

LEMMA Inputs ==
  ASSUME TypeOK
  PROVE  asks \in Asking /\ registry \in Registry
  BY ResolveAssumption DEF TypeOK

(* What does not change with the inputs.                                   *)
LEMMA SameInputs ==
  ASSUME UNCHANGED inputs
  PROVE  /\ Reach' = Reach
         /\ \A p : Targets(p)' = Targets(p)
         /\ \A q : DemandsOn(q)' = DemandsOn(q)
<1>1. asks' = asks /\ registry' = registry
  BY DEF inputs
<1>2. \A p : Targets(p)' = Targets(p)
  BY <1>1 DEF Targets
<1>3. Reach' = Reach
  BY <1>2 DEF Reach, Closed
<1>4. QED
  BY <1>1, <1>2, <1>3 DEF DemandsOn

LEMMA SameWalk ==
  ASSUME WalkInv, UNCHANGED <<inputs, walk>>, Collected' => queue = << >>
  PROVE  WalkInv'
<1>1. /\ asks' = asks /\ queue' = queue /\ order' = order
      /\ constraints' = constraints /\ askedBy' = askedBy /\ UNCHANGED inputs
  BY DEF inputs, walk
<1>2. Seen' = Seen /\ Pending' = Pending /\ Reach' = Reach
  BY <1>1, SameInputs DEF Seen, Pending
<1>3. /\ \A p : Targets(p)' = Targets(p)
      /\ \A q : Demands(q)' = Demands(q)
  BY <1>1, SameInputs DEF Demands
<1>4. BlameRight'
  BY <1>1, <1>2 DEF WalkInv, BlameRight
<1>5. \A q \in Project : Demands(q)' = DemandsBy(q, Seen \cup {Requested})'
  BY <1>1, <1>2, <1>3 DEF WalkInv, DemandsBy
<1>6. QED
  BY <1>1, <1>2, <1>3, <1>4, <1>5 DEF WalkInv

(* When the queue is empty, the walk is complete.                          *)
LEMMA WalkEnds ==
  ASSUME TypeOK, WalkInv, queue = << >>
  PROVE  /\ Seen = Reach
         /\ \A q \in Project : Demands(q) = DemandsOn(q)
<1>1. Pending = Seen
  BY RangeEmpty DEF Pending
<1>2. Seen \subseteq Project
  BY RangeOfSeq DEF TypeOK, Seen
<1>3. Closed(Seen)
  BY <1>1 DEF WalkInv, Closed
<1>4. Seen = Reach
  BY <1>1, <1>2, <1>3, ReachClosed DEF WalkInv
<1>5. QED
  BY <1>4 DEF WalkInv, DemandsBy, DemandsOn

LEMMA SkipWalk ==
  ASSUME TypeOK, WalkInv, Skip, answer = None
  PROVE  TypeOK' /\ WalkInv'
<1>1. /\ queue \in Seq(Project) /\ queue # << >> /\ Head(queue) \in Seen
      /\ queue' = Tail(queue) /\ UNCHANGED inputs
      /\ UNCHANGED <<pc, order, constraints, askedBy, todo, split, closure, answer>>
  BY DEF Skip, TypeOK
<1>2. /\ Tail(queue) \in Seq(Project)
      /\ Range(queue) = {Head(queue)} \cup Range(Tail(queue))
  BY <1>1, RangeTail
<1>3. Seen' = Seen /\ Pending' = Pending /\ Reach' = Reach
  BY <1>1, <1>2, SameInputs DEF Seen, Pending
<1>4. /\ \A p : Targets(p)' = Targets(p)
      /\ \A q : Demands(q)' = Demands(q)
  BY <1>1, SameInputs DEF Demands
<1>5. asks' = asks /\ registry' = registry
  BY <1>1 DEF inputs
<1>6. BlameRight'
  BY <1>1, <1>3, <1>5 DEF WalkInv, BlameRight
<1>7. ~Collected'
  BY <1>1, ResolveAssumption DEF Collected, Skip, Answers
<1>8. \A q \in Project : Demands(q)' = DemandsBy(q, Seen \cup {Requested})'
  BY <1>3, <1>4, <1>5 DEF WalkInv, DemandsBy
<1>9. WalkInv'
  BY <1>1, <1>3, <1>4, <1>6, <1>7, <1>8 DEF WalkInv
<1>10. TypeOK'
  BY <1>1, <1>2, <1>5 DEF TypeOK, split
<1>11. QED
  BY <1>9, <1>10

(* One project more: its demands are added, and what it asks for queued.   *)
LEMMA VisitWalk ==
  ASSUME TypeOK, WalkInv, NEW p \in Project, Visit(p), answer = None
  PROVE  TypeOK' /\ WalkInv' /\ Seen \subseteq Seen'
<1>1. /\ queue \in Seq(Project) /\ queue # << >> /\ p = Head(queue) /\ p \notin Seen
      /\ pc = "walk" /\ order \in Seq(Project)
      /\ order' = Append(order, p)
      /\ constraints' = Added(p, constraints)
      /\ askedBy' = Blamed(p, constraints, askedBy)
      /\ queue' = Tail(queue) \o Sorted[Targets(p) \ Range(order')]
      /\ UNCHANGED <<inputs, pc, todo, split, closure, answer>>
  BY DEF Visit, Visiting, TypeOK
<1>2. asks' = asks /\ registry' = registry /\ asks \in Asking
  BY <1>1, Inputs DEF inputs
<1>3. /\ Tail(queue) \in Seq(Project)
      /\ Range(queue) = {p} \cup Range(Tail(queue))
  BY <1>1, RangeTail
<1>4. Seen' = Seen \cup {p}
  BY <1>1, RangeAppend DEF Seen
<1>5. Targets(p) \ Range(order') \in SUBSET Project
  BY DEF Targets
<1>6. /\ Sorted[Targets(p) \ Range(order')] \in Seq(Project)
      /\ Range(Sorted[Targets(p) \ Range(order')]) = Targets(p) \ Range(order')
  BY <1>5, Sort
<1>7. queue' \in Seq(Project) /\ Range(queue') = Range(Tail(queue)) \cup (Targets(p) \ Seen')
  <2>1. PICK more \in Seq(Project) :
          more = Sorted[Targets(p) \ Range(order')] /\ Range(more) = Targets(p) \ Seen'
    BY <1>6 DEF Seen
  <2>2. Tail(queue) \o more \in Seq(Project)
    BY <1>3, ConcatProperties
  <2>3. Range(Tail(queue) \o more) = Range(Tail(queue)) \cup Range(more)
    BY <1>1, RangeRest
  <2>4. QED
    BY <1>1, <2>1, <2>2, <2>3
<1>8. Pending' = Pending \cup Targets(p)
  BY <1>3, <1>4, <1>7 DEF Pending
<1>9. Reach' = Reach /\ (\A q : Targets(q)' = Targets(q))
  BY <1>1, SameInputs
<1>10. \A i, k \in DOMAIN order' : order'[i] = order'[k] => i = k
  <2>1. /\ order' \in Seq(Project) /\ Len(order') = Len(order) + 1
        /\ \A i \in 1 .. Len(order) : order'[i] = order[i]
        /\ order'[Len(order) + 1] = p
    BY <1>1, AppendProperties
  <2>2. /\ Len(order) \in Nat /\ DOMAIN order = 1 .. Len(order)
        /\ DOMAIN order' = 1 .. Len(order) + 1
    BY <1>1, <2>1, LenProperties
  <2>3. \A i \in 1 .. Len(order) : order[i] # p
    BY <1>1, <2>2 DEF Seen, Range
  <2>4. QED
    BY <2>1, <2>2, <2>3 DEF WalkInv
<1>11. Pending' \subseteq Reach'
  <2>1. p \in Reach
    BY <1>3 DEF WalkInv, Pending
  <2>2. QED
    BY <2>1, <1>8, <1>9, ReachClosed DEF WalkInv
<1>12. Targets(Requested)' \subseteq Pending' /\ \A q \in Seen' : Targets(q)' \subseteq Pending'
  BY <1>4, <1>8, <1>9 DEF WalkInv
<1>13. /\ constraints' \in [Project -> Seq(Demand)]
       /\ askedBy' \in [Project -> Seq(Project \cup {Requested})]
       /\ \A q \in Project :
            Demands(q)' = Demands(q) \cup ({asks[p][q]} \ {None, Anything})
  BY <1>1, <1>2, Adding DEF TypeOK, Demands
<1>14. \A q \in Project : Demands(q)' = DemandsBy(q, Seen \cup {p} \cup {Requested})
  BY <1>13 DEF WalkInv, DemandsBy
<1>15. \A q \in Project : Demands(q)' = DemandsBy(q, Seen \cup {Requested})'
  BY <1>2, <1>4, <1>14 DEF DemandsBy
<1>16. BlameRight'
  <2> SUFFICES ASSUME NEW q \in Project
               PROVE  /\ DOMAIN askedBy'[q] = DOMAIN constraints'[q]
                      /\ \A i \in DOMAIN constraints'[q] :
                           /\ askedBy'[q][i] \in Seen' \cup {Requested}
                           /\ asks'[askedBy'[q][i]][q] = constraints'[q][i]
    BY DEF BlameRight
  <2>1. /\ DOMAIN askedBy[q] = DOMAIN constraints[q]
        /\ \A i \in DOMAIN constraints[q] :
             /\ askedBy[q][i] \in Seen \cup {Requested}
             /\ asks[askedBy[q][i]][q] = constraints[q][i]
    BY DEF WalkInv, BlameRight
  <2>2. /\ DOMAIN askedBy'[q] = DOMAIN constraints'[q]
        /\ \A i \in DOMAIN constraints'[q] :
             \/ /\ i \in DOMAIN constraints[q]
                /\ constraints'[q][i] = constraints[q][i]
                /\ askedBy'[q][i] = askedBy[q][i]
             \/ constraints'[q][i] = asks[p][q] /\ askedBy'[q][i] = p
    <3>1. /\ constraints \in [Project -> Seq(Demand)]
          /\ askedBy \in [Project -> Seq(Project \cup {Requested})]
          /\ p \in Project \cup {Requested}
      BY DEF TypeOK
    <3>2. PICK have \in [Project -> Seq(Demand)], who \in [Project -> Seq(Project \cup {Requested})] :
            have = constraints /\ who = askedBy
      BY <3>1
    <3>3. /\ DOMAIN who[q] = DOMAIN have[q] /\ p \in Project \cup {Requested}
          /\ asks \in Asking
      BY <1>2, <2>1, <3>1, <3>2
    <3>4. /\ DOMAIN Blamed(p, have, who)[q] = DOMAIN Added(p, have)[q]
          /\ \A i \in DOMAIN Added(p, have)[q] :
               \/ /\ i \in DOMAIN have[q]
                  /\ Added(p, have)[q][i] = have[q][i]
                  /\ Blamed(p, have, who)[q][i] = who[q][i]
               \/ /\ Added(p, have)[q][i] = asks[p][q]
                  /\ Blamed(p, have, who)[q][i] = p
      BY <3>3, Blaming
    <3>5. QED
      BY <1>1, <3>2, <3>4
  <2>3. QED
    BY <1>2, <1>4, <2>1, <2>2
<1>17. ~Collected'
  BY <1>1, ResolveAssumption DEF Collected, Answers
<1>18. WalkInv'
  BY <1>10, <1>11, <1>12, <1>15, <1>16, <1>17 DEF WalkInv
<1>19. order' \in Seq(Project)
  BY <1>1, AppendProperties
<1>20. TypeOK'
  BY <1>1, <1>2, <1>7, <1>13, <1>19 DEF TypeOK, split
<1>21. QED
  BY <1>4, <1>18, <1>20

LEMMA InitWalk ==
  ASSUME Init
  PROVE  TypeOK /\ WalkInv
<1> DEFINE nothing == [q \in Project |-> << >>]
<1>1. /\ asks \in Recipes /\ registry \in Registries /\ asks \in Asking
      /\ nothing \in [Project -> Seq(Demand)]
      /\ nothing \in [Project -> Seq(Project \cup {Requested})]
  BY ResolveAssumption DEF Init
<1>2. /\ constraints = Added(Requested, nothing)
      /\ askedBy = Blamed(Requested, nothing, nothing)
      /\ order = << >> /\ pc = "walk" /\ answer = None
      /\ queue = Sorted[Targets(Requested)]
  BY DEF Init
<1>3. queue \in Seq(Project) /\ Range(queue) = Targets(Requested)
  BY <1>2, Sort DEF Targets
<1>4. /\ constraints \in [Project -> Seq(Demand)]
      /\ askedBy \in [Project -> Seq(Project \cup {Requested})]
      /\ \A q \in Project : Demands(q) = {} \cup ({asks[Requested][q]} \ {None, Anything})
  <2>1. /\ Added(Requested, nothing) \in [Project -> Seq(Demand)]
        /\ Blamed(Requested, nothing, nothing) \in [Project -> Seq(Project \cup {Requested})]
        /\ \A q \in Project :
             Range(Added(Requested, nothing)[q])
               = Range(nothing[q]) \cup ({asks[Requested][q]} \ {None, Anything})
    BY <1>1, Adding
  <2>2. \A q \in Project : Range(nothing[q]) = {}
    BY RangeEmpty
  <2>3. QED
    BY <1>2, <2>1, <2>2 DEF Demands
<1>5. Seen = {}
  BY <1>2, RangeEmpty DEF Seen
<1>6. \A q \in Project : Demands(q) = DemandsBy(q, Seen \cup {Requested})
  BY <1>4, <1>5 DEF DemandsBy
<1>7. BlameRight
  <2> SUFFICES ASSUME NEW q \in Project
               PROVE  /\ DOMAIN askedBy[q] = DOMAIN constraints[q]
                      /\ \A i \in DOMAIN constraints[q] :
                           /\ askedBy[q][i] \in Seen \cup {Requested}
                           /\ asks[askedBy[q][i]][q] = constraints[q][i]
    BY DEF BlameRight
  <2>1. DOMAIN nothing[q] = {}
    OBVIOUS
  <2>2. /\ DOMAIN askedBy[q] = DOMAIN constraints[q]
        /\ \A i \in DOMAIN constraints[q] :
             \/ i \in DOMAIN nothing[q]
             \/ constraints[q][i] = asks[Requested][q] /\ askedBy[q][i] = Requested
    <3>1. CASE NewDemand(Requested, q, << >>)
      <4>1. /\ constraints[q] = Append(<< >>, asks[Requested][q])
            /\ askedBy[q] = Append(<< >>, Requested)
        BY <1>2, <3>1 DEF Added, Blamed
      <4>2. /\ constraints[q] = <<asks[Requested][q]>>
            /\ askedBy[q] = <<Requested>>
        BY <4>1
      <4>3. QED
        BY <4>2
    <3>2. CASE ~NewDemand(Requested, q, << >>)
      BY <1>2, <3>2 DEF Added, Blamed
    <3>3. QED
      BY <3>1, <3>2
  <2>3. QED
    BY <2>1, <2>2
<1>8. ~Collected
  BY <1>2, ResolveAssumption DEF Collected, Answers
<1>9. WalkInv
  <2>1. Pending = Targets(Requested)
    BY <1>3, <1>5 DEF Pending
  <2>2. DOMAIN order = {}
    BY <1>2
  <2>3. QED
    BY <1>5, <1>6, <1>7, <1>8, <2>1, <2>2, ReachClosed DEF WalkInv
<1>10. /\ todo = << >> /\ rest = << >> /\ groups = << >> /\ at = 1 /\ lines = << >>
       /\ closure = [q \in Project |-> {}]
  BY DEF Init
<1>11. TypeOK
  BY <1>1, <1>2, <1>3, <1>4, <1>10 DEF TypeOK
<1>12. QED
  BY <1>9, <1>11
-----------------------------------------------------------------------------
(* The choices.                                                            *)

(* What does not change with the inputs and the walk.                      *)
LEMMA SameDemands ==
  ASSUME UNCHANGED <<inputs, walk>>
  PROVE  /\ Seen' = Seen /\ Reach' = Reach
         /\ \A q : Demands(q)' = Demands(q)
         /\ \A q : Impossible(q)' = Impossible(q)
         /\ \A q, vs : Fits(q, vs)' = Fits(q, vs)
<1>1. /\ asks' = asks /\ registry' = registry /\ order' = order
      /\ constraints' = constraints /\ UNCHANGED inputs
  BY DEF inputs, walk
<1>2. Seen' = Seen /\ Reach' = Reach
  BY <1>1, SameInputs DEF Seen
<1>3. \A q : Demands(q)' = Demands(q) /\ DemandsOn(q)' = DemandsOn(q)
  BY <1>1, SameInputs DEF Demands
<1>4. \A q, D : Meeting(q, D)' = Meeting(q, D)
  BY <1>1 DEF Meeting
<1>5. \A q : Impossible(q)' = Impossible(q)
  BY <1>3, <1>4 DEF Impossible, Meeting
<1>6. ASSUME NEW q, NEW vs PROVE Fits(q, vs)' = Fits(q, vs)
  BY <1>1, <1>3 DEF Fits, Apart, Sonames, Meeting
<1>7. QED
  BY <1>2, <1>3, <1>5, <1>6

(* A version that is picked is published, and meets every demand.          *)
LEMMA Picked ==
  ASSUME TypeOK, NEW p \in Project, NEW D, NEW v \in Pick(p, D)
  PROVE  /\ v \in Version /\ v \in registry.published[p]
         /\ \A d \in D : v \in Admits[d]
<1>1. v \in Meeting(p, D)
  BY DEF Pick, Ranked
<1>2. registry.published \in [Project -> SUBSET Version]
  BY Inputs DEF Registry
<1>3. QED
  BY <1>1, <1>2 DEF Meeting

(* Without failing calls, a pick fails only where nothing meets.           *)
LEMMA FailsForCause ==
  ASSUME NEW p, NEW D, PickFails(p, D), registry.reliable
  PROVE  Meeting(p, D) = {}
  BY DEF PickFails, Ranked

(* The project whose turn it is was visited.                               *)
LEMMA Turn ==
  ASSUME TypeOK, WalkInv, ChoiceInv, pc \in {"pick", "split"}, todo # << >>
  PROVE  /\ Head(todo) \in Project /\ Head(todo) \in Seen /\ Head(todo) \in Reach
         /\ Seen = Reach /\ \A q \in Project : Demands(q) = DemandsOn(q)
<1>1. queue = << >>
  BY DEF WalkInv, Collected
<1>2. Seen = Reach /\ \A q \in Project : Demands(q) = DemandsOn(q)
  BY <1>1, WalkEnds
<1>3. todo \in Seq(Project)
  BY DEF TypeOK
<1>4. Head(todo) \in Range(todo) /\ Head(todo) \in Project
  BY <1>3, RangeTail
<1>5. QED
  BY <1>2, <1>4 DEF ChoiceInv

LEMMA AnswerStep ==
  ASSUME IInv, NEW what \in Answers, Answer(what), pc # "done",
         what = "resolved" => pc = "pick" /\ todo = << >>,
         what = "unread" => ~registry.reliable,
         what # "unread" => queue = << >>,
         registry.reliable /\ what \in {"unsatisfied", "conflict"} =>
           \E q \in Reach : Impossible(q)
  PROVE  IInv'
<1>1. /\ answer' = what /\ pc' = "done"
      /\ UNCHANGED <<inputs, walk, todo, split, closure>>
  BY DEF Answer
<1>2. what # None
  BY ResolveAssumption
<1>3. UNCHANGED <<inputs, walk>>
  BY <1>1
<1>4. TypeOK'
  BY <1>1 DEF IInv, TypeOK, inputs, walk, split
<1>5. WalkInv'
  <2>1. Collected' => queue = << >>
    BY <1>1 DEF Collected
  <2>2. QED
    BY <1>3, <2>1, SameWalk DEF IInv
<1>6. ChoiceInv'
  BY <1>1, <1>3, SameDemands DEF IInv, ChoiceInv
<1>7. SplitInv'
  <2>1. /\ at' = at /\ lines' = lines /\ groups' = groups /\ todo' = todo
        /\ registry' = registry
    BY <1>1 DEF split, inputs
  <2>2. QED
    BY <1>1, <2>1 DEF IInv, SplitInv
<1>8. AnswerInv'
  <2>1. registry' = registry
    BY <1>1 DEF inputs
  <2>2. QED
    BY <1>1, <1>2, <1>3, <2>1, SameDemands DEF IInv, AnswerInv
<1>9. QED
  BY <1>4, <1>5, <1>6, <1>7, <1>8 DEF IInv

LEMMA ChooseStep ==
  ASSUME IInv, NEW vs \in SUBSET Version, vs # {}, pc \in {"pick", "split"},
         todo # << >>, Fits(Head(todo), vs), Choose(Head(todo), vs)
  PROVE  IInv'
<1> DEFINE p == Head(todo)
<1>1. /\ closure' = [closure EXCEPT ![p] = vs]
      /\ todo' = Tail(todo) /\ pc' = "pick"
      /\ rest' = << >> /\ groups' = << >> /\ at' = 1 /\ lines' = << >>
      /\ UNCHANGED <<inputs, walk>> /\ answer' = answer
  BY DEF Choose
<1>2. todo \in Seq(Project) /\ p \in Project /\ p \in Seen
  BY Turn DEF IInv, TypeOK
<1>3. Tail(todo) \in Seq(Project) /\ Range(todo) = {p} \cup Range(Tail(todo))
  BY <1>2, RangeTail
<1>4. answer = None
  BY DEF IInv, AnswerInv
<1>5. TypeOK'
  BY <1>1, <1>2, <1>3 DEF IInv, TypeOK, inputs, walk
<1>6. WalkInv'
  <2>1. queue = << >>
    BY DEF IInv, WalkInv, Collected
  <2>2. QED
    BY <1>1, <2>1, SameWalk DEF IInv
<1>7. /\ closure'[p] = vs
      /\ \A q \in Project : q # p => closure'[q] = closure[q]
  BY <1>1, <1>2 DEF IInv, TypeOK
<1>8. ChoiceInv'
  <2>1. Range(todo') \subseteq Seen'
    BY <1>1, <1>3, SameDemands DEF IInv, ChoiceInv
  <2>2. \A q \in Project : closure'[q] # {} => q \in Seen' /\ Fits(q, closure'[q])
    BY <1>1, <1>2, <1>7, SameDemands DEF IInv, ChoiceInv
  <2>3. \A q \in Project : Fits(q, closure'[q]) = Fits(q, closure[q])'
    BY <1>1, SameDemands DEF Fits, Apart, Sonames, Meeting, inputs, walk, Demands
  <2>4. \A q \in Seen' : q \in Range(todo') \/ closure'[q] # {}
    <3>1. Seen \subseteq Project
      BY RangeOfSeq DEF IInv, TypeOK, Seen
    <3>2. QED
      BY <1>1, <1>3, <1>7, <3>1, SameDemands DEF IInv, ChoiceInv
  <2>5. QED
    BY <1>1, <1>4, <2>1, <2>2, <2>3, <2>4, ResolveAssumption DEF ChoiceInv, Answers
<1>9. SplitInv'
  <2>1. Len(lines') = 0 /\ Len(groups') = 0
    BY <1>1
  <2>2. QED
    BY <1>1, <2>1 DEF SplitInv
<1>10. AnswerInv'
  BY <1>1, <1>4, ResolveAssumption DEF AnswerInv, Answers
<1>11. QED
  BY <1>5, <1>6, <1>8, <1>9, <1>10 DEF IInv

(* A step of a split that is neither its end nor its refusal.              *)
LEMMA SplitStep ==
  ASSUME IInv, pc = "split", SplitInv',
         UNCHANGED <<inputs, pc, walk, todo, closure, answer>>,
         rest' \in Seq(Demand), groups' \in Seq(SUBSET Demand), lines' \in Seq(Version)
  PROVE  IInv'
<1>1. /\ UNCHANGED <<inputs, walk>> /\ pc' = pc /\ todo' = todo /\ closure' = closure
      /\ answer' = answer /\ registry' = registry
  BY DEF inputs
<1>2. TypeOK'
  BY <1>1 DEF IInv, TypeOK, SplitInv, inputs, walk
<1>3. WalkInv'
  BY <1>1, SameWalk DEF IInv, WalkInv, Collected
<1>4. ChoiceInv'
  BY <1>1, SameDemands DEF IInv, ChoiceInv
<1>5. AnswerInv'
  BY <1>1, SameDemands DEF IInv, AnswerInv
<1>6. QED
  BY <1>2, <1>3, <1>4, <1>5 DEF IInv
-----------------------------------------------------------------------------
(* Each action.                                                            *)

LEMMA WalkSteps ==
  ASSUME IInv, Skip \/ (\E p \in Project : Visit(p) \/ Unread(p)) \/ Walked
  PROVE  IInv'
<1>1. answer = None /\ pc = "walk"
  BY DEF IInv, AnswerInv, Skip, Visit, Unread, Visiting, Walked
<1>2. todo = << >> /\ \A q \in Project : closure[q] = {}
  BY <1>1 DEF IInv, ChoiceInv
<1>3. ASSUME TypeOK', WalkInv', pc' = pc, answer' = answer, UNCHANGED <<registry, todo, split, closure>>
      PROVE IInv'
  <2>1. ChoiceInv'
    BY <1>1, <1>2, <1>3, RangeEmpty, ResolveAssumption DEF ChoiceInv, Answers
  <2>2. SplitInv'
    BY <1>1, <1>3 DEF IInv, SplitInv, split
  <2>3. AnswerInv'
    BY <1>1, <1>3, ResolveAssumption DEF IInv, AnswerInv, Answers
  <2>4. QED
    BY <1>3, <2>1, <2>2, <2>3 DEF IInv
<1>4. CASE Skip
  <2>1. TypeOK' /\ WalkInv'
    BY <1>1, <1>4, SkipWalk DEF IInv
  <2>2. QED
    BY <1>3, <1>4, <2>1 DEF Skip, inputs
<1>5. ASSUME NEW p \in Project, Visit(p) PROVE IInv'
  <2>1. TypeOK' /\ WalkInv'
    BY <1>1, <1>5, VisitWalk DEF IInv
  <2>2. QED
    BY <1>3, <1>5, <2>1 DEF Visit, inputs
<1>6. ASSUME NEW p \in Project, Unread(p) PROVE IInv'
  <2>1. Answer("unread") /\ ~registry.reliable /\ "unread" \in Answers
    BY <1>6 DEF Unread, Answers
  <2>2. QED
    BY <1>1, <2>1, AnswerStep
<1>7. CASE Walked
  <2>1. /\ queue = << >> /\ pc' = "pick" /\ todo' = order
        /\ UNCHANGED <<inputs, walk>> /\ UNCHANGED <<split, closure, answer>>
    BY <1>7 DEF Walked
  <2>2. TypeOK'
    BY <2>1 DEF IInv, TypeOK, inputs, walk, split
  <2>3. WalkInv'
    BY <2>1, SameWalk DEF IInv
  <2>4. ChoiceInv'
    <3>1. Range(todo') = Seen /\ Seen' = Seen
      BY <2>1, SameDemands DEF Seen
    <3>2. QED
      BY <1>1, <1>2, <2>1, <3>1, ResolveAssumption DEF ChoiceInv, Answers
  <2>5. SplitInv'
    <3>1. rest' = << >> /\ groups' = << >> /\ at' = 1 /\ lines' = << >>
      BY <1>1, <2>1 DEF IInv, SplitInv, split
    <3>2. Len(lines') = 0 /\ Len(groups') = 0
      BY <3>1
    <3>3. QED
      BY <2>1, <3>1, <3>2 DEF SplitInv
  <2>6. AnswerInv'
    BY <1>1, <2>1, ResolveAssumption DEF AnswerInv, Answers
  <2>7. QED
    BY <2>2, <2>3, <2>4, <2>5, <2>6 DEF IInv
<1>8. QED
  BY <1>4, <1>5, <1>6, <1>7

LEMMA PickSteps ==
  ASSUME IInv, Resolved \/ \E p \in Project : PickOne(p) \/ Unsatisfied(p) \/ StartSplit(p)
  PROVE  IInv'
<1>1. /\ pc = "pick" /\ queue = << >> /\ answer = None
      /\ rest = << >> /\ groups = << >> /\ at = 1 /\ lines = << >>
  <2>1. pc = "pick"
    BY DEF Resolved, PickOne, Unsatisfied, StartSplit, Picking
  <2>2. QED
    BY <2>1 DEF IInv, WalkInv, Collected, SplitInv, AnswerInv
<1>2. CASE Resolved
  <2>1. todo = << >> /\ Answer("resolved") /\ "resolved" \in Answers
    BY <1>2 DEF Resolved, Answers
  <2>2. QED
    BY <1>1, <2>1, AnswerStep
<1>3. ASSUME NEW p \in Project, PickOne(p) PROVE IInv'
  <2>1. todo # << >> /\ p = Head(todo)
    BY <1>3 DEF PickOne, Picking
  <2>2. PICK v \in Pick(p, Demands(p)) : Choose(p, {v})
    BY <1>3 DEF PickOne
  <2>3. /\ v \in Version /\ v \in registry.published[p]
        /\ \A d \in Demands(p) : v \in Admits[d]
    BY Picked DEF IInv
  <2>4. Fits(p, {v})
    BY <2>3 DEF Fits
  <2>5. {v} \in SUBSET Version /\ {v} # {}
    BY <2>3
  <2>6. QED
    BY <1>1, <2>1, <2>2, <2>4, <2>5, ChooseStep
<1>4. ASSUME NEW p \in Project, Picking(p), PickFails(p, Demands(p)), registry.reliable
      PROVE p \in Reach /\ Impossible(p)
  <2>1. todo # << >> /\ p = Head(todo)
    BY <1>4 DEF Picking
  <2>2. p \in Reach /\ Demands(p) = DemandsOn(p)
    BY <1>1, <2>1, Turn DEF IInv
  <2>3. Meeting(p, Demands(p)) = {}
    BY <1>4, FailsForCause
  <2>4. QED
    BY <2>2, <2>3 DEF Impossible
<1>5. ASSUME NEW p \in Project, Unsatisfied(p) PROVE IInv'
  <2>1. Picking(p) /\ PickFails(p, Demands(p)) /\ Answer("unsatisfied") /\ "unsatisfied" \in Answers
    BY <1>5 DEF Unsatisfied, Answers
  <2>2. registry.reliable => \E q \in Reach : Impossible(q)
    BY <1>4, <2>1
  <2>3. QED
    BY <1>1, <2>1, <2>2, AnswerStep
<1>6. ASSUME NEW p \in Project, StartSplit(p) PROVE IInv'
  <2>1. /\ Picking(p) /\ PickFails(p, Demands(p)) /\ todo # << >> /\ p = Head(todo)
        /\ pc' = "split" /\ rest' = constraints[p] /\ UNCHANGED <<inputs, walk>>
        /\ UNCHANGED <<todo, groups, at, lines, closure, answer>>
    BY <1>6 DEF StartSplit, Picking
  <2>2. TypeOK'
    BY <2>1 DEF IInv, TypeOK, inputs, walk
  <2>3. WalkInv'
    BY <1>1, <2>1, SameWalk DEF IInv
  <2>4. ChoiceInv'
    BY <1>1, <2>1, SameDemands DEF IInv, ChoiceInv
  <2>5. SplitInv'
    <3>1. Len(lines') = 0 /\ Len(groups') = 0 /\ lines' = << >>
      BY <1>1, <2>1
    <3>2. Demands(p)' = Range(rest') /\ registry' = registry
      BY <2>1, SameDemands DEF Demands, inputs
    <3>3. registry.reliable => Impossible(p)'
      BY <1>4, <2>1, SameDemands
    <3>4. QED
      BY <1>1, <2>1, <3>1, <3>2, <3>3 DEF SplitInv
  <2>6. AnswerInv'
    BY <1>1, <2>1, ResolveAssumption DEF AnswerInv, Answers
  <2>7. QED
    BY <2>2, <2>3, <2>4, <2>5, <2>6 DEF IInv
<1>7. QED
  BY <1>2, <1>3, <1>5, <1>6
LEMMA PlaceSteps ==
  ASSUME IInv, NEW p \in Project, Join(p) \/ TryNext(p) \/ Alone(p) \/ DeadDemand(p)
  PROVE  IInv'
<1>1. /\ pc = "split" /\ p = Head(todo) /\ rest # << >>
      /\ rest \in Seq(Demand) /\ groups \in Seq(SUBSET Demand)
      /\ queue = << >> /\ lines = << >> /\ lines \in Seq(Version)
  <2>1. pc = "split" /\ p = Head(todo) /\ rest # << >>
    BY DEF Join, TryNext, Alone, DeadDemand, Placing
  <2>2. QED
    BY <2>1 DEF IInv, TypeOK, WalkInv, Collected, SplitInv
<1>2. /\ todo # << >> /\ p \in Reach /\ at \in Nat \ {0}
      /\ registry.reliable => Impossible(p)
      /\ \A d \in Demands(p) : d \in Range(rest) \/ \E i \in 1 .. Len(groups) : d \in groups[i]
  BY <1>1, Turn DEF IInv, SplitInv
<1>3. /\ Head(rest) \in Demand /\ Tail(rest) \in Seq(Demand)
      /\ Range(rest) = {Head(rest)} \cup Range(Tail(rest))
  BY <1>1, RangeTail
<1>4. Len(lines) = 0 /\ Len(groups) \in Nat
  BY <1>1, LenProperties
<1>5. ASSUME NEW gs \in Seq(SUBSET Demand), Placed(gs),
             \A d : (\E i \in 1 .. Len(groups) : d \in groups[i]) \/ d = Head(rest) =>
                      \E i \in 1 .. Len(gs) : d \in gs[i]
      PROVE IInv'
  <2>1. /\ groups' = gs /\ rest' = Tail(rest) /\ at' = 1 /\ UNCHANGED <<inputs, walk>>
        /\ UNCHANGED <<inputs, pc, walk, todo, closure, answer>> /\ lines' = lines
        /\ pc' = pc /\ todo' = todo /\ registry' = registry
    BY <1>5 DEF Placed, inputs
  <2>2. Demands(p)' = Demands(p) /\ Impossible(p)' = Impossible(p)
    BY <2>1, SameDemands
  <2>3. \A d \in Demands(p) : d \in Range(rest') \/ \E i \in 1 .. Len(groups') : d \in groups'[i]
    BY <1>2, <1>3, <1>5, <2>1
  <2>4. Len(gs) \in Nat /\ Len(lines') = 0
    BY <1>4, <2>1, LenProperties
  <2>5. SplitInv'
    BY <1>1, <1>2, <2>1, <2>2, <2>3, <2>4 DEF SplitInv
  <2>6. QED
    BY <1>1, <1>3, <2>1, <2>5, SplitStep
<1>6. CASE Join(p)
  <2> DEFINE gs == [groups EXCEPT ![at] = @ \cup {Head(rest)}]
  <2>1. at \in 1 .. Len(groups) /\ Placed(gs)
    BY <1>2, <1>4, <1>6 DEF Join
  <2>2. /\ DOMAIN groups = 1 .. Len(groups)
        /\ \A i \in 1 .. Len(groups) : groups[i] \in SUBSET Demand
    BY <1>1, LenProperties, ElementOfSeq
  <2>3. /\ gs \in Seq(SUBSET Demand) /\ Len(gs) = Len(groups)
        /\ gs[at] = groups[at] \cup {Head(rest)}
        /\ \A i \in 1 .. Len(groups) : i # at => gs[i] = groups[i]
    BY <1>1, <1>3, <2>1, <2>2, ExceptSeq
  <2>4. \A d : (\E i \in 1 .. Len(groups) : d \in groups[i]) \/ d = Head(rest) =>
                 \E i \in 1 .. Len(gs) : d \in gs[i]
    BY <2>1, <2>3
  <2> HIDE DEF gs
  <2>5. QED
    BY <1>5, <2>1, <2>3, <2>4
<1>7. CASE Alone(p)
  <2> DEFINE gs == Append(groups, {Head(rest)})
  <2>1. Placed(gs)
    BY <1>7 DEF Alone
  <2>2. /\ gs \in Seq(SUBSET Demand) /\ Len(gs) = Len(groups) + 1
        /\ gs[Len(groups) + 1] = {Head(rest)}
        /\ \A i \in 1 .. Len(groups) : gs[i] = groups[i]
    BY <1>1, <1>3, AppendProperties
  <2>3. \A d : (\E i \in 1 .. Len(groups) : d \in groups[i]) \/ d = Head(rest) =>
                 \E i \in 1 .. Len(gs) : d \in gs[i]
    BY <1>4, <2>2
  <2> HIDE DEF gs
  <2>4. QED
    BY <1>5, <2>1, <2>2, <2>3
<1>8. CASE TryNext(p)
  <2>1. /\ at' = at + 1
        /\ UNCHANGED <<inputs, pc, walk, todo, closure, answer>> /\ UNCHANGED <<inputs, walk>>
        /\ rest' = rest /\ groups' = groups /\ lines' = lines
        /\ pc' = pc /\ todo' = todo /\ registry' = registry
    BY <1>8 DEF TryNext, inputs
  <2>2. Demands(p)' = Demands(p) /\ Impossible(p)' = Impossible(p)
    BY <2>1, SameDemands
  <2>3. SplitInv'
    BY <1>1, <1>2, <1>4, <2>1, <2>2 DEF SplitInv
  <2>4. QED
    BY <1>1, <2>1, <2>3, SplitStep
<1>9. CASE DeadDemand(p)
  <2>1. Answer("conflict") /\ "conflict" \in Answers
    BY <1>9 DEF DeadDemand, Answers
  <2>2. QED
    BY <1>1, <1>2, <2>1, AnswerStep
<1>10. QED
  BY <1>6, <1>7, <1>8, <1>9

LEMMA LineSteps ==
  ASSUME IInv, NEW p \in Project,
         OneGroup(p) \/ NextLine(p) \/ NoLine(p) \/ Hold(p) \/ Overlap(p)
  PROVE  IInv'
<1>1. /\ pc = "split" /\ p = Head(todo) /\ rest = << >>
      /\ rest \in Seq(Demand) /\ groups \in Seq(SUBSET Demand)
      /\ queue = << >> /\ lines \in Seq(Version)
  <2>1. pc = "split" /\ p = Head(todo) /\ rest = << >>
    BY DEF OneGroup, NextLine, NoLine, Hold, Overlap, AllLines, Lining
  <2>2. QED
    BY <2>1 DEF IInv, TypeOK, WalkInv, Collected
<1>2. /\ todo # << >> /\ p \in Reach /\ at \in Nat \ {0}
      /\ registry.reliable => Impossible(p)
      /\ \A d \in Demands(p) : \E i \in 1 .. Len(groups) : d \in groups[i]
  BY <1>1, Turn, RangeEmpty DEF IInv, SplitInv
<1>3. /\ Len(lines) \in Nat /\ Len(groups) \in Nat
      /\ \A i \in 1 .. Len(lines) :
           /\ lines[i] \in registry.published[p]
           /\ \A d \in groups[i] : lines[i] \in Admits[d]
  BY <1>1, LenProperties DEF IInv, SplitInv
<1>4. CASE OneGroup(p) \/ NoLine(p) \/ Overlap(p)
  <2>1. Answer("conflict") /\ "conflict" \in Answers
    BY <1>4 DEF OneGroup, NoLine, Overlap, Answers
  <2>2. QED
    BY <1>1, <1>2, <2>1, AnswerStep
<1>5. CASE NextLine(p)
  <2>1. PICK v \in Pick(p, groups[Len(lines) + 1]) : lines' = Append(lines, v)
    BY <1>5 DEF NextLine
  <2>2. /\ Len(lines) < Len(groups)
        /\ UNCHANGED <<inputs, pc, walk, todo, closure, answer>> /\ UNCHANGED <<inputs, walk>>
        /\ rest' = rest /\ groups' = groups /\ at' = at
        /\ pc' = pc /\ todo' = todo /\ registry' = registry
    BY <1>5 DEF NextLine, inputs
  <2>3. Demands(p)' = Demands(p) /\ Impossible(p)' = Impossible(p)
    BY <2>2, SameDemands
  <2>4. /\ v \in Version /\ v \in registry.published[p]
        /\ \A d \in groups[Len(lines) + 1] : v \in Admits[d]
    BY <2>1, Picked DEF IInv
  <2>5. /\ lines' \in Seq(Version) /\ Len(lines') = Len(lines) + 1
        /\ lines'[Len(lines) + 1] = v
        /\ \A i \in 1 .. Len(lines) : lines'[i] = lines[i]
    BY <1>1, <2>1, <2>4, AppendProperties
  <2>6. \A i \in 1 .. Len(lines') :
          /\ lines'[i] \in registry.published[p]
          /\ \A d \in groups[i] : lines'[i] \in Admits[d]
    BY <1>3, <2>4, <2>5
  <2>7. SplitInv'
    BY <1>1, <1>2, <1>3, <2>2, <2>3, <2>5, <2>6 DEF SplitInv
  <2>8. QED
    BY <1>1, <2>2, <2>5, <2>7, SplitStep
<1>6. CASE Hold(p)
  <2>1. /\ Len(lines) = Len(groups) /\ Len(groups) >= 2
        /\ Disjoint(p, lines) /\ Choose(p, Range(lines))
    BY <1>6 DEF Hold, AllLines
  <2>2. /\ DOMAIN lines = 1 .. Len(lines)
        /\ Range(lines) = {lines[i] : i \in 1 .. Len(lines)}
    BY <1>1, LenProperties, RangeEquality
  <2>3. Range(lines) \in SUBSET Version /\ lines[1] \in Range(lines)
    BY <1>1, <2>1, <2>2, RangeOfSeq
  <2>4. \A d \in Demands(p) : Range(lines) \cap Admits[d] # {}
    BY <1>2, <1>3, <2>1, <2>2
  <2>5. Range(lines) \subseteq registry.published[p]
    BY <1>3, <2>2
  <2>6. \A v, w \in Range(lines) : v # w => Apart(p, v, w)
    <3>1. ASSUME NEW i \in 1 .. Len(lines), NEW k \in 1 .. Len(lines), lines[i] # lines[k]
          PROVE Apart(p, lines[i], lines[k])
      <4>1. /\ Sonames(p, lines[i]) # {} /\ Sonames(p, lines[k]) # {}
            /\ Sonames(p, lines[i]) \cap Sonames(p, lines[k]) = {}
        BY <2>1, <2>2, <3>1 DEF Disjoint
      <4>2. Demands(p) = DemandsOn(p)
        BY <1>1, <1>2, Turn DEF IInv
      <4>3. QED
        BY <1>2, <4>1, <4>2 DEF Apart, Impossible
    <3>2. QED
      BY <2>2, <3>1
  <2>7. Fits(p, Range(lines))
    BY <2>4, <2>5, <2>6 DEF Fits
  <2>8. QED
    BY <1>1, <1>2, <2>1, <2>3, <2>7, ChooseStep
<1>7. QED
  BY <1>4, <1>5, <1>6

-----------------------------------------------------------------------------
(* The theorems.                                                           *)

LEMMA Start ==
  ASSUME Init
  PROVE  IInv
<1>1. TypeOK /\ WalkInv
  BY InitWalk
<1>2. /\ pc = "walk" /\ todo = << >> /\ answer = None /\ order = << >>
      /\ rest = << >> /\ groups = << >> /\ at = 1 /\ lines = << >>
      /\ closure = [q \in Project |-> {}]
  BY DEF Init
<1>3. ChoiceInv
  BY <1>2, RangeEmpty, ResolveAssumption DEF ChoiceInv, Answers
<1>4. SplitInv
  <2>1. Len(lines) = 0 /\ Len(groups) = 0
    BY <1>2
  <2>2. QED
    BY <1>2, <2>1 DEF SplitInv
<1>5. AnswerInv
  BY <1>2, ResolveAssumption DEF AnswerInv, Answers
<1>6. QED
  BY <1>1, <1>3, <1>4, <1>5 DEF IInv

LEMMA Stutter ==
  ASSUME IInv, UNCHANGED vars
  PROVE  IInv'
<1>1. /\ asks' = asks /\ registry' = registry /\ pc' = pc /\ queue' = queue
      /\ order' = order /\ constraints' = constraints /\ askedBy' = askedBy
      /\ todo' = todo /\ rest' = rest /\ groups' = groups /\ at' = at
      /\ lines' = lines /\ closure' = closure /\ answer' = answer
      /\ UNCHANGED <<inputs, walk>>
  BY DEF vars, inputs, walk, split
<1>2. TypeOK'
  BY <1>1 DEF IInv, TypeOK
<1>3. WalkInv'
  BY <1>1, SameWalk DEF IInv, WalkInv, Collected
<1>4. ChoiceInv'
  BY <1>1, SameDemands DEF IInv, ChoiceInv
<1>5. SplitInv'
  BY <1>1, SameDemands DEF IInv, SplitInv
<1>6. AnswerInv'
  BY <1>1, SameDemands DEF IInv, AnswerInv
<1>7. QED
  BY <1>2, <1>3, <1>4, <1>5, <1>6 DEF IInv

(* The inductive invariant.                                                *)
THEOREM Invariance == Spec => []IInv
<1>1. Init => IInv
  BY Start
<1>2. IInv /\ [Next]_vars => IInv'
  <2> SUFFICES ASSUME IInv, [Next]_vars PROVE IInv'
    OBVIOUS
  <2>1. CASE UNCHANGED vars
    BY <2>1, Stutter
  <2>2. CASE Skip \/ Walked
    BY <2>2, WalkSteps
  <2>3. CASE Resolved
    BY <2>3, PickSteps
  <2>4. ASSUME NEW p \in Project, Visit(p) \/ Unread(p) PROVE IInv'
    BY <2>4, WalkSteps
  <2>5. ASSUME NEW p \in Project, PickOne(p) \/ Unsatisfied(p) \/ StartSplit(p) PROVE IInv'
    BY <2>5, PickSteps
  <2>6. ASSUME NEW p \in Project, Join(p) \/ TryNext(p) \/ Alone(p) \/ DeadDemand(p) PROVE IInv'
    BY <2>6, PlaceSteps
  <2>7. ASSUME NEW p \in Project,
               OneGroup(p) \/ NextLine(p) \/ NoLine(p) \/ Hold(p) \/ Overlap(p)
        PROVE IInv'
    BY <2>7, LineSteps
  <2>8. QED
    BY <2>1, <2>2, <2>3, <2>4, <2>5, <2>6, <2>7 DEF Next
<1>3. QED
  BY <1>1, <1>2, PTL DEF Spec

(* The types of the variables.                                             *)
THEOREM TypeCorrect == Spec => []TypeOK
<1>1. IInv => TypeOK
  BY DEF IInv
<1>2. QED
  BY <1>1, Invariance, PTL

(* No choice is made before every demand in reach has been collected.      *)
(* (collectGraph)                                                          *)
THEOREM WalkCompleteHolds == Spec => []WalkComplete
<1>1. IInv => WalkComplete
  <2> SUFFICES ASSUME IInv, Collected
               PROVE  /\ Seen = Reach
                      /\ \A i, j \in DOMAIN order : order[i] = order[j] => i = j
                      /\ \A q \in Project : Demands(q) = DemandsOn(q)
    BY DEF WalkComplete
  <2>1. queue = << >>
    BY DEF IInv, WalkInv
  <2>2. QED
    BY <2>1, WalkEnds DEF IInv, WalkInv
<1>2. QED
  BY <1>1, Invariance, PTL

(* Who is named for a demand made it.  (collectGraph, closureErr)          *)
THEOREM BlameRightHolds == Spec => []BlameRight
<1>1. IInv => BlameRight
  BY DEF IInv, WalkInv
<1>2. QED
  BY <1>1, Invariance, PTL

(* A resolved closure meets every demand.  (ResolveClosureFor)             *)
THEOREM EveryDemandMetHolds == Spec => []EveryDemandMet
<1>1. IInv => EveryDemandMet
  <2> SUFFICES ASSUME IInv, answer = "resolved", NEW q \in Project
               PROVE  /\ closure[q] # {} <=> q \in Reach
                      /\ closure[q] \subseteq registry.published[q]
                      /\ q \in Reach => \A d \in DemandsOn(q) : closure[q] \cap Admits[d] # {}
    BY DEF EveryDemandMet
  <2>1. queue = << >> /\ todo = << >> /\ Range(todo) = {}
    BY RangeEmpty DEF IInv, WalkInv, Collected, ChoiceInv
  <2>2. Seen = Reach /\ Demands(q) = DemandsOn(q)
    BY <2>1, WalkEnds DEF IInv
  <2>3. closure[q] # {} <=> q \in Reach
    BY <2>1, <2>2 DEF IInv, ChoiceInv
  <2>4. closure[q] # {} => Fits(q, closure[q])
    BY DEF IInv, ChoiceInv
  <2>5. QED
    BY <2>2, <2>3, <2>4 DEF Fits
<1>2. QED
  BY <1>1, Invariance, PTL

(* Libraries of two versions that are held cannot be taken for each other. *)
(* (sonamesDisjoint)                                                       *)
THEOREM LinesApartHolds == Spec => []LinesApart
<1>1. IInv => LinesApart
  BY DEF IInv, ChoiceInv, LinesApart, Fits, Apart
<1>2. QED
  BY <1>1, Invariance, PTL

(* Without failing calls, a project is split, or a closure refused, only   *)
(* where no version meets the demands.  (ResolveClosureFor, pickABILines)  *)
THEOREM OnlyForCauseHolds == Spec => []OnlyForCause
<1>1. IInv => OnlyForCause
  <2> SUFFICES ASSUME IInv, registry.reliable
               PROVE  /\ \A q \in Project : \A v, w \in closure[q] : v # w => Impossible(q)
                      /\ answer \notin {None, "resolved"} => \E q \in Reach : Impossible(q)
    BY DEF OnlyForCause
  <2>1. ASSUME NEW q \in Project, NEW v \in closure[q], NEW w \in closure[q], v # w
        PROVE Impossible(q)
    <3>1. q \in Seen /\ Meeting(q, Demands(q)) = {}
      BY <2>1 DEF IInv, ChoiceInv, Fits, Apart
    <3>2. pc # "walk" /\ answer # "unread"
      BY <2>1 DEF IInv, ChoiceInv, AnswerInv
    <3>3. Collected
      BY <3>2 DEF IInv, TypeOK, AnswerInv, Collected, Answers
    <3>4. Demands(q) = DemandsOn(q)
      BY <3>3, WalkEnds DEF IInv, WalkInv
    <3>5. QED
      BY <3>1, <3>4 DEF Impossible
  <2>2. ASSUME answer \notin {None, "resolved"}
        PROVE \E q \in Reach : Impossible(q)
    BY <2>2 DEF IInv, TypeOK, AnswerInv, Answers
  <2>3. QED
    BY <2>1, <2>2
<1>2. QED
  BY <1>1, Invariance, PTL
=============================================================================
