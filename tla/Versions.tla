------------------------------ MODULE Versions ------------------------------
(***************************************************************************)
(* Which version of a project a constraint resolves to: the listing of the *)
(* registry's tags, the candidates that are kept of it (selectVersions),   *)
(* and the search among them for the newest one that satisfies every       *)
(* constraint and has a bottle for the platform (pickVersionForAll).       *)
(*                                                                         *)
(* A version string is its numbers, a letter that follows them (the w of   *)
(* 1.1.1w, as its rank; 0 is no letter) and its rebuild counter.  A tag may*)
(* add a leading v, the hash of a variant and the glibc it was built       *)
(* against.  The registry lists its tags in any order, and the sort leaves *)
(* equal versions in any order.                                            *)
(***************************************************************************)
EXTENDS Integers, Sequences

CONSTANTS
  Suffix,     \* hashes of variants, and glibc versions
  Listings,   \* what the registry may list: sets of tags
  Others,     \* what the second distribution may list; None: there is none
  Requests,   \* the constraints that may meet on the project
  EndOfLife,  \* the end-of-life lines that the host may have been told of
  Flavor,     \* the glibc the host has pinned, or None
  None

Nums == Seq(Nat) \ {<<>>}
Tag == [prefixed : BOOLEAN, nums : Nums, letter : Nat, rebuild : Nat,
        variant : Suffix \cup {None}, flavor : Suffix \cup {None}]
Ver == [nums : Nums, letter : Nat, rebuild : Nat,
        variant : Suffix \cup {None}, tag : Tag \cup {None}]
Answers == {"supported", "endoflife", "ambiguous", "elsewhere", "unsatisfied",
            "uncarried", "failed"}
Suffixed(t) == t.flavor # None \/ t.variant # None

ASSUME VersionsAssumption ==
  /\ None \notin Suffix \cup Tag \cup Ver \cup Answers
  /\ \A l \in Listings : l \subseteq Tag
  /\ \A o \in Others \ {None} : o \subseteq Tag /\ \A t \in o : ~Suffixed(t)
  /\ \A r \in Requests : \A c \in r : \A alternative \in c : \A m \in alternative :
       m.nums \in Nums /\ m.rebuild \in Nat

VARIABLES
  listed,     \* the tags of the project that the reader may see
  here,       \* those that have a bottle for the platform
  other,      \* what the second distribution lists
  request,    \* the constraints to meet
  dead,       \* the end-of-life lines
  pc,
  unread,     \* the listed tags that have not been looked at
  kept,       \* the candidates
  registry,   \* whether the candidates are the registry's own
  untried,    \* the candidates that have not been tried
  fallback,   \* the first that would do and is on an end-of-life line
  absent,     \* whether one would do that has no bottle here
  answer,     \* what is answered
  picked      \* the version that is answered, with the tag to pull

inputs == <<listed, here, other, request, dead>>
search == <<untried, fallback, absent>>
vars == <<inputs, pc, unread, kept, registry, search, answer, picked>>

TypeOK ==
  /\ listed \in Listings
  /\ here \subseteq listed
  /\ other \in Others
  /\ request \in Requests
  /\ dead \in EndOfLife
  /\ pc \in {"list", "select", "other", "pick", "done"}
  /\ unread \subseteq listed
  /\ kept \subseteq Ver
  /\ registry \in BOOLEAN
  /\ untried \subseteq kept
  /\ fallback \in Ver \cup {None}
  /\ absent \in BOOLEAN
  /\ answer \in Answers \cup {None}
  /\ picked \in Ver \cup {None}

-----------------------------------------------------------------------------
(* Versions and their order.                                               *)

At(nums, i) == IF i \in DOMAIN nums THEN nums[i] ELSE 0
Places(v, w) == DOMAIN v.nums \cup DOMAIN w.nums
SameN(v, w, n) == \A i \in 1..n : At(v.nums, i) = At(w.nums, i)
SameNums(v, w) == \A i \in Places(v, w) : At(v.nums, i) = At(w.nums, i)

(* cmpVer: the letter and the variant are no part of the order.            *)
Older(v, w) ==
  \/ \E i \in Places(v, w) :
       At(v.nums, i) < At(w.nums, i) /\ SameN(v, w, i - 1)
  \/ SameNums(v, w) /\ v.rebuild < w.rebuild

(* numericKey: which tags name one build.                                  *)
SameKey(v, w) ==
  SameNums(v, w) /\ v.rebuild = w.rebuild /\ v.variant = w.variant

(* ParseVer, after SplitFlavor and SplitVariantHash: the leading v is gone,*)
(* and the tag is remembered where the version string is not the tag.      *)
Read(t) ==
  [nums |-> t.nums, letter |-> t.letter, rebuild |-> t.rebuild,
   variant |-> t.variant, tag |-> IF Suffixed(t) THEN t ELSE None]

(* satisfies, for one comparator.                                          *)
Meets(v, c) ==
  \/ c.op = ">=" /\ ~Older(v, c)
  \/ c.op = ">" /\ Older(c, v)
  \/ c.op = "<=" /\ ~Older(c, v)
  \/ c.op = "<" /\ Older(v, c)
  \/ c.op = "=" /\ ~Older(v, c) /\ ~Older(c, v)
  \/ c.op = "~" /\ ~Older(v, c)
     /\ SameN(v, c, IF Len(c.nums) > 2 THEN 2 ELSE Len(c.nums))
  \/ c.op = "^" /\ ~Older(v, c) /\ SameN(v, c, 1)

(* A constraint is its alternatives, each a set of comparators.            *)
SatisfiesAll(v) ==
  \A c \in request : \E alternative \in c : \A m \in alternative : Meets(v, m)

(* deprecatedLine: a line is a prefix of the numbers.                      *)
DeprecatedLine(v) ==
  \E l \in dead : Len(l) <= Len(v.nums) /\ \A i \in DOMAIN l : l[i] = v.nums[i]

-----------------------------------------------------------------------------
(* Tags.                                                                   *)

Mine(t) == t.flavor \in {None, Flavor}

(* supersedes: whether a tag replaces the candidate that is held.          *)
SupersedesAny(t, held) == held.tag = None
Supersedes(t, held) ==
  /\ held.tag = None
  /\ \/ t.flavor # None
     \/ Len(t.nums) > Len(held.nums)
     \/ Len(t.nums) = Len(held.nums) /\ t.letter > held.letter

Plain(nums, letter, rebuild) ==
  [prefixed |-> FALSE, nums |-> nums, letter |-> letter, rebuild |-> rebuild,
   variant |-> None, flavor |-> None]
RegistryTag(v) ==
  IF v.tag # None THEN v.tag ELSE Plain(v.nums, v.letter, v.rebuild)

(* tagSpellings: with trailing zeros dropped, or one added.  What carries  *)
(* a suffix or a rebuild counter has one spelling.                         *)
Lengths(v) ==
  {n \in 1..(Len(v.nums) + 1) : \A i \in DOMAIN v.nums : i > n => v.nums[i] = 0}
TagSpellingsOwn(v) == {RegistryTag(v)}
TagSpellingsOfRebuild(v) ==
  {RegistryTag(v)} \cup {Plain([i \in 1..n |-> At(v.nums, i)], 0, 0) : n \in Lengths(v)}
TagSpellings(v) ==
  {RegistryTag(v)} \cup
  IF v.tag # None \/ v.rebuild # 0 THEN {}
  ELSE {Plain([i \in 1..n |-> At(v.nums, i)], 0, 0) : n \in Lengths(v)}

(* The order in which the spellings are asked about: the tag itself, the   *)
(* numbers without a letter, a zero added, then ever shorter.              *)
Turn(v, t) ==
  IF t = RegistryTag(v) THEN 0
  ELSE IF Len(t.nums) > Len(v.nums) THEN 2
  ELSE 1 + 2 * (Len(v.nums) - Len(t.nums))

Found(v) == TagSpellings(v) \cap here
PublishedTagFor(v) ==
  {t \in Found(v) : \A u \in Found(v) : Turn(v, t) <= Turn(v, u)}

(* variantSiblings: other builds under the same version string.            *)
VariantSiblings(v) ==
  {w \in kept : w.variant # v.variant /\ w.nums = v.nums
                /\ w.letter = v.letter /\ w.rebuild = v.rebuild}

-----------------------------------------------------------------------------
Init ==
  /\ listed \in Listings
  /\ here \in SUBSET listed
  /\ other \in Others
  /\ request \in Requests
  /\ dead \in EndOfLife
  /\ \/ pc = "list"
     \/ pc = "other" /\ other # None /\ listed = {}   \* not an OCI registry
  /\ unread = {} /\ kept = {} /\ untried = {}
  /\ registry = FALSE
  /\ fallback = None /\ absent = FALSE
  /\ answer = None /\ picked = None

Answer(what, v) ==
  /\ answer' = what /\ picked' = v /\ pc' = "done"
  /\ UNCHANGED <<inputs, unread, kept, registry, search>>

(* ociVersionsFor: the registry answers with the project's tags.           *)
ListTags ==
  /\ pc = "list"
  /\ pc' = "select" /\ unread' = listed
  /\ UNCHANGED <<inputs, kept, registry, search, answer, picked>>

AskOther ==
  \/ other = None /\ Answer("uncarried", None)
  \/ /\ other # None /\ pc' = "other"
     /\ UNCHANGED <<inputs, unread, kept, registry, search, answer, picked>>

(* repoAbsent: a 404, or a 403 to a reader without credentials.            *)
NotCarried == pc = "list" /\ listed = {} /\ AskOther

(* Any other error, of either distribution, is the answer.                 *)
ListingFails == pc \in {"list", "other"} /\ Answer("failed", None)

(* selectVersions: one tag of the listing, whichever comes next.           *)
Consider(t) ==
  /\ pc = "select" /\ t \in unread
  /\ unread' = unread \ {t}
  /\ LET held == {k \in kept : SameKey(k, Read(t))}
     IN IF Mine(t) /\ \A k \in held : Supersedes(t, k)
        THEN kept' = (kept \ held) \cup {Read(t)}
        ELSE kept' = kept
  /\ UNCHANGED <<inputs, pc, registry, search, answer, picked>>

Search(candidates, own) ==
  /\ pc' = "pick" /\ kept' = candidates /\ untried' = candidates
  /\ registry' = own
  /\ UNCHANGED <<inputs, unread, fallback, absent, answer, picked>>

(* The whole listing was read.  One without a version is not carried.      *)
Selected ==
  /\ pc = "select" /\ unread = {}
  /\ \/ kept # {} /\ Search(kept, TRUE)
     \/ kept = {} /\ AskOther

(* httpVersionsFor: the other distribution lists bare versions, of which   *)
(* every spelling stays a candidate.                                       *)
OtherLists == pc = "other" /\ Search({Read(t) : t \in other}, FALSE)

(* pickVersionForAll tries the candidates newest first.                    *)
Oldest(v) ==
  pc = "pick" /\ v \in untried /\ \A w \in untried : ~Older(w, v)
Newest(v) ==
  pc = "pick" /\ v \in untried /\ \A w \in untried : ~Older(v, w)
Satisfier(v) == Newest(v) /\ SatisfiesAll(v) /\ VariantSiblings(v) = {}

StepOver(v) ==
  /\ untried' = untried \ {v}
  /\ UNCHANGED <<inputs, pc, unread, kept, registry, answer, picked>>

Unsatisfying(v) ==
  /\ Newest(v) /\ ~SatisfiesAll(v)
  /\ StepOver(v) /\ UNCHANGED <<fallback, absent>>

Ambiguous(v) ==
  /\ Newest(v) /\ SatisfiesAll(v) /\ VariantSiblings(v) # {}
  /\ Answer("ambiguous", None)

NotHere(v) ==
  /\ Satisfier(v) /\ registry /\ Found(v) = {}
  /\ absent' = TRUE /\ StepOver(v) /\ UNCHANGED fallback

LookupFails(v) == Satisfier(v) /\ registry /\ Answer("failed", None)

(* What is pulled: the registry's candidate under the tag that was found.  *)
Pulled(v) ==
  IF registry THEN {[v EXCEPT !.tag = t] : t \in PublishedTagFor(v)} ELSE {v}

Take(v) ==
  \E p \in Pulled(v) :
    /\ Satisfier(v)
    /\ \/ ~DeprecatedLine(v) /\ Answer("supported", p)
       \/ /\ DeprecatedLine(v)
          /\ fallback' = IF fallback = None THEN p ELSE fallback
          /\ StepOver(v) /\ UNCHANGED absent

GiveUp ==
  /\ pc = "pick" /\ untried = {}
  /\ \/ fallback # None /\ Answer("endoflife", fallback)
     \/ fallback = None /\ absent /\ Answer("elsewhere", None)
     \/ fallback = None /\ ~absent /\ Answer("unsatisfied", None)

Next ==
  \/ ListTags \/ NotCarried \/ ListingFails \/ Selected \/ OtherLists \/ GiveUp
  \/ \E t \in unread : Consider(t)
  \/ \E v \in untried :
       Unsatisfying(v) \/ Ambiguous(v) \/ NotHere(v) \/ LookupFails(v) \/ Take(v)

Spec == Init /\ [][Next]_vars

-----------------------------------------------------------------------------
(* Properties.                                                             *)

(* The tags of one build, best first: a suffixed one, then the longest     *)
(* spelling, then the last letter.                                         *)
Beats(t, u) ==
  \/ Suffixed(t) /\ ~Suffixed(u)
  \/ /\ Suffixed(t) <=> Suffixed(u)
     /\ \/ Len(t.nums) > Len(u.nums)
        \/ Len(t.nums) = Len(u.nums) /\ t.letter > u.letter
OneBuild(t, u) == SameKey(Read(t), Read(u))
Foremost(tags) ==
  {t \in tags : Mine(t) /\ ~\E b \in tags : Mine(b) /\ OneBuild(b, t) /\ Beats(b, t)}
Candidates(tags) == {Read(t) : t \in Foremost(tags)}

(* No build carries two suffixed tags that this host may use.              *)
OneSuffixedTag ==
  \A t, u \in listed : Mine(t) /\ Mine(u) /\ Suffixed(t) /\ Suffixed(u)
                       /\ OneBuild(t, u) => t = u

(* The candidates are a function of the set of tags, whatever the order in *)
(* which the registry lists them: of each build the best spelling, and no  *)
(* build is lost to another.  (selectVersions, supersedes)                 *)
SelectionOrderFree ==
  OneSuffixedTag /\ pc = "pick" /\ registry => kept = Candidates(listed)

(* A candidate that may be answered with.                                  *)
Installable(v) == SatisfiesAll(v) /\ (registry => Found(v) # {})

(* The answer is the newest candidate that satisfies every constraint and  *)
(* has a bottle here; an end-of-life one only if there is no other; and    *)
(* nothing is answered only if there is none.  (pickVersionForAll)         *)
AnswerIsNewest ==
  /\ answer \in {"supported", "endoflife"} =>
       \E v \in kept :
         /\ picked \in Pulled(v) /\ Installable(v)
         /\ DeprecatedLine(v) <=> answer = "endoflife"
         /\ \A w \in kept : Installable(w) =>
              /\ DeprecatedLine(v) => DeprecatedLine(w) /\ ~Older(v, w)
              /\ Older(v, w) => DeprecatedLine(w)
  /\ answer \in {"elsewhere", "unsatisfied"} =>
       \A v \in kept : ~Installable(v)

(* The tag that will be pulled names the build that was picked: the same   *)
(* numbers, rebuild and variant.  (tagSpellings, PublishedTagFor)          *)
TagNamesPick ==
  registry /\ picked # None => SameKey(Read(picked.tag), picked)

(* A request is not refused for want of a bottle while a listed tag that   *)
(* satisfies it has one for the platform: not because another spelling won *)
(* nor because the version was rebuilt.  Set apart are tags with a leading *)
(* v, those of a build that also has a tag with a suffix or a letter, and  *)
(* rebuilds that are spelled in two ways.                                  *)
Unrivalled(t) ==
  /\ ~Suffixed(t) /\ ~t.prefixed
  /\ \A u \in listed : OneBuild(t, u) =>
       ~Suffixed(u) /\ u.letter = 0 /\ (t.rebuild # 0 => u.nums = t.nums)
PublishedIsFound ==
  registry /\ answer \in {"elsewhere", "unsatisfied"} =>
    \A t \in here : Unrivalled(t) => ~SatisfiesAll(Read(t))
=============================================================================
