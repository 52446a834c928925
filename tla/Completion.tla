----------------------------- MODULE Completion ------------------------------
(***************************************************************************)
(* Completing a closure (closure.go, closure_macho.go, glibc.go): the      *)
(* bottles that a recipe declares are installed, then round by round what  *)
(* their binaries load and nothing offers: on linux by soname, looked for  *)
(* in the closure, on darwin by path, looked for in the store.             *)
(*                                                                         *)
(* What the resolver answers is Resolve.tla's and given here; how a bottle *)
(* gets into the store is Store.tla's and is one step here.                *)
(***************************************************************************)
EXTENDS Naturals, Sequences, SequencesExt

CONSTANTS
  Bottle,        \* published bottles: of a project, at a version
  Soname,        \* what binaries load, on either system
  Platform,      \* of an os and an arch
  Machines,      \* who completes for whom: platforms, kernel, pin of the user
                 \* and whether the machine supplies the implicit roots
  Here,          \* of each platform, the bottles published for it
  Needs,         \* of each bottle, what its ELF files load
  Ships,         \* what lies below its lib directories
  Refs,          \* the @rpath references of its Mach-O files
  Seeds,         \* what releases that did not hash may have installed
  Declares,      \* of each platform and bottle, the sonames its manifest lists
  MajorOf,       \* of each version, its leading number
  Hint,          \* of each soname, the number after .so.
  ProjectFor,    \* the provider that the maps name, or None
  ImplicitFor,   \* the root that brings an implicit soname, or None
  HostProvided,  \* what comes with a driver of the machine
  DepsOf,        \* what the resolver answers with a root: its dependencies
  Ordered,       \* the bottles of a set, dependencies before what needs them
  Floor,         \* the oldest kernel a glibc runs on, where it says
  Glibc,         \* the project of the C library
  Starts,        \* the closures that the resolver may have answered
  Outages,       \* bottles that may be out of reach while one is looked for
  MaxRounds,     \* 8
  MaxTry,        \* 40
  MaxInstalls,   \* bound: closures completed into one store
  Unset, None

Project == {b.project : b \in Bottle}

(* A reference through abi-<soname>, or through the directory of a major,  *)
(* or one that names no project directory.                                 *)
Want == [project : Project \cup {None}, soname : Soname, abi : BOOLEAN]

ASSUME CompletionAssumption ==
  /\ IsFiniteSet(Bottle)
  /\ \A b \in Bottle : b.project # None /\ b.ver \in Nat \ {None}
  /\ \A b, c \in Bottle : b.project = c.project /\ b.ver = c.ver => b = c
  /\ \A m \in Machines : m.host.os # "linux" => m.kernel = None
  /\ Here \in [Platform -> SUBSET Bottle]
  /\ Needs \in [Bottle -> SUBSET Soname] /\ Ships \in [Bottle -> SUBSET Soname]
  /\ Refs \in [Bottle -> SUBSET Want] /\ Seeds \subseteq SUBSET Bottle
  /\ Declares \in [Platform -> [Bottle -> SUBSET Soname]]
  /\ ProjectFor \in [Soname -> (Project \ {Glibc}) \cup {None}]
  /\ ImplicitFor \in [Soname -> Project \cup {None}]
  /\ HostProvided \subseteq Soname
  /\ DepsOf \in [Bottle -> SUBSET Bottle]
  /\ \A S \in SUBSET Bottle : Ordered[S] \in Seq(Bottle) /\ ToSet(Ordered[S]) = S
  /\ Starts \subseteq Seq(Bottle)
  /\ MaxRounds \in Nat /\ MaxTry \in Nat /\ MaxInstalls \in Nat

VARIABLES
  machine,       \* one of Machines
  legacy,        \* what is in the store under a name without a hash
  store,         \* what was installed, in that order, for which platform
  glibcPin,      \* what glibcOnce keeps: Unset, None or a version
  declared,      \* what the resolver answered
  closure,       \* the closure so far
  recorded,      \* installedVer
  tried,         \* what one attempt was made for, or a warning
  warned,        \* what was said to be missing
  round, changed,
  needed,        \* what was unprovided when the round began
  pc,
  installs

inputs == <<machine, legacy>>
loop == <<tried, warned, round, changed, needed>>
host == machine.host
target == machine.target
vars == <<inputs, store, glibcPin, declared, closure, recorded, loop, pc, installs>>

Init ==
  /\ machine \in Machines
  /\ legacy \in Seeds
  /\ store = SetToSeq([bottle : legacy, platform : {target}])
  /\ glibcPin = Unset
  /\ declared = <<>> /\ closure = <<>>
  /\ recorded = {} /\ tried = {} /\ warned = {} /\ needed = {}
  /\ round = 0 /\ changed = FALSE
  /\ pc = "idle" /\ installs = 0

-----------------------------------------------------------------------------
(* Reading what is installed.                                              *)

Members == ToSet(closure)
Projects(c) == {b.project : b \in ToSet(c)}
OnDisk == {e.bottle : e \in ToSet(store)}
ScanNeeded(B) == UNION {Needs[b] : b \in B}
AvailableSonames(B) == UNION {Ships[b] : b \in B}

(* An ABI link names the version that declared its soname last, and leads  *)
(* somewhere where that version has a directory without a hash, as has the *)
(* directory of a major.                                                   *)
Exists(w) ==
  LET declaring == {i \in DOMAIN store :
                      /\ store[i].bottle.project = w.project
                      /\ w.soname \in Declares[store[i].platform][store[i].bottle]}
  IN  /\ declaring # {}
      /\ IF w.abi THEN store[Max(declaring)].bottle \in legacy
         ELSE \E i \in declaring : store[i].bottle \in legacy
UnresolvedRefs(B) == {w \in UNION {Refs[b] : b \in B} : ~ Exists(w)}

(* A want is known by its project and its soname.                          *)
Key(w) == <<w.project, w.soname>>

-----------------------------------------------------------------------------
(* The implicit roots.                                                     *)

Published(p) == {b \in Bottle : b.project = p}
Newest(S) == CHOOSE b \in S : \A c \in S : c.ver <= b.ver
Usable(b) == b \in Here[host] /\ Floor[b] # None
Fits(b) == Usable(b) /\ Floor[b] <= machine.kernel

(* As it would be if the glibc before one that does not run were taken.    *)
GlibcBeforeNewest ==
  LET all == Published(Glibc)
  IN  IF all = {} \/ ~ Usable(Newest(all)) \/ Fits(Newest(all))
      THEN None
      ELSE Newest(all \ {Newest(all)}).ver

(* newestGlibcForKernel: nothing changes unless the newest glibc is known  *)
(* not to run; then the newest that is known to run, if there is one.      *)
NewestGlibcForKernel ==
  LET all == Published(Glibc)
      fitting == {b \in all : Fits(b)}
  IN  IF all = {} \/ ~ Usable(Newest(all)) \/ Fits(Newest(all)) \/ fitting = {}
      THEN None
      ELSE Newest(fitting).ver
ResolveGlibcConstraint ==
  IF machine.pin # None THEN machine.pin
  ELSE IF machine.kernel = None THEN None
  ELSE NewestGlibcForKernel

IsImplicitSoname(s) == ImplicitFor[s] # None
ImplicitRoots(sonames) ==
  IF machine.off THEN {}
  ELSE {Glibc} \cup {ImplicitFor[s] : s \in {n \in sonames : IsImplicitSoname(n)}}

(* What the resolver answers for roots: the newest of each and what that   *)
(* depends on, one version of a project; nothing where one has no version. *)
Candidates(p, pin) ==
  {b \in Published(p) : /\ b \in Here[target]
                        /\ p = Glibc /\ pin # None => b.ver = pin}
ResolveClosureFor(roots, pin) ==
  LET picks == {Newest(Candidates(p, pin)) : p \in roots}
      below == UNION {DepsOf[a] : a \in picks}
  IN  picks \cup {b \in below : b.project \notin roots}
Unresolvable(roots, pin) == \E p \in roots : Candidates(p, pin) = {}

-----------------------------------------------------------------------------
(* Looking for the provider of a soname.                                   *)

ProjectForSoname(s) == IF s \in HostProvided THEN None ELSE ProjectFor[s]

Versions(p) == SetToSortSeq(Published(p), LAMBDA a, b : a.ver > b.ver)

(* The versions whose leading number is the ABI of the soname come first.  *)
CandidateOrder(p, s) ==
  LET vs == Versions(p)
  IN  SelectSeq(vs, LAMBDA b : MajorOf[b] = Hint[s])
        \o SelectSeq(vs, LAMBDA b : MajorOf[b] # Hint[s])

(* The first of the versions that can be installed and will do; those      *)
(* installed on the way stay in the store.                                 *)
Tries(vs, up, good) ==
  LET n == IF Len(vs) < MaxTry THEN Len(vs) ELSE MaxTry
      found == {i \in 1..n : vs[i] \in up \cap good}
      last == IF found = {} THEN n ELSE CHOOSE i \in found : \A j \in found : i <= j
  IN  [found |-> IF found = {} THEN None ELSE vs[last],
       left |-> SelectSeq(SubSeq(vs, 1, last), LAMBDA b : b \in up)]

InstallFor(b, p) ==
  IF b \in OnDisk THEN <<>> ELSE <<[bottle |-> b, platform |-> p]>>
InstallAll(bs, p) == FlattenSeq([i \in 1..Len(bs) |-> InstallFor(bs[i], p)])

(* As it would be if the latest version were taken for any soname.         *)
InstallLatest(p, s, out) ==
  LET ways == Tries(Versions(p), OnDisk \cup (Here[target] \ out), Published(p))
  IN  [found |-> ways.found, left |-> InstallAll(ways.left, target)]

InstallProvidingSoname(p, s, out) ==
  LET ways == Tries(CandidateOrder(p, s), OnDisk \cup (Here[target] \ out),
                    {b \in Published(p) : s \in Ships[b]})
  IN  [found |-> ways.found, left |-> InstallAll(ways.left, target)]

(* On darwin the manifest is asked before a bottle is fetched.  Both ask   *)
(* for the platform of the host.                                           *)
ProvideMachoSoname(w, out) ==
  LET ways == Tries(Versions(w.project), OnDisk \cup (Here[host] \ out),
                    {b \in Published(w.project) : w.soname \in Declares[host][b]})
  IN  [found |-> ways.found,
       left |-> IF ways.found = None THEN <<>> ELSE InstallFor(ways.found, host)]

-----------------------------------------------------------------------------
(* CompleteClosureFor.                                                     *)

Resolve(c) ==
  /\ pc \in {"idle", "failed"} /\ installs < MaxInstalls
  /\ declared' = c
  /\ closure' = <<>> /\ recorded' = ToSet(c)
  /\ tried' = {} /\ warned' = {} /\ needed' = {}
  /\ round' = 0 /\ changed' = FALSE
  /\ pc' = "install" /\ installs' = installs + 1
  /\ UNCHANGED <<inputs, store, glibcPin>>

InstallDeclared(out) ==
  /\ pc = "install" /\ Len(closure) < Len(declared)
  /\ LET b == declared[Len(closure) + 1]
     IN  IF b \in OnDisk \/ b \in Here[target] \ out
         THEN /\ closure' = Append(closure, b)
              /\ store' = store \o InstallFor(b, target)
              /\ UNCHANGED pc
         ELSE pc' = "failed" /\ closure' = <<>> /\ UNCHANGED store
  /\ UNCHANGED <<inputs, glibcPin, declared, recorded, loop, installs>>

(* Which of the two repairs follows is the system of the target.           *)
Choose ==
  /\ pc = "install" /\ Len(closure) = Len(declared)
  /\ pc' = IF target.os \in {"linux", "darwin"} THEN "scan" ELSE "done"
  /\ UNCHANGED <<inputs, store, glibcPin, declared, closure, recorded, loop, installs>>

(* As it would be if the store were searched and not the closure.          *)
MissingInStore(B) == ScanNeeded(B) \ AvailableSonames(OnDisk)
Missing(B) == ScanNeeded(B) \ AvailableSonames(B)

(* One look per round: what the round itself brings is seen by the next.   *)
Scan ==
  /\ pc = "scan"
  /\ changed' = FALSE
  /\ IF target.os = "linux"
     THEN /\ needed' = {s \in Missing(Members) : ~ IsImplicitSoname(s)} \ tried
          /\ pc' = "implicit"
     ELSE /\ \E seen \in SUBSET UnresolvedRefs(Members) :
               /\ {Key(w) : w \in seen} = {Key(w) : w \in UnresolvedRefs(Members)}
               /\ \A v, w \in seen : Key(v) = Key(w) => v = w
               /\ needed' = {w \in seen : Key(w) \notin tried}
          /\ pc' = "repair"
  /\ UNCHANGED <<inputs, store, glibcPin, declared, closure, recorded, tried,
                 warned, round, installs>>

(* The roots that the closure has no version of are resolved together and  *)
(* what is new of them is appended.                                        *)
Implicit(out) ==
  /\ pc = "implicit"
  /\ LET pin == IF glibcPin = Unset THEN ResolveGlibcConstraint ELSE glibcPin
         missing == ImplicitRoots(ScanNeeded(Members)) \ Projects(closure)
         have == Projects(closure)
         resolved == ResolveClosureFor(missing, pin)
         added == Ordered[{b \in resolved : b.project \notin have}]
         fails == {i \in 1..Len(added) : added[i] \in out \ OnDisk}
     IN  /\ glibcPin' = IF machine.off THEN glibcPin ELSE pin
         /\ IF Unresolvable(missing, pin)
            THEN pc' = "failed" /\ closure' = <<>> /\ UNCHANGED <<store, changed>>
            ELSE IF fails # {}
            THEN /\ pc' = "failed" /\ closure' = <<>>
                 /\ \E i \in fails :
                      /\ \A j \in fails : i <= j
                      /\ store' = store \o InstallAll(SubSeq(added, 1, i - 1), target)
                 /\ UNCHANGED changed
            ELSE /\ pc' = "sonames" /\ closure' = closure \o added
                 /\ store' = store \o InstallAll(added, target)
                 /\ changed' = (changed \/ added # <<>>)
  /\ UNCHANGED <<inputs, declared, recorded, tried, warned, round, needed, installs>>

Take(b) ==
  IF b \in recorded
  THEN UNCHANGED <<closure, recorded, changed>>
  ELSE /\ closure' = Append(closure, b)
       /\ recorded' = recorded \cup {b}
       /\ changed' = TRUE
GiveUp(key) ==
  warned' = warned \cup {key} /\ UNCHANGED <<store, closure, recorded, changed>>

(* One soname after the other, in the order of a Go map: once each.        *)
ProvideSoname(s, out) ==
  /\ pc = "sonames"
  /\ needed' = needed \ {s} /\ tried' = tried \cup {s}
  /\ IF ProjectForSoname(s) = None
     THEN GiveUp(s)
     ELSE LET answer == InstallProvidingSoname(ProjectForSoname(s), s, out)
          IN  IF answer.found = None
              THEN /\ warned' = warned \cup {s}
                   /\ store' = store \o answer.left
                   /\ UNCHANGED <<closure, recorded, changed>>
              ELSE /\ store' = store \o answer.left
                   /\ Take(answer.found)
                   /\ UNCHANGED warned
  /\ UNCHANGED <<inputs, glibcPin, declared, round, pc, installs>>

(* A reference through the directory of a major, or one that names no      *)
(* project, is reported and left.                                          *)
ProvideReference(w, out) ==
  /\ pc = "repair"
  /\ needed' = needed \ {w} /\ tried' = tried \cup {Key(w)}
  /\ IF w.project = None \/ ~ w.abi
     THEN GiveUp(Key(w))
     ELSE LET answer == ProvideMachoSoname(w, out)
          IN  IF answer.found = None
              THEN GiveUp(Key(w))
              ELSE /\ store' = store \o answer.left
                   /\ Take(answer.found)
                   /\ UNCHANGED warned
  /\ UNCHANGED <<inputs, glibcPin, declared, round, pc, installs>>

(* As it would be if rounds went on while anything is missing.             *)
EndRoundWhenMet ==
  /\ pc \in {"sonames", "repair"} /\ needed = {}
  /\ UNCHANGED round
  /\ pc' = IF Missing(Members) # {} THEN "scan" ELSE "done"
  /\ UNCHANGED <<inputs, store, glibcPin, declared, closure, recorded, tried,
                 warned, changed, needed, installs>>
EndRound ==
  /\ pc \in {"sonames", "repair"} /\ needed = {}
  /\ round' = round + 1
  /\ pc' = IF changed /\ round + 1 < MaxRounds THEN "scan" ELSE "done"
  /\ UNCHANGED <<inputs, store, glibcPin, declared, closure, recorded, tried,
                 warned, changed, needed, installs>>

CompletionNext ==
  \/ \E c \in Starts : Resolve(c)
  \/ \E out \in Outages : InstallDeclared(out) \/ Implicit(out)
  \/ Choose \/ Scan
  \/ \E s \in needed, out \in Outages : ProvideSoname(s, out)
  \/ \E w \in needed, out \in Outages : ProvideReference(w, out)
  \/ EndRound
=============================================================================
