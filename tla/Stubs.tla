-------------------------------- MODULE Stubs --------------------------------
(***************************************************************************)
(* What is written for a completed closure (install.go): a shell stub for  *)
(* every program of it, with the library path of the closure, and the      *)
(* loader and the shell at their canonical paths.  One prefix receives the *)
(* stubs of one closure after another.                                     *)
(***************************************************************************)
EXTENDS Completion

CONSTANTS
  Bin,        \* names of programs
  Provides,   \* of each project, what its recipe says it provides, in order
  Has,        \* of each bottle, the files in its bin directory
  LoaderOf,   \* the loader that a bottle of glibc ships, or None
  NameOrder,  \* the bottles of glibc as their directories sort
  Shell       \* the project and the program of the shell

ASSUME StubsAssumption ==
  /\ Provides \in [Project -> Seq(Bin)] /\ Has \in [Bottle -> SUBSET Bin]
  /\ NameOrder \in Seq(Bottle)

VARIABLES
  written,  \* how many bottles of the closure have their stubs
  stubs,    \* of each program: the bottle it starts, its library path, and
            \* what was said to be missing when its closure was completed
  loader,   \* what /lib/ld-linux leads to
  shell     \* what /bin/sh leads to

stage == <<written, stubs, loader, shell>>
allvars == <<vars, stage>>

StubsInit ==
  /\ Init
  /\ written = 0
  /\ stubs = [n \in Bin |-> None]
  /\ loader = None /\ shell = None

(* LibPath: the library directories of every bottle of the closure.        *)
LibPathDeclared(c) == ToSet(declared)  \* as it would be before completion
LibPath(c) == ToSet(c)

BinNames(b) == ToSet(Provides[b.project])
NamePlaces == UNION {DOMAIN Provides[p] : p \in Project}

StubFor(b) == [starts |-> b, path |-> LibPath(closure),
               said |-> IF changed THEN Soname ELSE warned]

(* The bottles of the closure in turn, but for one whose recipe cannot be  *)
(* read; a program that an earlier one offers is removed and written again. *)
StubBins(fails) ==
  /\ pc = "done" /\ written < Len(closure)
  /\ LET b == closure[written + 1]
         offered == BinNames(b) \cap Has[b]
     IN  stubs' = [n \in Bin |-> IF n \in offered /\ ~ fails THEN StubFor(b) ELSE stubs[n]]
  /\ written' = written + 1
  /\ UNCHANGED <<vars, loader, shell>>

(* The i-th name cannot be written: those before it are, what had its name *)
(* is gone already, and the rest is given up.                              *)
StubBinsStops(i) ==
  /\ pc = "done" /\ written < Len(closure)
  /\ LET b == closure[written + 1]
         names == Provides[b.project]
         before == ToSet(SubSeq(names, 1, i - 1)) \cap Has[b]
     IN  /\ i \in DOMAIN names /\ names[i] \in Has[b]
         /\ stubs' = [n \in Bin |-> IF n = names[i] THEN None
                                   ELSE IF n \in before THEN StubFor(b) ELSE stubs[n]]
  /\ pc' = "failed" /\ closure' = <<>> /\ written' = 0
  /\ UNCHANGED <<inputs, store, glibcPin, declared, recorded, loop, installs, loader, shell>>

(* The first bottle of the project that has the program.                   *)
FindClosureBin(p, n) ==
  LET having == SelectSeq(closure, LAMBDA b : b.project = p /\ n \in Has[b])
  IN  IF having = <<>> THEN None ELSE Head(having)

(* The loader that sorts last in the store, whatever the closure holds.    *)
FindLoader ==
  LET there == SelectSeq(NameOrder, LAMBDA b : b \in OnDisk /\ LoaderOf[b] # None)
  IN  IF there = <<>> THEN None ELSE Last(there)

(* A path that is taken is left as it is.                                  *)
SetupScratchRootfs ==
  /\ pc = "done" /\ written = Len(closure)
  /\ loader' = IF loader = None THEN FindLoader ELSE loader
  /\ shell' = IF shell = None THEN FindClosureBin(Shell.project, Shell.bin) ELSE shell
  /\ pc' = "idle" /\ written' = 0
  /\ UNCHANGED <<inputs, store, glibcPin, declared, closure, recorded, loop, installs,
                 stubs>>

Next ==
  \/ CompletionNext /\ UNCHANGED stage
  \/ \E fails \in BOOLEAN : StubBins(fails)
  \/ \E i \in NamePlaces : StubBinsStops(i)
  \/ SetupScratchRootfs

(* An installer that was started goes on.                                  *)
Continue ==
  \/ (\E out \in Outages : InstallDeclared(out) \/ Implicit(out)) /\ UNCHANGED stage
  \/ (Choose \/ Scan \/ EndRound) /\ UNCHANGED stage
  \/ (\E s \in needed, out \in Outages : ProvideSoname(s, out)) /\ UNCHANGED stage
  \/ (\E w \in needed, out \in Outages : ProvideReference(w, out)) /\ UNCHANGED stage
  \/ (\E fails \in BOOLEAN : StubBins(fails)) \/ SetupScratchRootfs

Spec == StubsInit /\ [][Next]_allvars /\ WF_allvars(Continue)

-----------------------------------------------------------------------------
(* Properties.                                                             *)

Offered(B, w) == \E b \in B : b.project = w.project /\ w.soname \in Declares[target][b]
Supplied(s) ==
  ImplicitFor[s] # None /\ (machine.off \/ ImplicitFor[s] \in Projects(closure))

(* A completion that ends because a round brought nothing leaves no gap    *)
(* unsaid (closure.go: an incomplete closure fails later, when the binary  *)
(* starts, with nothing pointing back): what is loaded and not offered by  *)
(* the closure itself was warned about, or is the business of an implicit  *)
(* root that the closure has; on darwin, what does not resolve was warned  *)
(* about or is declared by a bottle of the closure.                        *)
NeverSilent ==
  pc = "done" /\ ~ changed =>
    CASE target.os = "linux" ->
           \A s \in ScanNeeded(Members) \ AvailableSonames(Members) :
             s \in warned \/ Supplied(s)
      [] target.os = "darwin" ->
           \A w \in UnresolvedRefs(Members) : Key(w) \in warned \/ Offered(Members, w)
      [] OTHER -> TRUE

(* What the repair of an ELF closure brings is there for a reason          *)
(* (closure.go): an implicit root with what that needs, or the provider of *)
(* a soname that another bottle loads and no declared bottle has.          *)
NothingInVain ==
  target.os = "linux" =>
    LET loads == ScanNeeded(Members)
        roots == ImplicitRoots(loads)
        had == AvailableSonames(ToSet(declared))
        brought == UNION {{a} \cup DepsOf[a] : a \in {b \in Members : b.project \in roots}}
    IN  \A i \in (Len(declared) + 1)..Len(closure) : LET b == closure[i] IN
          \/ b \in brought
          \/ (Ships[b] \cap ScanNeeded(Members \ {b})) \ had # {}

(* The C library that completion brings runs on this kernel wherever the   *)
(* registry has one known to, unless the user pinned one or the newest     *)
(* does not say what it needs (glibc.go).                                  *)
KernelRuns ==
  \A g \in Members \ ToSet(declared) :
    /\ g.project = Glibc /\ host = target
    /\ machine.pin = None /\ machine.kernel # None
    /\ Usable(Newest(Published(Glibc)))
    /\ \E b \in Bottle : b.project = Glibc /\ Fits(b)
    => Fits(g)

(* A stub (StubBinsStaged) starts a bottle that has the program and gives  *)
(* it every library it loads, except those it was warned about when its    *)
(* closure was completed: also after another closure with some of the same *)
(* bottles was completed and staged in the same prefix.                    *)
StubsRun ==
  target.os = "linux" =>
    \A n \in Bin : LET stub == stubs[n] IN stub # None =>
      /\ n \in Has[stub.starts]
      /\ \A s \in Needs[stub.starts] \ AvailableSonames(stub.path) :
            s \in stub.said \/ (machine.off /\ ImplicitFor[s] # None)

(* Every completion ends (closure.go: the loop until nothing is missing),  *)
(* also when what it brings needs more and what is missing is nowhere.     *)
Completes == (pc = "install") ~> (pc \in {"done", "failed"})
=============================================================================
