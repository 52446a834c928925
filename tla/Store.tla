-------------------------------- MODULE Store --------------------------------
(***************************************************************************)
(* The bottle store of one project: concurrent installs into one directory *)
(* (InstallFor in pkgx.go), the paths it resolves (storepath.go), the mark *)
(* of its platform (storeplatform.go), the views linked to it (LinkView)   *)
(* and which of its directories a lock keeps alive (store.go).             *)
(*                                                                         *)
(* A directory is named by a version and by the hash of a build, or by the *)
(* version alone in stores of releases that did not hash.  Every call of   *)
(* the file system is a step of its own, except inside a private temporary *)
(* directory.  An installer may die at any of them.                        *)
(***************************************************************************)
EXTENDS Naturals, FiniteSets

CONSTANTS
  Installer,     \* processes that install into the store
  Viewer,        \* processes that link a build into the view
  Raw,           \* versions
  Variant,       \* hashes that tags carry
  Digest,        \* bottles, by content; each has a hash of its own
  Dists,         \* whether the dist may say what it serves (OCI) or not
  Soname,        \* ABIs
  Platform,      \* os/arch pairs
  None,
  Published,     \* what the registry's tags may be found to name
  Provides,      \* the ABIs a bottle's annotation lists
  PlatformOf,    \* the platform an installer installs for
  Asks,          \* what the installers may have been asked for
  Seeds,         \* what the store may hold before anyone starts
  Wanted         \* the builds that views may be asked to show

Hash == Variant \cup Digest \cup Platform
Dir == [raw : Raw, hash : Hash \cup {None}]
Request == [raw : Raw, variant : Variant \cup {None}]
Tree == [bottle : Digest, whole : BOOLEAN]
Bottles == [raw : Raw, variant : Variant \cup {None}, bottle : Digest]

ASSUME StoreAssumption ==
  /\ None \notin Hash \cup Digest \cup Raw \cup Tree \cup Dir
  /\ Variant \cap Digest = {} /\ (Variant \cup Digest) \cap Platform = {}
  /\ Dists \subseteq BOOLEAN
  /\ Published \subseteq Bottles
  /\ Provides \in [Digest -> SUBSET Soname]
  /\ PlatformOf \in [Installer -> Platform]
  /\ Asks \subseteq [Installer -> Request]
  /\ Wanted \subseteq {d \in Dir : d.hash # None}
  /\ Seeds \subseteq [Dir -> Tree \cup {None}]
  /\ \A s \in Seeds : \A d \in Dir : s[d] # None => s[d].whole

VARIABLES
  store,     \* the tree in each directory of the store
  marker,    \* the platform in .zpkg-platform
  abi,       \* what each abi-<soname> link names: a version
  view,      \* what each v<version> link of the view names: a directory
  pc,        \* what each installer does next
  ask,       \* what it was asked for
  bottle,    \* the bottle it fetched
  tmp,       \* its temporary directory
  links,     \* the ABI links it has still to write
  result,    \* what it reported
  vpc,       \* what each viewer does next
  target,    \* the directory it links
  told       \* whether the dist says what it serves

disk == <<store, marker, abi, view>>
installers == <<pc, ask, bottle, tmp, links, result>>
viewers == <<vpc, target>>
vars == <<disk, installers, viewers, told>>

Ended == {"done", "crashed"}
Answers == {"fresh", "present"}

TypeOK ==
  /\ store \in [Dir -> Tree \cup {None}]
  /\ marker \in Platform \cup {None}
  /\ abi \in [Soname -> Raw \cup {None}]
  /\ view \in [Raw -> Dir \cup {None}]
  /\ pc \in [Installer -> {"mark", "marking", "check", "fetch", "extract",
                           "rename", "annotate", "unlink", "link"} \cup Ended]
  /\ ask \in [Installer -> Request]
  /\ bottle \in [Installer -> Digest \cup {None}]
  /\ tmp \in [Installer -> Tree \cup {None}]
  /\ links \in [Installer -> SUBSET Soname]
  /\ result \in [Installer -> Answers \cup {"error", "none"}]
  /\ vpc \in [Viewer -> {"idle", "remove", "link", "linked", "refused"}]
  /\ target \in [Viewer -> Dir \cup {None}]
  /\ told \in BOOLEAN

Init ==
  /\ store \in Seeds
  /\ marker = None
  /\ abi = [s \in Soname |-> None]
  /\ view = [r \in Raw |-> None]
  /\ pc = [i \in Installer |-> "mark"]
  /\ ask \in Asks
  /\ bottle = [i \in Installer |-> None]
  /\ tmp = [i \in Installer |-> None]
  /\ links = [i \in Installer |-> {}]
  /\ result = [i \in Installer |-> "none"]
  /\ vpc = [v \in Viewer |-> "idle"]
  /\ target = [v \in Viewer |-> None]
  /\ told \in Dists

Goto(i, label) == pc' = [pc EXCEPT ![i] = label]
Report(i, answer) == result' = [result EXCEPT ![i] = answer] /\ Goto(i, "done")

-----------------------------------------------------------------------------
(* Paths of the store.                                                     *)

Installed == {d \in Dir : store[d] # None}
BuildsOf(raw) == {d \in Installed : d.raw = raw}

(* ResolveBuild, StorePrefix: a request that names its build is exact; one *)
(* that does not means the only build there is, and where there are none   *)
(* or several it falls back to the name without a hash.                    *)
StorePrefixOfVersion(r) ==
  IF BuildsOf(r.raw) # {}
  THEN CHOOSE d \in BuildsOf(r.raw) : TRUE
  ELSE [raw |-> r.raw, hash |-> r.variant]
StorePrefix(r) ==
  IF r.variant = None /\ Cardinality(BuildsOf(r.raw)) = 1
  THEN CHOOSE d \in BuildsOf(r.raw) : TRUE
  ELSE [raw |-> r.raw, hash |-> r.variant]

(* StoreHash: the hash of the tag, else that of the content, else that of  *)
(* the source, which for one version only differs between platforms.       *)
StoreHash(i) ==
  CASE ask[i].variant # None -> ask[i].variant
    [] ask[i].variant = None /\ told -> bottle[i]
    [] OTHER -> PlatformOf[i]

StoreBuildPrefix(i) == [raw |-> ask[i].raw, hash |-> StoreHash(i)]

Served(r) ==
  LET variant == IF told THEN r.variant ELSE None
  IN  {b.bottle : b \in {p \in Published : p.raw = r.raw /\ p.variant = variant}}

-----------------------------------------------------------------------------
(* InstallFor.                                                             *)

(* MarkStorePlatform looks, and then writes: through a temporary file that *)
(* is renamed over whatever is there by then, or not at all.               *)
Mark(i) ==
  /\ pc[i] = "mark"
  /\ Goto(i, IF marker = None THEN "marking" ELSE "check")
  /\ UNCHANGED <<disk, ask, bottle, tmp, links, result, viewers, told>>

WriteMarker(i) ==
  /\ pc[i] = "marking"
  /\ marker' \in {marker, PlatformOf[i]}
  /\ Goto(i, "check")
  /\ UNCHANGED <<store, abi, view, ask, bottle, tmp, links, result, viewers, told>>

CheckPrefix(i) ==
  /\ pc[i] = "check"
  /\ IF store[StorePrefix(ask[i])] # None
     THEN Report(i, "present")
     ELSE Goto(i, "fetch") /\ UNCHANGED result
  /\ UNCHANGED <<disk, ask, bottle, tmp, links, viewers, told>>

(* The bottle is fetched, and unpacking into a temporary directory begins. *)
Fetch(i) ==
  /\ pc[i] = "fetch"
  /\ \E b \in Served(ask[i]) :
       /\ bottle' = [bottle EXCEPT ![i] = b]
       /\ tmp' = [tmp EXCEPT ![i] = [bottle |-> b, whole |-> FALSE]]
  /\ Goto(i, "extract")
  /\ UNCHANGED <<disk, ask, links, result, viewers, told>>

CleanUp(i) == [tmp EXCEPT ![i] = None]

Fail(i) ==
  /\ pc[i] \in {"fetch", "extract", "rename"}
  /\ Report(i, "error")
  /\ tmp' = CleanUp(i)
  /\ UNCHANGED <<disk, ask, bottle, links, viewers, told>>

(* What untar leaves in the temporary directory when it reports success.   *)
UnpackedCut(i) == tmp[i]
Unpacked(i) == [tmp[i] EXCEPT !.whole = TRUE]

Extract(i) ==
  /\ pc[i] = "extract"
  /\ tmp' = [tmp EXCEPT ![i] = Unpacked(i)]
  /\ Goto(i, "rename")
  /\ UNCHANGED <<disk, ask, bottle, links, result, viewers, told>>

(* renameOrExplain: an occupied directory is this very build already.      *)
OccupiedNever(d) == FALSE
Occupied(d) == store[d] # None

Rename(i) ==
  /\ pc[i] = "rename"
  /\ tmp' = CleanUp(i)
  /\ IF Occupied(StoreBuildPrefix(i))
     THEN Report(i, "present") /\ UNCHANGED store
     ELSE /\ store' = [store EXCEPT ![StoreBuildPrefix(i)] = tmp[i]]
          /\ Goto(i, "annotate")
          /\ UNCHANGED result
  /\ UNCHANGED <<marker, abi, view, ask, bottle, links, viewers, told>>

(* writeABILinks: the annotation of what the tag names by now, or nothing  *)
(* when it cannot be had; then each link is removed and written anew, and  *)
(* neither failure is noticed.                                             *)
Annotations(i) ==
  {{}} \cup (IF told THEN {Provides[b] : b \in Served(ask[i])} ELSE {})

Annotate(i) ==
  /\ pc[i] = "annotate"
  /\ \E sonames \in Annotations(i) :
       links' = [links EXCEPT ![i] = sonames]
  /\ Goto(i, "unlink")
  /\ UNCHANGED <<disk, ask, bottle, tmp, result, viewers, told>>

Unlink(i) ==
  /\ pc[i] = "unlink"
  /\ IF links[i] = {}
     THEN Report(i, "fresh") /\ UNCHANGED abi
     ELSE /\ abi' = [abi EXCEPT ![CHOOSE s \in links[i] : TRUE] = None]
          /\ Goto(i, "link")
          /\ UNCHANGED result
  /\ UNCHANGED <<store, marker, view, ask, bottle, tmp, links, viewers, told>>

AbiTarget(i) == ask[i].raw

Link(i) ==
  /\ pc[i] = "link"
  /\ LET s == CHOOSE s \in links[i] : TRUE
     IN  /\ abi' = IF abi[s] = None THEN [abi EXCEPT ![s] = AbiTarget(i)] ELSE abi
         /\ links' = [links EXCEPT ![i] = @ \ {s}]
  /\ Goto(i, "unlink")
  /\ UNCHANGED <<store, marker, view, ask, bottle, tmp, result, viewers, told>>

Crash(i) ==
  /\ pc[i] \notin Ended
  /\ Goto(i, "crashed")
  /\ UNCHANGED <<disk, ask, bottle, tmp, links, result, viewers, told>>

-----------------------------------------------------------------------------
(* LinkView: the build has to be installed; its alias is removed, and then *)
(* written, which fails when another viewer was faster.                    *)

ViewableAny(d) == TRUE
Viewable(d) == store[d] # None

LinkView(v, d) ==
  /\ vpc[v] = "idle"
  /\ target' = [target EXCEPT ![v] = d]
  /\ vpc' = [vpc EXCEPT ![v] = IF Viewable(d) THEN "remove" ELSE "refused"]
  /\ UNCHANGED <<disk, installers, told>>

RemoveAlias(v) ==
  /\ vpc[v] = "remove"
  /\ view' = [view EXCEPT ![target[v].raw] = None]
  /\ vpc' = [vpc EXCEPT ![v] = "link"]
  /\ UNCHANGED <<store, marker, abi, installers, target, told>>

WriteAlias(v) ==
  /\ vpc[v] = "link"
  /\ IF view[target[v].raw] = None
     THEN /\ view' = [view EXCEPT ![target[v].raw] = target[v]]
          /\ vpc' = [vpc EXCEPT ![v] = "linked"]
     ELSE vpc' = [vpc EXCEPT ![v] = "refused"] /\ UNCHANGED view
  /\ UNCHANGED <<store, marker, abi, installers, target, told>>

Step(i) ==
  \/ Mark(i)
  \/ WriteMarker(i)
  \/ CheckPrefix(i)
  \/ Fetch(i)
  \/ Fail(i)
  \/ Extract(i)
  \/ Rename(i)
  \/ Annotate(i)
  \/ Unlink(i)
  \/ Link(i)
  \/ Crash(i)

View(v) == (\E d \in Wanted : LinkView(v, d)) \/ RemoveAlias(v) \/ WriteAlias(v)

Next == (\E i \in Installer : Step(i)) \/ (\E v \in Viewer : View(v))

Spec == Init /\ [][Next]_vars

-----------------------------------------------------------------------------
(* What the store promises.                                                *)

(* Concurrent installs sharing one store never leave a half-extracted      *)
(* tree where a reader looks, whoever dies and when (InstallFor).          *)
InstalledWhole == \A d \in Installed : store[d].whole

(* An install that reported success left what was asked for: this build,   *)
(* where the request named one, else some build of the version.            *)
Answered ==
  \A i \in Installer :
    result[i] \in Answers =>
      IF ask[i].variant # None
      THEN store[[raw |-> ask[i].raw, hash |-> ask[i].variant]] # None
      ELSE BuildsOf(ask[i].raw) # {}

(* No exit but death leaves a temporary directory behind.                  *)
TemporaryGone == \A i \in Installer : pc[i] = "done" => tmp[i] = None

(* Removing and rewriting an alias, which is how two viewers replace it at *)
(* once, never loses it: one that was linked is there unless a viewer is   *)
(* just replacing it, and it names an installed build (LinkView).          *)
ViewKept ==
  \A r \in Raw :
    /\ view[r] # None => store[view[r]] # None
    /\ (\E v \in Viewer : vpc[v] = "linked" /\ target[v].raw = r) =>
         \/ view[r] # None
         \/ \E v \in Viewer : vpc[v] = "link" /\ target[v].raw = r

(* The store implements one that only ever grows (see BuildStore).         *)
Shelf == INSTANCE BuildStore WITH
           Bottle <- Digest,
           held <- [d \in Dir |-> IF store[d] = None THEN None ELSE store[d].bottle]

OnlyGrows == Shelf!Spec
=============================================================================
