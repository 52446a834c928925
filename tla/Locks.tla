------------------------------- MODULE Locks --------------------------------
(***************************************************************************)
(* Locks (lock.go), the report on what a store holds and what of it a lock *)
(* keeps alive (store.go), over the store and the registry of Builds.      *)
(*                                                                         *)
(* A version is a tuple here, so that a name made of a version and a hash  *)
(* is another string: <<v>> is "v" and <<v, h>> is "v-hh".                 *)
(***************************************************************************)
EXTENDS Builds

CONSTANTS Project,        \* the project whose builds are listed
          LockFiles       \* files that are read as locks

VARIABLE locks            \* the locks that were taken or read

LockfileVersion == 1
Modes == {"", "recipes", "published"}

LockPinned(d) == IF d.pinned = "published" THEN "published" ELSE "recipes"

(* A lock as it is written: the mode is always said.                       *)
RenderLock(d) ==
  [version |-> d.version, pinned |-> LockPinned(d),
   locked |-> [p \in DOMAIN d.pins |-> [version |-> d.pins[p], valid |-> TRUE]]]

(* A lock as it is read, or nothing: not of a newer format, nor of a mode  *)
(* that is not known, nor without pins or with one that is not a name, a   *)
(* version and a hash.                                                     *)
ParseLock(f) ==
  IF \/ f.pinned \notin Modes
     \/ f.version > LockfileVersion
     \/ DOMAIN f.locked = {}
     \/ \E p \in DOMAIN f.locked : ~f.locked[p].valid
  THEN {}
  ELSE {[pinned |-> f.pinned, pins |-> [p \in DOMAIN f.locked |-> f.locked[p].version]]}

-----------------------------------------------------------------------------
(* The name of a directory without its "v".                                *)
DirVersion(d) == IF d.hash = NoHash THEN <<d.raw>> ELSE <<d.raw, d.hash>>

(* Every real directory; aliases are links, and not counted.  The newest   *)
(* is one of the highest by number, hash aside.                            *)
ScanStore ==
  {[project |-> Project, version |-> DirVersion(d),
    newest |-> d = CHOOSE e \in DOMAIN store :
                      \A f \in DOMAIN store : Order(f.raw) <= Order(e.raw)]
     : d \in DOMAIN store}

LiveFromLocks(entries, roots) ==
  LET rooted == UNION {{<<p, l.pins[p]>> : p \in DOMAIN l.pins} : l \in roots}
  IN  {e \in entries : <<e.project, e.version>> \in rooted}

-----------------------------------------------------------------------------
LocksInit == Init /\ locks = {}

(* A version that the registry has is locked, and the lock read back.      *)
TakeLock(tag, mode) ==
  /\ tag \in DOMAIN registry
  /\ locks' = locks \cup ParseLock(RenderLock(
                [version |-> LockfileVersion, pinned |-> mode,
                 pins |-> (Project :> <<tag.raw>>)]))
  /\ UNCHANGED vars

ReadLock(f) ==
  /\ locks' = locks \cup ParseLock(f)
  /\ UNCHANGED vars

(* One lock, when the listings are over: nothing but the bound on the      *)
(* interleavings, which the locks do not take part in.                     *)
Unlocked == locks = {} /\ asked = MaxAsked /\ call = Idle

LocksNext ==
  \/ Next /\ UNCHANGED locks
  \/ Unlocked /\ \E tag \in Tags, mode \in Modes : TakeLock(tag, mode)
  \/ Unlocked /\ \E f \in LockFiles : ReadLock(f)

LocksSpec == LocksInit /\ [][LocksNext]_<<vars, locks>>

-----------------------------------------------------------------------------
(* "This is a root set already" (store.go:189): what a lock pins and the   *)
(* store holds is live.                                                    *)
LockedStaysLive ==
  \A d \in DOMAIN store, l \in locks :
     Project \in DOMAIN l.pins /\ l.pins[Project] = <<d.raw>> =>
       \E e \in LiveFromLocks(ScanStore, locks) : e.version = DirVersion(d)
=============================================================================
