------------------------------- MODULE FsSync -------------------------------
(***************************************************************************)
(* What FSYNC, FSYNCDIR and SYNCFS promise about the host's disk           *)
(* (devices/virtio/fs/server.rs).  Every change lands in the host's page   *)
(* cache; SYNCFS flushes the handles that are open and then, when the      *)
(* dirty bit is set, the volume.  The bit spares an idle guest the cost of *)
(* the volume, and the promise depends on it.                              *)
(*                                                                         *)
(* A file is a counter of the changes made to it; the export's directory   *)
(* is one more object, changed by every request that makes or removes a    *)
(* name.                                                                   *)
(***************************************************************************)
EXTENDS Naturals, TLAPS

CONSTANTS Files, Dir,   \* the objects of the export
          MaxChanges    \* bound on the changes of one object

Objects == Files \cup {Dir}

VARIABLES
    writable,   \* VirtioFs::writable
    dirty,      \* VirtioFs::dirty
    handles,    \* the objects an open handle names
    temps,      \* those of them whose handle has a temporary_path
    cache,      \* per object, the changes the host has made
    disk,       \* per object, those on its disk
    promised,   \* per object, those the guest was told are there
    quiet       \* history: objects changed without the dirty bit and not flushed since

vars == <<writable, dirty, handles, temps, cache, disk, promised, quiet>>

Zero == [o \in Objects |-> 0]

Init == /\ writable \in BOOLEAN /\ dirty = FALSE /\ handles = {} /\ temps = {}
        /\ cache = Zero /\ disk = Zero /\ promised = Zero /\ quiet = {}

-----------------------------------------------------------------------------
\* require_writable.
require_writable == writable /\ dirty' = TRUE

Changed(os) == cache' = [o \in Objects |-> IF o \in os THEN cache[o] + 1 ELSE cache[o]]
Bounded(os) == \A o \in os : cache[o] < MaxChanges

\* WRITE, FALLOCATE, COPY_FILE_RANGE and a SETATTR with a handle.
ChangeOpen(f) ==
    /\ f \in handles /\ f # Dir /\ Bounded({f})
    /\ require_writable /\ Changed({f})
    /\ UNCHANGED <<writable, handles, temps, disk, promised, quiet>>

\* SETATTR, SETXATTR and REMOVEXATTR by name.
ChangeByName(o) ==
    /\ Bounded({o})
    /\ require_writable /\ Changed({o})
    /\ UNCHANGED <<writable, handles, temps, disk, promised, quiet>>

\* MKNOD, MKDIR, SYMLINK, LINK, UNLINK, RMDIR and RENAME; CREATE opens the file,
\* and TMPFILE opens one under a name that goes with its handle.
ChangeNames(f, as) ==
    /\ Bounded({f, Dir}) /\ (as = "temp" => f \notin handles)
    /\ require_writable /\ Changed({f, Dir})
    /\ handles' = IF as = "name" THEN handles ELSE handles \cup {f}
    /\ temps' = IF as = "temp" THEN temps \cup {f} ELSE temps
    /\ UNCHANGED <<writable, disk, promised, quiet>>

\* OPEN and OPENDIR.  O_TRUNC and the set-id bits an OPEN clears change the file,
\* and only need the share to be writable.
Open(o, changes) ==
    LET os == IF changes THEN {o} ELSE {} IN
    /\ o \notin handles /\ handles' = handles \cup {o}
    /\ changes => writable /\ o # Dir /\ Bounded({o})
    /\ Changed(os) /\ quiet' = quiet \cup os
    /\ UNCHANGED <<writable, dirty, temps, disk, promised>>

\* What changes when remove_temporary unlinks the names of some handles.
Unlinked(fs) == fs \cup (IF fs = {} THEN {} ELSE {Dir})

\* release, release_dir and flush close without a flush.  A tmpfile's name is
\* unlinked, unless it has moved or an unlock or the unlink itself fails.
Release(o, unlinks) ==
    LET os == Unlinked(IF unlinks THEN {o} ELSE {}) IN
    /\ o \in handles /\ handles' = handles \ {o} /\ temps' = temps \ {o}
    /\ unlinks => o \in temps /\ Bounded(os)
    /\ Changed(os) /\ quiet' = quiet \cup os
    /\ UNCHANGED <<writable, dirty, disk, promised>>

\* reset: the handles go, and the names of tmpfiles with them; the bit stays.
Reset(unlinked) ==
    /\ handles' = {} /\ temps' = {} /\ Bounded(Unlinked(unlinked))
    /\ Changed(Unlinked(unlinked)) /\ quiet' = quiet \cup Unlinked(unlinked)
    /\ UNCHANGED <<writable, dirty, disk, promised>>

-----------------------------------------------------------------------------
Flushed(os) == [o \in Objects |-> IF o \in os THEN cache[o] ELSE disk[o]]
Told(os) == [o \in Objects |-> IF o \in os THEN cache[o] ELSE promised[o]]

\* FSYNC through a handle; FSYNCDIR through a handle or the cached descriptor.
Fsync(o, ok) ==
    LET os == IF ok THEN {o} ELSE {} IN
    /\ o \in handles \/ o = Dir
    /\ disk' = Flushed(os) /\ promised' = Told(os) /\ quiet' = quiet \ os
    /\ UNCHANGED <<writable, dirty, handles, temps, cache>>

\* Mutant of StillDirty: the bit is cleared whatever the volume answered.
StillDirtyNot(volumeOk) == FALSE

\* The bit after the volume sync.
StillDirty(volumeOk) == dirty /\ ~(writable /\ volumeOk)

\* syncfs: `flushed' are the handles whose own sync succeeded.
Syncfs(flushed, volumeOk) ==
    LET volume == writable /\ dirty
        ok == flushed = handles /\ (volume => volumeOk)
        os == IF volume /\ volumeOk THEN Objects ELSE flushed
    IN  /\ disk' = Flushed(os) /\ quiet' = quiet \ os
        /\ dirty' = StillDirty(volumeOk)
        /\ promised' = IF ok THEN cache ELSE promised
        /\ UNCHANGED <<writable, handles, temps, cache>>

\* The host writes an object back when it likes.
Writeback(o) == /\ disk[o] < cache[o] /\ disk' = Flushed({o}) /\ quiet' = quiet \ {o}
                /\ UNCHANGED <<writable, dirty, handles, temps, cache, promised>>

Next ==
    \/ \E f \in Files, as \in {"name", "open", "temp"} : ChangeOpen(f) \/ ChangeNames(f, as)
    \/ \E o \in Objects, b \in BOOLEAN :
          ChangeByName(o) \/ Open(o, b) \/ Release(o, b) \/ Fsync(o, b) \/ Writeback(o)
    \/ \E flushed \in SUBSET handles, b \in BOOLEAN : Syncfs(flushed, b)
    \/ \E unlinked \in SUBSET temps : Reset(unlinked)

Spec == Init /\ [][Next]_vars

-----------------------------------------------------------------------------
(* Properties. *)

\* What the guest was told is durable is on the disk: after a SYNCFS that
\* succeeded, also what it wrote through handles it has closed or lost in a
\* reset, and also when an earlier SYNCFS failed half way.  Only an object that an
\* OPEN or the close of a tmpfile changed, with no mark, may be behind, and only
\* until it is flushed.
SyncKeepsItsPromise == \A o \in Objects \ quiet : promised[o] <= disk[o]

\* What require_writable says of the bit, that every change of the host filesystem
\* sets it, would make the promise hold of every object.
SyncReachesEverything == \A o \in Objects : promised[o] <= disk[o]

-----------------------------------------------------------------------------
(***************************************************************************)
(* For any files, any bound and any share, SYNCFS keeps its promise.  The   *)
(* promise alone is not inductive, since a SYNCFS that skips the volume     *)
(* promises the whole cache; what makes the skip sound is the meaning of    *)
(* the bit.                                                                 *)
(***************************************************************************)

TypeOK == /\ writable \in BOOLEAN /\ dirty \in BOOLEAN
          /\ handles \subseteq Objects /\ temps \subseteq handles /\ quiet \subseteq Objects
          /\ cache \in [Objects -> Nat] /\ disk \in [Objects -> Nat]
          /\ promised \in [Objects -> Nat]

\* A clean bit says that the disk has everything that was not changed in silence;
\* a share that is not writable is never dirty.
CleanIsSynced ==
    /\ ~dirty => \A o \in Objects \ quiet : cache[o] = disk[o]
    /\ dirty => writable

Ordered == /\ \A o \in Objects : promised[o] <= cache[o] /\ disk[o] <= cache[o]
           /\ \A o \in Objects \ quiet : promised[o] <= disk[o]

Inv == TypeOK /\ CleanIsSynced /\ Ordered

\* Zenon proves what follows by logic alone; the leaves that need arithmetic or
\* functions name SMT.
USE Zenon

LEMMA InitInv == Init => Inv
<1> SUFFICES ASSUME Init PROVE Inv
  OBVIOUS
<1>1. Zero \in [Objects -> Nat] /\ \A o \in Objects : Zero[o] = 0
  BY DEF Zero
<1>2. TypeOK
  BY <1>1 DEF Init, TypeOK
<1>3. CleanIsSynced /\ Ordered
  BY <1>1, SMTT(30) DEF Init, CleanIsSynced, Ordered
<1> QED BY <1>2, <1>3 DEF Inv

\* A change is either marked by the bit or remembered as quiet.
LEMMA ChangeInv ==
  ASSUME NEW os \in SUBSET Objects, Inv, Changed(os), UNCHANGED <<writable, disk, promised>>,
         \/ require_writable /\ UNCHANGED quiet
         \/ UNCHANGED dirty /\ quiet' = quiet \cup os,
         handles' \subseteq Objects, temps' \subseteq handles'
  PROVE  Inv'
<1>1. TypeOK'
  <2>1. cache' \in [Objects -> Nat]
    BY SMTT(30) DEF Inv, TypeOK, Changed
  <2>2. dirty' \in BOOLEAN /\ quiet' \subseteq Objects
    BY DEF Inv, TypeOK, require_writable
  <2> QED BY <2>1, <2>2 DEF Inv, TypeOK
<1>2. Ordered'
  BY SMTT(30) DEF Inv, TypeOK, Ordered, Changed
<1>3. CleanIsSynced'
  <2>1. CASE require_writable
    BY <2>1 DEF Inv, TypeOK, CleanIsSynced, require_writable
  <2>2. CASE UNCHANGED dirty /\ quiet' = quiet \cup os
    BY <2>2, SMTT(30) DEF Inv, TypeOK, CleanIsSynced, Changed
  <2> QED BY <2>1, <2>2
<1> QED BY <1>1, <1>2, <1>3 DEF Inv

\* A flush brings the disk up to the cache, and what it reached is quiet no more.
LEMMA FlushInv ==
  ASSUME NEW os \in SUBSET Objects, Inv, disk' = Flushed(os), quiet' = quiet \ os,
         promised' = promised \/ promised' = Told(os),
         UNCHANGED <<writable, dirty, handles, temps, cache>>
  PROVE  Inv'
<1>1. TypeOK'
  BY SMTT(30) DEF Inv, TypeOK, Flushed, Told
<1>2. Ordered'
  BY SMTT(30) DEF Inv, TypeOK, Ordered, Flushed, Told
<1>3. CleanIsSynced'
  BY SMTT(30) DEF Inv, TypeOK, CleanIsSynced, Flushed
<1> QED BY <1>1, <1>2, <1>3 DEF Inv

LEMMA SyncfsInv ==
  ASSUME Inv, NEW flushed \in SUBSET handles, NEW volumeOk \in BOOLEAN,
         Syncfs(flushed, volumeOk)
  PROVE  Inv'
<1>1. CASE dirty /\ volumeOk
  BY <1>1, SMTT(30) DEF Inv, TypeOK, CleanIsSynced, Ordered, Syncfs, Flushed, StillDirty
<1>2. CASE dirty /\ ~volumeOk
  <2>1. /\ disk' = Flushed(flushed) /\ quiet' = quiet \ flushed /\ dirty' = dirty
        /\ UNCHANGED <<writable, handles, temps, cache, promised>>
    BY <1>2 DEF Inv, TypeOK, CleanIsSynced, Syncfs, StillDirty
  <2> QED BY <2>1, FlushInv DEF Inv, TypeOK
<1>3. CASE ~dirty
  <2>1. /\ disk' = Flushed(flushed) /\ quiet' = quiet \ flushed /\ dirty' = dirty
        /\ promised' = promised \/ (flushed = handles /\ promised' = cache)
        /\ UNCHANGED <<writable, handles, temps, cache>>
    BY <1>3 DEF Inv, TypeOK, Syncfs, StillDirty
  <2>2. TypeOK'
    BY <2>1, SMTT(30) DEF Inv, TypeOK, Flushed
  <2>3. Ordered'
    BY <1>3, <2>1, SMTT(30) DEF Inv, TypeOK, CleanIsSynced, Ordered, Flushed
  <2>4. CleanIsSynced'
    BY <1>3, <2>1, SMTT(30) DEF Inv, TypeOK, CleanIsSynced, Flushed
  <2> QED BY <2>2, <2>3, <2>4 DEF Inv
<1> QED BY <1>1, <1>2, <1>3 DEF Inv, TypeOK

LEMMA NextInv ==
  ASSUME Inv, [Next]_vars
  PROVE  Inv'
<1> USE DEF Objects
<1>1. ASSUME NEW f \in Files, ChangeOpen(f) PROVE Inv'
  BY <1>1, ChangeInv DEF ChangeOpen, Inv, TypeOK
<1>2. ASSUME NEW f \in Files, NEW as \in {"name", "open", "temp"}, ChangeNames(f, as) PROVE Inv'
  <2>1. "name" # "temp"
    OBVIOUS
  <2>2. handles' \subseteq Objects /\ temps' \subseteq handles'
    BY <1>2, <2>1 DEF ChangeNames, Inv, TypeOK
  <2> QED BY <1>2, <2>2, ChangeInv DEF ChangeNames
<1>3. ASSUME NEW o \in Objects, ChangeByName(o) PROVE Inv'
  BY <1>3, ChangeInv DEF ChangeByName, Inv, TypeOK
<1>4. ASSUME NEW o \in Objects, NEW b \in BOOLEAN, Open(o, b) PROVE Inv'
  <2> DEFINE os == IF b THEN {o} ELSE {}
  <2>1. os \in SUBSET Objects /\ handles' \subseteq Objects /\ temps' \subseteq handles'
    BY <1>4 DEF Open, Inv, TypeOK
  <2> QED BY <1>4, <2>1, ChangeInv DEF Open
<1>5. ASSUME NEW o \in Objects, NEW b \in BOOLEAN, Release(o, b) PROVE Inv'
  <2> DEFINE os == Unlinked(IF b THEN {o} ELSE {})
  <2>1. os \in SUBSET Objects
    BY DEF Unlinked
  <2>2. handles' \subseteq Objects /\ temps' \subseteq handles'
    BY <1>5 DEF Release, Inv, TypeOK
  <2> QED BY <1>5, <2>1, <2>2, ChangeInv DEF Release
<1>6. ASSUME NEW o \in Objects, NEW b \in BOOLEAN, Fsync(o, b) PROVE Inv'
  <2> DEFINE os == IF b THEN {o} ELSE {}
  <2>1. os \in SUBSET Objects
    OBVIOUS
  <2> QED BY <1>6, <2>1, FlushInv DEF Fsync
<1>7. ASSUME NEW o \in Objects, Writeback(o) PROVE Inv'
  <2>1. {o} \in SUBSET Objects
    OBVIOUS
  <2> QED BY <1>7, <2>1, FlushInv DEF Writeback
<1>8. ASSUME NEW unlinked \in SUBSET temps, Reset(unlinked) PROVE Inv'
  <2>1. Unlinked(unlinked) \in SUBSET Objects
    BY DEF Unlinked, Inv, TypeOK
  <2> QED BY <1>8, <2>1, ChangeInv DEF Reset
<1>9. CASE UNCHANGED vars
  BY <1>9 DEF vars, Inv, TypeOK, CleanIsSynced, Ordered
<1> QED
  BY <1>1, <1>2, <1>3, <1>4, <1>5, <1>6, <1>7, <1>8, <1>9, SyncfsInv DEF Next

\* FSYNC, FSYNCDIR and SYNCFS keep their promise on any export, through failed
\* flushes, tmpfiles and resets, for every object not changed in silence.
THEOREM PromiseIsKept == Spec => []SyncKeepsItsPromise
<1>1. Inv => SyncKeepsItsPromise
  BY DEF Inv, Ordered, SyncKeepsItsPromise
<1> QED BY <1>1, InitInv, NextInv, PTL DEF Spec
=============================================================================
