------------------------------- MODULE Disks --------------------------------
(***************************************************************************)
(* The images several hvi processes open (open_disks, VirtioBlk::open_as   *)
(* and config::check_disks): the list is checked, and each disk in turn is *)
(* opened, claimed and locked.  The other users of a block device are a    *)
(* mount, which claims it, and udev, which holds a shared lock for a       *)
(* while.                                                                  *)
(*                                                                         *)
(* A path leads to a store.  A lock is on the inode, which for an image is *)
(* the store and for a block device is the node; a claim is on the device. *)
(* No path is moved meanwhile, so what a disk's metadata says of it still  *)
(* holds at its open, and the two are one step.                            *)
(***************************************************************************)
EXTENDS Naturals, Sequences, FiniteSets, WellFoundedInduction, TLAPS

CONSTANTS Procs, Files, DeviceNodes, Device,
          Lists,         \* the disk lists a process may be given
          MaxDisks,      \* MAX_DISKS
          Tries,         \* BLOCK_DEVICE_LOCK_TRIES
          UdevEvents     \* a bound on the events udev handles

ASSUME PathsAssumption == Files \cap DeviceNodes = {} /\ Device \notin Files
ASSUME TriesAssumption == Tries \in Nat \ {0} /\ MaxDisks \in Nat

\* config::DiskConfig: a path, how it is used, and the serial it was given.
DiskConfig == [path : Files \cup DeviceNodes, ro : BOOLEAN, serial : STRING]
ASSUME ListsAssumption == \A l \in Lists : l \in Seq(DiskConfig)

VARIABLES
    list,      \* per process: the disks it was asked for
    pc,        \* per process: "start", "check", "open", "lock", "run", "failed"
    opened,    \* per process: the number of disks it has opened
    tries,     \* per process: the attempts left at the lock
    held,      \* the files open: [proc, disk, locked]
    mounted,   \* whether the host has the device mounted
    udev,      \* the nodes udev holds a shared lock on
    events     \* the udev events so far

vars == <<list, pc, opened, tries, held, mounted, udev, events>>

IsBlock(path) == path \in DeviceNodes
\* disk_id: a device by its number, an image by its inode.
DiskId(path) == IF IsBlock(path) THEN Device ELSE path

Init ==
    /\ list = [p \in Procs |-> <<>>] /\ pc = [p \in Procs |-> "start"]
    /\ opened = [p \in Procs |-> 0] /\ tries = [p \in Procs |-> 0]
    /\ held = {} /\ mounted = FALSE /\ udev = {} /\ events = 0

-----------------------------------------------------------------------------
\* disk_serial, by the position in the list.
DiskSerial == <<"disk0", "disk1", "disk2", "disk3">>

\* serial_at: the serial a disk answers GET_ID with.
SerialAt(l, i) == IF l[i].serial # "none" THEN l[i].serial ELSE DiskSerial[i]

\* check_serial.
SerialFits(s) == s # "bad"

\* The end of check_disks: no two disks answer with one serial.
SerialsDiffer(l) ==
    \A i, j \in DOMAIN l : i # j => SerialAt(l, i) # SerialAt(l, j)

CheckDisks(l) ==
    /\ Len(l) <= MaxDisks
    /\ \A i \in DOMAIN l : SerialFits(l[i].serial)
    /\ SerialsDiffer(l)

Start(p) ==
    /\ pc[p] = "start"
    /\ \E l \in Lists : list' = [list EXCEPT ![p] = l]
    /\ pc' = [pc EXCEPT ![p] = "check"]
    /\ UNCHANGED <<opened, tries, held, mounted, udev, events>>

\* A disk that does not open fails the boot, and what was opened is closed.
Fail(p) ==
    /\ pc' = [pc EXCEPT ![p] = "failed"]
    /\ held' = {h \in held : h.proc # p}
    /\ list' = [list EXCEPT ![p] = <<>>] /\ opened' = [opened EXCEPT ![p] = 0]
    /\ tries' = [tries EXCEPT ![p] = 0]

Check(p) ==
    /\ pc[p] = "check"
    /\ IF CheckDisks(list[p])
       THEN pc' = [pc EXCEPT ![p] = "open"] /\ UNCHANGED <<list, opened, tries, held>>
       ELSE Fail(p)
    /\ UNCHANGED <<mounted, udev, events>>

Disk(p) == list[p][opened[p] + 1]

\* Mutant of SameImage: two names of a device pass for two images.
SameImageByPath(a, b) == a.path = b.path

\* Whether two disks of a list are one image.
SameImage(a, b) == DiskId(a.path) = DiskId(b.path)

\* The check of open_disks against the disks it has opened: an image may be
\* given twice only when no use of it writes.
Twice(p) ==
    \E i \in 1 .. opened[p] :
        /\ SameImage(list[p][i], Disk(p))
        /\ \A j \in 1 .. i - 1 : ~SameImage(list[p][j], Disk(p))
        /\ ~list[p][i].ro \/ ~Disk(p).ro

\* Who holds a claim on the device: a mount, or an open for writing.
Claimed == mounted \/ \E h \in held : IsBlock(h.disk.path) /\ ~h.disk.ro

\* Mutant of OpenFails: a device is opened without O_EXCL.
OpenFailsNever(d) == FALSE

\* O_EXCL on a device that is claimed.
OpenFails(d) == IsBlock(d.path) /\ ~d.ro /\ Claimed

\* The open of open_as; the number of attempts at the lock is set.
Open(p) ==
    /\ pc[p] = "open" /\ opened[p] < Len(list[p])
    /\ IF Twice(p) \/ OpenFails(Disk(p)) THEN Fail(p)
       ELSE /\ held' = held \cup {[proc |-> p, disk |-> Disk(p),
                                   index |-> opened[p] + 1, locked |-> FALSE]}
            /\ tries' = [tries EXCEPT ![p] = IF IsBlock(Disk(p).path) THEN Tries ELSE 1]
            /\ pc' = [pc EXCEPT ![p] = "lock"]
            /\ UNCHANGED <<list, opened>>
    /\ UNCHANGED <<mounted, udev, events>>

\* lock: a lock this one excludes is held on the inode.
WouldBlock(p) ==
    \/ \E h \in held :
        h.locked /\ h.disk.path = Disk(p).path /\ (~h.disk.ro \/ ~Disk(p).ro)
    \/ ~Disk(p).ro /\ Disk(p).path \in udev

\* One turn of open_as's loop over the lock; the last attempt is final.
Lock(p) ==
    /\ pc[p] = "lock"
    /\ IF ~WouldBlock(p)
       THEN /\ held' = {IF h.proc = p /\ h.index = opened[p] + 1
                        THEN [h EXCEPT !.locked = TRUE] ELSE h : h \in held}
            /\ opened' = [opened EXCEPT ![p] = @ + 1]
            /\ pc' = [pc EXCEPT ![p] = "open"]
            /\ UNCHANGED <<list, tries>>
       ELSE IF tries[p] > 1
       THEN tries' = [tries EXCEPT ![p] = @ - 1] /\ UNCHANGED <<list, pc, opened, held>>
       ELSE Fail(p)
    /\ UNCHANGED <<mounted, udev, events>>

\* Every disk is open, and the guest runs.
Boot(p) ==
    /\ pc[p] = "open" /\ opened[p] = Len(list[p])
    /\ pc' = [pc EXCEPT ![p] = "run"]
    /\ UNCHANGED <<list, opened, tries, held, mounted, udev, events>>

\* A process ends, whatever it was doing; its files are closed with it.
Exit(p) ==
    /\ pc[p] # "start"
    /\ pc' = [pc EXCEPT ![p] = "start"]
    /\ list' = [list EXCEPT ![p] = <<>>] /\ opened' = [opened EXCEPT ![p] = 0]
    /\ tries' = [tries EXCEPT ![p] = 0]
    /\ held' = {h \in held : h.proc # p}
    /\ UNCHANGED <<mounted, udev, events>>

-----------------------------------------------------------------------------
(* The host. *)

Mount == ~Claimed /\ mounted' = TRUE
         /\ UNCHANGED <<list, pc, opened, tries, held, udev, events>>
Unmount == mounted /\ mounted' = FALSE
           /\ UNCHANGED <<list, pc, opened, tries, held, udev, events>>

\* udev takes its shared lock for an event, and gives it up.
UdevLock(node) ==
    /\ events < UdevEvents /\ node \notin udev
    /\ ~\E h \in held : h.locked /\ h.disk.path = node /\ ~h.disk.ro
    /\ udev' = udev \cup {node} /\ events' = events + 1
    /\ UNCHANGED <<list, pc, opened, tries, held, mounted>>
UdevUnlock(node) ==
    /\ node \in udev /\ udev' = udev \ {node}
    /\ UNCHANGED <<list, pc, opened, tries, held, mounted, events>>

Next ==
    \/ \E p \in Procs : Start(p) \/ Check(p) \/ Open(p) \/ Lock(p) \/ Boot(p) \/ Exit(p)
    \/ Mount \/ Unmount
    \/ \E node \in DeviceNodes : UdevLock(node) \/ UdevUnlock(node)

Spec == Init /\ [][Next]_vars

-----------------------------------------------------------------------------
(* Properties. *)

\* The disks that guests use.
InUse == {h \in held : pc[h.proc] = "run"}

\* Two guests, or two disks of one, never write one store, whatever node they
\* reach it by; and none writes what another reads by the same node.  A device
\* that is written is not mounted.
WriterIsAlone ==
    /\ \A g, h \in InUse :
        g # h /\ ~g.disk.ro /\ DiskId(g.disk.path) = DiskId(h.disk.path) =>
            h.disk.ro /\ g.disk.path # h.disk.path
    /\ \A h \in InUse : IsBlock(h.disk.path) /\ ~h.disk.ro => ~mounted

\* One guest never reads by one disk what it writes by another, even by two
\* nodes of a device.
GuestSeesOneImage ==
    \A g, h \in InUse :
        g # h /\ g.proc = h.proc /\ DiskId(g.disk.path) = DiskId(h.disk.path) =>
            g.disk.ro /\ h.disk.ro

-----------------------------------------------------------------------------
(* The inductive invariant of the proofs. *)

TypeOK ==
    /\ list \in [Procs -> Seq(DiskConfig)]
    /\ pc \in [Procs -> {"start", "check", "open", "lock", "run", "failed"}]
    /\ opened \in [Procs -> Nat] /\ tries \in [Procs -> Nat]
    /\ held \subseteq [proc : Procs, disk : DiskConfig, index : Nat, locked : BOOLEAN]
    /\ mounted \in BOOLEAN

\* A process that has passed the check, with the disks it has open or is opening.
Opening(p) == pc[p] \in {"open", "lock", "run"}
Reached(p) == IF pc[p] = "lock" THEN opened[p] + 1 ELSE opened[p]

\* An open file is a disk of its process's list: a locked one is counted, and
\* the only one not locked is the one the process waits for.
Placed ==
    \A h \in held :
        /\ Opening(h.proc) /\ h.index \in 1 .. Reached(h.proc)
        /\ h.disk = list[h.proc][h.index]
        /\ h.locked <=> h.index <= opened[h.proc]

\* What the locks keep apart, by the node, and what the claims do, by the device.
Locked ==
    \A g, h \in held :
        g # h /\ g.locked /\ h.locked /\ g.disk.path = h.disk.path => g.disk.ro
Writes(h) == IsBlock(h.disk.path) /\ ~h.disk.ro
OneClaim ==
    /\ \A g, h \in held : Writes(g) /\ Writes(h) => g = h
    /\ \A h \in held : Writes(h) => ~mounted

\* What the check of open_disks found of a list.
Listed ==
    \A p \in Procs :
        IF Opening(p)
        THEN /\ Reached(p) <= Len(list[p])
             /\ \A i, j \in 1 .. Reached(p) :
                 i # j /\ SameImage(list[p][i], list[p][j]) => list[p][i].ro
        ELSE opened[p] = 0

Inv == TypeOK /\ Placed /\ Locked /\ OneClaim /\ Listed

-----------------------------------------------------------------------------
(***************************************************************************)
(* For any number of processes, images, nodes and lists, and any number of *)
(* attempts at a lock: guests do not write what another uses.              *)
(***************************************************************************)

\* Zenon proves what follows by logic alone; the leaves that need arithmetic or
\* functions name SMT.
USE Zenon

\* Of the positions at which something holds, one is the first.
LEMMA FirstOf ==
    ASSUME NEW T \in SUBSET Nat, T # {}
    PROVE  \E x \in T : \A y \in T : x <= y
<1>1. \E x \in T : \A y \in T : ~(<<y, x>> \in OpToRel(<, Nat))
    BY NatLessThanWellFounded, WFMin
<1>2. PICK x \in T : \A y \in T : ~(<<y, x>> \in OpToRel(<, Nat))
    BY <1>1
<1>3. ASSUME NEW y \in T PROVE x <= y
    <2>1. ~(<<y, x>> \in OpToRel(<, Nat))
        BY <1>2
    <2>2. x \in Nat /\ y \in Nat
        OBVIOUS
    <2>3. y < x => <<y, x>> \in OpToRel(<, Nat)
        BY <2>2 DEF OpToRel
    <2>4. ~(y < x)
        BY <2>1, <2>3
    <2> QED BY <2>2, <2>4, SMTT(30)
<1> QED BY <1>2, <1>3

\* A disk that passes the check of open_disks is one image with an earlier
\* disk only when neither is written: the check looks at the first such disk,
\* and the others agree with it.
LEMMA CheckOfFirst ==
    ASSUME TypeOK, Listed, NEW p \in Procs, pc[p] = "open",
           opened[p] < Len(list[p]), ~Twice(p),
           NEW i \in 1 .. opened[p], SameImage(list[p][i], Disk(p))
    PROVE  list[p][i].ro /\ Disk(p).ro
<1> DEFINE T == {k \in 1 .. opened[p] : SameImage(list[p][k], Disk(p))}
<1>1. opened[p] \in Nat /\ Len(list[p]) \in Nat /\ list[p] \in Seq(DiskConfig)
    BY SMTT(30) DEF TypeOK
<1>2. T \in SUBSET Nat /\ i \in T
    BY <1>1, SMTT(30)
<1>3. PICK f \in T : \A k \in T : f <= k
    BY <1>2, FirstOf
<1>4. \A k \in 1 .. f - 1 : ~SameImage(list[p][k], Disk(p))
    BY <1>1, <1>3, SMTT(30)
<1>5. list[p][f] \in DiskConfig /\ Disk(p) \in DiskConfig
    BY <1>1, <1>3, SMTT(30) DEF Disk
<1>6. list[p][f].ro /\ Disk(p).ro
    BY <1>3, <1>4, <1>5 DEF Twice, DiskConfig
<1>7. CASE i = f
    BY <1>6, <1>7
<1>8. CASE i # f
    <2>1. SameImage(list[p][i], list[p][f])
        BY <1>3 DEF SameImage
    <2>2. Reached(p) = opened[p] /\ Opening(p)
        BY DEF Reached, Opening
    <2> QED BY <1>3, <1>6, <1>8, <2>1, <2>2 DEF Listed
<1> QED BY <1>7, <1>8

LEMMA InitInv == Init => Inv
<1> SUFFICES ASSUME Init PROVE Inv
    OBVIOUS
<1>1. list \in [Procs -> Seq(DiskConfig)]
    BY SMTT(30) DEF Init
<1>2. TypeOK
    BY <1>1 DEF Init, TypeOK
<1>3. Placed /\ Locked /\ OneClaim
    BY DEF Init, Placed, Locked, OneClaim
<1>4. Listed
    BY DEF Init, Listed, Opening
<1> QED BY <1>2, <1>3, <1>4 DEF Inv

-----------------------------------------------------------------------------
\* A process whose files are closed: it failed, or it ended.
LEMMA ClosedInv ==
    ASSUME Inv, NEW p \in Procs, NEW l \in {"start", "failed"},
           pc' = [pc EXCEPT ![p] = l], held' = {h \in held : h.proc # p},
           list' = [list EXCEPT ![p] = <<>>], opened' = [opened EXCEPT ![p] = 0],
           tries' = [tries EXCEPT ![p] = 0], mounted' = mounted
    PROVE  Inv'
<1> USE DEF Inv
<1>1. list' \in [Procs -> Seq(DiskConfig)]
    BY SMTT(30) DEF TypeOK
<1>2. TypeOK'
    BY <1>1 DEF TypeOK
<1>3. \A q \in Procs \ {p} : /\ pc'[q] = pc[q] /\ list'[q] = list[q] /\ opened'[q] = opened[q]
                             /\ Reached(q)' = Reached(q) /\ Opening(q)' = Opening(q)
    BY DEF TypeOK, Reached, Opening
<1>4. \A h \in held' : h \in held /\ h.proc \in Procs \ {p}
    BY DEF TypeOK
<1>5. Placed'
    BY <1>3, <1>4, SMTT(30) DEF Placed
<1>6. Locked' /\ OneClaim'
    BY <1>4 DEF Locked, OneClaim, Writes
<1>7. ~Opening(p)' /\ opened'[p] = 0
    BY DEF Opening, TypeOK
<1>8. Listed'
    BY <1>3, <1>7 DEF Listed
<1> QED BY <1>2, <1>5, <1>6, <1>8

\* Steps that change neither the files nor how far a process has come.
LEMMA StartInv == ASSUME Inv, NEW p \in Procs, Start(p) PROVE Inv'
<1> USE DEF Inv, Start
<1>1. PICK l \in Lists : list' = [list EXCEPT ![p] = l]
    OBVIOUS
<1>2. l \in Seq(DiskConfig)
    BY ListsAssumption
<1>3. TypeOK'
    BY <1>1, <1>2 DEF TypeOK
<1>4. \A q \in Procs \ {p} : pc'[q] = pc[q] /\ list'[q] = list[q]
    BY <1>1 DEF TypeOK
<1>5. ~Opening(p) /\ ~Opening(p)'
    BY DEF Opening, TypeOK
<1>6. \A h \in held : h.proc \in Procs \ {p}
    BY <1>5 DEF Placed, TypeOK
<1>7. Placed'
    BY <1>4, <1>6, SMTT(30) DEF Placed, Opening, Reached
<1>8. Locked' /\ OneClaim'
    BY DEF Locked, OneClaim, Writes
<1>9. Listed'
    BY <1>4, <1>5 DEF Listed, Opening, Reached
<1> QED BY <1>3, <1>7, <1>8, <1>9

LEMMA CheckInv == ASSUME Inv, NEW p \in Procs, Check(p) PROVE Inv'
<1> USE DEF Inv, Check
<1>1. CASE ~CheckDisks(list[p])
    BY <1>1, ClosedInv DEF Fail
<1>2. CASE CheckDisks(list[p])
    <2>1. pc' = [pc EXCEPT ![p] = "open"] /\ UNCHANGED <<list, opened, tries, held, mounted>>
        BY <1>2
    <2>2. TypeOK'
        BY <2>1 DEF TypeOK
    <2>3. \A q \in Procs \ {p} : pc'[q] = pc[q]
        BY <2>1 DEF TypeOK
    <2>4. \A h \in held : h.proc \in Procs \ {p}
        BY DEF Placed, TypeOK, Opening
    <2>5. Placed'
        BY <2>1, <2>3, <2>4 DEF Placed, Opening, Reached
    <2>6. Locked' /\ OneClaim'
        BY <2>1, SMTT(30) DEF Locked, OneClaim, Writes
    <2>7. opened[p] = 0
        BY DEF Listed, Opening
    <2>8. Listed'
        BY <1>2, <2>1, <2>3, <2>7, SMTT(30) DEF Listed, Opening, Reached, CheckDisks, TypeOK
    <2> QED BY <2>2, <2>5, <2>6, <2>8
<1> QED BY <1>1, <1>2

LEMMA BootInv == ASSUME Inv, NEW p \in Procs, Boot(p) PROVE Inv'
<1> USE DEF Inv, Boot
<1>1. TypeOK'
    BY DEF TypeOK
<1>2. \A q \in Procs : Opening(q)' = Opening(q) /\ Reached(q)' = Reached(q)
    BY SMTT(30) DEF TypeOK, Opening, Reached
<1>3. Placed'
    BY <1>2 DEF Placed, TypeOK
<1>4. Locked' /\ OneClaim'
    BY DEF Locked, OneClaim, Writes
<1>5. Listed'
    BY <1>2 DEF Listed
<1> QED BY <1>1, <1>3, <1>4, <1>5

-----------------------------------------------------------------------------
\* The open: what the check and the claim let through is added to the files.
LEMMA OpenInv == ASSUME Inv, NEW p \in Procs, Open(p) PROVE Inv'
<1> USE DEF Inv
<1>1. CASE Twice(p) \/ OpenFails(Disk(p))
    BY <1>1, ClosedInv DEF Fail, Open
<1>2. CASE ~(Twice(p) \/ OpenFails(Disk(p)))
    <2> DEFINE n == [proc |-> p, disk |-> Disk(p), index |-> opened[p] + 1, locked |-> FALSE]
    <2>1. /\ held' = held \cup {n} /\ pc' = [pc EXCEPT ![p] = "lock"]
          /\ tries' = [tries EXCEPT ![p] = IF IsBlock(Disk(p).path) THEN Tries ELSE 1]
          /\ UNCHANGED <<list, opened, mounted>>
          /\ pc[p] = "open" /\ opened[p] < Len(list[p])
        BY <1>2 DEF Open
    <2>2. opened[p] \in Nat /\ list[p] \in Seq(DiskConfig) /\ Len(list[p]) \in Nat
        BY SMTT(30) DEF TypeOK
    <2>3. Disk(p) \in DiskConfig
        BY <2>1, <2>2, SMTT(30) DEF Disk
    <2>4. n \in [proc : Procs, disk : DiskConfig, index : Nat, locked : BOOLEAN]
        BY <2>2, <2>3, SMTT(30)
    <2>5. tries' \in [Procs -> Nat]
        BY <2>1, TriesAssumption DEF TypeOK
    <2>6. TypeOK'
        BY <2>1, <2>4, <2>5 DEF TypeOK
    <2>7. /\ \A q \in Procs \ {p} : Opening(q)' = Opening(q) /\ Reached(q)' = Reached(q)
          /\ Opening(p) /\ Opening(p)' /\ Reached(p) = opened[p] /\ Reached(p)' = opened[p] + 1
        BY <2>1 DEF TypeOK, Opening, Reached
    <2>8. ASSUME NEW h \in held
          PROVE  /\ Opening(h.proc)' /\ h.index \in 1 .. Reached(h.proc)'
                 /\ h.disk = list'[h.proc][h.index]
                 /\ h.locked <=> h.index <= opened'[h.proc]
        <3>1. h.proc \in Procs /\ h.index \in Nat
            BY DEF TypeOK
        <3> QED BY <2>1, <2>2, <2>7, <3>1, SMTT(30) DEF Placed
    <2>9. Placed'
        BY <2>1, <2>2, <2>7, <2>8, SMTT(30) DEF Placed, Disk
    <2>10. Locked'
        BY <2>1, SMTT(30) DEF Locked
    <2>11. Writes(n) => ~mounted /\ \A h \in held : ~Writes(h)
        BY <1>2 DEF Writes, OpenFails, Claimed
    <2>12. OneClaim'
        BY <2>1, <2>11 DEF OneClaim, Writes
    <2>13. ASSUME NEW i \in 1 .. opened[p] + 1, NEW j \in 1 .. opened[p] + 1,
                  i # j, SameImage(list[p][i], list[p][j])
           PROVE  list[p][i].ro
        <3>1. CASE i = opened[p] + 1
            <4>1. j \in 1 .. opened[p] /\ SameImage(list[p][j], Disk(p))
                BY <2>2, <2>13, <3>1, SMTT(30) DEF SameImage, Disk
            <4> QED BY <1>2, <2>1, <3>1, <4>1, CheckOfFirst DEF Disk
        <3>2. CASE j = opened[p] + 1 /\ i # j
            <4>1. i \in 1 .. opened[p] /\ SameImage(list[p][i], Disk(p))
                BY <2>2, <2>13, <3>2, SMTT(30) DEF Disk
            <4> QED BY <1>2, <2>1, <4>1, CheckOfFirst
        <3>3. CASE i # opened[p] + 1 /\ j # opened[p] + 1
            <4>1. i \in 1 .. Reached(p) /\ j \in 1 .. Reached(p)
                BY <2>2, <2>7, <3>3, SMTT(30)
            <4> QED BY <2>7, <2>13, <4>1 DEF Listed
        <3> QED BY <2>13, <3>1, <3>2, <3>3
    <2>14. opened[p] + 1 <= Len(list[p])
        BY <2>1, <2>2, SMTT(30)
    <2>15. Listed'
        BY <2>1, <2>7, <2>13, <2>14 DEF Listed
    <2> QED BY <2>6, <2>9, <2>10, <2>12, <2>15
<1> QED BY <1>1, <1>2

-----------------------------------------------------------------------------
\* The lock: no lock that excludes it is held on the node.
LEMMA LockInv == ASSUME Inv, NEW p \in Procs, Lock(p) PROVE Inv'
<1> USE DEF Inv
<1>1. CASE WouldBlock(p) /\ ~(tries[p] > 1)
    BY <1>1, ClosedInv DEF Fail, Lock
<1>2. CASE WouldBlock(p) /\ tries[p] > 1
    <2>1. tries' = [tries EXCEPT ![p] = @ - 1] /\ UNCHANGED <<list, pc, opened, held, mounted>>
        BY <1>2 DEF Lock
    <2>2. TypeOK'
        BY <1>2, <2>1, SMTT(30) DEF TypeOK
    <2> QED BY <2>1, <2>2 DEF Placed, Locked, OneClaim, Writes, Listed, Opening, Reached
<1>3. CASE ~WouldBlock(p)
    <2> DEFINE Mine(h) == h.proc = p /\ h.index = opened[p] + 1
               lk(h) == IF Mine(h) THEN [h EXCEPT !.locked = TRUE] ELSE h
               Handle == [proc : Procs, disk : DiskConfig, index : Nat, locked : BOOLEAN]
    <2>1. /\ held' = {lk(h) : h \in held} /\ pc' = [pc EXCEPT ![p] = "open"]
          /\ opened' = [opened EXCEPT ![p] = @ + 1] /\ UNCHANGED <<list, tries, mounted>>
          /\ pc[p] = "lock"
        BY <1>3 DEF Lock
    <2>2. ASSUME NEW h \in held
          PROVE  /\ h \in Handle /\ lk(h) \in Handle
                 /\ lk(h).proc = h.proc /\ lk(h).disk = h.disk /\ lk(h).index = h.index
                 /\ lk(h).locked <=> (h.locked \/ Mine(h))
        BY DEF TypeOK
    <2>3. TypeOK'
        BY <2>1, <2>2, SMTT(30) DEF TypeOK
    <2>4. /\ \A q \in Procs : Opening(q)' = Opening(q) /\ Reached(q)' = Reached(q)
          /\ \A q \in Procs \ {p} : opened'[q] = opened[q] /\ Reached(q) \in Nat
          /\ opened[p] \in Nat /\ opened'[p] = opened[p] + 1 /\ Reached(p) = opened[p] + 1
        BY <2>1, SMTT(30) DEF TypeOK, Opening, Reached
    <2>5. ASSUME NEW h \in held
          PROVE  /\ Opening(h.proc)' /\ h.index \in 1 .. Reached(h.proc)'
                 /\ h.disk = list'[h.proc][h.index]
                 /\ (h.locked \/ Mine(h)) <=> h.index <= opened'[h.proc]
        <3>1. /\ Opening(h.proc) /\ h.index \in 1 .. Reached(h.proc)
              /\ h.disk = list[h.proc][h.index]
              /\ h.locked <=> h.index <= opened[h.proc]
            BY DEF Placed
        <3>2. h.proc \in Procs /\ h.index \in Nat
            BY <2>2
        <3>3. (h.locked \/ Mine(h)) <=> h.index <= opened'[h.proc]
            <4>1. CASE h.proc = p
                BY <2>4, <3>1, <3>2, <4>1, SMTT(30)
            <4>2. CASE h.proc # p
                BY <2>4, <3>1, <3>2, <4>2
            <4> QED BY <4>1, <4>2
        <3> HIDE DEF lk, Mine
        <3> QED BY <2>1, <2>4, <3>1, <3>2, <3>3
    <2>6. Placed'
        <3> SUFFICES ASSUME NEW a \in held'
                     PROVE  /\ Opening(a.proc)' /\ a.index \in 1 .. Reached(a.proc)'
                            /\ a.disk = list'[a.proc][a.index]
                            /\ a.locked <=> a.index <= opened'[a.proc]
            BY DEF Placed
        <3> HIDE DEF lk, Mine
        <3>1. PICK h \in held : a = lk(h)
            BY <2>1
        <3>2. /\ a.proc = h.proc /\ a.disk = h.disk /\ a.index = h.index
              /\ a.locked <=> (h.locked \/ Mine(h))
            BY <2>2, <3>1
        <3> QED BY <2>5, <3>2
    \* The file that is locked is the process's one, with the disk it waits for.
    <2>7. \A h \in held : Mine(h) => h.disk = Disk(p) /\ ~h.locked
        BY <2>2, <2>4, SMTT(30) DEF Placed, Disk
    <2>8. ASSUME NEW g \in held, NEW h \in held, Mine(g), Mine(h) PROVE g = h
        <3>1. \A k \in Handle : k = [proc |-> k.proc, disk |-> k.disk,
                                      index |-> k.index, locked |-> k.locked]
            BY SMTT(30)
        <3>2. g.locked = FALSE /\ h.locked = FALSE
            BY <2>2, <2>7, <2>8
        <3>3. g.proc = h.proc /\ g.disk = h.disk /\ g.index = h.index
            BY <2>7, <2>8
        <3> QED BY <2>2, <3>1, <3>2, <3>3
    <2>9. \A h \in held : h.locked /\ h.disk.path = Disk(p).path => h.disk.ro /\ Disk(p).ro
        <3>1. \A h \in held : h.disk \in DiskConfig
            BY <2>2
        <3> QED BY <1>3 DEF WouldBlock
    <2>10. ASSUME NEW g \in held, NEW h \in held, lk(g) # lk(h),
                  lk(g).locked, lk(h).locked, g.disk.path = h.disk.path
           PROVE  g.disk.ro
        <3>1. g # h /\ (g.locked \/ Mine(g)) /\ (h.locked \/ Mine(h))
            BY <2>2, <2>10
        <3>2. CASE Mine(g)
            <4>1. h.locked /\ g.disk = Disk(p)
                BY <2>7, <2>8, <3>1, <3>2
            <4> QED BY <2>9, <2>10, <4>1
        <3>3. CASE Mine(h)
            <4>1. g.locked /\ h.disk = Disk(p)
                BY <2>7, <2>8, <3>1, <3>3
            <4> QED BY <2>9, <2>10, <4>1
        <3>4. CASE g.locked /\ h.locked
            BY <2>10, <3>1, <3>4 DEF Locked
        <3> HIDE DEF Mine
        <3> QED BY <3>1, <3>2, <3>3, <3>4
    <2>11. Locked'
        <3> SUFFICES ASSUME NEW a \in held', NEW b \in held', a # b, a.locked, b.locked,
                            a.disk.path = b.disk.path
                     PROVE  a.disk.ro
            BY DEF Locked
        <3> HIDE DEF lk
        <3>1. PICK g \in held, h \in held : a = lk(g) /\ b = lk(h)
            BY <2>1
        <3> QED BY <2>2, <2>10, <3>1, SMTT(30)
    <2>12. OneClaim'
        <3>1. \A h \in held : Writes(lk(h)) <=> Writes(h)
            BY <2>2 DEF Writes
        <3> HIDE DEF lk
        <3> QED BY <2>1, <3>1 DEF OneClaim, Writes
    <2>13. Listed'
        BY <2>1, <2>4 DEF Listed, Opening
    <2> QED BY <2>3, <2>6, <2>11, <2>12, <2>13
<1> QED BY <1>1, <1>2, <1>3

\* The host: a mount needs the claim that an open for writing has.
LEMMA HostInv ==
    ASSUME Inv, \/ Mount \/ Unmount \/ UNCHANGED vars
                \/ \E node \in DeviceNodes : UdevLock(node) \/ UdevUnlock(node)
    PROVE  Inv'
<1> USE DEF Inv
<1>1. /\ UNCHANGED <<list, pc, opened, tries, held>>
      /\ mounted' \in BOOLEAN /\ (mounted' => mounted \/ ~Claimed)
    <2>1. CASE Mount \/ Unmount
        BY <2>1 DEF Mount, Unmount
    <2>2. CASE UNCHANGED <<list, pc, opened, tries, held, mounted>>
        BY <2>2 DEF TypeOK
    <2> QED BY <2>1, <2>2 DEF vars, UdevLock, UdevUnlock
<1>2. TypeOK'
    BY <1>1 DEF TypeOK
<1>3. Placed' /\ Locked' /\ Listed'
    BY <1>1 DEF Placed, Locked, Listed, Opening, Reached
<1>4. OneClaim'
    BY <1>1 DEF OneClaim, Writes, Claimed
<1> QED BY <1>2, <1>3, <1>4

LEMMA InvInductive == Inv /\ [Next]_vars => Inv'
<1> SUFFICES ASSUME Inv, [Next]_vars PROVE Inv'
    OBVIOUS
<1>1. ASSUME NEW p \in Procs, Start(p) \/ Check(p) \/ Open(p) \/ Lock(p) \/ Boot(p)
      PROVE  Inv'
    BY <1>1, StartInv, CheckInv, OpenInv, LockInv, BootInv
<1>2. ASSUME NEW p \in Procs, Exit(p) PROVE Inv'
    BY <1>2, ClosedInv DEF Exit
<1> QED BY <1>1, <1>2, HostInv DEF Next

-----------------------------------------------------------------------------
\* What the invariant says of the disks guests run on.
LEMMA InvHolds == Inv => WriterIsAlone /\ GuestSeesOneImage
<1> SUFFICES ASSUME Inv PROVE WriterIsAlone /\ GuestSeesOneImage
    OBVIOUS
<1> USE DEF Inv
<1>1. ASSUME NEW h \in InUse
      PROVE  /\ h \in held /\ h.proc \in Procs /\ h.disk \in DiskConfig /\ h.locked = TRUE
             /\ Opening(h.proc) /\ h.index \in 1 .. Reached(h.proc)
             /\ h.disk = list[h.proc][h.index]
    BY SMTT(30) DEF InUse, TypeOK, Placed, Reached
<1>2. ASSUME NEW g \in InUse, NEW h \in InUse, g # h, ~g.disk.ro,
             DiskId(g.disk.path) = DiskId(h.disk.path)
      PROVE  h.disk.ro /\ g.disk.path # h.disk.path
    <2>1. g.disk.path # h.disk.path
        BY <1>1, <1>2 DEF Locked
    <2>2. IsBlock(g.disk.path) /\ IsBlock(h.disk.path)
        BY <1>1, <1>2, <2>1, PathsAssumption DEF DiskId, IsBlock, DiskConfig
    <2>3. h.disk.ro \in BOOLEAN
        BY <1>1 DEF DiskConfig
    <2> QED BY <1>1, <1>2, <2>1, <2>2, <2>3 DEF OneClaim, Writes
<1>3. WriterIsAlone
    BY <1>1, <1>2 DEF WriterIsAlone, OneClaim, Writes
<1>4. ASSUME NEW g \in InUse, NEW h \in InUse, g # h, g.proc = h.proc,
             DiskId(g.disk.path) = DiskId(h.disk.path)
      PROVE  g.disk.ro /\ h.disk.ro
    <2>1. g.index # h.index
        <3>1. \A k \in InUse : k = [proc |-> k.proc, disk |-> k.disk,
                                     index |-> k.index, locked |-> k.locked]
            BY SMTT(30) DEF InUse, TypeOK
        <3>2. g.locked = h.locked /\ (g.index = h.index => g.disk = h.disk)
            BY <1>1, <1>4
        <3> QED BY <1>4, <3>1, <3>2
    <2> DEFINE p == g.proc
    <2>2. /\ p \in Procs /\ Opening(p) /\ g.index \in 1 .. Reached(p) /\ h.index \in 1 .. Reached(p)
          /\ g.disk = list[p][g.index] /\ h.disk = list[p][h.index]
        BY <1>1, <1>4
    <2>3. SameImage(g.disk, h.disk) /\ SameImage(h.disk, g.disk)
        BY <1>4 DEF SameImage
    <2> HIDE DEF p
    <2> QED BY <2>1, <2>2, <2>3 DEF Listed
<1>5. GuestSeesOneImage
    BY <1>4 DEF GuestSeesOneImage
<1> QED BY <1>3, <1>5

\* open_as and open_disks: whatever processes start, fail, run and end, two
\* guests never write one store, and no device that is written is mounted.
THEOREM WritersAreAlone == Spec => []WriterIsAlone
<1>1. Spec => []Inv
    BY InitInv, InvInductive, PTL DEF Spec
<1> QED BY <1>1, InvHolds, PTL

\* open_disks: one guest never reads by one disk what it writes by another.
THEOREM GuestDisksDiffer == Spec => []GuestSeesOneImage
<1>1. Spec => []Inv
    BY InitInv, InvInductive, PTL DEF Spec
<1> QED BY <1>1, InvHolds, PTL
=============================================================================
