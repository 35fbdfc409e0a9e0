------------------------------ MODULE FsLocks ------------------------------
(***************************************************************************)
(* How a virtio-fs device serves its request queue: a vCPU thread serves a *)
(* shallow queue in its own exit (service_fs in arch/aarch64/hvf/vcpu.rs)  *)
(* and wakes the worker thread (devices/virtio/fs/worker.rs) for the rest, *)
(* and a SETLKW on a held lock is parked on the device                     *)
(* (devices/virtio/fs/server.rs), because a blocking call would hold the   *)
(* device mutex the holder's own unlock needs.                             *)
(*                                                                         *)
(* Guest processes run a program of lock calls and large writes on one     *)
(* file, each with one request at a time in the ring.  A step of a thread  *)
(* is what it does under the device mutex, or under the wake's.            *)
(***************************************************************************)
EXTENDS Naturals, Sequences, FiniteSets, SequencesExt, Functions

CONSTANTS Procs, Vcpus,
          Handle,     \* the handle a process uses
          FileOf,     \* the open file description behind a handle
          Programs,   \* what a process may run: requests, and the LockCall of its locks
          Size,       \* entries of the ring
          Budget,     \* FS_INLINE_BUDGET
          HostMay,    \* whether a process of the host takes the lock
          MayStop     \* whether the VMM stops

Handles == Range(Handle)
OpenFiles == Range(FileOf)

VARIABLES
    ring,       \* chains the driver made available, in order
    kick,       \* whether the driver has yet to notify the device of them
    notified, waiters,
    woken, stopped, \* FsWakeState
    worker, vcpu,
    held,       \* the host: the lock an open file description holds
    host,       \* the host: another process that may hold the lock, once
    open,       \* handles not released
    proc        \* guest processes: program, next request, busy, lock it was granted,
                \* and the call its locks are

dev == <<notified, waiters, held, open>>
vars == <<ring, kick, dev, woken, stopped, worker, vcpu, host, proc>>

-----------------------------------------------------------------------------
\* LockWaiter::cap.
Cap == Size \div 4

\* The ring entries a chain takes: init offers writes that fit beside the
\* waiters, and every other request has a header, its arguments and a reply.
FUSE_HEADER_OVERHEAD == 4
MAX_WRITE_PAGES == 256
BesideWaiters == IF Size > Cap + FUSE_HEADER_OVERHEAD THEN Size - Cap - FUSE_HEADER_OVERHEAD ELSE 1
MaxPages == IF BesideWaiters < MAX_WRITE_PAGES THEN BesideWaiters ELSE MAX_WRITE_PAGES
Entries(op) == IF op = "WRITE" THEN MaxPages + FUSE_HEADER_OVERHEAD ELSE 3

Total(seq) == FoldLeft(LAMBDA n, r : n + Entries(r.op), 0, seq)

Init ==
    /\ ring = <<>> /\ kick = FALSE /\ notified = FALSE /\ waiters = <<>>
    /\ woken = FALSE /\ stopped = FALSE
    /\ worker = [pc |-> "park", waiting |-> FALSE]
    /\ vcpu = [v \in Vcpus |-> "idle"]
    /\ held = [f \in OpenFiles |-> "none"] /\ host = "idle" /\ open = Handles
    /\ proc \in [Procs -> {[run |-> g.run, call |-> g.call, at |-> 1, busy |-> FALSE,
                              lock |-> "none"] : g \in Programs}]
    /\ \A p, q \in Procs : proc[p].call = proc[q].call

-----------------------------------------------------------------------------
(* The device, under its mutex.  S is its state with the guest's processes. *)

S0 == [held |-> held, waiters |-> waiters, proc |-> proc, open |-> open]

\* try_lock: flock or F_OFD_SETLK, never blocking.
Conflicts(S, f, mode) ==
    \/ host = "holds" /\ mode # "none"
    \/ \E g \in OpenFiles \ {f} : S.held[g] # "none" /\ (mode = "EX" \/ S.held[g] = "EX")
       /\ mode # "none"

\* The reply reaches the guest's process, which goes on.
Answer(S, p, lock) ==
    [S EXCEPT !.proc[p].at = @ + 1, !.proc[p].busy = FALSE, !.proc[p].lock = lock]

\* Mutant of GiveUp: an flock is kept too while the request waits.
GiveUpNot(S, f, p) == S

\* An flock conversion that has to wait drops the lock the descriptor holds; a
\* record lock is kept.
GiveUp(S, f, p) ==
    IF S.proc[p].call = "Flock" THEN [S EXCEPT !.held[f] = "none", !.proc[p].lock = "none"] ELSE S

\* Mutant of Room: there is no cap.
RoomAlways(S) == TRUE

\* Whether one more chain can be parked.
Room(S) == Total(S.waiters) + Entries("EX") <= Cap

\* settle_lock for a SETLKW, and the parking of its chain in handle_chain.
SetLkw(S, r) ==
    LET f == FileOf[Handle[r.proc]]
        dropped == GiveUp(S, f, r.proc)
    IN  IF ~Conflicts(S, f, r.op)
        THEN Answer([S EXCEPT !.held[f] = r.op], r.proc, r.op)
        ELSE IF Room(S)
             THEN [dropped EXCEPT !.waiters = Append(@, r)]
             ELSE Answer(dropped, r.proc, dropped.proc[r.proc].lock)  \* ENOLCK

\* handle_chain: one request.
HandleChain(S, r) ==
    LET h == Handle[r.proc] f == FileOf[h]
    IN  IF h \notin S.open THEN Answer(S, r.proc, "none")  \* EBADF
        ELSE CASE r.op \in {"SH", "EX"} -> SetLkw(S, r)
               [] r.op = "UN" -> Answer([S EXCEPT !.held[f] = "none"], r.proc, "none")
               [] r.op = "RELEASE" ->
                    Answer([S EXCEPT !.held[f] = "none", !.open = @ \ {h}], r.proc, "none")
               [] r.op = "WRITE" -> Answer(S, r.proc, S.proc[r.proc].lock)

\* retry_lock_waiters: each one once, in order.
Retry(S) ==
    FoldLeft(LAMBDA T, r :
               LET h == Handle[r.proc] f == FileOf[h]
               IN  IF h \notin T.open THEN Answer(T, r.proc, "none")
                   ELSE IF Conflicts(T, f, r.op) THEN [T EXCEPT !.waiters = Append(@, r)]
                   ELSE Answer([T EXCEPT !.held[f] = r.op], r.proc, r.op),
             [S EXCEPT !.waiters = <<>>], S.waiters)

\* Mutant of Reflag: the mask stays cleared.
ReflagNot(rest) == FALSE

\* The queue is flagged again when the budget did not cover it.
Reflag(rest) == rest # <<>>

\* drain_notified_bounded with process_queue_bounded; `rest` is what is left of
\* the ring, and the result whether work remains.
Served(budget) == IF ~notified THEN 0 ELSE IF Len(ring) < budget THEN Len(ring) ELSE budget
Drained(budget) == Retry(FoldLeft(HandleChain, S0, SubSeq(ring, 1, Served(budget))))
Drain(budget) ==
    LET n == Served(budget) rest == SubSeq(ring, n + 1, Len(ring)) S == Drained(budget)
    IN  /\ ring' = rest
        /\ notified' = (notified /\ Reflag(rest))
        /\ held' = S.held /\ waiters' = S.waiters /\ proc' = S.proc /\ open' = S.open

\* Whether the caller hands the rest to the worker.
Remains(budget) == (notified /\ Served(budget) < Len(ring)) \/ Drained(budget).waiters # <<>>

-----------------------------------------------------------------------------
(* The guest's driver. *)

InRing == Total(ring) + Total(waiters)

\* A process puts its next request in the ring, when it has room.
Post(p) ==
    LET r == proc[p]
    IN  /\ ~r.busy /\ r.at <= Len(r.run) /\ \E v \in Vcpus : vcpu[v] # "off"
        /\ InRing + Entries(r.run[r.at]) <= Size
        /\ ring' = Append(ring, [proc |-> p, op |-> r.run[r.at]])
        /\ proc' = [proc EXCEPT ![p].busy = TRUE] /\ kick' = TRUE
        /\ UNCHANGED <<dev, woken, stopped, worker, vcpu, host>>

(* service_fs on a vCPU thread. *)

\* The write of QUEUE_NOTIFY, under the mutex.
Notify(v) ==
    /\ kick /\ vcpu[v] = "idle" /\ kick' = FALSE /\ notified' = TRUE
    /\ vcpu' = [vcpu EXCEPT ![v] = "drain"]
    /\ UNCHANGED <<ring, waiters, held, open, woken, stopped, worker, host, proc>>

\* The mutex again, for a shallow queue.
InlineDrain(v) ==
    /\ vcpu[v] = "drain" /\ Drain(Budget)
    /\ vcpu' = [vcpu EXCEPT ![v] = IF Remains(Budget) THEN "wake" ELSE "idle"]
    /\ UNCHANGED <<kick, woken, stopped, worker, host>>

\* FsWake::wake.
Wake(v) ==
    /\ vcpu[v] = "wake" /\ woken' = TRUE /\ vcpu' = [vcpu EXCEPT ![v] = "idle"]
    /\ UNCHANGED <<ring, kick, dev, stopped, worker, host, proc>>

\* The guest powers off.
PowerOff(v) ==
    /\ MayStop /\ vcpu[v] = "idle" /\ ~kick /\ vcpu' = [vcpu EXCEPT ![v] = "off"]
    /\ UNCHANGED <<ring, kick, dev, woken, stopped, worker, host, proc>>

(* run_fs_worker *)

\* The park is timed while a SETLKW is parked on the device.
TimedPark(w) == w.waiting

\* park_until: a wake, a stop, or the retry interval ends it.
Unpark ==
    /\ worker.pc = "park" /\ (woken \/ stopped \/ TimedPark(worker))
    /\ woken' = FALSE
    /\ worker' = [worker EXCEPT !.pc = IF stopped THEN "last" ELSE "drain"]
    /\ UNCHANGED <<ring, kick, dev, stopped, vcpu, host, proc>>
WorkerDrain ==
    /\ worker.pc = "drain" /\ Drain(Size)
    /\ worker' = [pc |-> "park", waiting |-> waiters' # <<>>]
    /\ UNCHANGED <<kick, woken, stopped, vcpu, host>>

\* Mutant of LastDrain: the worker leaves at once.
LastDrainNot ==
    /\ worker.pc = "last" /\ worker' = [worker EXCEPT !.pc = "exited"]
    /\ UNCHANGED <<ring, kick, dev, woken, stopped, vcpu, host, proc>>

\* The pass after the stop, for chains a wake announced with it.
LastDrain ==
    /\ worker.pc = "last" /\ Drain(Size)
    /\ worker' = [worker EXCEPT !.pc = "exited"]
    /\ UNCHANGED <<kick, woken, stopped, vcpu, host>>

\* FsWake::stop, once the vCPU threads are joined.
Stop ==
    /\ ~stopped /\ \A v \in Vcpus : vcpu[v] = "off"
    /\ stopped' = TRUE
    /\ UNCHANGED <<ring, kick, dev, woken, worker, vcpu, host, proc>>

\* A process of the host takes the lock once, and lets it go.
HostLock ==
    /\ HostMay /\ host = "idle" /\ \A p \in Procs : proc[p].at = 1
    /\ \A f \in OpenFiles : held[f] = "none"
    /\ host' = "holds"
    /\ UNCHANGED <<ring, kick, dev, woken, stopped, worker, vcpu, proc>>
HostUnlock ==
    /\ host = "holds" /\ host' = "gone"
    /\ UNCHANGED <<ring, kick, dev, woken, stopped, worker, vcpu, proc>>

Over == \A p \in Procs : proc[p].at > Len(proc[p].run)
Done == (Over \/ \A v \in Vcpus : vcpu[v] = "off") /\ UNCHANGED vars

VcpuStep(v) == Notify(v) \/ InlineDrain(v) \/ Wake(v)
WorkerStep == Unpark \/ WorkerDrain \/ LastDrain
Next ==
    \/ \E p \in Procs : Post(p)
    \/ \E v \in Vcpus : VcpuStep(v) \/ PowerOff(v)
    \/ WorkerStep \/ Stop \/ HostLock \/ HostUnlock \/ Done

Spec == Init /\ [][Next]_vars

\* The threads are scheduled, a process that can go on does, and the host's
\* holder does not keep the lock for good.
FairSpec ==
    /\ Spec /\ WF_vars(WorkerStep) /\ WF_vars(HostUnlock)
    /\ \A v \in Vcpus : WF_vars(VcpuStep(v))
    /\ \A p \in Procs : WF_vars(Post(p))

-----------------------------------------------------------------------------
(* Properties. *)

\* Two handles never hold a lock that excludes the other's: what SETLKW
\* answers is what the host's locks say, conversions included.  ("OFD locking
\* scopes the lock to this FUSE open handle.")
LocksExclude ==
    \A p, q \in Procs :
        Handle[p] # Handle[q] /\ proc[p].lock = "EX" => proc[q].lock = "none"

\* Beside the waiters the ring always has room for the largest request INIT
\* offers, so a holder that writes before it unlocks is never kept out by the
\* waiters that wait for it.
RingHasRoom == Total(waiters) + Entries("WRITE") <= Size

\* Every chain the driver notified the device of is on its way: flagged, with
\* a vCPU or the worker about to look, or a wake pending.
NothingForgotten ==
    ring # <<>> /\ ~kick =>
        /\ notified
        /\ \/ woken \/ worker.pc \in {"drain", "last"}
           \/ \E v \in Vcpus : vcpu[v] \in {"drain", "wake"}

\* A parked SETLKW is retried: some thread will come back to it, and with a
\* lock the host holds that is the worker, on its timer.
WaitersAreRetried ==
    waiters # <<>> =>
        \/ worker.pc \in {"drain", "last", "exited"} \/ woken
        \/ worker.waiting \/ \E v \in Vcpus : vcpu[v] \in {"drain", "wake"}

\* When the worker is gone no chain is left that the device was told of.
ExitLeavesNothing == worker.pc = "exited" => ~notified /\ (ring = <<>> \/ kick)

=============================================================================
