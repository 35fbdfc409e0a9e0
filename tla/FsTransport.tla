---------------------------- MODULE FsTransport ----------------------------
(***************************************************************************)
(* The virtio-mmio transport of a built-in virtio-fs device: its registers,  *)
(* its two queues, the drains of a vCPU and of the worker thread, and its    *)
(* interrupt line (devices/virtio/fs/server.rs, worker.rs, service_fs of     *)
(* arch/aarch64/hvf/vcpu.rs), under a driver that resets the device while it *)
(* serves and starts over on new rings.                                    *)
(*                                                                         *)
(* A step of a thread is what it does under the device mutex.  A register    *)
(* write of a notify and the drain after it take the mutex once each, so     *)
(* another vCPU's reset falls between them.  A ring is a number; a chain is   *)
(* its ring and its place there, so that what the device does with it after  *)
(* the ring is gone can be told.                                           *)
(***************************************************************************)
EXTENDS Naturals, Sequences, FiniteSets, SequencesExt

CONSTANTS
    Vcpus,
    Queues,        \* the queues of the device
    Budget,        \* FS_INLINE_BUDGET
    Cap,           \* LockWaiter::cap, in chains
    MaxRings,      \* a bound on the rings a driver sets up
    MaxChains,     \* a bound on the chains it puts in one
    MayTakeDown    \* whether the driver clears QUEUE_READY and sets it again

VARIABLES
    queue,         \* Queue: ready, the ring it is programmed with, last_avail
    notified, irq, waiters,     \* of VirtioFs; irq is interrupt_status
    line,          \* the level of the interrupt line
    woken, worker, waiting,     \* FsWakeState, the worker thread
    vcpu,          \* "guest", or "drains" between the notify and its drain
    driver,        \* "off", "setup" or "up"
    ring, kick,    \* the driver's ring of each queue, and whether it owes a notify
    handler,       \* the driver's interrupt handler: "idle", "read" or "acked"
    avail, used,   \* of each ring: what the driver gave, what the device returned
    seen,          \* how much of each queue's used ring the driver has looked at
    downs, late,   \* times a queue was taken down; whether a waiter of before was answered
    busy           \* whether a process of the host has the lock

device == <<queue, notified, irq, waiters, line>>
threads == <<woken, worker, waiting, vcpu>>
guest == <<driver, ring, kick, handler, avail, seen, downs>>
vars == <<device, threads, guest, used, late, busy>>

Ring == 1..MaxRings
Rings == {ring[k] : k \in Queues}
Off == [ready |-> FALSE, ring |-> 0, last |-> 0]

Init ==
    /\ queue = [k \in Queues |-> Off]
    /\ notified = {} /\ irq = FALSE /\ waiters = <<>> /\ line = FALSE
    /\ woken = FALSE /\ worker = "parked" /\ waiting = FALSE
    /\ vcpu = [v \in Vcpus |-> "guest"]
    /\ driver = "off" /\ handler = "idle"
    /\ ring = [k \in Queues |-> 0] /\ kick = [k \in Queues |-> FALSE]
    /\ avail = [r \in Ring |-> <<>>] /\ used = avail /\ seen = [k \in Queues |-> 0]
    /\ downs = [k \in Queues |-> 0] /\ late = FALSE
    /\ busy \in BOOLEAN

-----------------------------------------------------------------------------
(* Serving: a device record d with the fields of VirtioFs and the rings.   *)

Device == [queue |-> queue, notified |-> notified, irq |-> irq, waiters |-> waiters,
           used |-> used, late |-> late]

PushUsed(d, r, chain) == [d EXCEPT !.used[r] = Append(@, chain), !.irq = TRUE]

\* A SETLKW on a held lock is parked unless the waiters have their share of the ring.
Parks(d, chain) == chain.lock /\ busy /\ Len(d.waiters) < Cap

\* handle_chain, and push_used unless it is parked.
HandleChain(d, k, chain) ==
    IF Parks(d, chain)
    THEN [d EXCEPT !.waiters = Append(@, [queue |-> k, chain |-> chain, downs |-> downs[k]])]
    ELSE PushUsed(d, d.queue[k].ring, chain)

Pending(d, k) ==
    IF d.queue[k].ready THEN Len(avail[d.queue[k].ring]) - d.queue[k].last ELSE 0

\* process_queue_bounded
ProcessQueue(d, k, budget) ==
    LET n == IF Pending(d, k) < budget THEN Pending(d, k) ELSE budget
        q == d.queue[k]
        chains == IF n = 0 THEN <<>> ELSE SubSeq(avail[q.ring], q.last + 1, q.last + n)
        served == FoldLeft(LAMBDA e, c : HandleChain(e, k, c), d, chains)
    IN [served EXCEPT !.queue[k].last = @ + n]

\* A queue the budget did not empty is flagged again.
\* Mutant of Reflag: the bit stays cleared.
ReflagNot(d, asked) == {}
Reflag(d, asked) == {k \in asked : Pending(d, k) > 0}

RetryOne(d, w) ==
    CASE ~d.queue[w.queue].ready -> d
      [] d.queue[w.queue].ready /\ busy -> [d EXCEPT !.waiters = Append(@, w)]
      [] OTHER -> [PushUsed(d, d.queue[w.queue].ring, w.chain) EXCEPT
                      !.late = @ \/ w.downs # downs[w.queue]]

\* retry_lock_waiters
RetryLockWaiters(d) ==
    FoldLeft(RetryOne, [d EXCEPT !.waiters = <<>>], d.waiters)

\* drain_notified_bounded, but for sync_irq.
Drained(budget) ==
    LET asked == notified
        d == FoldLeft(LAMBDA e, k : ProcessQueue(e, k, budget),
                      [Device EXCEPT !.notified = {}], SetToSeq(asked))
    IN RetryLockWaiters([d EXCEPT !.notified = Reflag(d, asked)])

\* Whether a drain left work.
Remains == notified' # {} \/ waiters' # <<>>

\* Mutant of SyncIrq: a drain leaves the line to the next register access.
SyncIrqNot(d) == line
\* sync_irq at the end of a drain.
SyncIrq(d) == d.irq

Drain(budget) ==
    \E d \in {Drained(budget)} :
       /\ queue' = d.queue /\ notified' = d.notified /\ irq' = d.irq
       /\ waiters' = d.waiters /\ used' = d.used /\ late' = d.late
       /\ line' = SyncIrq(d)

-----------------------------------------------------------------------------
(* Register accesses, each with the sync_irq of mmio.                      *)

\* Mutant of WaitersAfterReset: they are kept.
WaitersAfterResetKept == waiters
WaitersAfterReset == <<>>

NextRing == 1 + Max({0} \union Rings)

\* STATUS 0, of a kernel that starts over, on whichever vCPU: reset.
Resets ==
    /\ \E v \in Vcpus : vcpu[v] = "guest"
    /\ NextRing + Cardinality(Queues) - 1 <= MaxRings
    /\ queue' = [k \in Queues |-> Off]
    /\ irq' = FALSE /\ line' = FALSE /\ notified' = {}
    /\ waiters' = WaitersAfterReset
    /\ driver' = "setup" /\ handler' = "idle"
    /\ ring' = CHOOSE f \in [Queues -> NextRing..(NextRing + Cardinality(Queues) - 1)] :
                   \A j, k \in Queues : j # k => f[j] # f[k]
    /\ kick' = [k \in Queues |-> FALSE]
    /\ seen' = [k \in Queues |-> 0] /\ downs' = [k \in Queues |-> 0]
    /\ UNCHANGED <<threads, avail, used, late, busy>>

\* QUEUE_SEL, QUEUE_NUM, the addresses and QUEUE_READY, the last of which is
\* the one that counts; STATUS once every queue is ready.
SetsUp(k) ==
    /\ driver = "setup" /\ ~queue[k].ready
    /\ queue' = [queue EXCEPT ![k] = [ready |-> TRUE, ring |-> ring[k], last |-> 0]]
    /\ driver' = IF \A j \in Queues \ {k} : queue[j].ready THEN "up" ELSE "setup"
    /\ line' = irq
    /\ UNCHANGED <<notified, irq, waiters, threads, ring, kick, handler, avail, used, seen,
                   downs, late, busy>>

Submits(k, lock) ==
    /\ driver = "up" /\ queue[k].ready /\ Len(avail[ring[k]]) < MaxChains
    /\ avail' = [avail EXCEPT ![ring[k]] =
                    Append(@, [ring |-> ring[k], n |-> Len(@) + 1, lock |-> lock])]
    /\ kick' = [kick EXCEPT ![k] = TRUE]
    /\ UNCHANGED <<device, threads, driver, ring, handler, used, seen, downs, late, busy>>

\* QUEUE_NOTIFY: the index is recorded.
Notifies(v, k) ==
    /\ vcpu[v] = "guest" /\ driver = "up" /\ kick[k]
    /\ notified' = notified \union {k}
    /\ line' = irq
    /\ kick' = [kick EXCEPT ![k] = FALSE]
    /\ vcpu' = [vcpu EXCEPT ![v] = "drains"]
    /\ UNCHANGED <<queue, irq, waiters, woken, worker, waiting, driver, ring, handler, avail,
                   used, seen, downs, late, busy>>

\* The rest of service_fs.
VcpuDrains(v) ==
    /\ vcpu[v] = "drains"
    /\ Drain(Budget)
    /\ woken' = (woken \/ Remains)
    /\ vcpu' = [vcpu EXCEPT ![v] = "guest"]
    /\ UNCHANGED <<worker, waiting, guest, busy>>

\* park, or park_for while a lock is waited for.
WorkerWakes ==
    /\ worker = "parked" /\ (woken \/ waiting)
    /\ woken' = FALSE /\ worker' = "drains"
    /\ UNCHANGED <<device, waiting, vcpu, guest, used, late, busy>>

WorkerDrains ==
    /\ worker = "drains"
    /\ Drain(MaxChains)
    /\ waiting' = (waiters' # <<>>)
    /\ worker' = "parked"
    /\ UNCHANGED <<woken, vcpu, guest, busy>>

\* The driver's handler: INTERRUPT_STATUS, INTERRUPT_ACK, then the used rings.
ReadsStatus ==
    /\ driver = "up" /\ line /\ handler = "idle"
    /\ handler' = "read" /\ line' = irq
    /\ UNCHANGED <<queue, notified, irq, waiters, threads, driver, ring, kick, avail, used,
                   seen, downs, late, busy>>

Acks ==
    /\ handler = "read"
    /\ handler' = "acked" /\ irq' = FALSE /\ line' = FALSE
    /\ UNCHANGED <<queue, notified, waiters, threads, driver, ring, kick, avail, used, seen,
                   downs, late, busy>>

Looks ==
    /\ handler = "acked"
    /\ handler' = "idle"
    /\ seen' = [k \in Queues |-> Len(used[ring[k]])]
    /\ UNCHANGED <<device, threads, driver, ring, kick, avail, used, downs, late, busy>>

\* QUEUE_READY 0, and 1 again on the same ring.
TakesDown(k) ==
    /\ MayTakeDown /\ driver = "up" /\ queue[k].ready /\ downs[k] = 0
    /\ queue' = [queue EXCEPT ![k].ready = FALSE]
    /\ downs' = [downs EXCEPT ![k] = @ + 1]
    /\ line' = irq
    /\ UNCHANGED <<notified, irq, waiters, threads, driver, ring, kick, handler, avail, used,
                   seen, late, busy>>

BringsUp(k) ==
    /\ MayTakeDown /\ driver = "up" /\ ~queue[k].ready
    /\ queue' = [queue EXCEPT ![k].ready = TRUE]
    /\ line' = irq
    /\ UNCHANGED <<notified, irq, waiters, threads, guest, used, late, busy>>

\* A process of the host takes or gives up the lock.
HostLock ==
    /\ busy' = ~busy
    /\ UNCHANGED <<device, threads, guest, used, late>>

Next ==
    \/ Resets \/ WorkerWakes \/ WorkerDrains \/ ReadsStatus \/ Acks \/ Looks \/ HostLock
    \/ \E k \in Queues : SetsUp(k) \/ TakesDown(k) \/ BringsUp(k)
    \/ \E k \in Queues, lock \in BOOLEAN : Submits(k, lock)
    \/ \E v \in Vcpus : VcpuDrains(v) \/ \E k \in Queues : Notifies(v, k)

\* The threads of the VMM go on: a drain ends, and a worker with a reason to
\* run runs.  The guest and the host's processes need not.
DrainEnds(v) == vcpu[v] = "drains" /\ vcpu' = [vcpu EXCEPT ![v] = "guest"]
WorkerEnds == worker = "drains" /\ worker' = "parked"
Fairness ==
    /\ \A v \in Vcpus : WF_vcpu(DrainEnds(v))
    /\ WF_vars(WorkerWakes) /\ WF_worker(WorkerEnds)

Spec == Init /\ [][Next]_vars /\ Fairness

-----------------------------------------------------------------------------
(* Properties.                                                             *)

\* The device returns on a ring only chains the driver put on that ring, each
\* once: a reset of one vCPU between another's notify and its drain, or while a
\* lock is waited for, leaves nothing of the old rings to be answered on the new.
UsedIsOwn ==
    \A r \in Ring :
        /\ \A i \in DOMAIN used[r] : used[r][i] \in Range(avail[r])
        /\ \A i, j \in DOMAIN used[r] : used[r][i] = used[r][j] => i = j

\* While the driver has not looked at something the device returned, the line
\* is high or the driver's handler is on its way to the rings: sync_irq under the
\* mutex and the driver's acknowledgement never lose an interrupt between them.
InterruptIsNotLost ==
    (\E k \in Queues : queue[k].ready /\ seen[k] < Len(used[ring[k]])) =>
        (line \/ handler = "acked")

\* A chain the driver has notified the device of, and one that is taken from the
\* ring, past the budget of the vCPU that was told of it too, or reset away.
Told(k, n) == driver = "up" /\ ~kick[k] /\ Len(avail[ring[k]]) >= n
Taken(k, n) == driver = "setup" \/ queue[k].last >= n

=============================================================================
