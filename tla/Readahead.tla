----------------------------- MODULE Readahead -----------------------------
(***************************************************************************)
(* The READDIRPLUS readahead of the virtio-fs server                       *)
(* (devices/virtio/fs/server.rs): worker threads read and stat directories *)
(* ahead of the guest, one serving thread requests them, takes them and,   *)
(* before a request that may change the share, throws them away.           *)
(*                                                                         *)
(* A step is what a thread does while it holds the lock, or one of the     *)
(* host calls a worker makes without it.  The counters `posted` and        *)
(* `generation` are compared only with a value a worker loaded before, so  *)
(* each worker carries whether they have moved since.                      *)
(***************************************************************************)
EXTENDS Naturals, Sequences, FiniteSets, SequencesExt, TLC

CONSTANTS Workers, Dirs,
          Children,     \* the subdirectories of a directory, in listing order
          MaxQueued,    \* READAHEAD_MAX_QUEUED
          SubdirsPerDir, MaxDirs,
          Depth,        \* READAHEAD_DEPTH
          MaxChanges    \* changes of the names, and of the stats, of a directory

VARIABLES
    queue, order, inFlight, skip, cache,
    stopping, stopped,
    worker,     \* a worker: where it is, and what it has read
    server,     \* the serving thread: idle, waiting for a listing, changing the share
    names,      \* the host: the version of a directory's names, which its ctime follows
    stats,      \* the host: the version of what the stats of its entries return
    guestStats, \* the version of the stats after the guest's last change
    served      \* whether a listing served was out of date

ra == <<queue, order, inFlight, skip, cache>>
host == <<names, stats, guestStats>>
vars == <<ra, stopping, stopped, worker, server, host, served>>

Nothing == [path |-> "", depth |-> 0, outdated |-> FALSE, moved |-> FALSE,
            ctime |-> 0, names |-> 0, stats |-> 0, found |-> FALSE]
At(pc) == Nothing @@ [pc |-> pc]
Idle == [pc |-> "idle", path |-> ""]

Init ==
    /\ queue = <<>> /\ order = <<>> /\ inFlight = {} /\ skip = {}
    /\ cache = [d \in {} |-> Nothing]
    /\ stopping = FALSE /\ stopped = FALSE
    /\ worker = [w \in Workers |-> At("lock")]
    /\ server = Idle
    /\ names = [d \in Dirs |-> 0] /\ stats = [d \in Dirs |-> 0]
    /\ guestStats = [d \in Dirs |-> 0]
    /\ served = TRUE

Queued(q) == {q[i].path : i \in DOMAIN q}
Without(f, d) == [e \in DOMAIN f \ {d} |-> f[e]]

-----------------------------------------------------------------------------

\* A full queue drops the entry queued earliest.
Dropped(q) == IF Len(q) >= MaxQueued THEN Tail(q) ELSE q

\* ReadaheadState::push.
Push(q, d, depth) ==
    LET again == {i \in DOMAIN q : q[i].path = d}
        least == IF \E i \in again : q[i].depth < depth
                 THEN q[CHOOSE i \in again : TRUE].depth ELSE depth
    IN  Append(Dropped(SelectSeq(q, LAMBDA e : e.path # d)), [path |-> d, depth |-> least])

\* ReadaheadState::queue_subdirs, the first in listing order on top.
QueueSubdirs(q, d, depth) ==
    LET kids == SubSeq(Children[d], 1, IF Len(Children[d]) < SubdirsPerDir
                                       THEN Len(Children[d]) ELSE SubdirsPerDir)
        wanted == SelectSeq(kids, LAMBDA k : k \notin DOMAIN cache /\ k \notin inFlight)
    IN  FoldRight(LAMBDA k, q0 : Push(q0, k, depth), wanted, q)

\* ReadaheadState::mark_served.
MarkServed(d) == IF d \in inFlight \cup Queued(queue) THEN skip \cup {d} ELSE skip

\* skip.clear() once no worker can reach anything.
Swept(q, flying, s) == IF q = <<>> /\ flying = {} THEN {} ELSE s

\* Mutant of Posted: the counter stays where it is.
PostedNot(ws) == ws

\* posted.fetch_add: a worker that spins sees the counter move.
Posted(ws) == [w \in Workers |-> IF ws[w].pc = "spin" THEN [ws[w] EXCEPT !.moved = TRUE]
                                 ELSE ws[w]]
NotifyAll(ws) == [w \in Workers |-> IF ws[w].pc = "parked" THEN At("lock") ELSE ws[w]]
NotifyOne(ws, after) ==
    IF \E w \in Workers : ws[w].pc = "parked"
    THEN \E w \in Workers : ws[w].pc = "parked" /\ after = [ws EXCEPT ![w] = At("lock")]
    ELSE after = ws

-----------------------------------------------------------------------------
(* Readahead::worker *)

Exit(w) ==
    /\ worker[w].pc = "lock" /\ stopped
    /\ worker' = [worker EXCEPT ![w] = At("exited")]
    /\ UNCHANGED <<ra, stopping, stopped, server, host, served>>

\* The queue is empty: load `posted`, let go of the lock and spin.
Spin(w) ==
    /\ worker[w].pc = "lock" /\ ~stopped /\ queue = <<>>
    /\ worker' = [worker EXCEPT ![w] = At("spin")]
    /\ UNCHANGED <<ra, stopping, stopped, server, host, served>>

\* The counter moved or the time is up; park unless it moved.
Park(w) ==
    /\ worker[w].pc = "spin"
    /\ worker' = [worker EXCEPT ![w] =
         At(IF worker[w].moved \/ stopped THEN "lock" ELSE "parked")]
    /\ UNCHANGED <<ra, stopping, stopped, server, host, served>>

\* Take the most recent entry, unless it was served, prepared or begun already.
TakeWork(w) ==
    /\ worker[w].pc = "lock" /\ ~stopped /\ queue # <<>>
    /\ LET e == Last(queue) d == e.path q == Front(queue)
       IN  /\ queue' = q
           /\ IF d \in skip \/ d \in DOMAIN cache \/ d \in inFlight
              THEN /\ skip' = Swept(q, inFlight, skip \ {d})
                   /\ UNCHANGED <<inFlight, worker>>
              ELSE /\ inFlight' = inFlight \cup {d}
                   /\ worker' = [worker EXCEPT ![w] =
                        [At("open") EXCEPT !.path = d, !.depth = e.depth]]
                   /\ UNCHANGED skip
    /\ UNCHANGED <<order, cache, stopping, stopped, server, host, served>>

\* open_entry_nofollow and the start of prepare_dir: the change time first.
Open(w) ==
    /\ worker[w].pc = "open"
    /\ \/ worker' = [worker EXCEPT ![w].pc = "list", ![w].ctime = names[worker[w].path]]
       \/ worker' = [worker EXCEPT ![w].pc = "store"]
    /\ UNCHANGED <<ra, stopping, stopped, server, host, served>>
List(w) ==
    /\ worker[w].pc = "list"
    /\ worker' = [worker EXCEPT ![w].pc = "stat", ![w].names = names[worker[w].path]]
    /\ UNCHANGED <<ra, stopping, stopped, server, host, served>>
StatEntries(w) ==
    /\ worker[w].pc = "stat"
    /\ worker' = [worker EXCEPT ![w].pc = "store", ![w].found = ~stopping,
                               ![w].stats = stats[worker[w].path]]
    /\ UNCHANGED <<ra, stopping, stopped, server, host, served>>

\* guard.generation == generation
Current(r) == ~r.outdated

\* Back under the lock with what was read.
Store(w) ==
    LET r == worker[w] d == r.path
        keep == r.found /\ d \notin skip /\ Current(r)
        full == Cardinality(DOMAIN cache) >= MaxDirs
        \* DOMAIN cache and order hold the same directories, so one goes.
        kept == IF full THEN Without(cache, Head(order)) ELSE cache
        flying == inFlight \ {d}
    IN  /\ r.pc = "store"
        /\ inFlight' = flying /\ skip' = Swept(queue, flying, skip \ {d})
        /\ IF keep
           THEN /\ queue' = IF r.depth < Depth THEN QueueSubdirs(queue, d, r.depth + 1) ELSE queue
                /\ order' = Append(IF full THEN Tail(order) ELSE order, d)
                /\ cache' = [e \in DOMAIN kept \cup {d} |->
                               IF e = d THEN [ctime |-> r.ctime, names |-> r.names, stats |-> r.stats]
                               ELSE kept[e]]
                /\ worker' = NotifyAll(Posted([worker EXCEPT ![w] = At("lock")]))
           ELSE /\ UNCHANGED <<queue, order, cache>>
                /\ worker' = [worker EXCEPT ![w] = At("lock")]
        /\ UNCHANGED <<stopping, stopped, server, host, served>>

-----------------------------------------------------------------------------
(* The serving thread *)

\* Readahead::request.
Request(d) ==
    /\ server.pc = "idle"
    /\ d \notin DOMAIN cache /\ d \notin inFlight
    /\ skip' = skip \ {d} /\ queue' = Push(queue, d, 0)
    /\ NotifyOne(Posted(worker), worker')
    /\ UNCHANGED <<order, inFlight, cache, stopping, stopped, server, host, served>>

\* A prepared listing is served when the directory's change time is the one it
\* was read under (fh0_listing_for).
Serve(d) ==
    /\ cache' = Without(cache, d)
    /\ order' = IF d \in Range(order) THEN RemoveAt(order, CHOOSE i \in DOMAIN order : order[i] = d)
                ELSE order
    /\ skip' = MarkServed(d)
    /\ served' = (cache[d].ctime = names[d] =>
                    cache[d].names = names[d] /\ cache[d].stats >= guestStats[d])

\* Readahead::take, when the listing is there, and when it has to wait for it.
Take(d) ==
    /\ server.pc = "idle"
    /\ \/ d \in DOMAIN cache /\ Serve(d) /\ UNCHANGED server
       \/ /\ d \notin DOMAIN cache
          /\ IF d \in inFlight THEN server' = [pc |-> "waiting", path |-> d] /\ UNCHANGED skip
             ELSE skip' = MarkServed(d) /\ UNCHANGED server
          /\ UNCHANGED <<cache, order, served>>
    /\ UNCHANGED <<queue, inFlight, stopping, stopped, worker, host>>

\* The worker is done with it, or READAHEAD_WAIT has passed.
WaitEnds ==
    /\ server.pc = "waiting" /\ server' = Idle
    /\ IF server.path \in DOMAIN cache THEN Serve(server.path)
       ELSE skip' = MarkServed(server.path) /\ UNCHANGED <<cache, order, served>>
    /\ UNCHANGED <<queue, inFlight, stopping, stopped, worker, host>>

\* Mutant of Cleared: the requests stay queued.
ClearedNot(q) == q

\* invalidate empties the queue too.
Cleared(q) == <<>>

\* Readahead::invalidate, before a request that may change the share.
Invalidate ==
    /\ server.pc = "idle" /\ server' = [pc |-> "changing", path |-> ""]
    /\ queue' = Cleared(queue) /\ skip' = {} /\ order' = <<>>
    /\ cache' = [d \in {} |-> Nothing]
    /\ worker' = [w \in Workers |->
         IF worker[w].pc \in {"open", "list", "stat", "store"}
         THEN [worker[w] EXCEPT !.outdated = TRUE] ELSE worker[w]]
    /\ UNCHANGED <<inFlight, stopping, stopped, host, served>>

\* That request, once the readahead is empty.
Change(d) ==
    /\ server.pc = "changing" /\ server' = Idle
    /\ \/ /\ stats[d] < MaxChanges /\ stats' = [stats EXCEPT ![d] = @ + 1]
          /\ guestStats' = [guestStats EXCEPT ![d] = stats[d] + 1] /\ UNCHANGED names
       \/ /\ names[d] < MaxChanges /\ names' = [names EXCEPT ![d] = @ + 1]
          /\ UNCHANGED <<stats, guestStats>>
       \/ UNCHANGED host
    /\ UNCHANGED <<ra, stopping, stopped, worker, served>>

\* Another process of the host changes the names of a directory.
HostChange(d) ==
    /\ names[d] < MaxChanges /\ names' = [names EXCEPT ![d] = @ + 1]
    /\ UNCHANGED <<ra, stopping, stopped, worker, server, stats, guestStats, served>>

\* ReadaheadShared::stop, from the boot thread or from the drop of the device.
StopFlag ==
    /\ ~stopping /\ stopping' = TRUE
    /\ UNCHANGED <<ra, stopped, worker, server, host, served>>

\* Mutant of StopNotify: the parked workers are left to sleep.
StopNotifyNot ==
    /\ stopping /\ ~stopped /\ stopped' = TRUE
    /\ UNCHANGED <<ra, stopping, worker, server, host, served>>

\* The rest of it: the lock, the counter, the parked workers.
StopNotify ==
    /\ stopping /\ ~stopped /\ stopped' = TRUE
    /\ worker' = NotifyAll(Posted(worker))
    /\ UNCHANGED <<ra, stopping, server, host, served>>

-----------------------------------------------------------------------------
WorkerStep(w) == Exit(w) \/ Spin(w) \/ Park(w) \/ TakeWork(w) \/ Open(w) \/ List(w)
                 \/ StatEntries(w) \/ Store(w)
Serving == \/ \E d \in Dirs : Request(d) \/ Take(d) \/ Change(d)
           \/ WaitEnds \/ Invalidate
Next == \/ \E w \in Workers : WorkerStep(w)
        \/ Serving \/ StopFlag \/ StopNotify
        \/ \E d \in Dirs : HostChange(d)

Spec == Init /\ [][Next]_vars

\* A worker thread is scheduled, and a lock or host call it makes returns; a
\* stop that has begun is carried through.
FairSpec == Spec /\ \A w \in Workers : WF_vars(WorkerStep(w)) /\ WF_vars(StopNotify)

-----------------------------------------------------------------------------
(* Properties. *)

\* A prepared listing the guest gets holds the directory's names as they are
\* and no stat from before the guest's own last change, although the listing
\* is read in several host calls while the guest goes on: whatever a worker
\* began before the change is dropped, and nothing begins before the change
\* is made, for the queue is empty until the serving thread fills it again.
ServedIsCurrent == served

\* No wake-up is lost: while a directory is queued, some worker will look at
\* the queue again without being notified.
QueuedIsSeen ==
    queue # <<>> /\ ~stopped =>
        \E w \in Workers : worker[w].pc \notin {"parked", "exited", "spin"}
                           \/ (worker[w].pc = "spin" /\ worker[w].moved)

\* The eviction order lists each prepared directory once, a directory is read
\* by one worker at a time and is never both prepared and in flight, and the
\* bounds hold.
CacheAgrees ==
    /\ IsInjective(order) /\ Range(order) = DOMAIN cache /\ Len(order) <= MaxDirs
    /\ Len(queue) <= MaxQueued /\ IsInjective([i \in DOMAIN queue |-> queue[i].path])
    /\ inFlight = {worker[w].path : w \in {v \in Workers :
                      worker[v].pc \in {"open", "list", "stat", "store"}}}
    /\ Cardinality(inFlight) = Cardinality({v \in Workers :
                      worker[v].pc \in {"open", "list", "stat", "store"}})
    /\ inFlight \cap DOMAIN cache = {}

=============================================================================
