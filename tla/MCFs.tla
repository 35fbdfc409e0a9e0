-------------------------------- MODULE MCFs --------------------------------
(***************************************************************************)
(* The file server, for TLC: its nodes and names, its descriptors,         *)
(* listings and caches, the sync requests, the direct path, the readahead  *)
(* threads, the locks and the device's queues. They share no state here,   *)
(* so a behaviour is of one of them, `part`, and the variables of the      *)
(* others rest.                                                            *)
(***************************************************************************)
EXTENDS FsSync

CONSTANTS Parts

VARIABLES part, ent, dirs, ino, made, nodes, ids, next, handles2, sockets, nextSock, born, at,
          version, node, next2, handles3, dirh, parked, order, ticks, dirs2, holds, version2,
          ctime, prepared, listing, order2, finished, reader, guestSaw, servedStale, child,
          next3, cache2, recent, file, stored, named, cached, ahead, orphan, open, want, input,
          output, req, host, file2, memory, used, pc, queue, order3, inFlight, skip, cache3, stopping,
          stopped, worker, server, names, stats, guestStats, served, ring, kick, notified,
          waiters, woken, stopped2, worker2, vcpu, held, host2, open2, proc, queue2, notified2,
          irq, waiters2, line, woken2, worker3, waiting, vcpu2, driver, ring2, kick2, handler,
          avail, used2, seen, downs, late, busy

SubDirs == [d \in {"a", "b"} |-> IF d = "a" THEN <<"b">> ELSE <<>>]

\* Lock, write under it and unlock; share, convert and unlock.
Flocks(runs) == [call : {"Flock"}, run : runs]
Records(runs) == [call : {"Posix"}, run : runs]
Exclusive == <<"EX", "WRITE", "UN">>
Shared == <<"SH", "WRITE", "UN">>
Convert == <<"SH", "EX", "UN">>
LockPrograms == Flocks({Exclusive, Convert}) \cup Records({Exclusive, Convert})

Tree == INSTANCE FsTree
    WITH Names <- {"a", "b"}, TmpName <- "t", MaxFiles <- 2, RootIno <- "r",
         Inos <- {"i1", "i2"}, MaxNode <- 3, MaxAliases <- 2, MaxLookups <- 1, MaxHandles <- 1,
         MaxSockets <- 0, MaxTmps <- 0, HostActs <- FALSE, handles <- handles2
TreeH == INSTANCE FsTree
    WITH Names <- {"a", "b"}, TmpName <- "t", MaxFiles <- 2, RootIno <- "r",
         Inos <- {"i1", "i2"}, MaxNode <- 2, MaxAliases <- 2, MaxLookups <- 1, MaxHandles <- 2,
         MaxSockets <- 0, MaxTmps <- 0, HostActs <- TRUE, handles <- handles2
TreeS == INSTANCE FsTree
    WITH Names <- {"a", "b"}, TmpName <- "t", MaxFiles <- 1, RootIno <- "r",
         Inos <- {"i1", "i2"}, MaxNode <- 3, MaxAliases <- 2, MaxLookups <- 1, MaxHandles <- 1,
         MaxSockets <- 2, MaxTmps <- 1, HostActs <- FALSE, handles <- handles2
Fds == INSTANCE FsFiles
    WITH Names <- {"x", "y"}, Files <- {"f", "g"}, Flags <- {"r"}, HandleLimit <- 2,
         ParkedLimit <- 2, DirLimit <- 0, MaxNode <- 2, MaxVersion <- 1, MaxTicks <- 2,
         MaxOpen <- 2, Creates <- FALSE, EarlyForget <- TRUE, next <- next2,
         handles <- handles3, dirs <- dirs2
Order == INSTANCE FsFiles
    WITH Names <- {"x"}, Files <- {"f"}, Flags <- {"w"}, HandleLimit <- 2,
         ParkedLimit <- 1, DirLimit <- 1, MaxNode <- 2, MaxVersion <- 1, MaxTicks <- 6,
         MaxOpen <- 1, Creates <- TRUE, EarlyForget <- FALSE, next <- next2,
         handles <- handles3, dirs <- dirs2
List == INSTANCE FsListing
    WITH Dirs <- {"d"}, MaxName <- 2, PageMax <- 2, ListingsMax <- 1, CacheSeconds <- 1,
         MaxVersion <- 1, version <- version2, order <- order2
Lists == INSTANCE FsListing
    WITH Dirs <- {"d", "e", "f"}, MaxName <- 1, PageMax <- 2, ListingsMax <- 2,
         CacheSeconds <- 0, MaxVersion <- 0, version <- version2, order <- order2
DirC == INSTANCE DirCache
    WITH Names <- {"a", "b"}, MaxDirs <- 4, Limit <- 2, MaxTicks <- 4, HostRemovals <- FALSE,
         next <- next3, cache <- cache2
Attr == INSTANCE FsAttr
    WITH HostFails <- FALSE, HostUnlinks <- FALSE, CreateKnown <- FALSE
Dir1 == INSTANCE FsDirect
    WITH InLens <- {1, 4}, OutLens <- {1, 3}, MaxIn <- 3, MaxOut <- 2, MaxUnits <- 7,
         MaxBad <- 1, Declared <- {4, 6, 8}, Sizes <- {0, 2, 3}, Offsets <- {1},
         IN_HEADER_LEN <- 2, OUT_HEADER_LEN <- 2, WriteIn <- 2, Args <- 1, MAX_WRITE <- 2,
         MAX_REQUEST <- 6, IOV_MAX <- 2, FileLen <- 4, file <- file2
Ra == INSTANCE Readahead
    WITH Workers <- {"v", "w"}, Dirs <- {"a", "b"}, Children <- SubDirs, MaxQueued <- 1,
         SubdirsPerDir <- 1, MaxDirs <- 1, Depth <- 1, MaxChanges <- 0, order <- order3,
         cache <- cache3
RaC == INSTANCE Readahead
    WITH Workers <- {"v"}, Dirs <- {"a", "b"}, Children <- SubDirs, MaxQueued <- 1,
         SubdirsPerDir <- 1, MaxDirs <- 1, Depth <- 1, MaxChanges <- 1, order <- order3,
         cache <- cache3
Lock3 == INSTANCE FsLocks
    WITH Procs <- {"p", "q", "r"}, Vcpus <- {"v"}, Handle <- [p \in {"p", "q", "r"} |-> p],
         FileOf <- [p \in {"p", "q", "r"} |-> p], Programs <- LockPrograms, Size <- 16,
         Budget <- 1, HostMay <- FALSE, MayStop <- FALSE, stopped <- stopped2,
         worker <- worker2, host <- host2, open <- open2
Lock2 == INSTANCE FsLocks
    WITH Procs <- {"p", "q"}, Vcpus <- {"v", "w"}, Handle <- [p \in {"p", "q"} |-> p],
         FileOf <- [p \in {"p", "q"} |-> p], Programs <- LockPrograms, Size <- 16, Budget <- 1,
         HostMay <- TRUE, MayStop <- FALSE, stopped <- stopped2, worker <- worker2,
         host <- host2, open <- open2
LockS == INSTANCE FsLocks
    WITH Procs <- {"p", "q"}, Vcpus <- {"v"}, Handle <- [p \in {"p", "q"} |-> "h"],
         FileOf <- [h \in {"h"} |-> "h"],
         Programs <- Flocks({<<"EX", "UN">>, <<"EX", "RELEASE">>}),
         Size <- 16, Budget <- 1, HostMay <- TRUE, MayStop <- TRUE, stopped <- stopped2,
         worker <- worker2, host <- host2, open <- open2
LockL == INSTANCE FsLocks
    WITH Procs <- {"p", "q"}, Vcpus <- {"v"}, Handle <- [p \in {"p", "q"} |-> p],
         FileOf <- [p \in {"p", "q"} |-> p],
         Programs <- Flocks({Exclusive, Convert, Shared}) \cup Records({Exclusive, Shared}),
         Size <- 32, Budget <- 1, HostMay <- TRUE, MayStop <- FALSE, stopped <- stopped2,
         worker <- worker2, host <- host2, open <- open2
Trans == INSTANCE FsTransport
    WITH Vcpus <- {"v"}, Queues <- {"q"}, Budget <- 1, Cap <- 1, MaxRings <- 2, MaxChains <- 2,
         MayTakeDown <- TRUE, queue <- queue2, notified <- notified2, waiters <- waiters2,
         woken <- woken2, worker <- worker3, vcpu <- vcpu2, ring <- ring2, kick <- kick2,
         used <- used2
Trans2 == INSTANCE FsTransport
    WITH Vcpus <- {"v", "w"}, Queues <- {"q"}, Budget <- 1, Cap <- 1, MaxRings <- 2,
         MaxChains <- 1, MayTakeDown <- TRUE, queue <- queue2, notified <- notified2,
         waiters <- waiters2, woken <- woken2, worker <- worker3, vcpu <- vcpu2, ring <- ring2,
         kick <- kick2, used <- used2
TransL == INSTANCE FsTransport
    WITH Vcpus <- {"v"}, Queues <- {"q"}, Budget <- 1, Cap <- 1, MaxRings <- 1, MaxChains <- 2,
         MayTakeDown <- FALSE, queue <- queue2, notified <- notified2, waiters <- waiters2,
         woken <- woken2, worker <- worker3, vcpu <- vcpu2, ring <- ring2, kick <- kick2,
         used <- used2

\* The variables by the components that have them, and their value in the parts
\* that have not.
ofFsTree == <<ent, dirs, ino, made, nodes, ids, next, handles2, sockets, nextSock, born>>
NoFsTree == ent = 0 /\ dirs = 0 /\ ino = 0 /\ made = 0 /\ nodes = 0 /\ ids = 0 /\ next = 0 /\
    handles2 = 0 /\ sockets = 0 /\ nextSock = 0 /\ born = 0
ofFsFiles == <<at, version, node, next2, handles3, dirh, parked, order, ticks, dirs2>>
NoFsFiles == at = 0 /\ version = 0 /\ node = 0 /\ next2 = 0 /\ handles3 = 0 /\ dirh = 0 /\
    parked = 0 /\ order = 0 /\ ticks = 0 /\ dirs2 = 0
ofFsListing == <<holds, version2, ctime, prepared, listing, order2, finished, reader, guestSaw,
                 servedStale>>
NoFsListing == holds = 0 /\ version2 = 0 /\ ctime = 0 /\ prepared = 0 /\ listing = 0 /\
    order2 = 0 /\ finished = 0 /\ reader = 0 /\ guestSaw = 0 /\ servedStale = 0
ofDirCache == <<child, next3, cache2, recent>>
NoDirCache == child = 0 /\ next3 = 0 /\ cache2 = 0 /\ recent = 0
ofFsAttr == <<file, stored, named, cached, ahead, orphan, open, want>>
NoFsAttr == file = 0 /\ stored = 0 /\ named = 0 /\ cached = 0 /\ ahead = 0 /\ orphan = 0 /\
    open = 0 /\ want = 0
ofFsDirect == <<input, output, req, host, file2, memory, used, pc>>
NoFsDirect == input = 0 /\ output = 0 /\ req = 0 /\ host = 0 /\ file2 = 0 /\ memory = 0 /\
    used = 0 /\ pc = 0
ofReadahead == <<queue, order3, inFlight, skip, cache3, stopping, stopped, worker, server,
                 names, stats, guestStats, served>>
NoReadahead == queue = 0 /\ order3 = 0 /\ inFlight = 0 /\ skip = 0 /\ cache3 = 0 /\
    stopping = 0 /\ stopped = 0 /\ worker = 0 /\ server = 0 /\ names = 0 /\ stats = 0 /\
    guestStats = 0 /\ served = 0
ofFsLocks == <<ring, kick, notified, waiters, woken, stopped2, worker2, vcpu, held, host2,
               open2, proc>>
NoFsLocks == ring = 0 /\ kick = 0 /\ notified = 0 /\ waiters = 0 /\ woken = 0 /\ stopped2 = 0 /\
    worker2 = 0 /\ vcpu = 0 /\ held = 0 /\ host2 = 0 /\ open2 = 0 /\ proc = 0
ofFsTransport == <<queue2, notified2, irq, waiters2, line, woken2, worker3, waiting, vcpu2,
                   driver, ring2, kick2, handler, avail, used2, seen, downs, late, busy>>
NoFsTransport == queue2 = 0 /\ notified2 = 0 /\ irq = 0 /\ waiters2 = 0 /\ line = 0 /\
    woken2 = 0 /\ worker3 = 0 /\ waiting = 0 /\ vcpu2 = 0 /\ driver = 0 /\ ring2 = 0 /\
    kick2 = 0 /\ handler = 0 /\ avail = 0 /\ used2 = 0 /\ seen = 0 /\ downs = 0 /\ late = 0 /\
    busy = 0
all == <<part, vars, ofFsTree, ofFsFiles, ofFsListing, ofDirCache, ofFsAttr, ofFsDirect,
         ofReadahead, ofFsLocks, ofFsTransport>>

\* A step of one part leaves the variables of the others alone.
InFsSync(p, A) == part = p /\ A /\ UNCHANGED <<part, ofFsTree, ofFsFiles, ofFsListing,
    ofDirCache, ofFsAttr, ofFsDirect, ofReadahead, ofFsLocks, ofFsTransport>>
InFsTree(p, A) == part = p /\ A /\ UNCHANGED <<part, vars, ofFsFiles, ofFsListing, ofDirCache,
    ofFsAttr, ofFsDirect, ofReadahead, ofFsLocks, ofFsTransport>>
InFsFiles(p, A) == part = p /\ A /\ UNCHANGED <<part, vars, ofFsTree, ofFsListing, ofDirCache,
    ofFsAttr, ofFsDirect, ofReadahead, ofFsLocks, ofFsTransport>>
InFsListing(p, A) == part = p /\ A /\ UNCHANGED <<part, vars, ofFsTree, ofFsFiles, ofDirCache,
    ofFsAttr, ofFsDirect, ofReadahead, ofFsLocks, ofFsTransport>>
InDirCache(p, A) == part = p /\ A /\ UNCHANGED <<part, vars, ofFsTree, ofFsFiles, ofFsListing,
    ofFsAttr, ofFsDirect, ofReadahead, ofFsLocks, ofFsTransport>>
InFsAttr(p, A) == part = p /\ A /\ UNCHANGED <<part, vars, ofFsTree, ofFsFiles, ofFsListing,
    ofDirCache, ofFsDirect, ofReadahead, ofFsLocks, ofFsTransport>>
InFsDirect(p, A) == part = p /\ A /\ UNCHANGED <<part, vars, ofFsTree, ofFsFiles, ofFsListing,
    ofDirCache, ofFsAttr, ofReadahead, ofFsLocks, ofFsTransport>>
InReadahead(p, A) == part = p /\ A /\ UNCHANGED <<part, vars, ofFsTree, ofFsFiles, ofFsListing,
    ofDirCache, ofFsAttr, ofFsDirect, ofFsLocks, ofFsTransport>>
InFsLocks(p, A) == part = p /\ A /\ UNCHANGED <<part, vars, ofFsTree, ofFsFiles, ofFsListing,
    ofDirCache, ofFsAttr, ofFsDirect, ofReadahead, ofFsTransport>>
InFsTransport(p, A) == part = p /\ A /\ UNCHANGED <<part, vars, ofFsTree, ofFsFiles,
    ofFsListing, ofDirCache, ofFsAttr, ofFsDirect, ofReadahead, ofFsLocks>>

\* The processes of the lock parts are alike, so that the ones that convert may be
\* taken to be the first.
Alike ==
    /\ proc["q"].run = Convert => proc["p"].run = Convert
    /\ "r" \in DOMAIN proc /\ proc["r"].run = Convert => proc["q"].run = Convert

MCInit ==
    /\ part \in Parts
    /\ \/ part = "sync" /\ Init /\ NoFsTree /\ NoFsFiles /\ NoFsListing /\ NoDirCache /\ NoFsAttr /\
           NoFsDirect /\ NoReadahead /\ NoFsLocks /\ NoFsTransport
       \/ ((part = "tree" /\ Tree!Init) \/ (part = "tree_host" /\ TreeH!Init) \/
           (part = "tree_sockets" /\ TreeS!Init))
          /\ Init /\ ~writable /\ NoFsFiles /\ NoFsListing /\ NoDirCache /\ NoFsAttr /\
             NoFsDirect /\ NoReadahead /\ NoFsLocks /\ NoFsTransport
       \/ ((part = "files" /\ Fds!Init) \/ (part = "order" /\ Order!Init))
          /\ Init /\ ~writable /\ NoFsTree /\ NoFsListing /\ NoDirCache /\ NoFsAttr /\
             NoFsDirect /\ NoReadahead /\ NoFsLocks /\ NoFsTransport
       \/ ((part = "listing" /\ List!Init) \/ (part = "listings" /\ Lists!Init))
          /\ Init /\ ~writable /\ NoFsTree /\ NoFsFiles /\ NoDirCache /\ NoFsAttr /\
             NoFsDirect /\ NoReadahead /\ NoFsLocks /\ NoFsTransport
       \/ part = "dirs" /\ DirC!Init /\ Init /\ ~writable /\ NoFsTree /\ NoFsFiles /\ NoFsListing /\
           NoFsAttr /\ NoFsDirect /\ NoReadahead /\ NoFsLocks /\ NoFsTransport
       \/ part = "attr" /\ Attr!Init /\ Init /\ ~writable /\ NoFsTree /\ NoFsFiles /\ NoFsListing /\
           NoDirCache /\ NoFsDirect /\ NoReadahead /\ NoFsLocks /\ NoFsTransport
       \/ part = "direct" /\ Dir1!Init /\ Init /\ ~writable /\ NoFsTree /\ NoFsFiles /\ NoFsListing /\
           NoDirCache /\ NoFsAttr /\ NoReadahead /\ NoFsLocks /\ NoFsTransport
       \/ ((part = "workers" /\ Ra!Init) \/ (part = "changes" /\ RaC!Init))
          /\ Init /\ ~writable /\ NoFsTree /\ NoFsFiles /\ NoFsListing /\ NoDirCache /\
             NoFsAttr /\ NoFsDirect /\ NoFsLocks /\ NoFsTransport
       \/ ((part = "locks" /\ Lock3!Init /\ Alike) \/ (part = "threads" /\ Lock2!Init /\ Alike) \/
           (part = "stop" /\ LockS!Init) \/ (part = "locks_live" /\ LockL!Init))
          /\ Init /\ ~writable /\ NoFsTree /\ NoFsFiles /\ NoFsListing /\ NoDirCache /\
             NoFsAttr /\ NoFsDirect /\ NoReadahead /\ NoFsTransport
       \/ ((part = "queue" /\ Trans!Init) \/ (part = "queues" /\ Trans2!Init) \/
           (part = "first" /\ TransL!Init) \/ (part = "second" /\ TransL!Init))
          /\ Init /\ ~writable /\ NoFsTree /\ NoFsFiles /\ NoFsListing /\ NoDirCache /\
             NoFsAttr /\ NoFsDirect /\ NoReadahead /\ NoFsLocks
MCNext == \/ InFsSync("sync", Next) \/ InFsTree("tree", Tree!Next)
          \/ InFsTree("tree_host", TreeH!Next) \/ InFsTree("tree_sockets", TreeS!Next)
          \/ InFsFiles("files", Fds!Next) \/ InFsFiles("order", Order!Next)
          \/ InFsListing("listing", List!Next) \/ InFsListing("listings", Lists!Next)
          \/ InDirCache("dirs", DirC!Next) \/ InFsAttr("attr", Attr!Next)
          \/ InFsDirect("direct", Dir1!Next) \/ InReadahead("workers", Ra!Next)
          \/ InReadahead("changes", RaC!Next) \/ InFsLocks("locks", Lock3!Next)
          \/ InFsLocks("threads", Lock2!Next) \/ InFsLocks("stop", LockS!Next)
          \/ InFsLocks("locks_live", LockL!Next) \/ InFsTransport("queue", Trans!Next)
          \/ InFsTransport("queues", Trans2!Next) \/ InFsTransport("first", TransL!Next)
          \/ InFsTransport("second", TransL!Next)
MCSpec == MCInit /\ [][MCNext]_all

\* The threads are scheduled, a guest process that can go on does, and the host's
\* process does not keep the lock for good: see the components' own FairSpec.  One
\* conjunct stands for a thread of every part.
Locks(A) == InFsLocks("locks_live", A)
Ahead(A) == InReadahead("workers", A)
Queue(A) == InFsTransport("first", A) \/ InFsTransport("second", A)
Live ==
    /\ MCSpec
    /\ WF_all(\/ Locks(LockL!WorkerStep) \/ Ahead(Ra!WorkerStep("v")) \/ Queue(TransL!WorkerWakes))
    /\ WF_all(\/ Locks(LockL!VcpuStep("v")) \/ Ahead(Ra!WorkerStep("w")) \/ Queue(TransL!WorkerDrains))
    /\ WF_all(\/ Locks(LockL!Post("p")) \/ Ahead(Ra!StopNotify) \/ Queue(TransL!VcpuDrains("v")))
    /\ WF_all(Locks(LockL!Post("q"))) /\ WF_all(Locks(LockL!HostUnlock))

-----------------------------------------------------------------------------
(* Properties. *)

\* The node tree answers for the guest's own files: a path leads where it says,
\* a file has one node, a rename or an unlink moves every name it should, and what
\* is forgotten leaves nothing behind (devices/virtio/fs/server.rs, nodes).
TreeIsSound ==
    /\ part = "tree" => /\ Tree!TypeOK /\ Tree!PathsLead /\ Tree!AnswersOwnFile
                        /\ Tree!OneNodePerFile
    /\ part = "tree_host" => TreeH!NothingLeftBehind /\ TreeH!AliasesBounded
    /\ part = "tree_sockets" => TreeS!NothingLeftBehind /\ TreeS!AliasesBounded

\* Descriptors stay in their budget, a parked one can always be evicted and is of a
\* file that still has its name (take_parked, evict_parked).
DescriptorsAreBounded ==
    /\ part = "files" => /\ Fds!EveryParkedIsEvictable /\ Fds!WithinBudget
                         /\ Fds!NoOrphanIsParked
    /\ part = "order" => /\ Order!OrderBounded /\ Order!EveryParkedIsEvictable
                         /\ Order!NoOrphanIsParked

\* What is cached agrees with the host: a listing names each entry once and carries
\* no stat older than the timeout, a cached directory is the one its path leads to
\* and the least used one goes, and the guest's attributes are the stored ones
\* (fh0_listings, DirCache, guest_attr).
CachesAreCurrent ==
    /\ part = "listing" => List!ListedOnce /\ List!NoStaleStats
    /\ part = "listings" => Lists!ListingsBounded
    /\ part = "dirs" => DirC!CachedIsCurrent /\ DirC!HeldAtMostLimit /\ DirC!LeastUsedGoes
    /\ part = "attr" => Attr!CacheIsCurrent /\ Attr!GuestGetsItsOwn

\* No step answers an open from a descriptor of another file, evicts a listing that
\* is being read before one that was read, or touches a host file's set-id bit.
StepsAreCareful ==
    [][/\ part = "files" => Fds!OpenIsFresh
       /\ part = "listings" => Lists!UnfinishedGoLast
       /\ part = "attr" => Attr!HostSetIdKept]_all

\* A read or write that goes straight between the guest's buffers and the file has
\* the effect of the buffered one, also when a part of it is outside guest RAM or the
\* host fails; and a listing prepared ahead is current when it is served, with no
\* queued directory left unseen (fs/server.rs).
IoIsFaithful ==
    /\ part = "direct" => Dir1!DirectIsBuffered
    /\ part = "workers" => Ra!QueuedIsSeen /\ Ra!CacheAgrees
    /\ part = "changes" => RaC!ServedIsCurrent /\ RaC!QueuedIsSeen

\* Locks exclude, waiting ones leave the ring room and are retried, and no chain
\* told to the device is forgotten, also past a reset or a stop (fs/server.rs).
LocksAreKept ==
    /\ part = "locks" => /\ Lock3!LocksExclude /\ Lock3!RingHasRoom /\ Lock3!NothingForgotten
                         /\ Lock3!WaitersAreRetried
    /\ part = "threads" => /\ Lock2!LocksExclude /\ Lock2!RingHasRoom
                           /\ Lock2!NothingForgotten /\ Lock2!WaitersAreRetried
    /\ part = "stop" => LockS!ExitLeavesNothing /\ LockS!NothingForgotten
    /\ part = "queue" => Trans!UsedIsOwn /\ Trans!InterruptIsNotLost
    /\ part = "queues" => Trans2!UsedIsOwn /\ Trans2!InterruptIsNotLost

\* What must come, by part: every process ends its program, however holders, waiters
\* and the host's process take turns; the readahead workers exit once they are told
\* to stop; and a chain the driver notified the device of is taken unless it resets.
Asks == CASE part = "locks_live" -> TRUE
          [] part = "workers" -> stopping
          [] part = "first" -> TransL!Told("q", 1)
          [] part = "second" -> TransL!Told("q", 2)
Comes == CASE part = "locks_live" -> LockL!Over
           [] part = "workers" -> \A w \in {"v", "w"} : worker[w].pc = "exited"
           [] part = "first" -> TransL!Taken("q", 1)
           [] part = "second" -> TransL!Taken("q", 2)
RequestsEnd == Asks ~> Comes
=============================================================================
