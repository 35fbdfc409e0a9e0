------------------------------ MODULE DirCache ------------------------------
(***************************************************************************)
(* The virtio-fs server's cache of directory descriptors (DirCache in        *)
(* devices/virtio/fs/server.rs): descriptors keyed by path, in the order of  *)
(* their last use, under requests of the guest that make, remove and rename  *)
(* directories through the descriptors they find there.                      *)
(***************************************************************************)
EXTENDS Naturals, Sequences, FiniteSets, SequencesExt

CONSTANTS
    Names,                 \* names of directories
    MaxDirs,               \* a bound on the directories ever made
    Limit,                 \* how many descriptors the cache keeps
    MaxTicks,              \* a bound on the uses
    HostRemovals           \* whether the host removes directories too

VARIABLES
    child,                 \* the directory of each name of each directory, 0 for none
    next,                  \* the next directory to be made
    cache,                 \* open: path -> descriptor and stamp; lru; ticks
    recent                 \* the cached paths, least recently used first

vars == <<child, next, cache, recent>>

Root == 1
Dirs == 1..MaxDirs
Paths == {<<n>> : n \in Names} \cup {<<n, m>> : n \in Names, m \in Names}
Parent(p) == SubSeq(p, 1, Len(p) - 1)
Absent == [fd |-> 0, tick |-> 0]
Cached(c) == {p \in Paths : c.open[p].fd # 0}

\* walk: the directory at a path now, 0 for none.
Step(d, n) == IF d = 0 THEN 0 ELSE child[d][n]
Walk(p) == FoldLeft(Step, Root, p)

Init ==
    /\ child = [d \in Dirs |-> [n \in Names |-> 0]]
    /\ next = 2
    /\ cache = [open |-> [p \in Paths |-> Absent], lru |-> <<>>, ticks |-> 0]
    /\ recent = <<>>

-----------------------------------------------------------------------------
(* The cache. *)

Live(c, entry) == c.open[entry.path].tick = entry.tick /\ c.open[entry.path].fd # 0
Stamp(p, t) == [path |-> p, tick |-> t]

\* compact_lru
CompactLru(c) ==
    LET n == Cardinality(Cached(c)) IN
    IF Len(c.lru) <= 4 * (IF n = 0 THEN 1 ELSE n) THEN c
    ELSE [c EXCEPT !.lru = SelectSeq(c.lru, LAMBDA e : Live(c, e))]

\* touch
Touch(c, p) ==
    CompactLru([c EXCEPT !.ticks = @ + 1, !.open[p].tick = c.ticks + 1,
                         !.lru = Append(@, Stamp(p, c.ticks + 1))])

\* Whether eviction takes what this stamp names.
Passes(c, e) == Live(c, e)

\* forget
Forget(c, p) == [c EXCEPT !.open[p] = Absent]

\* evict_one; the cache as it was when no stamp is live.
EvictOne(c) ==
    LET i == SelectInSeq(c.lru, LAMBDA e : Passes(c, e)) IN
    IF i = 0 THEN [c EXCEPT !.lru = <<>>]
    ELSE [Forget(c, c.lru[i].path) EXCEPT !.lru = SubSeq(c.lru, i + 1, Len(c.lru))]

Full(c) == Cardinality(Cached(c)) >= Limit

\* admit; the cache is over its limit by at most one, so one eviction does.
Admit(c, p, d) ==
    LET room == IF Full(c) THEN EvictOne(c) ELSE c IN
    [room EXCEPT !.ticks = @ + 1, !.open[p] = [fd |-> d, tick |-> room.ticks + 1],
                 !.lru = Append(@, Stamp(p, room.ticks + 1))]

\* dir_fd: the cache after it, and the descriptor, 0 for an error.
DirFd(c, p) ==
    CASE p = <<>> -> [cache |-> c, fd |-> Root]
      [] p # <<>> /\ p \in Cached(c) -> [cache |-> Touch(c, p), fd |-> c.open[p].fd]
      [] p # <<>> /\ p \notin Cached(c) /\ Walk(p) # 0 ->
            [cache |-> Admit(c, p, Walk(p)), fd |-> Walk(p)]
      [] OTHER -> [cache |-> c, fd |-> 0]

\* Mutant of Subtree: only the path itself is dropped.
SubtreeTop(p) == {p}

Subtree(p) == {q \in Paths : IsPrefix(p, q)}

\* forget_subtree
ForgetSubtree(c, p) == [c EXCEPT !.open = [q \in Paths |-> IF q \in Subtree(p) THEN Absent ELSE @[q]]]

\* The paths still cached, in the order of their last use, after `used` were.
Used(c, used) ==
    LET kept == SelectSeq(recent, LAMBDA q : q \notin ToSet(used)) IN
    SelectSeq(kept \o used, LAMBDA q : q \in Cached(c))

-----------------------------------------------------------------------------
(* The guest. *)

Uses(n) == cache.ticks + n <= MaxTicks

\* A lookup in the directory, which need not find anything.
Resolves(p) ==
    /\ Uses(1)
    /\ cache' = DirFd(cache, p).cache
    /\ recent' = Used(cache', <<p>>)
    /\ UNCHANGED <<child, next>>

Alive(d) == d = Root \/ \E e \in Dirs, n \in Names : child[e][n] = d
Empty(d) == \A n \in Names : child[d][n] = 0

\* mkdir_at; a directory that is gone takes no entry.
Mkdir(p) ==
    /\ Uses(1) /\ next <= MaxDirs
    /\ \E at \in {DirFd(cache, Parent(p))} :
        /\ cache' = at.cache
        /\ recent' = Used(cache', IF Len(p) = 1 THEN <<>> ELSE <<Parent(p)>>)
        /\ IF at.fd # 0 /\ Alive(at.fd) /\ child[at.fd][Last(p)] = 0
           THEN child' = [child EXCEPT ![at.fd][Last(p)] = next] /\ next' = next + 1
           ELSE UNCHANGED <<child, next>>

\* remove
Rmdir(p) ==
    /\ Uses(1)
    /\ \E at \in {DirFd(cache, Parent(p))} :
        IF at.fd # 0 /\ child[at.fd][Last(p)] # 0 /\ Empty(child[at.fd][Last(p)])
        THEN /\ child' = [child EXCEPT ![at.fd][Last(p)] = 0]
             /\ cache' = ForgetSubtree(at.cache, p)
        ELSE child' = child /\ cache' = at.cache
    /\ recent' = Used(cache', IF Len(p) = 1 THEN <<>> ELSE <<Parent(p)>>)
    /\ UNCHANGED next

\* two_entries_at: the parent of the second end, resolved when the first one,
\* `old`, is there.
TwoEntriesAt(old, q) == IF old.fd = 0 THEN old ELSE DirFd(old.cache, Parent(q))

\* host_rename of directories: onto nothing or an empty directory, or, with
\* RENAME_EXCHANGE, against another; never into itself.
Moves(old, new, x, y, p, q, exchange) ==
    /\ x # 0 /\ x # y /\ Alive(new) /\ x # new /\ y # old
    /\ IF exchange THEN y # 0 ELSE y = 0 \/ Empty(y)
    /\ Len(q) = 2 => Empty(x)                     \* paths stay two deep
    /\ exchange /\ Len(p) = 2 => Empty(y)

Rename(p, q, exchange) ==
    /\ Uses(2)
    /\ \E old \in {DirFd(cache, Parent(p))} : \E new \in {TwoEntriesAt(old, q)} :
       \E x \in {Step(old.fd, Last(p))}, y \in {Step(new.fd, Last(q))} :
        /\ IF new.fd # 0 /\ Moves(old.fd, new.fd, x, y, p, q, exchange)
           THEN /\ child' = [child EXCEPT ![old.fd][Last(p)] = IF exchange THEN y ELSE 0,
                                          ![new.fd][Last(q)] = x]
                /\ cache' = ForgetSubtree(ForgetSubtree(new.cache, p), q)
           ELSE child' = child /\ cache' = new.cache
        /\ recent' = Used(cache', (IF Len(p) = 1 THEN <<>> ELSE <<Parent(p)>>) \o
                              (IF old.fd = 0 \/ Len(q) = 1 \/ Parent(p) = Parent(q) THEN <<>>
                               ELSE <<Parent(q)>>))
    /\ UNCHANGED next

\* release_all, when a handle needs a descriptor.
ReleaseAll ==
    /\ cache' = [cache EXCEPT !.open = [p \in Paths |-> Absent], !.lru = <<>>]
    /\ recent' = <<>>
    /\ UNCHANGED <<child, next>>

\* The host removes an empty directory of the export.
HostRemoves(p) ==
    /\ HostRemovals /\ Walk(p) # 0 /\ Empty(Walk(p))
    /\ child' = [child EXCEPT ![Walk(Parent(p))][Last(p)] = 0]
    /\ UNCHANGED <<next, cache, recent>>

Next ==
    \/ \E p \in Paths : Resolves(p) \/ Mkdir(p) \/ Rmdir(p) \/ HostRemoves(p)
    \/ \E p, q \in Paths, x \in BOOLEAN : p # q /\ Rename(p, q, x)
    \/ ReleaseAll

Spec == Init /\ [][Next]_vars

-----------------------------------------------------------------------------
(* Properties. *)

\* When only the guest changes the export, a cached descriptor is the directory
\* its path names now: a lookup never lands in a directory removed or moved.
CachedIsCurrent == \A p \in Cached(cache) : cache.open[p].fd = Walk(p)

\* The cache holds no more descriptors than its limit.
HeldAtMostLimit == Cardinality(Cached(cache)) <= Limit

\* The descriptor the next eviction closes is the least recently used, whatever
\* stale stamps the queue holds.
LeastUsedGoes ==
    Cached(cache) # {} =>
        Cached(cache) \ Cached(EvictOne(cache)) = {Head(recent)}

=============================================================================
