------------------------------ MODULE FsFiles ------------------------------
(***************************************************************************)
(* The open files of the virtio-fs server (devices/virtio/fs/server.rs):   *)
(* guest handles, the descriptors parked at RELEASE for the next open of   *)
(* the same node, and the budget of host descriptors they share with the   *)
(* directory cache.                                                        *)
(*                                                                         *)
(* A node stands for a name of the export; which paths lead to it is       *)
(* FsTree's.  A file is an identity with a version that the host raises    *)
(* whenever its mode, owner, flags or inode change time move.  A flag set  *)
(* is an element of Flags, of which Trunc also truncates.                  *)
(***************************************************************************)
EXTENDS Integers, Sequences, FiniteSets, SequencesExt

CONSTANTS Names, Files,
          Flags,         \* the values of parked_flag_key
          HandleLimit, ParkedLimit, DirLimit,
          MaxNode, MaxVersion, MaxTicks, MaxOpen,
          Creates,       \* whether the guest sends CREATE and TMPFILE
          EarlyForget    \* whether it sends FORGET for a node it has open

VARIABLES
    at,       \* the host: the file a name leads to
    version,  \* the host: the attributes of a file
    node,     \* nodes: live, name, the file it is of, looked up, orphan
    next,     \* next_node
    handles,  \* handles: [fh, node, file, flags, attrs]
    dirh,     \* the size of dir_handles
    parked, order, ticks,
    dirs      \* DirCache::held

vars == <<at, version, node, next, handles, dirh, parked, order, ticks, dirs>>

NoFile == "none"
NoFd == [file |-> NoFile, flags |-> "", attrs |-> <<>>, tick |-> 0]
NoNode == [live |-> FALSE, name |-> "", file |-> NoFile, looked |-> FALSE, orphan |-> FALSE]
NewNode(name, f) ==
    [live |-> TRUE, name |-> name, file |-> f, looked |-> TRUE, orphan |-> FALSE]
Nodes == 1 .. MaxNode

Init ==
    /\ at \in [Names -> Files] /\ \A m, n \in Names : at[m] = at[n] => m = n
    /\ version = [f \in Files |-> 0]
    /\ node = [n \in Nodes |-> NoNode] /\ next = 1
    /\ handles = {} /\ dirh = 0
    /\ parked = [n \in Nodes |-> NoFd] /\ order = <<>> /\ ticks = 0
    /\ dirs = 0

-----------------------------------------------------------------------------
Attrs(f) == <<f, version[f]>>
Parked(p) == {n \in Nodes : p[n] # NoFd}
HandlesOf(n) == {h \in handles : h.node = n}

\* open_handle_count and descriptors_held.
OpenHandleCount == Cardinality(handles) + dirh
DescriptorsHeld(p, d) == OpenHandleCount + Cardinality(Parked(p)) + d

\* An appearance in parked_order that is still the node's place in it.
IsLive(p, e) == p[e[1]].tick = e[2]

\* evict_one_parked: the cache and the order after it.
EvictOne(p, o) ==
    LET live == {i \in DOMAIN o : IsLive(p, o[i])}
        first == CHOOSE i \in live : \A j \in live : i <= j
    IN  IF live = {} THEN [parked |-> p, order |-> <<>>, went |-> FALSE]
        ELSE [parked |-> [p EXCEPT ![o[first][1]] = NoFd],
              order |-> SubSeq(o, first + 1, Len(o)), went |-> TRUE]

\* compact_parked_order.
Compacted(p, o) ==
    LET held == Cardinality(Parked(p))
    IN  IF Len(o) <= 4 * (IF held = 0 THEN 1 ELSE held) THEN o
        ELSE SelectSeq(o, LAMBDA e : IsLive(p, e))

\* Mutant of Stamp: every appearance has the same stamp.
StampSame == 1

\* The stamp of the next appearance.
Stamp == ticks + 1

\* park_descriptor: a node that is gone or has no name keeps nothing.
Park(h, attrs, n2) ==
    LET without == [parked EXCEPT ![h.node] = NoFd]
        room == IF Cardinality(Parked(without)) >= ParkedLimit
                THEN EvictOne(without, order)
                ELSE [parked |-> without, order |-> order, went |-> TRUE]
        put == [room.parked EXCEPT ![h.node] =
                  [file |-> h.file, flags |-> h.flags, attrs |-> attrs, tick |-> Stamp]]
    IN  IF ~n2[h.node].live \/ n2[h.node].orphan
        THEN UNCHANGED <<parked, order, ticks>>
        ELSE IF ParkedLimit = 0 \/ ~room.went
        THEN parked' = room.parked /\ order' = room.order /\ ticks' = ticks
        ELSE /\ ticks < MaxTicks
             /\ parked' = put /\ ticks' = ticks + 1
             /\ order' = Compacted(put, Append(room.order, <<h.node, Stamp>>))

\* Mutant of Matches: only the flags and the inode are compared.
MatchesInode(p, f) == f # NoFile /\ p.attrs[1] = f

\* What take_parked compares: the name leads to the same inode with the same
\* attributes, the inode change time included.
Matches(p, f) == f # NoFile /\ p.attrs = Attrs(f)

\* take_parked: the descriptor handed back, and the cache after it.
TakeParked(n, flags) ==
    LET p == parked[n]
    IN  IF p = NoFd \/ p.flags # flags THEN [got |-> NoFd, parked |-> parked]
        ELSE [got |-> IF Matches(p, at[node[n].name]) THEN p ELSE NoFd,
              parked |-> [parked EXCEPT ![n] = NoFd]]

\* The loop before an open: one descriptor at a time, parked ones first, until
\* the budget has room or both caches are empty.
Yield(p) ==
    LET need == DescriptorsHeld(p, dirs) - HandleLimit + 1
        held == Cardinality(Parked(p))
        out == IF need <= 0 THEN 0 ELSE IF need <= held THEN need ELSE held
        more == IF need - out <= 0 THEN 0 ELSE IF need - out <= dirs THEN need - out ELSE dirs
        steps[i \in 0 .. held] ==
            IF i = 0 THEN [parked |-> p, order |-> order, went |-> TRUE]
            ELSE EvictOne(steps[i - 1].parked, steps[i - 1].order)
    IN  {[parked |-> steps[out].parked, order |-> steps[out].order, dirs |-> dirs - more]}

\* insert_handle.
NewHandle(n, f, flags, attrs) ==
    \E fh \in 1 .. MaxOpen :
        /\ \A h \in handles : h.fh # fh
        /\ \A g \in 1 .. fh - 1 : \E h \in handles : h.fh = g
        /\ handles' = handles \cup
             {[fh |-> fh, node |-> n, file |-> f, flags |-> flags, attrs |-> attrs]}

\* The walk of an open or a lookup may leave one more directory cached.
Walk(d) == dirs' \in {d} \cup (IF d < DirLimit THEN {d + 1} ELSE {})

-----------------------------------------------------------------------------
(* Requests. *)

\* LOOKUP: the node of the file the name leads to, or a new one.
Lookup(name) ==
    /\ at[name] # NoFile
    /\ LET known == {n \in Nodes : node[n].live /\ ~node[n].orphan /\ node[n].file = at[name]}
       IN  IF known # {}
           THEN /\ \E n \in known : ~node[n].looked /\ node' = [node EXCEPT ![n].looked = TRUE]
                /\ next' = next
           ELSE /\ next <= MaxNode /\ next' = next + 1
                /\ node' = [node EXCEPT ![next] = NewNode(name, at[name])]
    /\ Walk(dirs)
    /\ UNCHANGED <<at, version, handles, dirh, parked, order, ticks>>

\* OPEN of a node with a name; a truncating open always reaches the host and
\* moves the file's times.
Open(n, flags, trunc) ==
    LET take == TakeParked(n, flags)
        reuse == ~trunc /\ take.got # NoFd
        kept == IF trunc THEN parked ELSE take.parked
        f == at[node[n].name]
    IN  /\ node[n].live /\ ~node[n].orphan
        /\ IF reuse
           THEN /\ NewHandle(n, take.got.file, flags, take.got.attrs)
                /\ parked' = take.parked
                /\ UNCHANGED <<version, order, dirs>>
           ELSE \E y \in Yield(kept) :
                /\ parked' = y.parked /\ order' = y.order
                /\ IF OpenHandleCount >= HandleLimit \/ f = NoFile
                   THEN dirs' = y.dirs /\ UNCHANGED <<version, handles>>
                   ELSE /\ version[f] < MaxVersion \/ ~trunc
                        /\ version' = IF trunc THEN [version EXCEPT ![f] = @ + 1] ELSE version
                        /\ NewHandle(n, f, flags, <<f, version'[f]>>)
                        /\ Walk(y.dirs)
        /\ UNCHANGED <<at, node, next, dirh, ticks>>

\* OPENDIR of the root and RELEASEDIR.
Opendir ==
    /\ dirh < MaxOpen
    /\ \E y \in Yield(parked) :
        /\ parked' = y.parked /\ order' = y.order /\ dirs' = y.dirs
        /\ dirh' = IF OpenHandleCount >= HandleLimit THEN dirh ELSE dirh + 1
    /\ UNCHANGED <<at, version, node, next, handles, ticks>>
Releasedir ==
    /\ dirh > 0 /\ dirh' = dirh - 1
    /\ UNCHANGED <<at, version, node, next, handles, parked, order, ticks, dirs>>

\* OPEN of an unlinked node: a dup of a handle it has.
OpenOrphan(n, flags) ==
    /\ node[n].live /\ node[n].orphan
    /\ OpenHandleCount < HandleLimit
    /\ \E h \in HandlesOf(n) : NewHandle(n, h.file, flags, Attrs(h.file))
    /\ UNCHANGED <<at, version, node, next, dirh, parked, order, ticks, dirs>>

\* CREATE of an absent name, and TMPFILE but for its name: the file and a
\* handle on it.  Neither asks the budget.
Create(name, f, flags) ==
    /\ Creates /\ at[name] = NoFile /\ next <= MaxNode
    /\ \A m \in Names : at[m] # f
    /\ \A h \in handles : h.file # f
    /\ at' = [at EXCEPT ![name] = f]
    /\ version[f] < MaxVersion /\ version' = [version EXCEPT ![f] = @ + 1]
    /\ \A n \in Nodes : node[n].live => node[n].file # f
    /\ node' = [node EXCEPT ![next] = NewNode(name, f)]
    /\ next' = next + 1
    /\ NewHandle(next, f, flags, <<f, version'[f]>>)
    /\ Walk(dirs)
    /\ UNCHANGED <<dirh, parked, order, ticks>>

\* A WRITE through a handle moves the file's times.
Write(h) ==
    /\ h.flags # "r" /\ version[h.file] < MaxVersion
    /\ version' = [version EXCEPT ![h.file] = @ + 1]
    /\ UNCHANGED <<at, node, next, handles, dirh, parked, order, ticks, dirs>>

\* The node table after a handle of n has gone (release_node).
NodeReleased(n) ==
    IF Cardinality(HandlesOf(n)) = 1 /\ ~node[n].looked
    THEN [node EXCEPT ![n] = NoNode] ELSE node

\* The attributes a released descriptor is parked with: read again if the
\* guest could have written through it, else what the open read.
ParkedAttrs(h) == IF h.flags # "r" THEN Attrs(h.file) ELSE h.attrs

\* RELEASE: release_node, and the descriptor is parked unless it carried a
\* lock or the export does not cache.
Release(h, close) ==
    /\ node' = NodeReleased(h.node)
    /\ handles' = handles \ {h}
    /\ IF close THEN UNCHANGED <<parked, order, ticks>> ELSE Park(h, ParkedAttrs(h), node')
    /\ UNCHANGED <<at, version, next, dirh, dirs>>

\* FORGET of every lookup: the node goes unless it is open, and the descriptor
\* parked under it with it.
Forget(n) ==
    /\ node[n].live /\ node[n].looked
    /\ EarlyForget \/ HandlesOf(n) = {}
    /\ IF HandlesOf(n) # {}
       THEN node' = [node EXCEPT ![n].looked = FALSE] /\ parked' = parked
       ELSE node' = [node EXCEPT ![n] = NoNode] /\ parked' = [parked EXCEPT ![n] = NoFd]
    /\ UNCHANGED <<at, version, next, handles, dirh, order, ticks, dirs>>

\* Mutant of Unparked: the descriptor stays after its name has gone.
UnparkedNot(n) == parked

\* drop_parked, of a node that lost a name.
Unparked(n) == [parked EXCEPT ![n] = NoFd]

\* UNLINK of a name: forget_node_path drops what is parked for the node of
\* the file that was there, and that node has no name left.
Unlink(name) ==
    /\ at[name] # NoFile
    /\ at' = [at EXCEPT ![name] = NoFile]
    /\ LET its == {n \in Nodes : node[n].live /\ ~node[n].orphan /\ node[n].file = at[name]}
       IN  IF its = {} THEN UNCHANGED <<node, parked>>
           ELSE \E n \in its :
                /\ parked' = Unparked(n)
                /\ node' = [node EXCEPT ![n] = IF @.looked \/ HandlesOf(n) # {}
                                               THEN [@ EXCEPT !.orphan = TRUE] ELSE NoNode]
    /\ UNCHANGED <<version, next, handles, dirh, order, ticks, dirs>>

\* A process of the host replaces a file by another, or changes its mode.
HostReplace(name, f) ==
    /\ at[name] # NoFile /\ \A m \in Names : at[m] # f
    /\ \A h \in handles : h.file # f
    /\ \A n \in Nodes : parked[n].file # f
    /\ \A n \in Nodes : node[n].live => node[n].file # f
    /\ at' = [at EXCEPT ![name] = f]
    /\ UNCHANGED <<version, node, next, handles, dirh, parked, order, ticks, dirs>>
HostChmod(f) ==
    /\ version[f] < MaxVersion /\ version' = [version EXCEPT ![f] = @ + 1]
    /\ UNCHANGED <<at, node, next, handles, dirh, parked, order, ticks, dirs>>

Next ==
    \/ \E m \in Names : Lookup(m) \/ Unlink(m)
    \/ \E m \in Names, f \in Files :
        (\E fl \in Flags : Create(m, f, fl)) \/ HostReplace(m, f)
    \/ \E n \in Nodes, fl \in Flags :
        (\E t \in BOOLEAN : Open(n, fl, t)) \/ OpenOrphan(n, fl)
    \/ \E h \in handles : Write(h) \/ (\E c \in BOOLEAN : Release(h, c))
    \/ \E n \in Nodes : Forget(n)
    \/ Opendir \/ Releasedir
    \/ \E f \in Files : HostChmod(f)

Spec == Init /\ [][Next]_vars

-----------------------------------------------------------------------------
(* Properties. *)

TypeOK ==
    /\ at \in [Names -> Files \cup {NoFile}] /\ version \in [Files -> 0 .. MaxVersion]
    /\ \A h \in handles : h.node \in Nodes /\ h.file \in Files /\ h.flags \in Flags
    /\ \A n \in Parked(parked) : parked[n].flags \in Flags
    /\ dirs \in 0 .. DirLimit /\ dirh \in 0 .. MaxOpen

\* An open hands out the file the name leads to now, with the attributes it
\* has now, also when it is answered from a parked descriptor without asking
\* the host (take_parked: "an open the host would now refuse is not answered
\* from a descriptor it granted earlier").
OpenIsFresh ==
    \A h \in handles' \ handles :
        LET n == node'[h.node]
        IN  n.orphan \/ (h.file = at'[n.name] /\ h.attrs = <<h.file, version'[h.file]>>)

\* Every parked descriptor has its live place in the order, so an eviction
\* reaches it: a descriptor no eviction can find is never given back.
EveryParkedIsEvictable ==
    \A n \in Parked(parked) :
        Cardinality({i \in DOMAIN order : order[i] = <<n, parked[n].tick>>}) = 1

\* Stale appearances are compacted away, so the order is bounded by the limit
\* and not by how often files were opened.
OrderBounded == Len(order) <= 4 * (IF ParkedLimit = 0 THEN 1 ELSE ParkedLimit)

\* The caches spend nothing on top of the guest's budget: open handles and
\* parked descriptors together stay within it, however files are opened,
\* released, forgotten and reused, while none of the open files is unlinked.
WithinBudget ==
    (\A h \in handles : ~node[h.node].orphan) =>
        OpenHandleCount + Cardinality(Parked(parked)) <= HandleLimit

\* No descriptor of an unlinked file stays parked, where it would pin an inode
\* the host has finished with.
NoOrphanIsParked == \A n \in Parked(parked) : node[n].live => ~node[n].orphan

=============================================================================
