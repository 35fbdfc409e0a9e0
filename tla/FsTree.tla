------------------------------- MODULE FsTree -------------------------------
(***************************************************************************)
(* The node table of the virtio-fs server (devices/virtio/fs/server.rs):   *)
(* the guest names files by node id, the host by path, and the server      *)
(* keeps for each node the paths that lead to its inode while the guest    *)
(* links, renames, exchanges and unlinks them.                             *)
(*                                                                         *)
(* A request is served under the device's lock and is one step.  A file    *)
(* has an identity and an inode number; a number is free again once the    *)
(* file has neither a name nor an open handle.  A path is the sequence of  *)
(* its names, directories are children of the root, and a socket is held   *)
(* by the device alone.                                                    *)
(***************************************************************************)
EXTENDS Integers, Sequences, FiniteSets, SequencesExt

CONSTANTS Names, TmpName,\* names the guest uses, and the one of a tmpfile
          MaxFiles,      \* the files ever made, the root not counted
          RootIno, Inos, \* the host's inode numbers: the root's, the others
          MaxNode,       \* the node ids handed out
          MaxAliases,    \* MAX_NODE_ALIASES
          MaxLookups,    \* where the lookups of a node stop being counted
          MaxHandles, MaxSockets,
          MaxTmps,       \* the TMPFILE requests
          HostActs       \* whether processes of the host change the export

VARIABLES
    \* The host: what a directory holds, which files are directories, and the
    \* number of each file.
    ent, dirs, ino, made,
    \* VirtioFs: nodes, inode_ids and next_node; handles; sockets.
    nodes, ids, next, handles, sockets, nextSock,
    \* The file each node was given out for.
    born

host   == <<ent, dirs, ino, made>>
table  == <<nodes, ids, next>>
vars   == <<host, table, handles, sockets, nextSock, born>>

None  == -1
Fids  == 0 .. MaxFiles
AllNames == Names \cup {TmpName}
Paths == {<<>>} \cup {<<m>> : m \in AllNames} \cup {<<m, n>> : m, n \in Names}
\* The key of a node: the host's inode number, or a socket's own.
HostKey(i) == <<"host", i>>
SockKey(i) == <<"sock", i>>
Keys == {HostKey(i) : i \in Inos \cup {RootIno}} \cup {SockKey(i) : i \in 1 .. MaxSockets}
Gone == [live |-> FALSE, key |-> HostKey(RootIno), paths |-> <<>>, lookups |-> 0,
         handles |-> 0]
Root == 1
\* How `born` tells a socket from the files.
SockBorn(i) == MaxFiles + i

\* VirtioFs::new: the root is the one node, and is never forgotten.
Init ==
    /\ ent = [d \in Fids |-> [m \in AllNames |-> None]]
    /\ dirs = {0} /\ ino = [f \in Fids |-> IF f = 0 THEN RootIno ELSE None] /\ made = 0
    /\ nodes = [n \in 1 .. MaxNode |->
                  IF n = Root
                  THEN [live |-> TRUE, key |-> HostKey(RootIno), paths |-> <<<<>>>>,
                        lookups |-> MaxLookups, handles |-> 0]
                  ELSE Gone]
    /\ ids = [k \in Keys |-> IF k = HostKey(RootIno) THEN Root ELSE 0]
    /\ next = Root + 1
    /\ handles = {} /\ sockets = {} /\ nextSock = 1
    /\ born = [n \in 1 .. MaxNode |-> IF n = Root THEN 0 ELSE None]

-----------------------------------------------------------------------------
(* The host. *)

\* The file a path leads to.
At(path) ==
    IF path = <<>> THEN 0
    ELSE LET f == ent[0][path[1]]
         IN  IF Len(path) = 1 THEN f
             ELSE IF Len(path) = 2 /\ f \in dirs THEN ent[f][path[2]] ELSE None
Exists(path) == At(path) # None
Parent(path) == Front(path)
Named(e) == {e[d][m] : d \in Fids, m \in AllNames} \cup {0}

\* The numbers in use: of a file with a name or a handle.
Numbers(e) == {ino[f] : f \in Named(e) \ {None}} \cup {ino[h.file] : h \in handles}
Put(e, path, f) == [e EXCEPT ![At(Parent(path))][Last(path)] = f]

\* A new file at a path, with a number no file in use has.
MakeFile(path, isDir, i) ==
    /\ made < MaxFiles /\ i \notin Numbers(ent)
    /\ made' = made + 1
    /\ ino' = [ino EXCEPT ![made + 1] = i]
    /\ dirs' = IF isDir THEN dirs \cup {made + 1} ELSE dirs
    /\ ent' = Put(ent, path, made + 1)

-----------------------------------------------------------------------------
(* Nodes. *)

Live == {n \in 1 .. MaxNode : nodes[n].live}
Under(path, dir) == Len(path) >= Len(dir) /\ SubSeq(path, 1, Len(dir)) = dir

\* node_path: with one path there is nothing to tell apart; of several, the
\* first that still leads to the inode.
NodePath(n) ==
    LET ps == nodes[n].paths
        good == {i \in DOMAIN ps : Exists(ps[i]) /\ HostKey(ino[At(ps[i])]) = nodes[n].key}
    IN  IF ~nodes[n].live THEN {}
        ELSE IF Len(ps) = 1 THEN {ps[1]}
        ELSE {ps[i] : i \in {j \in good : \A k \in good : j <= k}}

\* child_path.
ChildPaths(parent, name) == {Append(p, name) : p \in NodePath(parent)}

\* The alias node_for gives up when there is no room: one that no longer
\* leads to the inode, else the oldest.
Stale(ps, key) ==
    LET bad == {i \in DOMAIN ps : ~Exists(ps[i]) \/ HostKey(ino[At(ps[i])]) # key}
    IN  IF bad = {} THEN 1 ELSE CHOOSE i \in bad : \A j \in bad : i <= j

AddAlias(ps, path, key) ==
    IF path \in Range(ps) THEN ps
    ELSE Append(IF Len(ps) >= MaxAliases THEN RemoveAt(ps, Stale(ps, key)) ELSE ps,
                path)

\* node_for and remember_lookup: the node of a file just found at a path, as
\* it is afterwards with `held` handles more.
EntryOut(path, key, f, held) ==
    LET n == IF ids[key] # 0 THEN ids[key] ELSE next
        old == IF ids[key] # 0 THEN nodes[n]
               ELSE [Gone EXCEPT !.live = TRUE, !.key = key]
    IN  /\ n <= MaxNode
        /\ nodes' = [nodes EXCEPT ![n] =
                       [old EXCEPT !.paths = AddAlias(@, path, key),
                                   !.lookups = IF @ < MaxLookups THEN @ + 1 ELSE @,
                                   !.handles = @ + held]]
        /\ ids' = [ids EXCEPT ![key] = n]
        /\ next' = IF n = next THEN next + 1 ELSE next
        /\ born' = IF n = next THEN [born EXCEPT ![n] = IF f = None THEN SockBorn(key[2]) ELSE f]
                   ELSE born

\* hold_node.
Hold(n) == nodes' = [nodes EXCEPT ![n].handles = @ + 1]

\* Mutant of KeyGoes: the key of a node that lost its last path stays.
KeyGoesNot(key) == ids

\* The inode may be reused by a later file, which must get a node of its own.
KeyGoes(key) == [ids EXCEPT ![key] = 0]

\* forget_node_path: the tables once the name of f has gone.
ForgetNodePath(path, f) ==
    LET key == HostKey(ino[f])
        n == ids[key]
        left == SelectSeq(nodes[n].paths, LAMBDA p : p # path)
        held == nodes[n].lookups > 0 \/ nodes[n].handles > 0
    IN  IF f = None \/ n = 0 THEN [nodes |-> nodes, ids |-> ids]
        ELSE IF left # <<>> \/ n = Root
        THEN [nodes |-> [nodes EXCEPT ![n].paths = left], ids |-> ids]
        ELSE [nodes |-> [nodes EXCEPT ![n] = IF held THEN [@ EXCEPT !.paths = <<>>] ELSE Gone],
              ids |-> KeyGoes(key)]

\* Mutant of Dropped: an open handle does not hold the node.
DroppedLookups(node) == node.lookups = 0

\* When FORGET and RELEASE remove a node, whichever comes last.
Dropped(node) == node.lookups = 0 /\ node.handles = 0

\* The index without a node that goes, unless the key has passed to another.
IndexKept(n, key) == IF ids[key] = n THEN [ids EXCEPT ![key] = 0] ELSE ids

\* The end of forget_count and of release_node.
Drop(n, node) ==
    IF Dropped(node) /\ n # Root
    THEN /\ nodes' = [nodes EXCEPT ![n] = Gone]
         /\ ids' = IndexKept(n, node.key)
    ELSE nodes' = [nodes EXCEPT ![n] = node] /\ ids' = ids

IsOrphan(n) == nodes[n].live /\ nodes[n].paths = <<>>

-----------------------------------------------------------------------------
(* Requests. *)

SockAt(path) == {s \in sockets : s.path = path}

\* LOOKUP: a socket of the device is looked for before the host.
Lookup(parent, name) ==
    /\ \E path \in ChildPaths(parent, name) :
        \/ \E s \in SockAt(path) : EntryOut(path, SockKey(s.ino), None, 0)
        \/ /\ SockAt(path) = {} /\ Exists(path)
           /\ EntryOut(path, HostKey(ino[At(path)]), At(path), 0)
    /\ UNCHANGED <<host, handles, sockets, nextSock>>

\* GETATTR, STATX and READLINK of a node of the host: the file the answer is
\* read from, which is a handle's once the node is an orphan or its name gone.
AttrOf(n) ==
    LET byHandle == {h.file : h \in {g \in handles : g.node = n}}
    IN  IF IsOrphan(n) THEN byHandle
        ELSE UNION {IF Exists(p) THEN {At(p)} ELSE byHandle : p \in NodePath(n)}

\* MKNOD of a file, MKDIR and SYMLINK: the host makes it, and new_entry looks
\* it up.
Make(parent, name, isDir) ==
    /\ isDir => parent = Root
    /\ \E path \in ChildPaths(parent, name), i \in Inos :
        /\ Exists(Parent(path)) /\ At(Parent(path)) \in dirs /\ ~Exists(path)
        /\ MakeFile(path, isDir, i)
        /\ EntryOut(path, HostKey(i), made + 1, 0)
    /\ UNCHANGED <<handles, sockets, nextSock>>

\* MKNOD of a socket: create_socket with socket_node_id.
CreateSocket(parent, name) ==
    /\ nextSock <= MaxSockets
    /\ \E path \in ChildPaths(parent, name) :
        /\ ~Exists(path) /\ SockAt(path) = {}
        /\ sockets' = sockets \cup {[path |-> path, ino |-> nextSock]}
        /\ EntryOut(path, SockKey(nextSock), None, 0)
    /\ nextSock' = nextSock + 1
    /\ UNCHANGED <<host, handles>>

\* LINK.
Link(n, parent, name) ==
    /\ \E old \in NodePath(n), path \in ChildPaths(parent, name) :
        /\ Exists(old) /\ At(old) \notin dirs
        /\ At(Parent(path)) \in dirs /\ ~Exists(path)
        /\ ent' = Put(ent, path, At(old))
        /\ EntryOut(path, HostKey(ino[At(old)]), At(old), 0)
    /\ UNCHANGED <<dirs, ino, made, handles, sockets, nextSock>>

Empty(f) == \A m \in Names : ent[f][m] = None

\* UNLINK and RMDIR; a socket leaves the device and the host is left alone.
RemoveEntry(parent, name) ==
    /\ \E path \in ChildPaths(parent, name) :
        \/ /\ SockAt(path) # {}
           /\ sockets' = sockets \ SockAt(path)
           /\ LET stale == {n \in Live : nodes[n].key[1] = "sock" /\ path \in Range(nodes[n].paths)}
              IN  /\ nodes' = [n \in 1 .. MaxNode |-> IF n \in stale THEN Gone ELSE nodes[n]]
                  /\ ids' = [k \in Keys |-> IF \E n \in stale : nodes[n].key = k THEN 0 ELSE ids[k]]
           /\ UNCHANGED ent
        \/ /\ SockAt(path) = {} /\ Exists(path) /\ path # <<>>
           /\ At(path) \in dirs => Empty(At(path))
           /\ ent' = Put(ent, path, None)
           /\ LET t == ForgetNodePath(path, At(path))
              IN  nodes' = t.nodes /\ ids' = t.ids
           /\ UNCHANGED sockets
    /\ UNCHANGED <<dirs, ino, made, next, handles, nextSock, born>>

\* Mutant of Moved: what is below the old name is appended whole.
MovedAway(path, old, new) == IF Under(path, old) THEN new \o path ELSE path

\* A path after what was at `old` has gone to `new`.
Moved(path, old, new) ==
    IF Under(path, old) THEN new \o SubSeq(path, Len(old) + 1, Len(path)) ELSE path

\* exchange_node_paths.
ExchangeNodePaths(a, b) ==
    [n \in 1 .. MaxNode |->
        [nodes[n] EXCEPT !.paths =
            [i \in DOMAIN @ |-> IF Under(@[i], a) THEN Moved(@[i], a, b)
                                ELSE Moved(@[i], b, a)]]]

\* rewrite_node_paths.
RewriteNodePaths(ns, old, new) ==
    [n \in 1 .. MaxNode |->
        [ns[n] EXCEPT !.paths = [i \in DOMAIN @ |-> Moved(@[i], old, new)]]]

\* Whether a rename takes the paths beneath the name along.
MovesMany(f) == f \in dirs

\* rewrite_renamed_paths: any file but a directory is one path of the node its
\* inode names, if there is one.
RewriteRenamedPaths(t, old, new, f) ==
    LET n == t.ids[HostKey(ino[f])]
    IN  IF MovesMany(f) \/ n = 0 THEN RewriteNodePaths(t.nodes, old, new)
        ELSE [t.nodes EXCEPT ![n].paths = [i \in DOMAIN @ |-> IF @[i] = old THEN new ELSE @[i]]]

\* What host_rename allows: a directory only over an empty directory, another
\* file only over one, and no directory below itself.
MayRename(old, new, flag) ==
    /\ Exists(old) /\ old # <<>> /\ At(Parent(new)) \in dirs
    /\ ~Under(new, old) \/ new = old
    /\ At(old) \in dirs => Len(new) = 1
    /\ CASE flag = "noreplace" -> ~Exists(new)
         [] flag = "exchange" -> Exists(new) /\ ~Under(old, new) /\ (At(new) \in dirs => Len(old) = 1)
         [] OTHER -> Exists(new) => (At(old) \in dirs <=> At(new) \in dirs)
                                    /\ (At(new) \in dirs => Empty(At(new)))

\* RENAME and RENAME2.
Rename(oldParent, oldName, newParent, newName, flag) ==
    /\ \E old \in ChildPaths(oldParent, oldName), new \in ChildPaths(newParent, newName) :
        LET f == At(old)
            g == At(new)
            t == ForgetNodePath(new, g)
        IN  /\ MayRename(old, new, flag)
            /\ IF flag = "exchange"
               THEN /\ ent' = Put(Put(ent, old, g), new, f)
                    /\ nodes' = ExchangeNodePaths(old, new) /\ ids' = ids
               ELSE IF f = g
               THEN UNCHANGED <<ent, nodes, ids>>
               ELSE /\ ent' = Put(Put(ent, old, None), new, f)
                    /\ nodes' = RewriteRenamedPaths(t, old, new, f) /\ ids' = t.ids
    /\ UNCHANGED <<dirs, ino, made, next, handles, sockets, nextSock, born>>

\* The handle table: a handle pins the file.
FreeFh == (1 .. MaxHandles) \ {h.fh : h \in handles}
NewHandle(n, f, tmp) ==
    \E fh \in FreeFh : /\ \A g \in FreeFh : fh <= g
                       /\ handles' = handles \cup {[fh |-> fh, node |-> n, file |-> f, tmp |-> tmp]}

\* CREATE of a new file: the entry and a handle on it.
Create(parent, name) ==
    /\ \E path \in ChildPaths(parent, name), i \in Inos :
        /\ At(Parent(path)) \in dirs /\ ~Exists(path)
        /\ MakeFile(path, FALSE, i)
        /\ EntryOut(path, HostKey(i), made + 1, 1)
        /\ NewHandle(ids'[HostKey(i)], made + 1, FALSE)
    /\ UNCHANGED <<sockets, nextSock>>

\* TMPFILE in the root: a name of the device's choosing, given up at RELEASE.
Tmpfile ==
    /\ Cardinality({h \in handles : h.tmp}) < MaxTmps /\ ~Exists(<<TmpName>>)
    /\ \E i \in Inos :
        /\ MakeFile(<<TmpName>>, FALSE, i)
        /\ EntryOut(<<TmpName>>, HostKey(i), made + 1, 1)
        /\ NewHandle(ids'[HostKey(i)], made + 1, TRUE)
    /\ UNCHANGED <<sockets, nextSock>>

\* OPEN of a file by its node: by the path, or of an orphan by a handle it has.
Open(n) ==
    /\ n \in Live /\ nodes[n].key[1] = "host"
    /\ \E f \in IF IsOrphan(n) THEN {h.file : h \in {g \in handles : g.node = n}}
                ELSE {At(p) : p \in NodePath(n)} \ ({None} \cup dirs) : NewHandle(n, f, FALSE)
    /\ Hold(n)
    /\ UNCHANGED <<host, ids, next, sockets, nextSock, born>>

\* RELEASE with release_node; remove_temporary unlinks the name of a tmpfile,
\* which the node keeps among its paths.
Release(h) ==
    /\ h \in handles /\ handles' = handles \ {h}
    /\ IF nodes[h.node].live
       THEN Drop(h.node, [nodes[h.node] EXCEPT !.handles = @ - 1])
       ELSE UNCHANGED <<nodes, ids>>
    /\ ent' = IF h.tmp THEN Put(ent, <<TmpName>>, None) ELSE ent
    /\ UNCHANGED <<dirs, ino, made, next, sockets, nextSock, born>>

\* FORGET and an entry of BATCH_FORGET: forget_count.
Forget(n, count) ==
    /\ n \in Live \ {Root} /\ count <= nodes[n].lookups
    /\ Drop(n, [nodes[n] EXCEPT !.lookups = @ - count])
    /\ UNCHANGED <<host, next, handles, sockets, nextSock, born>>

\* A write of 0 to STATUS: the session's tables are emptied but for the root,
\* and node ids start again.
Reset ==
    /\ next > Root + 1
    /\ nodes' = [n \in 1 .. MaxNode |-> IF n = Root THEN nodes[n] ELSE Gone]
    /\ ids' = [k \in Keys |-> IF k = HostKey(RootIno) THEN Root ELSE 0]
    /\ next' = Root + 1
    /\ handles' = {} /\ sockets' = {}
    /\ ent' = [ent EXCEPT ![0][TmpName] = None]
    /\ born' = [n \in 1 .. MaxNode |-> IF n = Root THEN 0 ELSE None]
    /\ UNCHANGED <<dirs, ino, made, nextSock>>

\* A process of the host unlinks a name, or replaces it by a new file.
HostChange ==
    /\ HostActs
    /\ \E path \in Paths \ {<<>>} :
        /\ Exists(path) /\ At(path) \notin dirs
        /\ \/ ent' = Put(ent, path, None) /\ UNCHANGED <<dirs, ino, made>>
           \/ \E i \in Inos : MakeFile(path, FALSE, i)
    /\ UNCHANGED <<table, handles, sockets, nextSock, born>>

Next ==
    \/ \E p \in Live, m \in Names :
        \/ Lookup(p, m) \/ Make(p, m, FALSE) \/ Make(p, m, TRUE)
        \/ CreateSocket(p, m) \/ RemoveEntry(p, m) \/ Create(p, m)
        \/ \E n \in Live : Link(n, p, m)
        \/ \E q \in Live, o \in Names, flag \in {"", "noreplace", "exchange"} :
            Rename(p, m, q, o, flag)
    \/ \E n \in Live : Open(n) \/ Forget(n, 1) \/ Forget(n, nodes[n].lookups)
    \/ \E h \in handles : Release(h)
    \/ Tmpfile
    \/ Reset
    \/ HostChange

Spec == Init /\ [][Next]_vars

-----------------------------------------------------------------------------
(* Properties. *)

HostNodes == {n \in Live : nodes[n].key[1] = "host"}

TypeOK ==
    /\ ent \in [Fids -> [AllNames -> Fids \cup {None}]] /\ made \in 0 .. MaxFiles
    /\ \A n \in Live : nodes[n].key \in Keys /\ Range(nodes[n].paths) \subseteq Paths
    /\ ids \in [Keys -> 0 .. MaxNode] /\ next \in 2 .. MaxNode + 1
    /\ \A h \in handles : h.node \in 1 .. MaxNode /\ h.file \in Fids

\* While only the guest changes the export, every path a node keeps leads to
\* the file the node was given out for: after a directory above it was
\* renamed, after two names were exchanged, and after its number was reused.
PathsLead ==
    \A n \in HostNodes : \A p \in Range(nodes[n].paths) :
        At(p) = born[n] /\ HostKey(ino[At(p)]) = nodes[n].key

\* A request that names a node is answered from the file that node was given
\* out for, even once the file has lost its last name and a new file has been
\* given its inode number.
AnswersOwnFile == \A n \in HostNodes : AttrOf(n) \subseteq {born[n]}

\* A file has one node under which its names are kept.
OneNodePerFile ==
    \A m, n \in HostNodes :
        nodes[m].paths # <<>> /\ nodes[n].paths # <<>> /\ born[m] = born[n] => m = n

\* A node stays while the guest has it looked up or open, and no longer, in
\* whichever order FORGET and RELEASE arrive (release_node: "whichever of the
\* two arrives last does the removal"); the index leads to nodes that exist.
NothingLeftBehind ==
    /\ \A n \in Live \ {Root} : nodes[n].lookups > 0 \/ nodes[n].handles > 0
    /\ \A k \in Keys : ids[k] # 0 => ids[k] \in Live /\ nodes[ids[k]].key = k
    /\ \A h \in handles : h.node \in Live
    /\ \A n \in Live : nodes[n].handles = Cardinality({h \in handles : h.node = n})

\* A node keeps at most MAX_NODE_ALIASES paths, whatever the links made.
AliasesBounded == \A n \in Live : Len(nodes[n].paths) <= MaxAliases

=============================================================================
