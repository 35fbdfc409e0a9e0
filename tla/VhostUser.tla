------------------------------ MODULE VhostUser ------------------------------
(***************************************************************************)
(* The virtio-fs device of the Linux backends                              *)
(* (devices/virtio/fs/vhost_user.rs): the register file the guest drives,  *)
(* the messages that hand its rings to the vhost-user daemon and take them *)
(* back, the thread per queue that delivers the daemon's interrupts, and   *)
(* the shutdown that ends the connection without the device lock.          *)
(*                                                                         *)
(* The vCPU that writes STATUS holds the lock until its last message is    *)
(* sent.  Without REPLY_ACK, which the device does not negotiate, only     *)
(* GET_VRING_BASE is answered: the daemon reads the others when it comes   *)
(* to them, and it may stop reading at any time.  A ring is programmed in  *)
(* a session, numbered from 1, which a reset ends.                         *)
(***************************************************************************)
EXTENDS Naturals, Sequences, SequencesExt

CONSTANTS Queues,        \* how many rings, numbered from 1
          MaxResets,     \* bound on the guest's resets
          Faults,        \* whether messages fail, the daemon hangs or the VMM stops
          DaemonWorks,   \* whether it uses buffers of the rings it serves
          Offers,        \* the feature sets a daemon may offer
          DriverBits     \* the feature words the driver may write

Rings == 1 .. Queues
Transport == {"VERSION_1", "EVENT_IDX"}       \* TRANSPORT_FEATURES
\* What the driver programs a ring with: "bad" is no queue size, or not in guest RAM.
Kinds == {"good", "bad"}

VARIABLES
    dev,     \* VhostUserFs
    todo,    \* the messages the lock's holder has still to send
    daemon,  \* the other end
    call,    \* per ring, whether its call eventfd is signalled
    thread,  \* per ring, where its interrupt thread is
    stop     \* the shutdown: "", "requested", "closed"

vars == <<dev, todo, daemon, call, thread, stop>>

NoRing == [kind |-> "good", session |-> 0, ready |-> FALSE, handed |-> FALSE]
\* What the daemon has of a ring: the messages it got, and what the addresses
\* were.
NoVring == [has |-> {}, session |-> 0, kind |-> "good", kick |-> FALSE, enabled |-> FALSE]
Needed == {"SET_VRING_NUM", "SET_VRING_ADDR", "SET_VRING_BASE", "SET_VRING_CALL"}

Init ==
    \E offered \in Offers, protocol \in BOOLEAN :
        /\ dev = [status |-> 0, attempted |-> FALSE, broken |-> FALSE, protocol |-> protocol,
                  features |-> offered \cap Transport, acked |-> {}, isr |-> FALSE,
                  rings |-> [r \in Rings |-> NoRing], resets |-> 0]
        /\ daemon = [inbox |-> <<>>, features |-> {}, reads |-> TRUE,
                     vrings |-> [r \in Rings |-> NoVring]]
        /\ todo = <<>> /\ stop = ""
        /\ call = [r \in Rings |-> FALSE] /\ thread = [r \in Rings |-> "wait"]

Unlocked == todo = <<>>

-----------------------------------------------------------------------------
(* The registers. *)

\* The features that stay acknowledged.
ack_features(bits) == dev.acked \cup (bits \cap dev.features)

DriverFeatures(bits) ==
    /\ Unlocked /\ dev' = [dev EXCEPT !.acked = ack_features(bits)]
    /\ UNCHANGED <<todo, daemon, call, thread, stop>>

\* QUEUE_NUM, the ring addresses and QUEUE_READY, for one ring; after DRIVER_OK
\* too, though the daemon is not told then.
Program(r, kind) ==
    /\ Unlocked
    /\ dev' = [dev EXCEPT !.rings[r] = [@ EXCEPT !.kind = kind, !.session = dev.resets + 1,
                                                 !.ready = TRUE]]
    /\ UNCHANGED <<todo, daemon, call, thread, stop>>

\* QUEUE_READY of 0, which the device records and no more.
Unready(r) ==
    /\ Unlocked /\ dev.rings[r].ready /\ dev' = [dev EXCEPT !.rings[r].ready = FALSE]
    /\ UNCHANGED <<todo, daemon, call, thread, stop>>

\* Whether ring_extents and host_addr accept what the driver programmed.
Usable(r) == dev.rings[r].ready /\ dev.rings[r].kind = "good"

ForRings(reqs, rs) == FlattenSeq([i \in 1 .. Len(SetToSortSeq(rs, <)) |->
                          [k \in 1 .. Len(reqs) |-> <<reqs[k], SetToSortSeq(rs, <)[i]>>]])

\* Mutant of HandOver: a ring is kicked before its index is set.
HandOverKickFirst ==
    LET rs == {r \in Rings : Usable(r)}
    IN  <<<<"SET_FEATURES", 0>>, <<"SET_MEM_TABLE", 0>>>>
        \o ForRings(<<"mark", "SET_VRING_NUM", "SET_VRING_ADDR", "SET_VRING_KICK",
                      "SET_VRING_BASE", "SET_VRING_CALL">>, rs)
        \o (IF dev.protocol THEN ForRings(<<"SET_VRING_ENABLE">>, rs) ELSE <<>>)

\* hand_over: what it sends, in order.  "mark" sets handed_over.
HandOver ==
    LET rs == {r \in Rings : Usable(r)}
    IN  <<<<"SET_FEATURES", 0>>, <<"SET_MEM_TABLE", 0>>>>
        \o ForRings(<<"mark", "SET_VRING_NUM", "SET_VRING_ADDR", "SET_VRING_BASE",
                      "SET_VRING_CALL", "SET_VRING_KICK">>, rs)
        \o (IF dev.protocol THEN ForRings(<<"SET_VRING_ENABLE">>, rs) ELSE <<>>)

\* STATUS with DRIVER_OK: start.
DriverOk ==
    /\ Unlocked /\ dev' = [dev EXCEPT !.status = 1, !.attempted = TRUE]
    /\ todo' = IF dev.attempted THEN <<>> ELSE HandOver
    /\ UNCHANGED <<daemon, call, thread, stop>>

\* Mutant of TakenBack: the rings the guest has not set to unready.
TakenBackReady == {r \in Rings : dev.rings[r].ready /\ dev.rings[r].handed}
TakenBack == {r \in Rings : dev.rings[r].handed}

\* STATUS of 0: reset, which first runs stop_rings.  "cleared" is the rest of it.
Reset ==
    /\ Unlocked /\ dev.resets < MaxResets
    /\ todo' = (IF dev.attempted
                THEN ForRings((IF dev.protocol THEN <<"SET_VRING_ENABLE off">> ELSE <<>>)
                                  \o <<"GET_VRING_BASE">>, TakenBack)
                ELSE <<>>) \o <<<<"cleared", 0>>>>
    /\ UNCHANGED <<dev, daemon, call, thread, stop>>

Cleared ==
    /\ todo # <<>> /\ Head(todo)[1] = "cleared" /\ todo' = <<>>
    /\ dev' = [dev EXCEPT !.status = 0, !.attempted = FALSE, !.acked = {}, !.isr = FALSE,
                          !.rings = [r \in Rings |-> NoRing], !.resets = @ + 1]
    /\ UNCHANGED <<daemon, call, thread, stop>>

Marked ==
    /\ todo # <<>> /\ Head(todo)[1] = "mark"
    /\ dev' = [dev EXCEPT !.rings[Head(todo)[2]].handed = TRUE]
    /\ todo' = Tail(todo) /\ UNCHANGED <<daemon, call, thread, stop>>

\* INTERRUPT_ACK.
InterruptAck ==
    /\ Unlocked /\ dev.isr /\ dev' = [dev EXCEPT !.isr = FALSE]
    /\ UNCHANGED <<todo, daemon, call, thread, stop>>

-----------------------------------------------------------------------------
(* The messages. *)

Sending == todo # <<>> /\ Head(todo)[1] \notin {"cleared", "mark"}
Stopping == todo # <<>> /\ Last(todo)[1] = "cleared"

\* What is left once a message failed: the handover ends, stop_rings goes on.
AfterFailure == IF Stopping THEN Tail(todo) ELSE <<>>

\* Mutant of SentFeatures: the daemon's own offer is sent back.
SentFeaturesOffered == dev.features \cup (IF dev.protocol THEN {"PROTOCOL"} ELSE {})
\* What the daemon is told to use.
SentFeatures == dev.acked \cup (IF dev.protocol THEN {"PROTOCOL"} ELSE {})

\* A message as it is sent, with what the device has then.
Message(req, r) ==
    [req |-> req, ring |-> r,
     with |-> CASE req = "SET_FEATURES" -> SentFeatures
                [] req = "SET_VRING_ADDR" -> <<dev.rings[r].session, dev.rings[r].kind>>
                [] OTHER -> {}]

\* Peer::send refuses once the connection is broken.
MayBeSent == ~dev.broken

\* The message is in the daemon's socket; for the one that has an answer the
\* vCPU waits.
SendOk ==
    /\ Sending /\ Head(todo)[1] # "reply" /\ MayBeSent /\ stop # "closed"
    /\ daemon' = [daemon EXCEPT !.inbox = Append(@, Message(Head(todo)[1], Head(todo)[2]))]
    /\ todo' = (IF Head(todo)[1] = "GET_VRING_BASE" THEN <<<<"reply", Head(todo)[2]>>>> ELSE <<>>)
               \o Tail(todo)
    /\ UNCHANGED <<dev, call, thread, stop>>

\* The answer, which the daemon gives once it has read all that was sent.
Replied ==
    /\ todo # <<>> /\ Head(todo)[1] = "reply" /\ daemon.inbox = <<>> /\ stop # "closed"
    /\ todo' = Tail(todo) /\ UNCHANGED <<dev, daemon, call, thread, stop>>

\* The frontend refuses an argument of the handover before sending anything;
\* taking a ring back has only its index for an argument.
SendRefused ==
    /\ Sending /\ MayBeSent /\ Faults /\ ~Stopping
    /\ todo' = AfterFailure /\ UNCHANGED <<dev, daemon, call, thread, stop>>

\* The socket fails, half way through a message or in its reply.
SendBroken ==
    /\ Sending /\ MayBeSent /\ Faults /\ stop # "closed"
    /\ dev' = [dev EXCEPT !.broken = TRUE]
    /\ todo' = AfterFailure /\ UNCHANGED <<daemon, call, thread, stop>>

\* On a connection that was shut down every call fails, one that waits included.
SendClosed ==
    /\ Sending /\ MayBeSent /\ stop = "closed"
    /\ dev' = [dev EXCEPT !.broken = TRUE]
    /\ todo' = AfterFailure /\ UNCHANGED <<daemon, call, thread, stop>>

\* Nothing is sent on a broken connection.
SendNothing ==
    /\ Sending /\ ~MayBeSent
    /\ todo' = AfterFailure /\ UNCHANGED <<dev, daemon, call, thread, stop>>

-----------------------------------------------------------------------------
(* The daemon, the interrupt threads and the shutdown. *)

\* What the daemon does with a message.  Without the protocol features a ring is
\* served from its kick on.
Served(d, m) ==
    LET r == m.ring
    IN  CASE m.req = "SET_FEATURES" -> [d EXCEPT !.features = m.with]
          [] m.req = "SET_VRING_ADDR" ->
                 [d EXCEPT !.vrings[r] = [@ EXCEPT !.has = @ \cup {m.req},
                                                   !.session = m.with[1], !.kind = m.with[2]]]
          [] m.req \in Needed \ {"SET_VRING_ADDR"} -> [d EXCEPT !.vrings[r].has = @ \cup {m.req}]
          [] m.req = "SET_VRING_KICK" ->
                 [d EXCEPT !.vrings[r] = [@ EXCEPT !.kick = TRUE,
                                                   !.enabled = @ \/ "PROTOCOL" \notin d.features]]
          [] m.req = "SET_VRING_ENABLE"     -> [d EXCEPT !.vrings[r].enabled = TRUE]
          [] m.req = "SET_VRING_ENABLE off" -> [d EXCEPT !.vrings[r].enabled = FALSE]
          [] m.req = "GET_VRING_BASE"       -> [d EXCEPT !.vrings[r] = NoVring]
          [] m.req = "SET_MEM_TABLE"        -> d

DaemonReads ==
    /\ daemon.reads /\ daemon.inbox # <<>>
    /\ daemon' = [Served(daemon, Head(daemon.inbox)) EXCEPT !.inbox = Tail(@)]
    /\ UNCHANGED <<dev, todo, call, thread, stop>>

Serving(r) == daemon.vrings[r].kick /\ daemon.vrings[r].enabled

DaemonUses(r) ==
    /\ DaemonWorks /\ Serving(r) /\ ~call[r] /\ call' = [call EXCEPT ![r] = TRUE]
    /\ UNCHANGED <<dev, todo, daemon, thread, stop>>
DaemonHangs ==
    /\ Faults /\ daemon.reads /\ daemon' = [daemon EXCEPT !.reads = FALSE]
    /\ UNCHANGED <<dev, todo, call, thread, stop>>

\* serve_interrupts: the wait and the read, then signal_used under the lock.
ThreadReads(r) ==
    /\ thread[r] = "wait" /\ call[r] /\ stop = ""
    /\ call' = [call EXCEPT ![r] = FALSE] /\ thread' = [thread EXCEPT ![r] = "signal"]
    /\ UNCHANGED <<dev, todo, daemon, stop>>
ThreadSignals(r) ==
    /\ thread[r] = "signal" /\ Unlocked
    /\ dev' = [dev EXCEPT !.isr = TRUE] /\ thread' = [thread EXCEPT ![r] = "wait"]
    /\ UNCHANGED <<todo, daemon, call, stop>>
ThreadEnds(r) ==
    /\ thread[r] = "wait" /\ stop # "" /\ thread' = [thread EXCEPT ![r] = "done"]
    /\ UNCHANGED <<dev, todo, daemon, call, stop>>

\* The stop is requested, then shut_down ends the connection.
\* Mutant of MayShutDown: the shutdown takes the device lock.
MayShutDownLocked == Unlocked
MayShutDown == TRUE
StopRequest == /\ Faults /\ stop = "" /\ stop' = "requested"
               /\ UNCHANGED <<dev, todo, daemon, call, thread>>
ShutDown == /\ stop = "requested" /\ MayShutDown /\ stop' = "closed"
            /\ UNCHANGED <<dev, todo, daemon, call, thread>>

\* What the lock's holder does by itself; that a message fails is no one's duty.
Messages == SendOk \/ Replied \/ SendClosed \/ SendNothing \/ Marked \/ Cleared
Next ==
    \/ Messages \/ SendRefused \/ SendBroken \/ DriverOk \/ Reset \/ InterruptAck
    \/ DaemonReads \/ DaemonHangs \/ StopRequest \/ ShutDown
    \/ \E bits \in DriverBits : DriverFeatures(bits)
    \/ \E r \in Rings : \/ Unready(r) \/ DaemonUses(r) \/ \E kind \in Kinds : Program(r, kind)
                        \/ ThreadReads(r) \/ ThreadSignals(r) \/ ThreadEnds(r)

Spec == Init /\ [][Next]_vars
\* The lock's holder and the threads run, and a requested stop shuts down.
FairSpec == /\ Spec /\ WF_vars(Messages) /\ WF_vars(ShutDown)
            /\ \A r \in Rings : WF_vars(ThreadReads(r)) /\ WF_vars(ThreadSignals(r))
                                /\ WF_vars(ThreadEnds(r))

-----------------------------------------------------------------------------
(* Properties. *)

\* A reset leaves the daemon with no ring, also when the handover failed part of
\* the way or the guest unset a ring after DRIVER_OK, as long as the connection
\* carries messages ("leave it enabled on ring addresses the driver has
\* released").
ResetTakesRingsBack ==
    Unlocked /\ dev.status = 0 /\ ~dev.broken => \A r \in Rings : ~Serving(r)

\* The daemon serves only rings that were handed to it whole - size, addresses,
\* index and call descriptor - that guest RAM backed then, and that are of this
\* session: what waits unread in the socket never starts a ring the guest has
\* taken back.
ServesWhatIsHandedOver ==
    ~dev.broken => \A r \in Rings : Serving(r) =>
        /\ dev.rings[r].handed /\ daemon.vrings[r].has = Needed
        /\ daemon.vrings[r].session = dev.resets + 1 /\ daemon.vrings[r].kind = "good"

\* A ring is served with no feature but what the driver acknowledged since the
\* last reset.
ServesWithAckedFeatures ==
    ~dev.broken /\ (\E r \in Rings : Serving(r)) =>
        daemon.features \ {"PROTOCOL"} \subseteq dev.acked

=============================================================================
