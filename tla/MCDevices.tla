----------------------------- MODULE MCDevices ------------------------------
(***************************************************************************)
(* The virtio devices, for TLC: the split virtqueue they all serve, the    *)
(* block, network and socket devices, the vhost-user front end and the     *)
(* built-in network stack. They share no state here, so a behaviour is of  *)
(* one of them, `part`, and the variables of the others rest.              *)
(***************************************************************************)
EXTENDS Virtqueue

CONSTANTS Parts

VARIABLES part, readOnly, cache, stable, events, holder, batch, ledger, lastReq, view, kept,
          told, requests, crashes, lock, vcpu, relay, rx, netIrq, sink, out, in, posted, stopNet, s, g, reader,
          writer, flight, dev, todo2, daemon, call, thread, stop, mac, frame, flows, replies

Blk == INSTANCE Block
    WITH Capacity <- 3, SectorBytes <- 2, WordSize <- 8, Values <- {0, 1}, SectorNos <- {0, 4},
         SegLists <- {<<1>>, <<1, 1>>, <<3>>}, SerialLen <- 2, Vcpus <- 2,
         MaxRequests <- 2, MaxCrashes <- 1, last <- lastReq
Gw == INSTANCE Net
    WITH Backend <- "gateway", MaxTx <- 2, MaxIn <- 2, MaxRx <- 1, Lengths <- {1},
         SendBuffer <- 1, DRAIN_BURST <- 2, GatewayFails <- TRUE, Endless <- FALSE,
         GuestAcks <- TRUE, BadChains <- TRUE, irq <- netIrq, stop <- stopNet
Tap == INSTANCE Net
    WITH Backend <- "tap", MaxTx <- 1, MaxIn <- 2, MaxRx <- 2, Lengths <- {1, 2},
         SendBuffer <- 1, DRAIN_BURST <- 2, GatewayFails <- TRUE, Endless <- FALSE,
         GuestAcks <- TRUE, BadChains <- TRUE, irq <- netIrq, stop <- stopNet
Stub == INSTANCE Net
    WITH Backend <- "stub", MaxTx <- 2, MaxIn <- 2, MaxRx <- 2, Lengths <- {1, 2},
         SendBuffer <- 1, DRAIN_BURST <- 2, GatewayFails <- TRUE, Endless <- FALSE,
         GuestAcks <- TRUE, BadChains <- TRUE, irq <- netIrq, stop <- stopNet
NetL == INSTANCE Net
    WITH Backend <- "gateway", MaxTx <- 2, MaxIn <- 1, MaxRx <- 1, Lengths <- {1},
         SendBuffer <- 1, DRAIN_BURST <- 2, GatewayFails <- TRUE, Endless <- TRUE,
         GuestAcks <- FALSE, BadChains <- FALSE, irq <- netIrq, stop <- stopNet
Vs == INSTANCE Vsock
    WITH OurBuf <- 1, GuestBuf <- 1, MaxRw <- 1, BacklogMax <- 1, ReadMax <- 1, SockIn <- 1,
         SockOut <- 1, RxBuffers <- 1, Modulus <- 2, HostWrites <- TRUE, GuestSends <- TRUE,
         CreditRequests <- FALSE, HalfIsHangup <- FALSE, Faults <- FALSE
VsG == INSTANCE Vsock
    WITH OurBuf <- 2, GuestBuf <- 2, MaxRw <- 2, BacklogMax <- 2, ReadMax <- 1, SockIn <- 1,
         SockOut <- 1, RxBuffers <- 1, Modulus <- 4, HostWrites <- TRUE, GuestSends <- FALSE,
         CreditRequests <- FALSE, HalfIsHangup <- TRUE, Faults <- FALSE
VsH == INSTANCE Vsock
    WITH OurBuf <- 2, GuestBuf <- 2, MaxRw <- 2, BacklogMax <- 2, ReadMax <- 1, SockIn <- 1,
         SockOut <- 1, RxBuffers <- 1, Modulus <- 4, HostWrites <- FALSE, GuestSends <- TRUE,
         CreditRequests <- TRUE, HalfIsHangup <- FALSE, Faults <- FALSE
VsL == INSTANCE Vsock
    WITH OurBuf <- 1, GuestBuf <- 1, MaxRw <- 1, BacklogMax <- 1, ReadMax <- 1, SockIn <- 1,
         SockOut <- 1, RxBuffers <- 1, Modulus <- 2, HostWrites <- FALSE, GuestSends <- TRUE,
         CreditRequests <- FALSE, HalfIsHangup <- FALSE, Faults <- FALSE
VsF == INSTANCE Vsock
    WITH OurBuf <- 1, GuestBuf <- 1, MaxRw <- 1, BacklogMax <- 1, ReadMax <- 1, SockIn <- 1,
         SockOut <- 1, RxBuffers <- 1, Modulus <- 2, HostWrites <- FALSE, GuestSends <- TRUE,
         CreditRequests <- FALSE, HalfIsHangup <- FALSE, Faults <- TRUE
Vu == INSTANCE VhostUser
    WITH Queues <- 1, MaxResets <- 1, Faults <- TRUE, DaemonWorks <- FALSE,
         Offers <- {{"VERSION_1", "EVENT_IDX"}}, DriverBits <- {}, todo <- todo2
VuR == INSTANCE VhostUser
    WITH Queues <- 2, MaxResets <- 2, Faults <- FALSE, DaemonWorks <- FALSE,
         Offers <- {{"VERSION_1", "EVENT_IDX"}}, DriverBits <- {}, todo <- todo2
VuO == INSTANCE VhostUser
    WITH Queues <- 1, MaxResets <- 2, Faults <- FALSE, DaemonWorks <- FALSE,
         Offers <- {{"VERSION_1", "EVENT_IDX", "LOG_ALL"}, {"VERSION_1"}},
         DriverBits <- {{"VERSION_1"}, {"VERSION_1", "EVENT_IDX", "LOG_ALL"}}, todo <- todo2
VuL == INSTANCE VhostUser
    WITH Queues <- 1, MaxResets <- 1, Faults <- TRUE, DaemonWorks <- TRUE,
         Offers <- {{"VERSION_1", "EVENT_IDX"}}, DriverBits <- {}, todo <- todo2
Stack == INSTANCE NetStack
    WITH Backend <- "stub", Macs <- {"GUEST_MAC", "override"}
Capt == INSTANCE NetStack
    WITH Backend <- "relay", Macs <- {"GUEST_MAC", "override"}

\* The variables by the components that have them, and their value in the parts
\* that have not.
ofBlock == <<readOnly, cache, stable, events, holder, batch, ledger, lastReq, view, kept, told,
             requests, crashes>>
NoBlock == readOnly = 0 /\ cache = 0 /\ stable = 0 /\ events = 0 /\ holder = 0 /\ batch = 0 /\ ledger = 0 /\ lastReq = 0 /\
    view = 0 /\ kept = 0 /\ told = 0 /\ requests = 0 /\ crashes = 0
ofNet == <<lock, vcpu, relay, rx, netIrq, sink, out, in, posted, stopNet>>
NoNet == lock = 0 /\ vcpu = 0 /\ relay = 0 /\ rx = 0 /\ netIrq = 0 /\ sink = 0 /\ out = 0 /\
    in = 0 /\ posted = 0 /\ stopNet = 0
ofVsock == <<s, g, reader, writer, flight>>
NoVsock == s = 0 /\ g = 0 /\ reader = 0 /\ writer = 0 /\ flight = 0
ofVhostUser == <<dev, todo2, daemon, call, thread, stop>>
NoVhostUser == dev = 0 /\ todo2 = 0 /\ daemon = 0 /\ call = 0 /\ thread = 0 /\ stop = 0
ofNetStack == <<mac, frame, flows, replies>>
NoNetStack == mac = 0 /\ frame = 0 /\ flows = 0 /\ replies = 0
all == <<part, vars, ofBlock, ofNet, ofVsock, ofVhostUser, ofNetStack>>

\* A step of one part leaves the variables of the others alone.
InVirtqueue(p, A) == part = p /\ A /\ UNCHANGED <<part, ofBlock, ofNet, ofVsock, ofVhostUser,
    ofNetStack>>
InBlock(p, A) == part = p /\ A /\ UNCHANGED <<part, vars, ofNet, ofVsock, ofVhostUser,
    ofNetStack>>
InNet(p, A) == part = p /\ A /\ UNCHANGED <<part, vars, ofBlock, ofVsock, ofVhostUser,
    ofNetStack>>
InVsock(p, A) == part = p /\ A /\ UNCHANGED <<part, vars, ofBlock, ofNet, ofVhostUser,
    ofNetStack>>
InVhostUser(p, A) == part = p /\ A /\ UNCHANGED <<part, vars, ofBlock, ofNet, ofVsock,
    ofNetStack>>
InNetStack(p, A) == part = p /\ A /\ UNCHANGED <<part, vars, ofBlock, ofNet, ofVsock,
    ofVhostUser>>

MCInit ==
    /\ part \in Parts
    /\ \/ part = "queue" /\ Init /\ NoBlock /\ NoNet /\ NoVsock /\ NoVhostUser /\ NoNetStack
       \/ part = "block" /\ Blk!Init /\ Init /\ NoNet /\ NoVsock /\ NoVhostUser /\ NoNetStack
       \/ ((part = "gateway" /\ Gw!Init) \/ (part = "tap" /\ Tap!Init) \/ (part = "stub" /\ Stub!Init) \/
           (part = "net_live" /\ NetL!Init))
          /\ Init /\ NoBlock /\ NoVsock /\ NoVhostUser /\ NoNetStack
       \/ ((part = "vsock" /\ Vs!Init) \/ (part = "to_guest" /\ VsG!Init) \/
           (part = "to_host" /\ VsH!Init) \/ (part = "vsock_live" /\ VsL!Init) \/
           (part = "vsock_ends" /\ VsL!Init) \/ (part = "vsock_faults" /\ VsF!Init))
          /\ Init /\ NoBlock /\ NoNet /\ NoVhostUser /\ NoNetStack
       \/ ((part = "vhost" /\ Vu!Init) \/ (part = "rings" /\ VuR!Init) \/
           (part = "features" /\ VuO!Init) \/ (part = "vhost_live" /\ VuL!Init))
          /\ Init /\ NoBlock /\ NoNet /\ NoVsock /\ NoNetStack
       \/ ((part = "stack" /\ Stack!Init) \/ (part = "capture" /\ Capt!Init))
          /\ Init /\ NoBlock /\ NoNet /\ NoVsock /\ NoVhostUser
MCNext == \/ InVirtqueue("queue", Next) \/ InBlock("block", Blk!Next)
          \/ InNet("gateway", Gw!Next) \/ InNet("tap", Tap!Next) \/ InNet("stub", Stub!Next)
          \/ InNet("net_live", NetL!Next) \/ InVsock("vsock", Vs!Next)
          \/ InVsock("to_guest", VsG!Next) \/ InVsock("to_host", VsH!Next)
          \/ InVsock("vsock_live", VsL!Next) \/ InVsock("vsock_ends", VsL!Next)
          \/ InVsock("vsock_faults", VsF!Next) \/ InVhostUser("vhost", Vu!Next)
          \/ InVhostUser("rings", VuR!Next) \/ InVhostUser("features", VuO!Next)
          \/ InVhostUser("vhost_live", VuL!Next) \/ InNetStack("stack", Stack!Next)
          \/ InNetStack("capture", Capt!Next)
MCSpec == MCInit /\ [][MCNext]_all

\* The vCPU in a notify runs on and so does the driver's handler; the bridge's and
\* the relay's threads run, the guest and the client go on reading, the lock lets a
\* waiting relay in, and a requested stop shuts the daemon's socket: see the
\* components' own FairSpec.  One conjunct stands for a thread of every part.
Bridge(A, B) == InVsock("vsock_live", A) \/ InVsock("vsock_ends", A) \/ InVsock("vsock_faults", B)
Relay(A) == InNet("net_live", A)
Daemon(A) == InVhostUser("vhost_live", A)
Live ==
    /\ MCSpec
    /\ WF_all(\/ InVirtqueue("queue", Device) \/ Relay(NetL!VcpuStep) \/ Daemon(VuL!Messages)
              \/ Bridge(VsL!ReaderStep, VsF!ReaderStep))
    /\ WF_all(\/ InVirtqueue("queue", Handler) \/ Relay(NetL!RelayStep) \/ Daemon(VuL!ShutDown)
              \/ Bridge(VsL!WriterStep, VsF!WriterStep))
    /\ WF_all(\/ Relay(NetL!BackendReads) \/ Daemon(VuL!ThreadReads(1))
              \/ Bridge(VsL!Receive, VsF!Receive))
    /\ WF_all(Daemon(VuL!ThreadSignals(1)) \/ Bridge(VsL!Read, VsF!Read))
    /\ WF_all(Daemon(VuL!ThreadEnds(1)) \/ Bridge(VsL!CreditUpdate, VsF!CreditUpdate))
    /\ WF_all(Bridge(VsL!HostRead, VsF!HostRead))
    /\ WF_all(Bridge(VsL!BridgeEnds, VsF!BridgeEnds))
    /\ SF_all(Relay(NetL!RelayDeliver))

-----------------------------------------------------------------------------
(* Properties. *)

\* The devices do what the guest was told: a read returns what was written, a flush
\* is durable and each request is captured once as it was told (blk); a receive chain
\* gets one whole frame, the line has the status' level and no batch is left open
\* (net); the buffers hold what credit allows and the end comes behind the last byte
\* (vsock); the daemon serves the rings of this session as it was handed them, with
\* features the driver acked, and none after a reset (vhost-user); and every packet
\* that is answered, or relayed whole, is a flow of the ledger (stack).
DevicesKeepFaith ==
    /\ part = "block" => Blk!ReadsAreTrue /\ Blk!FlushIsDurable /\ Blk!CapturedIsTold
    /\ part = "gateway" => Gw!TypeOK /\ Gw!FramesArriveWhole /\ Gw!LineIsCurrent /\ Gw!NoBatchLeftOpen
    /\ part = "tap" => Tap!FramesArriveWhole /\ Tap!LineIsCurrent /\ Tap!NoBatchLeftOpen
    /\ part = "stub" => Stub!FramesArriveWhole /\ Stub!LineIsCurrent
    /\ part = "vsock" => Vs!GatesFit
    /\ part = "to_guest" => VsG!GuestBufferHolds /\ VsG!GuestEofIsLast
    /\ part = "to_host" => VsH!CreditIsEnough /\ VsH!HostEofIsLast
    /\ part = "vhost" => Vu!ResetTakesRingsBack /\ Vu!ServesWhatIsHandedOver
    /\ part = "rings" => VuR!ResetTakesRingsBack /\ VuR!ServesWhatIsHandedOver
    /\ part = "features" => VuO!ServesWithAckedFeatures
    /\ part = "stack" => Stack!AnswersAreLogged
    /\ part = "capture" => Capt!EveryFlowIsLogged

\* A request changes no sector but the ones it names of a writable image (blk), and
\* the guest gets no second OP_RST and none after its own (vsock).
NoStepOversteps ==
    [][/\ part = "block" => Blk!WritesStayInRange
       /\ part = "vsock" => Vs!OneReset]_all

\* What must come, by part: a chain published and notified is completed and taken;
\* a stop ends the relay however long traffic lasts; a client that closes ends the
\* vsock session, bytes that wait for it leave, and the bridge's threads end after a
\* reset or a stop; and a stop frees whoever waits on a daemon that answers nothing.
Asks == CASE part = "queue" -> Outstanding > 0
          [] part = "net_live" -> stopNet
          [] part = "vsock_live" -> s.conn.to_host > 0
          [] part = "vsock_ends" -> s.hostClosed
          [] part = "vsock_faults" -> s.stop \/ ~s.conn.on
          [] part = "vhost_live" -> stop # ""
Comes == CASE part = "queue" -> Outstanding = 0 \/ phase = "setup"
           [] part = "net_live" -> relay.pc = "done"
           [] part = "vsock_live" -> s.conn.to_host = 0 \/ ~s.conn.on
           [] part = "vsock_ends" -> ~s.conn.on /\ reader = "done" /\ writer = "done"
           [] part = "vsock_faults" -> reader = "done" /\ writer = "done"
           [] part = "vhost_live" -> VuL!Unlocked /\ thread[1] = "done"
DevicesAnswer == Asks ~> Comes
=============================================================================
