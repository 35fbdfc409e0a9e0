--------------------------------- MODULE Net ---------------------------------
(***************************************************************************)
(* The virtio-net device (devices/virtio/net.rs) between a vCPU that       *)
(* transmits, the relay thread that delivers what the gateway or the tap   *)
(* sends (io_threads.rs starts it), the sink a plugin installed and the    *)
(* stop.                                                                   *)
(*                                                                         *)
(* The vCPU holds the device lock through a notify, the blocking write to  *)
(* the gateway included; the relay takes it for each frame it delivers.    *)
(* A frame is its place in the order of its direction and its length, in   *)
(* units of receive buffer; the gateway's stream comes cut into frames.    *)
(* A transmit chain of length 0 is one read_tx_frame gets no frame from.   *)
(***************************************************************************)
EXTENDS Naturals, Sequences

CONSTANTS Backend,      \* "gateway", "tap" or "stub"
          MaxTx,        \* bound on the frames the guest posts
          MaxIn,        \* bound on the frames the backend sends
          MaxRx,        \* bound on the receive chains the guest posts
          Lengths,      \* the lengths of frames and of chains
          SendBuffer,   \* what the socket or the tap holds before it is full
          DRAIN_BURST,  \* receives after one wakeup
          GatewayFails, \* whether the backend closes, or sends garbage
          Endless,      \* whether frames keep coming after MaxIn
          GuestAcks,    \* whether the guest acks interrupts and resets
          BadChains     \* whether the guest posts transmit chains that hold no frame

VARIABLES lock,    \* who holds the device: "free" or "vcpu"
          vcpu,    \* the transmitting vCPU
          relay,   \* the relay thread
          rx,      \* the receive ring
          irq,     \* interrupt_status, and the level of the line
          sink,    \* whether a batch is open, and SinkSlot::fed
          out,     \* frames written and not yet read by the backend
          in,      \* frames the backend sent, not yet received
          posted,  \* how many frames and chains were posted or sent
          stop

vars == <<lock, vcpu, relay, rx, irq, sink, out, in, posted, stop>>

Init ==
    /\ lock = "free" /\ stop = FALSE
    /\ vcpu = [pc |-> "guest", pending |-> <<>>, left |-> 0, used |-> 0]
    /\ relay = [pc |-> IF Backend = "stub" THEN "done" ELSE "wait", burst |-> 0,
                frame |-> <<>>, fed |-> FALSE, end |-> FALSE]
    /\ rx = [avail |-> <<>>, used |-> <<>>]
    /\ irq = [status |-> FALSE, line |-> FALSE]
    /\ sink = [open |-> FALSE, fed |-> FALSE]
    /\ out = [frames |-> <<>>, shut |-> FALSE]
    /\ in = [frames |-> <<>>, closed |-> FALSE]
    /\ posted = [tx |-> 0, in |-> 0, rx |-> 0]

-----------------------------------------------------------------------------
(* What the device does under its lock. *)

Fed == [open |-> TRUE, fed |-> TRUE]

\* A frame is delivered only whole.
Fits(frame, chain) == frame.len <= chain

\* inject_rx: the frame fills the first chain posted, or is dropped and leaves it.
inject_rx(r, frame) ==
    IF r.avail # <<>> /\ Fits(frame, Head(r.avail))
    THEN [avail |-> Tail(r.avail),
          used |-> Append(r.used, [n |-> frame.n, len |-> frame.len, chain |-> Head(r.avail)])]
    ELSE r

Injected(frame) == inject_rx(rx, frame) # rx
\* VirtioNet::sync_irq.
sync_irq(i) == [i EXCEPT !.line = i.status]

-----------------------------------------------------------------------------
(* The vCPU. *)

PostTx(len) ==
    /\ vcpu.pc = "guest" /\ ~stop /\ posted.tx < MaxTx
    /\ posted' = [posted EXCEPT !.tx = @ + 1]
    /\ vcpu' = [vcpu EXCEPT !.pending = Append(@, [n |-> posted.tx + 1, len |-> len])]
    /\ UNCHANGED <<lock, relay, rx, irq, sink, out, in, stop>>

PostRx(len) ==
    /\ vcpu.pc = "guest" /\ ~stop /\ posted.rx < MaxRx
    /\ posted' = [posted EXCEPT !.rx = @ + 1] /\ rx' = [rx EXCEPT !.avail = Append(@, len)]
    /\ UNCHANGED <<lock, vcpu, relay, irq, sink, out, in, stop>>

\* QUEUE_NOTIFY of the transmit queue: process_tx takes what is pending now.
Notify ==
    /\ vcpu.pc = "guest" /\ lock = "free" /\ ~stop /\ vcpu.pending # <<>>
    /\ lock' = "vcpu" /\ vcpu' = [vcpu EXCEPT !.pc = "tx", !.left = Len(vcpu.pending)]
    /\ UNCHANGED <<relay, rx, irq, sink, out, in, posted, stop>>

\* The frame's end: the chain is used and the loop goes on.
TxUsed == vcpu' = [vcpu EXCEPT !.pending = Tail(@), !.left = @ - 1, !.used = @ + 1]
Transmitting == vcpu.pc = "tx" /\ vcpu.left > 0 /\ Head(vcpu.pending).len > 0

\* read_tx_frame refuses the chain: it is used, and nothing is fed or sent.
TxRefused ==
    /\ vcpu.pc = "tx" /\ vcpu.left > 0 /\ Head(vcpu.pending).len = 0
    /\ TxUsed /\ UNCHANGED <<lock, relay, rx, irq, sink, out, in, posted, stop>>

\* A write to the peer returns at once, or waits for room.
TxRoom == out.shut \/ Len(out.frames) < SendBuffer
\* relay_to_gateway: blocks while the socket is full, fails once it is shut down.
TxGateway ==
    /\ Transmitting /\ Backend = "gateway" /\ TxRoom
    /\ TxUsed /\ sink' = Fed
    /\ out' = IF out.shut THEN out ELSE [out EXCEPT !.frames = Append(@, Head(vcpu.pending).n)]
    /\ UNCHANGED <<lock, relay, rx, irq, in, posted, stop>>

\* write_to_tap: a full send buffer drops the frame.
TxTap ==
    /\ Transmitting /\ Backend = "tap" /\ TxUsed /\ sink' = Fed
    /\ out' = IF Len(out.frames) < SendBuffer
              THEN [out EXCEPT !.frames = Append(@, Head(vcpu.pending).n)] ELSE out
    /\ UNCHANGED <<lock, relay, rx, irq, in, posted, stop>>

\* handle_frame: the built-in stack answers some frames, into the receive ring.
TxStub(answered) ==
    /\ Transmitting /\ Backend = "stub" /\ TxUsed
    /\ sink' = Fed
    /\ rx' = IF answered THEN inject_rx(rx, Head(vcpu.pending)) ELSE rx
    /\ irq' = [irq EXCEPT !.status = @ \/ (answered /\ Injected(Head(vcpu.pending)))]
    /\ UNCHANGED <<lock, relay, out, in, posted, stop>>

\* The access ends: the interrupt, the line, and the sink the access fed.
TxDone ==
    /\ vcpu.pc = "tx" /\ vcpu.left = 0 /\ lock' = "free"
    /\ irq' = sync_irq([irq EXCEPT !.status = TRUE])
    /\ sink' = [sink EXCEPT !.fed = FALSE]
    /\ vcpu' = [vcpu EXCEPT !.pc = IF sink.fed THEN "batch" ELSE "guest"]
    /\ UNCHANGED <<relay, rx, out, in, posted, stop>>

\* on_batch_end, after the lock is released.
VcpuBatchEnd ==
    /\ vcpu.pc = "batch" /\ vcpu' = [vcpu EXCEPT !.pc = "guest"]
    /\ sink' = [sink EXCEPT !.open = FALSE]
    /\ UNCHANGED <<lock, relay, rx, irq, out, in, posted, stop>>

\* INTERRUPT_ACK.
InterruptAck ==
    /\ GuestAcks /\ vcpu.pc = "guest" /\ lock = "free" /\ irq.status
    /\ irq' = sync_irq([irq EXCEPT !.status = FALSE])
    /\ UNCHANGED <<lock, vcpu, relay, rx, sink, out, in, posted, stop>>

\* STATUS of 0.
Reset ==
    /\ GuestAcks /\ vcpu.pc = "guest" /\ lock = "free" /\ irq.status
    /\ irq' = sync_irq([irq EXCEPT !.status = FALSE])
    /\ rx' = [avail |-> <<>>, used |-> <<>>] /\ vcpu' = [vcpu EXCEPT !.pending = <<>>]
    /\ UNCHANGED <<lock, relay, sink, out, in, posted, stop>>

-----------------------------------------------------------------------------
(* The relay thread: GatewayRelay::run and TapRelay::run. *)

\* StopToken::wait.
RelayWake ==
    /\ relay.pc = "wait" /\ (stop \/ in.frames # <<>> \/ in.closed)
    /\ relay' = IF stop THEN [relay EXCEPT !.pc = "ending"]
                ELSE [relay EXCEPT !.pc = "recv", !.burst = 0]
    /\ UNCHANGED <<lock, vcpu, rx, irq, sink, out, in, posted, stop>>

\* Mutant of BurstOver: the relay reads for as long as there is something.
BurstOverNever == FALSE
BurstOver == relay.burst = DRAIN_BURST

\* drain_burst: one receive, or the burst's end.  A zero read, an oversized
\* length or a failed read ends the relay.
RelayRecv ==
    /\ relay.pc = "recv"
    /\ IF BurstOver \/ (in.frames = <<>> /\ ~in.closed)
       THEN relay' = [relay EXCEPT !.pc = "burstEnd"] /\ in' = in
       ELSE IF in.frames = <<>> \/ Head(in.frames).len = 0
       THEN relay' = [relay EXCEPT !.pc = "burstEnd", !.end = TRUE] /\ in' = in
       ELSE /\ relay' = [relay EXCEPT !.pc = "deliver", !.frame = <<Head(in.frames)>>,
                                      !.burst = IF @ < DRAIN_BURST THEN @ + 1 ELSE @]
            /\ in' = [in EXCEPT !.frames = Tail(@)]
    /\ UNCHANGED <<lock, vcpu, rx, irq, sink, out, posted, stop>>

\* Mutant of TakesFed: the sink stays with the device.
TakesFedNever == FALSE
\* deliver hands the sink it fed to the relay.
TakesFed == TRUE

\* The interrupt of a delivery.
DeliverIrq(frame) == sync_irq([irq EXCEPT !.status = @ \/ Injected(frame)])

\* deliver, under the lock.
RelayDeliver ==
    /\ relay.pc = "deliver" /\ lock = "free"
    /\ rx' = inject_rx(rx, relay.frame[1]) /\ irq' = DeliverIrq(relay.frame[1])
    /\ sink' = [Fed EXCEPT !.fed = ~TakesFed]
    /\ relay' = [relay EXCEPT !.pc = "recv", !.frame = <<>>, !.fed = @ \/ TakesFed]
    /\ UNCHANGED <<lock, vcpu, out, in, posted, stop>>

\* relay_burst: the batch ends, whatever ended the burst.
RelayBurstEnd ==
    /\ relay.pc = "burstEnd"
    /\ sink' = IF relay.fed THEN [sink EXCEPT !.open = FALSE] ELSE sink
    /\ relay' = [relay EXCEPT !.pc = IF relay.end THEN "ending" ELSE "wait", !.fed = FALSE]
    /\ UNCHANGED <<lock, vcpu, rx, irq, out, in, posted, stop>>

\* A relay that ends shuts the peer down for both ways.
ShutsDown == Backend = "gateway"

\* The relay ends and shuts the socket down, which fails a write that waits.
RelayEnds ==
    /\ relay.pc = "ending" /\ relay' = [relay EXCEPT !.pc = "done"]
    /\ out' = IF ShutsDown THEN [out EXCEPT !.shut = TRUE] ELSE out
    /\ UNCHANGED <<lock, vcpu, rx, irq, sink, in, posted, stop>>

-----------------------------------------------------------------------------
(* The other end, and the stop. *)

BackendSends(len) ==
    /\ Backend # "stub" /\ ~in.closed
    /\ posted.in < MaxIn \/ (Endless /\ in.frames = <<>>)
    /\ posted' = [posted EXCEPT !.in = IF @ < MaxIn THEN @ + 1 ELSE @]
    /\ in' = [in EXCEPT !.frames = Append(@, [n |-> posted'.in, len |-> len])]
    /\ UNCHANGED <<lock, vcpu, relay, rx, irq, sink, out, stop>>
BackendReads ==
    /\ out.frames # <<>> /\ out' = [out EXCEPT !.frames = Tail(@)]
    /\ UNCHANGED <<lock, vcpu, relay, rx, irq, sink, in, posted, stop>>
BackendCloses ==
    /\ GatewayFails /\ Backend # "stub" /\ ~in.closed /\ in' = [in EXCEPT !.closed = TRUE]
    /\ UNCHANGED <<lock, vcpu, relay, rx, irq, sink, out, posted, stop>>

\* IoThreads::stop, with the vCPUs out of the guest or left in a write.
Stop == /\ ~stop /\ stop' = TRUE
        /\ UNCHANGED <<lock, vcpu, relay, rx, irq, sink, out, in, posted>>

VcpuStep == TxRefused \/ TxGateway \/ TxTap \/ TxDone \/ VcpuBatchEnd \/ \E a \in BOOLEAN : TxStub(a)
RelayStep == RelayWake \/ RelayRecv \/ RelayDeliver \/ RelayBurstEnd \/ RelayEnds
GarbageLengths == IF GatewayFails THEN Lengths \cup {0} ELSE Lengths
TxLengths == IF BadChains THEN Lengths \cup {0} ELSE Lengths
Next ==
    \/ VcpuStep \/ RelayStep \/ Notify \/ InterruptAck \/ Reset \/ BackendReads \/ BackendCloses
    \/ Stop \/ (\E len \in TxLengths : PostTx(len)) \/ (\E len \in Lengths : PostRx(len))
    \/ \E len \in GarbageLengths : BackendSends(len)

Spec == Init /\ [][Next]_vars
\* Both threads run; the lock is fair enough that a waiting relay gets it.
StalledSpec == Spec /\ WF_vars(VcpuStep) /\ WF_vars(RelayStep) /\ SF_vars(RelayDeliver)
\* The backend also goes on reading.
FairSpec == StalledSpec /\ WF_vars(BackendReads)

-----------------------------------------------------------------------------
(* Properties. *)

TypeOK ==
    /\ lock \in {"free", "vcpu"} /\ (lock = "vcpu" <=> vcpu.pc = "tx")
    /\ vcpu.pc \in {"guest", "tx", "batch"} /\ vcpu.left <= Len(vcpu.pending)
    /\ relay.pc \in {"wait", "recv", "deliver", "burstEnd", "ending", "done"}
    /\ Len(out.frames) <= SendBuffer

\* A receive chain completes with one whole frame, in the order the frames
\* arrived: none is cut to the chain, split over two or delivered twice.
FramesArriveWhole ==
    /\ \A i \in DOMAIN rx.used : rx.used[i].len <= rx.used[i].chain
    /\ \A i, j \in DOMAIN rx.used : i < j => rx.used[i].n < rx.used[j].n

\* Whoever released the device, its line is at the level of interrupt_status.
LineIsCurrent == lock = "free" => irq.line = irq.status

\* Once neither thread is about to end a batch, no record waits for one: a burst
\* that feeds the sink while the vCPU feeds it as well is never left open.
NoBatchLeftOpen ==
    sink.open => \/ lock = "vcpu" \/ vcpu.pc = "batch" \/ relay.fed

=============================================================================
