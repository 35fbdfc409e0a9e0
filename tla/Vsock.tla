-------------------------------- MODULE Vsock --------------------------------
(***************************************************************************)
(* One session of the vsock device and its bridge                          *)
(* (devices/virtio/vsock.rs): a client of the host's agent socket, the two *)
(* bridge threads of the connection, the device under its lock, and the    *)
(* guest's vsock stack with the agent behind it.                           *)
(*                                                                         *)
(* Bytes are counted, not named, and both streams run forever: the credit  *)
(* counters wrap at Modulus as the code's do at 2^32.  `flight' counts, in *)
(* each direction, the bytes one end wrote that the other has not read.    *)
(***************************************************************************)
EXTENDS Naturals, Sequences, SequencesExt

CONSTANTS
    OurBuf,        \* OUR_BUF_ALLOC
    GuestBuf,      \* the guest's receive buffer
    MaxRw,         \* MAX_RW
    BacklogMax,    \* HOST_BACKLOG_MAX
    ReadMax,       \* the bytes the reader takes at a time
    SockIn, SockOut, \* what the host socket holds, each way
    RxBuffers,     \* the receive buffers the guest's driver keeps posted
    Modulus,       \* where the counters wrap
    HostWrites, GuestSends,  \* whether each end sends bytes
    CreditRequests, \* whether the guest asks for credit
    HalfIsHangup,  \* whether a half-close polls as a hangup (macOS)
    Faults         \* whether the guest resets the device or the VMM stops

VARIABLES
    s,       \* the device, its rings and the host socket
    g,       \* the guest's socket
    reader,  \* where the bridge reader is
    writer,  \* where the bridge writer is
    flight   \* bytes on their way: [guest, host]

vars == <<s, g, reader, writer, flight>>

BOTH == {"RCV", "SEND"}
Min2(a, b) == IF a < b THEN a ELSE b
Minus(a, b) == (a + Modulus - b) % Modulus     \* wrapping_sub
Plus(a, b) == (a + b) % Modulus                \* wrapping_add

Then(e, F(_)) == CHOOSE r \in {F(x) : x \in {e}} : TRUE   \* e, then F of it

\* A header with what it says: n bytes of payload, OP_SHUTDOWN's flags, and the
\* sender's fwd_cnt.
Pkt(op, n, flags, fwd) == [op |-> op, n |-> n, flags |-> flags, fwd |-> fwd]

\* add_conn and connect: the session is registered and offered in one hold of
\* the lock, so the first packet is the OP_REQUEST.  `is' holds the flags of
\* Conn that are set, `told' the OP_SHUTDOWN flags the guest was sent.
NewConn == [on |-> TRUE, state |-> "Offered", rx_cnt |-> 0, to_host |-> 0, backlog |-> 0,
            is |-> {}, told |-> {}, buf |-> 0, fwd |-> 0, tx_cnt |-> 0]

Init ==
    /\ s = [conn |-> NewConn, pending |-> <<>>, inbox |-> <<Pkt("REQUEST", 0, {}, 0)>>,
            resets |-> 0, why |-> "", stop |-> FALSE, readerShut |-> FALSE, writerShut |-> TRUE,
            inq |-> 0, hostShut |-> FALSE, hostClosed |-> FALSE,
            outq |-> 0, eof |-> FALSE, shut |-> FALSE]
    /\ g = [state |-> "none", unread |-> 0, fwd |-> 0, sent |-> 0, seen |-> 0,
            shut |-> {}, told |-> {}]
    /\ reader = "poll" /\ writer = "gate"
    /\ flight = [guest |-> 0, host |-> 0]

-----------------------------------------------------------------------------
(* The device, under its lock. *)

\* Mutant of credit: what the guest has not consumed is not counted.
creditWhole(c) == c.buf
credit(c) == LET in_flight == Minus(c.tx_cnt, c.fwd)
             IN  IF in_flight > c.buf THEN 0 ELSE c.buf - in_flight

guest_full_close(c) == {"guest_rcv_shut", "guest_send_shut"} \subseteq c.is
host_half_open(c) == "host_eof" \in c.is /\ c.is \cap {"host_hung_up", "host_gone"} = {}
to_guest_done(c) == c.is \cap {"guest_rcv_shut", "reset_sent"} # {} \/ "SEND" \in c.told

\* Mutant of to_host_done: the bytes that wait do not matter.
to_host_doneEarly(c) == c.is \cap {"guest_send_shut", "reset_sent"} # {} \/ "RCV" \in c.told
to_host_done(c) ==
    c.to_host = 0 /\ (c.is \cap {"guest_send_shut", "reset_sent"} # {} \/ "RCV" \in c.told)

\* Drop for Conn: the stream is shut down and both gates open.
DropConn(d, why) ==
    [d EXCEPT !.conn.on = FALSE, !.shut = TRUE, !.why = why, !.readerShut = FALSE,
              !.writerShut = FALSE]

Push(d, p) == [d EXCEPT !.pending = Append(@, p), !.resets = @ + (IF p.op = "RST" THEN 1 ELSE 0)]
Mark(d, flags) == [d EXCEPT !.conn.is = @ \cup flags]

\* peer_hung_up: the stream can neither read nor write.
peer_hung_up(d) == d.hostClosed \/ d.shut \/ (d.hostShut /\ d.eof)

\* settle, in its three parts: the host's write half, what the guest is told
\* about the host, and the end of the connection.
SettleWriteHalf(d) ==
    IF /\ "guest_send_shut" \in d.conn.is /\ d.conn.to_host = 0
       /\ d.conn.is \cap {"host_write_shut", "host_gone"} = {}
    THEN [Mark(d, {"host_write_shut"}) EXCEPT !.eof = TRUE]
    ELSE d

\* Whether the guest is told of the end of the stream now.
TellGuestNow(c) ==
    /\ c.is \cap {"guest_reset", "reset_sent"} = {} /\ ~guest_full_close(c)
    /\ "host_eof" \in c.is /\ c.backlog = 0 /\ c.told # BOTH

SettleTell(d) ==
    LET c == d.conn
        asks == c.told = {} /\ "host_hung_up" \notin c.is /\ "guest_rcv_shut" \notin c.is
        e == IF asks /\ peer_hung_up(d) THEN Mark(d, {"host_hung_up"}) ELSE d
        flags == (IF "guest_rcv_shut" \in c.is THEN {} ELSE {"SEND"})
                 \cup (IF "host_hung_up" \in e.conn.is THEN BOTH ELSE {})
        told == c.told \cup flags
    IN  IF ~TellGuestNow(c) THEN d
        ELSE IF "host_gone" \in c.is
        THEN Push(Mark(d, {"reset_sent"}), Pkt("RST", 0, {}, c.rx_cnt))
        ELSE IF flags \subseteq c.told THEN e
        ELSE Push([e EXCEPT !.conn.told = told], Pkt("SHUTDOWN", 0, told, c.rx_cnt))

\* Mutant of Parting: a guest that reset the connection is answered.
PartingAlways(c) == IF guest_full_close(c) THEN "RST" ELSE "SHUTDOWN"
Parting(c) ==
    IF c.is \cap {"guest_reset", "reset_sent"} # {} THEN ""
    ELSE IF guest_full_close(c) THEN "RST"
    ELSE IF c.told # BOTH THEN "SHUTDOWN" ELSE ""

SettleEnd(d) ==
    LET c == d.conn
        op == Parting(c)
        e == IF op = "" THEN d
             ELSE Push(d, Pkt(op, 0, IF op = "RST" THEN {} ELSE BOTH, c.rx_cnt))
    IN  IF to_guest_done(c) /\ to_host_done(c) THEN DropConn(e, "done") ELSE d

settle(d) == IF d.conn.on THEN Then(Then(SettleWriteHalf(d), SettleTell), SettleEnd) ELSE d

\* frame_backlog, for the one connection there is.
CanFrame(d) ==
    d.conn.on /\ d.conn.state = "Connected" /\ d.conn.backlog > 0 /\ credit(d.conn) > 0
frame_backlog(d) ==
    LET n == Min2(Min2(d.conn.backlog, MaxRw), credit(d.conn))
        left == d.conn.backlog - n
        e == [d EXCEPT !.conn.backlog = left, !.conn.tx_cnt = Plus(@, n),
                       !.readerShut = @ /\ left >= BacklogMax]
    IN  Then(Push(e, Pkt("RW", n, {}, d.conn.rx_cnt)), settle)

\* split_pending and the delivery of one packet into a buffer that holds `cap'
\* bytes of payload.
Deliver(d, cap) ==
    LET p == Head(d.pending)
        whole == p.n <= cap
    IN  [d EXCEPT !.inbox = Append(@, IF whole THEN p ELSE [p EXCEPT !.n = cap]),
                  !.pending = IF whole THEN Tail(@)
                              ELSE <<[p EXCEPT !.n = p.n - cap]>> \o Tail(@)]

\* fill_rx: what is pending goes out while there are buffers, and the backlog is
\* framed only when nothing is.
RECURSIVE fill_rx(_, _)
fill_rx(d, cap) ==
    IF d.pending = <<>> /\ ~CanFrame(d) THEN d
    ELSE Then(IF d.pending = <<>> THEN frame_backlog(d) ELSE d,
              LAMBDA e : IF Len(e.inbox) = RxBuffers THEN e
                         ELSE Then(Deliver(e, cap), LAMBDA f : fill_rx(f, cap)))

\* host_gone: what waits for the host is dropped and credited.
Forfeit(c) == [c EXCEPT !.is = @ \cup {"host_gone"}, !.to_host = 0,
                        !.rx_cnt = Plus(@, c.to_host)]

host_gone(d) ==
    LET c == Forfeit(d.conn)
        reset_due == "host_eof" \in c.is /\ c.backlog = 0
        tell == /\ c.is \cap {"guest_send_shut", "reset_sent"} = {}
                /\ "RCV" \notin c.told /\ ~reset_due
        e == [d EXCEPT !.conn = IF tell THEN [c EXCEPT !.told = @ \cup {"RCV"}] ELSE c,
                       !.writerShut = TRUE]
    IN  IF ~d.conn.on \/ "host_gone" \in d.conn.is THEN d
        ELSE Then(IF tell THEN Push(e, Pkt("SHUTDOWN", 0, {"RCV"}, c.rx_cnt)) ELSE e, settle)

\* The writer's gate is shut exactly while nothing waits for the host.
writer_gate(d, left) == left = 0

\* Our fwd_cnt once the socket took n bytes.
Taken(c, n) == Plus(c.rx_cnt, n)

\* The client closes behind `cut' bytes of the send: the next write fails, and
\* those bytes left to_host without the credit for them.
Cuts(d, cut) == ~d.hostClosed /\ cut \in 1..Min2(d.conn.to_host - 1, SockOut - d.outq)
CutShort(d, cut) ==
    [d EXCEPT !.conn.to_host = @ - cut, !.outq = @ + cut, !.hostClosed = TRUE]

\* flush_to_host: the send takes what the socket has room for; a client that
\* has gone, or goes while it runs, makes it fail.
flush_to_host(d, cut) ==
    LET c == d.conn
        n == Min2(c.to_host, SockOut - d.outq)
        e == [d EXCEPT !.conn.to_host = @ - n, !.conn.rx_cnt = Taken(c, n), !.outq = @ + n,
                       !.writerShut = writer_gate(d, c.to_host - n)]
        credited == n > 0 /\ "guest_send_shut" \notin c.is
    IN  IF ~c.on THEN d
        ELSE IF c.to_host > 0 /\ (d.hostClosed \/ d.shut) THEN host_gone(d)
        ELSE IF Cuts(d, cut) THEN Then(CutShort(d, cut), host_gone)
        ELSE Then(IF credited THEN Push(e, Pkt("CREDIT", 0, {}, e.conn.rx_cnt)) ELSE e, settle)

\* handle_pkt for each packet the agent sends on this session, with the credit
\* every header carries.
Credited(d) == IF d.conn.on THEN [d EXCEPT !.conn.buf = GuestBuf, !.conn.fwd = g.fwd] ELSE d

OnResponse(d) ==
    IF d.conn.on /\ d.conn.state = "Offered" THEN [d EXCEPT !.conn.state = "Connected"] ELSE d

OnRw(d, n, cut) ==
    LET c == d.conn
    IN  IF ~(c.on /\ c.state = "Connected" /\ "guest_send_shut" \notin c.is) THEN d
        ELSE IF "host_gone" \in c.is
        THEN LET e == [d EXCEPT !.conn.rx_cnt = Plus(@, n)]
             IN  Push(e, Pkt("CREDIT", 0, {}, e.conn.rx_cnt))
        ELSE IF c.to_host + n > OurBuf
        THEN DropConn(Push(d, Pkt("RST", 0, {}, c.rx_cnt)), "overrun")
        ELSE Then([d EXCEPT !.conn.to_host = @ + n], LAMBDA e : flush_to_host(e, cut))

OnShutdown(d, flags, reset) ==
    LET is == d.conn.is \cup (IF reset THEN {"guest_reset"} ELSE {})
                        \cup (IF "RCV" \in flags THEN {"guest_rcv_shut"} ELSE {})
                        \cup (IF "SEND" \in flags THEN {"guest_send_shut"} ELSE {})
        e == [d EXCEPT !.conn.is = is, !.conn.backlog = IF "RCV" \in flags THEN 0 ELSE @,
                       !.readerShut = IF "guest_rcv_shut" \in is
                                      THEN "guest_send_shut" \notin is ELSE @]
    IN  IF d.conn.on THEN Then(e, settle) ELSE d

OnCreditRequest(d) ==
    IF d.conn.on /\ d.conn.state = "Connected"
    THEN Push(d, Pkt("CREDIT", 0, {}, d.conn.rx_cnt)) ELSE d

-----------------------------------------------------------------------------
(* The guest.  A packet it sends is handled by the vCPU that notifies it.   *)

Sends(d) == \E e \in {d}, cap \in 1..MaxRw : s' = fill_rx(e, cap)
Alive == g.state \in {"open", "closing"}

\* The stack takes the next packet and posts its buffer again; a socket that is gone answers with a reset.
Receive ==
    /\ s.inbox # <<>>
    /\ LET p == Head(s.inbox)
           d == [s EXCEPT !.inbox = Tail(@)]
       IN  \/ /\ g.state = "none" /\ p.op = "REQUEST"
              /\ \/ /\ Sends(OnResponse(Credited(d)))
                    /\ g' = [g EXCEPT !.state = "open"]
                 \/ /\ Sends(OnShutdown(Credited(d), BOTH, TRUE))
                    /\ g' = [g EXCEPT !.state = "dead"]
              /\ UNCHANGED flight
           \/ /\ Alive /\ p.op # "RST" /\ Sends(d)
              /\ g' = [g EXCEPT !.seen = p.fwd, !.told = @ \cup p.flags,
                                !.unread = IF p.op = "RW" /\ "RCV" \notin g.shut THEN @ + p.n ELSE @]
              /\ flight' = [flight EXCEPT !.guest =
                              IF p.op = "RW" /\ "RCV" \in g.shut THEN @ - p.n ELSE @]
           \/ /\ Alive /\ p.op = "RST" /\ Sends(d)
              /\ g' = [g EXCEPT !.state = "dead"] /\ UNCHANGED flight
           \/ /\ g.state = "dead" /\ p.op \notin {"RST", "REQUEST"}
              /\ Sends(OnShutdown(Credited(d), BOTH, TRUE)) /\ UNCHANGED <<g, flight>>
           \/ /\ g.state = "dead" /\ p.op \in {"RST", "REQUEST"}
              /\ Sends(d) /\ UNCHANGED <<g, flight>>
    /\ UNCHANGED <<reader, writer>>

\* The agent reads a byte, with or without telling the device.
Read ==
    /\ Alive /\ g.unread > 0
    /\ g' = [g EXCEPT !.unread = @ - 1, !.fwd = Plus(@, 1)]
    /\ flight' = [flight EXCEPT !.guest = @ - 1] /\ UNCHANGED <<s, reader, writer>>
CreditUpdate ==
    /\ Alive /\ s.conn.on /\ s.conn.fwd # g.fwd /\ Sends(Credited(s))
    /\ UNCHANGED <<g, reader, writer, flight>>
CreditRequest ==
    /\ CreditRequests /\ g.state = "open" /\ s.inbox = <<>> /\ Sends(OnCreditRequest(Credited(s)))
    /\ UNCHANGED <<g, reader, writer, flight>>

\* The agent writes, within the credit it was given.
Send ==
    /\ GuestSends /\ g.state = "open" /\ "SEND" \notin g.shut /\ "RCV" \notin g.told
    /\ \E n \in 1..OurBuf, cut \in 0..(OurBuf - 1) :
         /\ Minus(g.sent, g.seen) + n <= OurBuf
         /\ g' = [g EXCEPT !.sent = Plus(@, n)]
         /\ Sends(OnRw(Credited(s), n, cut))
         /\ flight' = [flight EXCEPT !.host = IF s.conn.on THEN @ + n ELSE @]
    /\ UNCHANGED <<reader, writer>>

\* shutdown and close of the agent's socket.  A close waits for our reset, and
\* resets the connection itself after a while.
Shutdown(flags) ==
    /\ g.state = "open" /\ ~(flags \subseteq g.shut)
    /\ g' = [g EXCEPT !.shut = @ \cup flags]
    /\ Sends(OnShutdown(Credited(s), flags, FALSE)) /\ UNCHANGED <<reader, writer, flight>>
Close ==
    /\ g.state = "open"
    /\ g' = [g EXCEPT !.shut = BOTH, !.state = "closing"]
    /\ Sends(OnShutdown(Credited(s), BOTH, FALSE)) /\ UNCHANGED <<reader, writer, flight>>
\* Linux resets a socket whose peer shut both directions once it is read.
ResetByGuest ==
    /\ Alive /\ (g.state = "closing" \/ (g.told = BOTH /\ g.unread = 0))
    /\ g' = [g EXCEPT !.state = "dead"]
    /\ Sends(OnShutdown(Credited(s), BOTH, TRUE)) /\ UNCHANGED <<reader, writer, flight>>

\* A write of 0 to STATUS: reset.
DeviceReset ==
    /\ Faults
    /\ s' = [(IF s.conn.on THEN DropConn(s, "reset") ELSE s) EXCEPT !.pending = <<>>,
                                                                    !.inbox = <<>>]
    /\ g' = [g EXCEPT !.state = "dead"] /\ UNCHANGED <<reader, writer, flight>>

-----------------------------------------------------------------------------
(* The client of the agent socket. *)

HostCanWrite == ~s.hostShut /\ ~s.hostClosed /\ ~s.shut

HostWrite == /\ HostWrites /\ HostCanWrite /\ s.inq < SockIn
             /\ s' = [s EXCEPT !.inq = @ + 1]
             /\ flight' = [flight EXCEPT !.guest = @ + 1] /\ UNCHANGED <<g, reader, writer>>
HostRead == /\ s.outq > 0 /\ ~s.hostClosed
            /\ s' = [s EXCEPT !.outq = @ - 1]
            /\ flight' = [flight EXCEPT !.host = @ - 1] /\ UNCHANGED <<g, reader, writer>>
HostShutdown == /\ HostCanWrite /\ s' = [s EXCEPT !.hostShut = TRUE]
                /\ UNCHANGED <<g, reader, writer, flight>>
HostClose == /\ ~s.hostClosed /\ s' = [s EXCEPT !.hostClosed = TRUE]
             /\ UNCHANGED <<g, reader, writer, flight>>

-----------------------------------------------------------------------------
(* The bridge threads. *)

AtEof == s.inq = 0 /\ (s.hostShut \/ s.hostClosed \/ s.shut)
Hangup == s.hostClosed \/ s.shut \/ (HalfIsHangup /\ s.hostShut)

\* The reader's poll, its read and host_data.
ReaderRead ==
    /\ reader = "poll" /\ s.inq > 0 /\ ~s.stop
    /\ LET n == Min2(s.inq, ReadMax)
           d == [s EXCEPT !.inq = @ - n]
           is == s.conn.is
       IN  IF s.conn.on /\ "guest_rcv_shut" \notin is
           THEN LET full(t) == t.conn.on /\ t.conn.backlog >= BacklogMax
                IN  \E cap \in 1..MaxRw :
                      \E t \in {fill_rx([d EXCEPT !.conn.backlog = @ + n], cap)} :
                          /\ s' = IF full(t) THEN [t EXCEPT !.readerShut = TRUE] ELSE t
                          /\ reader' = IF full(t) THEN "gate" ELSE "poll"
                          /\ UNCHANGED flight
           ELSE LET waits == s.conn.on /\ "guest_send_shut" \notin is
                IN  /\ s' = [d EXCEPT !.readerShut = @ \/ waits]
                    /\ reader' = IF waits THEN "gate" ELSE "poll"
                    /\ flight' = [flight EXCEPT !.guest = @ - n]
    /\ UNCHANGED <<g, writer>>

\* HostGate::wait.
ReaderWait ==
    /\ reader = "gate" /\ (~s.readerShut \/ Hangup \/ s.stop)
    /\ reader' = "poll" /\ UNCHANGED <<s, g, writer, flight>>

\* Mutant of HalfOpen: a half-open host is left to itself.
HalfOpenNot(d) == FALSE
HalfOpen(d) == d.conn.on /\ host_half_open(d.conn)

\* EOF, or the stop: host_eof.
ReaderEof ==
    /\ reader = "poll" /\ (AtEof \/ s.stop)
    /\ LET flags == {"host_eof"} \cup (IF peer_hung_up(s) THEN {"host_hung_up"} ELSE {})
       IN  IF s.conn.on
           THEN \E cap \in 1..MaxRw :
                  \E t \in {Then(settle(Mark(s, flags)), LAMBDA e : fill_rx(e, cap))} :
                      /\ s' = t
                      /\ reader' = IF HalfOpen(t) THEN "half" ELSE "done"
           ELSE reader' = "done" /\ UNCHANGED s
    /\ UNCHANGED <<g, writer, flight>>

\* wait_host_close, then host_hung_up.
ReaderHalf ==
    /\ reader = "half" /\ (peer_hung_up(s) \/ s.stop) /\ reader' = "done"
    /\ IF ~s.stop /\ HalfOpen(s)
       THEN Sends(settle(Mark(s, {"host_hung_up"}))) ELSE UNCHANGED s
    /\ UNCHANGED <<g, writer, flight>>

\* The writer: its gate, then the socket, then flush_to_host.
WriterWait == /\ writer = "gate" /\ ~s.writerShut /\ writer' = "socket"
              /\ UNCHANGED <<s, g, reader, flight>>
WriterStops == /\ writer = "socket" /\ s.stop /\ writer' = "done"
               /\ UNCHANGED <<s, g, reader, flight>>
WriterSend ==
    /\ writer = "socket" /\ ~s.stop /\ (s.outq < SockOut \/ s.hostClosed \/ s.shut)
    /\ \E cut \in 0..(OurBuf - 1), cap \in 1..MaxRw :
         LET gone == s.conn.on /\ s.conn.to_host > 0 /\ (s.hostClosed \/ Cuts(s, cut))
             d == flush_to_host(s, cut)
         IN  \E t \in {IF s.conn.on THEN Then(d, LAMBDA e : fill_rx(e, cap)) ELSE s} :
                 s' = t /\ writer' = IF t.conn.on /\ ~gone THEN "gate" ELSE "done"
    /\ UNCHANGED <<g, reader, flight>>

\* The stop is requested.  The bridge then opens its writers' gates and drops
\* the connection; the threads leave their waits before that or after it.
StopRequest == /\ Faults /\ ~s.stop /\ s' = [s EXCEPT !.stop = TRUE]
               /\ UNCHANGED <<g, reader, writer, flight>>
BridgeEnds == /\ s.stop /\ s.why # "stop" /\ s' = DropConn(s, "stop")
              /\ UNCHANGED <<g, reader, writer, flight>>

\* The threads run, the guest's stack and agent take what comes, and the client
\* reads: what the code relies on both ends for.  The client and the agent need
\* not write, close or shut anything down.
ReaderStep == ReaderRead \/ ReaderWait \/ ReaderEof \/ ReaderHalf
WriterStep == WriterWait \/ WriterStops \/ WriterSend
GuestTakes == Read \/ Receive \/ CreditUpdate
Next ==
    \/ ReaderStep \/ WriterStep \/ GuestTakes \/ CreditRequest \/ Send \/ Close \/ ResetByGuest \/ DeviceReset
    \/ StopRequest \/ BridgeEnds
    \/ \E flags \in {{"RCV"}, {"SEND"}} : Shutdown(flags)
    \/ HostWrite \/ HostRead \/ HostShutdown \/ HostClose

Spec == Init /\ [][Next]_vars
FairSpec ==
    /\ Spec /\ WF_vars(ReaderStep) /\ WF_vars(WriterStep) /\ WF_vars(Receive)
    /\ WF_vars(Read) /\ WF_vars(CreditUpdate) /\ WF_vars(HostRead)
    /\ WF_vars(BridgeEnds)

-----------------------------------------------------------------------------
(* Properties. *)

Sum(q) == FoldSeq(LAMBDA p, n : n + p.n, 0, q)
Ahead == s.inbox \o s.pending       \* what the guest has still to take, in order
Ends(p) == p.op = "RST" \/ (p.op = "SHUTDOWN" /\ "SEND" \in p.flags)
Aborted == s.stop \/ s.why = "reset"

\* The guest's receive buffer holds what it was sent, whatever was split and
\* wherever the counters wrapped ("A Linux guest resets a connection that
\* overruns its receive buffer").
GuestBufferHolds == g.unread + Sum(Ahead) <= GuestBuf

\* A guest that keeps to the credit it was given is never reset for an overrun,
\* also after the host has gone and its bytes are dropped.
CreditIsEnough == s.why # "overrun"

\* The guest learns that the host sends nothing more, by OP_SHUTDOWN or OP_RST,
\* behind the last byte the host wrote.
GuestEofIsLast ==
    g.state \in {"none", "open"} /\ "RCV" \notin g.shut /\ ~Aborted =>
        /\ "SEND" \in g.told => flight.guest = g.unread
        /\ \A i \in DOMAIN Ahead :
              Ends(Ahead[i]) => flight.guest = g.unread + Sum(SubSeq(Ahead, 1, i))

\* The host reads EOF behind the last byte the guest sent, whichever end closed
\* which direction first.
HostEofIsLast ==
    (s.eof \/ s.shut) /\ ~s.hostClosed /\ ~Aborted => flight.host = s.outq

\* The guest never gets a second OP_RST, and none after its own.
OneReset ==
    s'.resets > s.resets => s.resets = 0 /\ "guest_reset" \notin s'.conn.is

\* A gate is shut only for the reason its thread waits: the writer's while
\* nothing waits for the host, the reader's while the backlog is full or the
\* guest takes nothing but still sends.
GatesFit ==
    s.conn.on =>
        /\ s.writerShut <=> s.conn.to_host = 0
        /\ s.readerShut => \/ s.conn.backlog >= BacklogMax
                           \/ {"guest_rcv_shut", "guest_send_shut"} \cap s.conn.is
                                = {"guest_rcv_shut"}

=============================================================================
