------------------------------ MODULE NetStack ------------------------------
(***************************************************************************)
(* What the virtio-net device makes of one frame the guest transmits       *)
(* (devices/virtio/net.rs): the flow it records and, on the built-in       *)
(* stack, the reply.  handle_frame serves the built-in stack, observe_tx   *)
(* the gateway and the tap.                                                *)
(*                                                                         *)
(* A frame is a record of the fields the code branches on.  "whole" is     *)
(* whether the layer above has the bytes its parser needs.                 *)
(***************************************************************************)
EXTENDS Naturals, Sequences

CONSTANTS Backend,      \* "stub" or "relay"
          Macs          \* the guest's MAC, of its config space, is one of them

Hosts == {"GUEST_IP", "GW_IP", "DNS_IP", "world"}
Ports == {"67", "53", "other"}
Protos == {"ICMP", "UDP", "TCP", "other"}
OUR_MAC == "OUR_MAC"

VARIABLES mac, frame, flows, replies
vars == <<mac, frame, flows, replies>>

Idle == [eth |-> "none"]
Arp == [eth : {"ARP"}, whole : BOOLEAN, op : {"request", "reply"}, target : Hosts,
        sender : Macs, senderIp : Hosts]
Ipv4 == [eth : {"IPV4"}, whole : BOOLEAN, proto : Protos, src : Hosts, dst : Hosts,
         l4 : {"cut", "ports", "whole"}, dport : Ports,
         body : {"echo", "DISCOVER", "REQUEST", "question", "other"}]
Frames == Arp \cup Ipv4 \cup [eth : {"other"}]

Init == mac \in Macs /\ frame = Idle /\ flows = <<>> /\ replies = <<>>

-----------------------------------------------------------------------------
Reply(src, dst, proto, body) ==
    <<[to |-> mac, from |-> OUR_MAC, src |-> src, dst |-> dst, proto |-> proto, body |-> body]>>
Flow(f, dns) == <<[proto |-> f.proto, src |-> f.src, dst |-> f.dst, dns |-> dns]>>
Nothing == [flows |-> <<>>, replies |-> <<>>]

\* The addresses the gateway answers for.
ArpAnswered(target) == target \in {"GW_IP", "DNS_IP"}
handle_arp(f) ==
    IF f.whole /\ f.op = "request" /\ ArpAnswered(f.target)
    THEN [Nothing EXCEPT !.replies = <<[to |-> f.sender, from |-> OUR_MAC, src |-> f.target,
                                        dst |-> f.senderIp, proto |-> "ARP", body |-> "is-at"]>>]
    ELSE Nothing

handle_icmp(f) ==
    IF f.l4 # "whole" \/ f.body # "echo" THEN Nothing
    ELSE [flows |-> Flow(f, FALSE), replies |-> Reply(f.dst, f.src, "ICMP", "echo reply")]

\* `body` is the message type the walk of the options finds.
handle_dhcp(f) ==
    IF f.body = "DISCOVER" THEN Reply("GW_IP", "BROADCAST", "UDP", "OFFER")
    ELSE IF f.body = "REQUEST" THEN Reply("GW_IP", "BROADCAST", "UDP", "ACK") ELSE <<>>

\* Mutant of handle_dns: the answer is sent and the question not recorded.
handle_dnsSilent(f) ==
    [Nothing EXCEPT !.replies = IF f.body # "question" THEN <<>>
                                ELSE Reply("DNS_IP", "GUEST_IP", "UDP", "answer")]
\* Recorded as from the guest's address, with the name.
handle_dns(f) ==
    IF f.body # "question" THEN Nothing
    ELSE [flows |-> <<[proto |-> "UDP", src |-> "GUEST_IP", dst |-> "DNS_IP", dns |-> TRUE]>>,
          replies |-> Reply("DNS_IP", "GUEST_IP", "UDP", "answer")]

handle_ipv4(f) ==
    IF ~f.whole THEN Nothing
    ELSE IF f.proto = "ICMP" THEN handle_icmp(f)
    ELSE IF f.proto = "UDP" /\ f.l4 = "whole" /\ f.dport = "67"
    THEN [flows |-> Flow(f, FALSE), replies |-> handle_dhcp(f)]
    ELSE IF f.proto = "UDP" /\ f.l4 = "whole" /\ f.dport = "53" /\ f.dst = "DNS_IP" THEN handle_dns(f)
    ELSE IF (f.proto = "UDP" /\ f.l4 = "whole") \/ (f.proto = "TCP" /\ f.l4 # "cut")
    THEN [Nothing EXCEPT !.flows = Flow(f, FALSE)]
    ELSE Nothing

\* Mutant of observe_tx: only what has ports.
observe_txPorts(f) ==
    IF f.eth = "IPV4" /\ f.whole /\ f.proto \in {"UDP", "TCP"} /\ f.l4 = "whole"
    THEN [Nothing EXCEPT !.flows = Flow(f, FALSE)] ELSE Nothing
\* The gateway and the tap: the five-tuple, and no reply.
observe_tx(f) ==
    IF f.eth = "IPV4" /\ f.whole /\ (f.proto = "ICMP" \/ (f.proto \in {"UDP", "TCP"} /\ f.l4 = "whole"))
    THEN [Nothing EXCEPT !.flows = Flow(f, FALSE)] ELSE Nothing

handle_frame(f) ==
    IF f.eth = "ARP" THEN handle_arp(f) ELSE IF f.eth = "IPV4" THEN handle_ipv4(f) ELSE Nothing

\* process_tx, for one frame.
Transmit(f) ==
    LET done == IF Backend = "stub" THEN handle_frame(f) ELSE observe_tx(f)
    IN  frame' = f /\ flows' = done.flows /\ replies' = done.replies /\ mac' = mac
Next == frame = Idle /\ \E f \in Frames : Transmit(f)
Spec == Init /\ [][Next]_vars

-----------------------------------------------------------------------------
(* Properties. *)

\* The stack answers no packet the ledger does not show: an answered IPv4 packet
\* is one flow, of the reply's protocol and, but for DHCP's broadcast, to the
\* address the reply comes from.  And a frame is delivered as a reply only to the
\* MAC of the guest, or for ARP to the MAC that asked.
AnswersAreLogged ==
    \A i \in DOMAIN replies :
        /\ frame.eth = "IPV4" =>
              /\ Len(flows) = 1 /\ flows[1].proto = replies[i].proto
              /\ replies[i].dst # "BROADCAST" => flows[1].dst = replies[i].src
        /\ replies[i].to = (IF frame.eth = "ARP" THEN frame.sender ELSE mac)

\* "captures every frame the guest transmits, logging each IPv4 flow": a whole
\* packet of a protocol the ledger names is one flow.
EveryFlowIsLogged ==
    frame.eth = "IPV4" =>
        (frame.whole /\ frame.proto # "other" /\ frame.l4 = "whole" => Len(flows) = 1)
=============================================================================
