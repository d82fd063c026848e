-------------------------------- MODULE Dhcp --------------------------------
(* The DHCP client (progs/common/dhclient/dhclient.c) with the servers on    *)
(* its network and the two tables it writes: the address of the interface    *)
(* and the routes of the IP server.  The client runs several times; packets  *)
(* are lost, doubled and overtaken, and may outlive the run they were meant  *)
(* for: every run uses the same transaction number, an acknowledgement is    *)
(* not compared with the request, and an answer without a message type is    *)
(* taken for any.  strayed, a history variable, tells whether this run took  *)
(* such a packet for its acknowledgement.                                    *)
EXTENDS Integers, Sequences, FiniteSets, SequencesExt

CONSTANTS
  Servers,
  Bootp,       \* servers whose answers carry no message type
  Lease,       \* Lease[s]: [addr, net, router], net 0: no subnet mask,
               \* router 0: none
  MaxRuns,     \* bound: how often the client runs
  MaxIn        \* bound: packets in the udp pipe

VARIABLES
  pc,          \* where the client is
  my_ip, routes,   \* IP server: F_MY_IP, the routes of the interface, newest first
  default_dns, \* DNS server: F_DNS_DEFAULT_NSIP, by the server that named it
  offer,       \* the server whose offer is being requested
  net,         \* packets that may still arrive at port 68
  inqueue,     \* packets in the udp pipe
  granted,     \* servers that acknowledged an address in this run
  runs,
  strayed      \* was this run acknowledged by a packet of another, or without a type?

vars == <<pc, my_ip, routes, default_dns, offer, net, inqueue, granted, runs, strayed>>

Nobody == 0
Packet(kind, from, server, run) == [kind |-> kind, from |-> from, server |-> server, run |-> run]
AllRoute == [dest |-> 0, gw |-> 0]

Init ==
  /\ pc = "exited" /\ my_ip = 0 /\ routes = <<>> /\ default_dns = Nobody
  /\ offer = Nobody /\ net = {} /\ inqueue = <<>> /\ granted = {} /\ runs = 0
  /\ strayed = FALSE

------------------------------------------------------------------------------
(* del_route with an entry of zeros means all, but the loop passes over the  *)
(* one behind each that it deletes.                                          *)
DelAll(rs) == [k \in 1 .. Len(rs) \div 2 |-> rs[2 * k]]

(* add_route: the same destination gets the new gateway, others go in front. *)
Add(rs, r) ==
  IF \E i \in 1 .. Len(rs) : rs[i].dest = r.dest
  THEN [i \in 1 .. Len(rs) |-> IF rs[i].dest = r.dest THEN r ELSE rs[i]]
  ELSE <<r>> \o rs

(* Up to the DISCOVER: pipes, the interface down, a route to everywhere.     *)
Start ==
  /\ pc = "exited" /\ runs < MaxRuns
  /\ runs' = runs + 1
  /\ my_ip' = 0
  /\ routes' = Add(DelAll(routes), AllRoute)
  /\ inqueue' = <<>> /\ granted' = {}
  /\ offer' = Nobody /\ strayed' = FALSE
  /\ net' = net \union {Packet("discover", Nobody, Nobody, runs + 1)}
  /\ pc' = "wait offer"
  /\ UNCHANGED default_dns

(* The transaction number, the direction and, if there is one, the type.     *)
Refused(m, wanted) == m.kind # wanted /\ m.kind # "untyped"

Exit ==
  /\ pc' = "exited"
  /\ UNCHANGED <<my_ip, routes, default_dns, offer, net, granted, runs, strayed>>

Request(s) ==
  /\ offer' = s
  /\ net' = net \union {Packet("request", Nobody, s, runs)}
  /\ pc' = "wait ack"
  /\ UNCHANGED <<my_ip, routes, default_dns, granted, runs, strayed>>

TakeOffer ==
  /\ pc = "wait offer" /\ inqueue # <<>>
  /\ inqueue' = Tail(inqueue)
  /\ IF Refused(Head(inqueue), "offer") THEN Exit ELSE Request(Head(inqueue).from)

(* The interface goes up; the DNS server is told, if it runs.                *)
Up(s) ==
  LET l == Lease[s]
      cleared == DelAll(routes)
      own == IF l.net # 0 THEN Add(cleared, [dest |-> l.net, gw |-> 0]) ELSE cleared IN
  /\ my_ip' = l.addr
  /\ routes' = IF l.router # 0 THEN Add(own, [dest |-> 0, gw |-> l.router]) ELSE own
  /\ default_dns' \in {default_dns, s}
  /\ pc' = "done"
  /\ UNCHANGED <<offer, net, granted, runs>>

TakeAck ==
  /\ pc = "wait ack" /\ inqueue # <<>>
  /\ inqueue' = Tail(inqueue)
  /\ LET m == Head(inqueue) IN
     IF Refused(m, "ack") THEN Exit
     ELSE Up(offer) /\ strayed' = (m.run # runs \/ m.kind = "untyped")

Return ==
  /\ pc = "done"
  /\ pc' = "exited"
  /\ UNCHANGED <<my_ip, routes, default_dns, offer, net, inqueue, granted, runs, strayed>>

------------------------------------------------------------------------------
(* The network: a packet to us arrives and may arrive again, or is lost; so  *)
(* may an answer for another client.                                         *)
Arrive == \E m \in net :
  /\ m.from # Nobody /\ pc \in {"wait offer", "wait ack"}
  /\ Len(inqueue) < MaxIn
  /\ inqueue' = Append(inqueue, m)
  /\ net' \in {net, net \ {m}}
  /\ UNCHANGED <<pc, my_ip, routes, default_dns, offer, granted, runs, strayed>>

ArriveForeign == \E s \in Servers :
  /\ pc \in {"wait offer", "wait ack"} /\ Len(inqueue) < MaxIn
  /\ inqueue' = Append(inqueue, Packet("foreign", s, s, runs))
  /\ UNCHANGED <<pc, my_ip, routes, default_dns, offer, net, granted, runs, strayed>>

Lose == \E m \in net :
  /\ net' = net \ {m}
  /\ UNCHANGED <<pc, my_ip, routes, default_dns, offer, inqueue, granted, runs, strayed>>

ServerOffers(s) == \E m \in net :
  /\ m.kind = "discover"
  /\ net' = net \union {Packet(IF s \in Bootp THEN "untyped" ELSE "offer", s, s, m.run)}
  /\ UNCHANGED <<pc, my_ip, routes, default_dns, offer, inqueue, granted, runs, strayed>>

ServerDecides(s) == \E m \in net, ok \in BOOLEAN :
  /\ m.kind = "request" /\ m.server = s
  /\ net' = (net \ {m}) \union {Packet(IF ok THEN "ack" ELSE "nak", s, s, m.run)}
  /\ granted' = IF ok /\ m.run = runs THEN granted \union {s} ELSE granted
  /\ UNCHANGED <<pc, my_ip, routes, default_dns, offer, inqueue, runs, strayed>>

Next ==
  \/ Start \/ TakeOffer \/ TakeAck \/ Return \/ Arrive \/ ArriveForeign \/ Lose
  \/ \E s \in Servers : ServerOffers(s) \/ ServerDecides(s)

Spec == Init /\ [][Next]_vars

------------------------------------------------------------------------------
(* The interface has the address that was offered, and only when the server  *)
(* that offered it has acknowledged it in this run, or a packet strayed.     *)
AddressGranted ==
  my_ip # 0 => my_ip = Lease[offer].addr /\ (offer \in granted \/ strayed)

(* Then the routes are those of that lease, and at most one more: a direct   *)
(* route of another lease, which del_route passed over.  While the client    *)
(* looks for a server, a broadcast finds the interface.                      *)
RoutesFit ==
  LET dests == {routes[i] : i \in 1 .. Len(routes)}
      l == Lease[offer]
      own == (IF l.net # 0 THEN {[dest |-> l.net, gw |-> 0]} ELSE {})
             \union (IF l.router # 0 THEN {[dest |-> 0, gw |-> l.router]} ELSE {}) IN
  /\ my_ip # 0 => \E old \in Servers :
       own \subseteq dests /\ dests \subseteq own \union {[dest |-> Lease[old].net, gw |-> 0]}
  /\ pc \in {"wait offer", "wait ack"} => AllRoute \in dests

Correct == AddressGranted /\ RoutesFit
==============================================================================
