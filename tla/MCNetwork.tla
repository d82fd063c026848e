-------------------- MODULE MCNetwork --------------------
(* The network servers, drivers and clients for TLC.
   The components are checked one beside the other: focus names the one that a
   behaviour is about, and each instance below gives it the variables
   v1, v2, ... that it needs, and small values for its constants.  Eth has its
   own: its variables stay as they are at the beginning elsewhere.         *)
EXTENDS Eth, TLC

CONSTANTS f1, f2, t1, t2

(* UDP: datagrams without a checksum, with a right one, and other packets. *)
Packet(s, p, c) == [src |-> s, dport |-> 1, proto |-> p, sum |-> c]
UdpPackets == {Packet("a", "udp", "none"), Packet("b", "udp", "right"),
               Packet("a", "other", "wrong")}

(* TCP: a connection is set up, data comes around the wrap of the sequence
   numbers, with two segments that may change places, one of them long enough
   to be read in parts, and it is closed.                                  *)
Segment(s, l, f, a) == [conn |-> f1, seq |-> s, len |-> l, flags |-> f, ack |-> a]
TcpSegments == {Segment(30, 0, {"SYN", "ACK"}, 1), Segment(31, 2, {"ACK"}, 1),
                Segment(1, 1, {"ACK"}, 2), Segment(2, 0, {"FIN"}, 1),
                Segment(2, 0, {"RST"}, 1)}

(* IP: one route for the link, a host on it, and another one that asks and *)
(* answers too.                                                            *)
IpRoutes == {[net |-> {"a", "b", "255.255.255.255"}, bits |-> 0, gw |-> "0"]}
IpFrame(t, h) == [type |-> t, src |-> h]
IpFrames == {IpFrame("ip", "a"), IpFrame("request", "b"), IpFrame("reply", "a"),
             IpFrame("reply", "b"), IpFrame("other", "0")}

(* Ethernet: frames for the card and for somebody else.                    *)
EthFrames == {[dest |-> d, src |-> "b", long |-> TRUE] : d \in {"a", "x"}}

(* DNS: of two servers and two names, answers of different lengths, with
   records of other types before and among those of the host.              *)
Host(l) == [host |-> TRUE, len |-> l]
Alias   == [host |-> FALSE, len |-> 1]
DnsZone == [s \in {8, 9} |-> [n \in {"n1", "n2"} |->
              IF n = "n1" THEN (IF s = 8 THEN <<Host(2)>> ELSE <<Alias, Host(1)>>)
              ELSE (IF s = 8 THEN <<Alias>> ELSE <<Host(1), Host(2)>>)]]

(* DHCP: two servers of different nets, one of which names no router.      *)
DhcpLease == [s \in {1, 2} |->
                [addr |-> s, net |-> s + 2, router |-> IF s = 1 THEN 5 ELSE 0]]

VARIABLES
  focus,   \* the component that this behaviour is about
  v1, v2, v3, v4, v5, v6, v7, v8, v9, v10, v11, v12, v13, v14, v15, v16, v17   \* its variables

Away == "away"   \* a variable that the component does not have

(* The variables from the i-th on, for the components with fewer. *)
Rest17 == <<v17>>
Rest16 == <<v16, Rest17>>
Rest15 == <<v15, Rest16>>
Rest14 == <<v14, Rest15>>
Rest13 == <<v13, Rest14>>
Rest12 == <<v12, Rest13>>
Rest11 == <<v11, Rest12>>
Rest10 == <<v10, Rest11>>
Rest9 == <<v9, Rest10>>
Rest8 == <<v8, Rest9>>
Rest7 == <<v7, Rest8>>
Rest6 == <<v6, Rest7>>
Rest1 == <<v1, v2, v3, v4, v5, Rest6>>

None17 == v17 = Away
None16 == v16 = Away /\ None17
None15 == v15 = Away /\ None16
None14 == v14 = Away /\ None15
None13 == v13 = Away /\ None14
None12 == v12 = Away /\ None13
None11 == v11 = Away /\ None12
None10 == v10 = Away /\ None11
None9 == v9 = Away /\ None10
None8 == v8 = Away /\ None9
None7 == v7 = Away /\ None8
None6 == v6 = Away /\ None7
None5 == v5 = Away /\ None6
None4 == v4 = Away /\ None5
None3 == v3 = Away /\ None4
None2 == v2 = Away /\ None3
None1 == v1 = Away /\ None2

Udp == INSTANCE Udp WITH
  Files <- {f1, f2}, Popups <- {t1, t2}, Packets <- UdpPackets,
  Ips <- {"a", "b"}, MinPort <- 1, MaxPort <- 2, MaxQueue <- 2,
  MaxSignals <- 1, file <- v1, connections <- v2, port_counter <- v3,
  ip_lock <- v4, ip <- v5, popup <- v6, signals <- v7, wire <- v8
Tcp == INSTANCE Tcp WITH
  Conns <- {f1}, Modulus <- 32, Segments <- TcpSegments, Sizes <- {1, 2},
  MaxIn <- 2, MaxOut <- 1, MaxSeq <- 2, conn <- v1, connections <- v2,
  readers <- v3, inc <- v4, seen <- v5
Ip == INSTANCE Ip WITH
  Clients <- {f1, f2}, Hosts <- {"a"}, Routes <- IpRoutes,
  Frames <- IpFrames, CacheSize <- 1, MaxQueue <- 1, MaxArrivals <- 2,
  file <- v1, ifc <- v2, routing_table <- v3, arp_cache <- v4, readers <- v5,
  arp_lock <- v6, reply <- v7, inc <- v8, signals <- v9, arrivals <- v10,
  misled <- v11, raced <- v12
Rings == INSTANCE NicRings WITH
  Drivers <- {"e1000", "rtl8168b", "pcnet", "sis900"}, Num <- 3,
  nic <- v1, up <- v2, rx <- v3, hw <- v4, isr <- v5, stored <- v6,
  lastrx <- v7, tx <- v8, txhw <- v9, snd <- v10, queued <- v11,
  lasttx <- v12, wrong <- v13, missent <- v14, overrun <- v15,
  overwritten <- v16
ByteRing == INSTANCE NicBuffers WITH
  Drivers <- {"rtl8139"}, Senders <- {t1}, Frames <- {"f", "g"}, Size <- 20,
  Pages <- 4, Lengths <- {5, 9}, nic <- v1, used <- v2, buffer <- v3,
  flying <- v4, pending <- v5, thread <- v6, accepted <- v7, tok <- v8,
  isr <- v9, rok <- v10, rx <- v11, wpos <- v12, rpos <- v13, boundary <- v14,
  stored <- v15, number <- v16, wrong <- v17
PageRing == INSTANCE NicBuffers WITH
  Drivers <- {"ne2k"}, Senders <- {t1}, Frames <- {"f", "g"}, Size <- 20,
  Pages <- 4, Lengths <- {1, 2}, nic <- v1, used <- v2, buffer <- v3,
  flying <- v4, pending <- v5, thread <- v6, accepted <- v7, tok <- v8,
  isr <- v9, rok <- v10, rx <- v11, wpos <- v12, rpos <- v13, boundary <- v14,
  stored <- v15, number <- v16, wrong <- v17
Dns == INSTANCE Dns WITH
  Pipes <- {f1, f2}, Names <- {"n1", "n2"}, Servers <- {8, 9},
  Zone <- DnsZone, Default <- 8, Sizes <- {1}, MaxPosition <- 2, MaxChanges <- 1,
  use_tcp <- v1, default_dns_ip <- v2, con <- v3, popup <- v4, asked <- v5,
  inqueue <- v6, changes <- v7
Dhcp == INSTANCE Dhcp WITH
  Servers <- {1, 2}, Bootp <- {2}, Lease <- DhcpLease, MaxRuns <- 2,
  MaxIn <- 1, pc <- v1, my_ip <- v2, routes <- v3, default_dns <- v4,
  offer <- v5, net <- v6, inqueue <- v7, granted <- v8, runs <- v9,
  strayed <- v10

NetworkInit ==
  /\ Init
  /\ \/ focus = "udp" /\ Udp!Init /\ None9
     \/ focus = "tcp" /\ Tcp!Init /\ None6
     \/ focus = "ip" /\ Ip!Init /\ None13
     \/ focus = "rings" /\ Rings!Init /\ None17
     \/ focus = "bytes" /\ ByteRing!Init
     \/ focus = "pages" /\ PageRing!Init
     \/ focus = "dns" /\ Dns!Init /\ None8
     \/ focus = "dhcp" /\ Dhcp!Init /\ None11
     \/ focus = "eth" /\ None1

NetworkNext ==
  \/ focus = "udp" /\ Udp!Next /\ UNCHANGED <<focus, vars, Rest9>>
  \/ focus = "tcp" /\ Tcp!Next /\ UNCHANGED <<focus, vars, Rest6>>
  \/ focus = "ip" /\ Ip!Next /\ UNCHANGED <<focus, vars, Rest13>>
  \/ focus = "rings" /\ Rings!Next /\ UNCHANGED <<focus, vars, Rest17>>
  \/ focus = "bytes" /\ ByteRing!Next /\ UNCHANGED <<focus, vars>>
  \/ focus = "pages" /\ PageRing!Next /\ UNCHANGED <<focus, vars>>
  \/ focus = "dns" /\ Dns!Next /\ UNCHANGED <<focus, vars, Rest8>>
  \/ focus = "dhcp" /\ Dhcp!Next /\ UNCHANGED <<focus, vars, Rest11>>
  \/ focus = "eth" /\ Next /\ UNCHANGED <<focus, Rest1>>

networkvars == <<focus, vars, Rest1>>

NetworkSpec == NetworkInit /\ [][NetworkNext]_networkvars

(* UdpCorrect (udp.c: send_udp_packet, incoming): every datagram leaves for the
   address its checksum was computed over, a client reads every packet with the
   source it came from, no packet is left in the IP pipe without a popup that
   will look for it, and incoming never follows a file that was destroyed.  *)
UdpCorrect == focus = "udp" => Udp!UdpCorrect


(* IpCorrect (ip.c, arp.c): an IP packet leaves in a frame with the type and
   the address of its own route, never with those of an ARP packet that another
   thread sends through the same interface; and the hardware address that a
   lookup reads and caches is that of the host it asked for, unless another
   answer was stored while it read (reply_mac has no lock, arp.c:183).     *)
IpCorrect == focus = "ip" => Ip!IpCorrect

(* NicCorrect (e1000, rtl8168b, pcnet, sis900, rtl8139, ne2k): across the wrap
   of every ring and buffer the driver and its card agree on which frame is
   next, and frames are delivered once, whole and in order.  Frames are sent so
   too until one meets a ring that is full; from then on e1000 and pcnet may
   overwrite a buffer before its frame has left, the others never do.      *)
NicCorrect == /\ focus = "rings" => Rings!Correct
              /\ focus = "bytes" => ByteRing!Correct
              /\ focus = "pages" => PageRing!Correct

(* ConfigCorrect (dns.c: update_ip; dhclient.c): the address read from a DNS
   pipe is what its present server said for its name, as text and as number,
   unless its look-up overlapped with another one, a late answer or a change of
   the server; and a host that has an address was acknowledged that one in this
   run of dhclient, unless dhclient took a packet of another run or one without
   a type for it, and has its routes with at most one that an earlier run left. *)
ConfigCorrect == /\ focus = "dns" => Dns!Correct
                 /\ focus = "dhcp" => Dhcp!Correct

(* Files and popups are interchangeable, but TCP has one connection only.   *)
Symmetry == Permutations({f1, f2}) \union Permutations({t1, t2})

============================================================
