-------------------------------- MODULE Udp --------------------------------
(***************************************************************************)
(* The UDP server (progs/common/udp).  Every client has a file, a popup of *)
(* the server carries out its calls.  All files share one pipe to the IP   *)
(* server, which remembers where the next datagram goes (F_DEST_IP) and    *)
(* queues what comes in; for every packet it queues it signals the server, *)
(* and the signal's popup runs incoming.  ip_lock keeps the calls that     *)
(* belong together on the shared pipe together.                            *)
(*                                                                         *)
(* A checksum is "none" (0 or 0xffff, never looked at), or it is computed  *)
(* over the addresses and is right for the source it names.  What only     *)
(* travels through is left out: data, the source port, the destination     *)
(* port of a file, and the signal clients may ask for.                *)
(***************************************************************************)
EXTENDS Naturals, Sequences, SequencesExt

CONSTANTS
    Files,              \* addresses of struct vfs_file
    Popups,             \* threads that serve the signals of the IP server
    Packets,            \* packets other hosts send
    Ips,                \* addresses of other hosts
    MinPort, MaxPort,   \* 1024 and 0xffff: user ports
    MaxQueue,           \* bound: packets in a queue
    MaxSignals          \* bound: signals that wait for a popup

Ports  == MinPort .. MaxPort
NoIp   == "0.0.0.0"
Broadcast == "255.255.255.255"
NoOne  == "nobody"
NoPort == 0

VARIABLES
    file,               \* the files, with the call each of them is busy with
    connections,        \* the list of files, newest first
    port_counter,
    ip_lock,            \* its owner
    ip,                 \* the pipe to the IP server: dest, inqueue
    popup,              \* the threads in incoming
    signals,            \* IPC signals that have no popup yet
    wire                \* the datagram last handed to the IP server

vars == <<file, connections, port_counter, ip_lock, ip, popup, signals, wire>>

(* What a packet can be; proto_type 0x11 is UDP.                           *)
PacketType == [src : Ips, dport : Ports, proto : {"udp", "other"},
               sum : {"none", "right", "wrong"}]

(* psip is the address in the pseudo header of the call that sends.        *)
NewFile(port) == [at |-> "idle", port |-> port, dest_ip |-> NoIp,
                  inqueue |-> <<>>, psip |-> NoIp]
NoFile == [NewFile(NoPort) EXCEPT !.at = "free"]

Init ==
    /\ file = [f \in Files |-> NoFile]
    /\ connections = <<>>
    /\ port_counter = MinPort
    /\ ip_lock = NoOne
    /\ ip = [dest |-> NoIp, inqueue |-> <<>>]
    /\ popup = [t \in Popups |-> [at |-> "idle", src |-> NoIp]]
    /\ signals = 0
    /\ wire = [to |-> NoIp, sum |-> NoIp]

Goto(f, at) == file' = [file EXCEPT ![f].at = at]

----------------------------------------------------------------------------
(* get_user_port: the counter starts again behind the last port, whether   *)
(* or not the ports it hands out are in use.                               *)
get_user_port ==
    port_counter' = IF port_counter < MaxPort THEN port_counter + 1 ELSE MinPort

(* Only the empty path succeeds: behind an address get_ip leaves the colon *)
(* in place, and no number begins with one.                                *)
service_create_pipe(f) ==
    /\ file[f].at = "free"
    /\ get_user_port
    /\ file' = [file EXCEPT ![f] = NewFile(port_counter)]
    /\ connections' = <<f>> \o connections
    /\ UNCHANGED <<ip_lock, ip, popup, signals, wire>>

(* service_destroy_pipe takes the file off the list and then frees its     *)
(* packets and the file itself.                                            *)
Unlink(f) == RemoveFirst(connections, f)

service_destroy_pipe(f) ==
    /\ file[f].at = "idle"
    /\ connections' = Unlink(f)
    /\ Goto(f, "unlinked")
    /\ UNCHANGED <<port_counter, ip_lock, ip, popup, signals, wire>>

Free(f) ==
    /\ file[f].at = "unlinked"
    /\ file' = [file EXCEPT ![f] = NoFile]
    /\ UNCHANGED <<connections, port_counter, ip_lock, ip, popup, signals, wire>>

(* The flags of a file; F_PRESSURE is F_READABLE with a length.            *)
service_pipe_get_flag(f, flag) ==
    CASE flag = "F_READABLE" -> file[f].inqueue # <<>>
      [] flag = "F_SRC_IP"   -> IF file[f].inqueue # <<>> THEN Head(file[f].inqueue).src_ip
                                                          ELSE NoIp
      [] flag = "F_DEST_IP"  -> file[f].dest_ip
      [] flag = "F_MY_PORT"  -> file[f].port

(* service_stream_recv takes the first packet; with none it returns, or    *)
(* waits.  F_FLUSH takes it too, and would follow a null pointer if there  *)
(* were none: clients flush what they have found readable.                 *)
service_stream_recv(f) ==
    /\ file[f].at = "idle" /\ service_pipe_get_flag(f, "F_READABLE")
    /\ file' = [file EXCEPT ![f].inqueue = Tail(@)]
    /\ UNCHANGED <<connections, port_counter, ip_lock, ip, popup, signals, wire>>

(* F_DEST_IP and F_MY_PORT                                                 *)
service_pipe_set_flag(f) ==
    /\ file[f].at = "idle"
    /\ \/ \E a \in Ips : file' = [file EXCEPT ![f].dest_ip = a]
       \/ \E p \in Ports : file' = [file EXCEPT ![f].port = p]
    /\ UNCHANGED <<connections, port_counter, ip_lock, ip, popup, signals, wire>>

----------------------------------------------------------------------------
(* service_stream_send asks the IP server for the address to write into    *)
(* the pseudo header, computes the checksum, ...                           *)
SendPrepare(f) ==
    /\ file[f].at = "idle"
    /\ ip_lock = NoOne
    /\ ip' = [ip EXCEPT !.dest = file[f].dest_ip]
    /\ file' = [file EXCEPT ![f].at = "prepared", ![f].psip = file[f].dest_ip]
    /\ UNCHANGED <<connections, port_counter, ip_lock, popup, signals, wire>>

(* Faulty: the lock is released between the route and the datagram.        *)
SendRouteUnlocked(f) ==
    /\ file[f].at = "prepared"
    /\ ip_lock = NoOne
    /\ ip' = [ip EXCEPT !.dest = file[f].dest_ip]
    /\ Goto(f, "routed")
    /\ UNCHANGED <<connections, port_counter, ip_lock, popup, signals, wire>>

(* ... points the pipe to the destination once more ...                    *)
SendRoute(f) ==
    /\ file[f].at = "prepared"
    /\ ip_lock = NoOne /\ ip_lock' = f
    /\ ip' = [ip EXCEPT !.dest = file[f].dest_ip]
    /\ Goto(f, "routed")
    /\ UNCHANGED <<connections, port_counter, popup, signals, wire>>

(* ... and hands the datagram over.                                        *)
SendOut(f) ==
    /\ file[f].at = "routed"
    /\ wire' = [to |-> ip.dest, sum |-> file[f].psip]
    /\ ip_lock' = NoOne
    /\ file' = [file EXCEPT ![f].at = "idle", ![f].psip = NoIp]
    /\ UNCHANGED <<connections, port_counter, ip, popup, signals>>

----------------------------------------------------------------------------
(* The IP server queues a packet for the pipe if it comes from the address *)
(* the pipe was last pointed to, and signals.  It is external: ip.c.       *)
Arrive(p) ==
    /\ signals < MaxSignals
    /\ \A f \in Files : Len(file[f].inqueue) + Len(ip.inqueue) < MaxQueue
    /\ ip.dest \in {p.src, Broadcast}
    /\ ip' = [ip EXCEPT !.inqueue = Append(@, p)]
    /\ signals' = signals + 1
    /\ UNCHANGED <<file, connections, port_counter, ip_lock, popup, wire>>

(* The answers of the IP server about its queue (ip.c).                    *)
IpFlag(flag) ==
    CASE flag = "F_READABLE"      -> ip.inqueue # <<>>
      [] flag = "F_SRC_IP"        -> IF ip.inqueue # <<>> THEN Head(ip.inqueue).src ELSE NoIp
      [] flag = "F_IP_PROTO_TYPE" -> IF ip.inqueue # <<>> THEN Head(ip.inqueue).proto ELSE "none"

(* incoming works under ip_lock until the queue is empty.                  *)
incoming(t) ==
    /\ popup[t].at = "idle" /\ signals > 0
    /\ ip_lock = NoOne /\ ip_lock' = t
    /\ signals' = signals - 1
    /\ popup' = [popup EXCEPT ![t].at = "loop"]
    /\ UNCHANGED <<file, connections, port_counter, ip, wire>>

LoopEnd(t) ==
    /\ popup[t].at = "loop" /\ ~IpFlag("F_READABLE")
    /\ ip_lock' = NoOne
    /\ popup' = [popup EXCEPT ![t].at = "idle"]
    /\ UNCHANGED <<file, connections, port_counter, ip, signals, wire>>

(* A packet of another protocol is flushed.                                *)
FlushOther(t) ==
    /\ popup[t].at = "loop" /\ IpFlag("F_READABLE") /\ IpFlag("F_IP_PROTO_TYPE") # "udp"
    /\ ip' = [ip EXCEPT !.inqueue = Tail(@)]
    /\ UNCHANGED <<file, connections, port_counter, ip_lock, popup, signals, wire>>

(* F_SRC_IP, F_DEST_IP and F_PRESSURE are about the first packet of the    *)
(* queue; the packet itself is fetched by a later call.                    *)
ReadFlags(t) ==
    /\ popup[t].at = "loop" /\ IpFlag("F_READABLE") /\ IpFlag("F_IP_PROTO_TYPE") = "udp"
    /\ popup' = [popup EXCEPT ![t] = [at |-> "recv", src |-> IpFlag("F_SRC_IP")]]
    /\ UNCHANGED <<file, connections, port_counter, ip_lock, ip, signals, wire>>

ChecksumOk(p, src) == p.sum = "none" \/ (p.sum = "right" /\ p.src = src)

(* Every file with the destination port gets a copy; from is the host the  *)
(* packet really came from.                                                *)
Deliver(p, src) ==
    [f \in Files |-> IF f \in Range(connections) /\ file[f].port = p.dport
        THEN [file[f] EXCEPT !.inqueue =
                  Append(@, [src_ip |-> src, from |-> p.src])]
        ELSE file[f]]

(* The packet is fetched, and discarded if its checksum is wrong; the list *)
(* is read-locked while the files get their copies.                        *)
RecvPacket(t) ==
    /\ popup[t].at = "recv" /\ ip.inqueue # <<>>
    /\ LET p == Head(ip.inqueue)
       IN file' = IF ChecksumOk(p, popup[t].src) THEN Deliver(p, popup[t].src) ELSE file
    /\ ip' = [ip EXCEPT !.inqueue = Tail(@)]
    /\ popup' = [popup EXCEPT ![t] = [at |-> "loop", src |-> NoIp]]
    /\ UNCHANGED <<connections, port_counter, ip_lock, signals, wire>>

Next ==
    \/ \E f \in Files :
          \/ service_create_pipe(f) \/ service_destroy_pipe(f) \/ Free(f)
          \/ service_stream_recv(f) \/ service_pipe_set_flag(f)
          \/ SendPrepare(f) \/ SendRoute(f) \/ SendOut(f)
    \/ \E t \in Popups :
          \/ incoming(t) \/ LoopEnd(t) \/ FlushOther(t) \/ ReadFlags(t) \/ RecvPacket(t)
    \/ \E p \in Packets : Arrive(p)

Spec == Init /\ [][Next]_vars

----------------------------------------------------------------------------
(* Whatever the clients do at the same time, a datagram leaves for the     *)
(* address its checksum was computed for.                                  *)
SentWhereSummed == wire.to = wire.sum

(* A packet names the host it came from, although the name was read by a   *)
(* call of its own before the packet was fetched.                          *)
SourceIsReal == \A f \in Files : \A i \in DOMAIN file[f].inqueue :
                    file[f].inqueue[i].src_ip = file[f].inqueue[i].from

(* No packet waits in the pipe unless a signal or a popup will look again. *)
NoLostWakeup == ip.inqueue # <<>> =>
    signals > 0 \/ \E t \in Popups : popup[t].at \in {"loop", "recv"}

(* incoming, which walks the list, meets no file that has been freed.      *)
ListedIsLive == \A i \in DOMAIN connections :
                    file[connections[i]].at \notin {"free", "unlinked"}

UdpCorrect == SentWhereSummed /\ SourceIsReal /\ NoLostWakeup /\ ListedIsLive
=============================================================================
