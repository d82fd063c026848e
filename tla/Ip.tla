--------------------------------- MODULE Ip ---------------------------------
(***************************************************************************)
(* The IP server (progs/common/ip) on one interface: clients that route    *)
(* and send, the address resolution they wait for, and the popups that     *)
(* handle what the Ethernet server delivers.                               *)
(*                                                                         *)
(* The interface is one pipe to the Ethernet server (external: eth.c),     *)
(* with two flags that hold until they are changed, the type and the       *)
(* destination of the next frame; the lock of the interface keeps flags    *)
(* and frame together.  A host's MAC address is written as its name.  The  *)
(* popups of incoming work one after the other and are one thread.         *)
(*                                                                         *)
(* Hosts answer when they like, asked or not, once or twice.  A client     *)
(* that looks an address up reads the answer without a lock: raced, a      *)
(* history variable, tells whether another one was stored meanwhile.       *)
(* find_route uses the route it has found behind the lock of the table;    *)
(* here that is one step, so no route is deleted under it.                 *)
(***************************************************************************)
EXTENDS Naturals, Sequences, SequencesExt, FiniteSets

CONSTANTS
    Clients,        \* clients, each with a file
    Hosts,          \* addresses on the network
    Routes,         \* routes a user can add: [net, bits, gw]
    Frames,         \* what arrives: [type, src], of type ip, request, reply or other
    CacheSize,      \* ARP_CACHE_SIZE
    MaxQueue,       \* bound: packets in a queue, signals
    MaxArrivals     \* bound: frames that arrive

Nobody    == "nobody"
Zero      == "0"                    \* no address; an empty cache entry
Broadcast == "255.255.255.255"
AllMacs   == "ff:ff:ff:ff:ff:ff"
Torn      == "torn"                 \* some bytes of an address

VARIABLES
    file,           \* struct vfs_file of each client, with its call; packets
                    \* in its queue are counted
    ifc,            \* the interface: state, lock, flags, queue
    routing_table,  \* newest first
    arp_cache,      \* by slot, with its place in the order of use
    readers,        \* arp_cache_lock: who searches a slot
    arp_lock,
    reply,          \* reply_ip and reply_mac
    inc,            \* the incoming thread
    signals,        \* signals of the Ethernet server that have no popup yet
    arrivals,       \* frames that have arrived
    misled,         \* has a frame left with the flags of another one?
    raced           \* has an answer been stored while a client read one?

vars == <<file, ifc, routing_table, arp_cache, readers, arp_lock,
          reply, inc, signals, arrivals, misled, raced>>

NoFile == [at |-> "free", dest |-> Zero, route |-> FALSE, mac |-> Zero, hop |-> Zero,
           inqueue |-> 0, slot |-> 0]

Init ==
    /\ file = [c \in Clients |-> NoFile]
    /\ ifc = [state |-> "none", lock |-> Nobody, type |-> "ip", mac |-> Zero, queue |-> <<>>]
    /\ routing_table = <<>>
    /\ arp_cache = [i \in 1 .. CacheSize |-> [ip |-> Zero, mac |-> Zero, last |-> 0]]
    /\ readers = {}
    /\ arp_lock = Nobody
    /\ reply = [ip |-> Zero, mac |-> Zero]
    /\ inc = [at |-> "idle", src |-> Zero]
    /\ signals = 0 /\ arrivals = 0
    /\ misled = FALSE /\ raced = FALSE

arpVars  == <<arp_cache, readers, arp_lock, reply, raced>>
ethVars  == <<signals, arrivals>>
Goto(c, at) == file' = [file EXCEPT ![c].at = at]

----------------------------------------------------------------------------
(* locate_interface opens the pipe, asks for signals and then enters the   *)
(* interface into the list.                                                *)
locate_interface ==
    /\ ifc.state \in {"none", "open", "signals"}
    /\ ifc' = [ifc EXCEPT !.state = CASE @ = "none" -> "open" [] @ = "open" -> "signals"
                                      [] @ = "signals" -> "listed"]
    /\ UNCHANGED <<file, routing_table, arpVars, inc, ethVars, misled>>

service_create_pipe(c) ==
    /\ file[c].at = "free"
    /\ file' = [file EXCEPT ![c] = [NoFile EXCEPT !.at = "idle"]]
    /\ UNCHANGED <<ifc, routing_table, arpVars, inc, ethVars, misled>>

(* service_destroy_pipe frees the packets first and leaves the list after  *)
(* that; a packet queued in between is lost with the file.                 *)
service_destroy_pipe(c) ==
    /\ file[c].at \in {"idle", "emptied"}
    /\ file' = [file EXCEPT ![c] = IF @.at = "idle" THEN [@ EXCEPT !.at = "emptied", !.inqueue = 0]
                                   ELSE NoFile]
    /\ UNCHANGED <<ifc, routing_table, arpVars, inc, ethVars, misled>>

(* service_stream_recv, and F_FLUSH after F_READABLE                       *)
service_stream_recv(c) ==
    /\ file[c].at = "idle" /\ file[c].inqueue > 0
    /\ file' = [file EXCEPT ![c].inqueue = @ - 1]
    /\ UNCHANGED <<ifc, routing_table, arpVars, inc, ethVars, misled>>

----------------------------------------------------------------------------
(* Routes.  net is the set of addresses dest and mask stand for, bits the  *)
(* number of bits of the mask.                                             *)
SameRoute(r, s) == r.net = s.net

(* add_route replaces the gateway of a route it has, or adds the route.    *)
add_route(r) ==
    /\ routing_table' =
           IF \E i \in DOMAIN routing_table : SameRoute(routing_table[i], r)
           THEN [i \in DOMAIN routing_table |->
                    IF SameRoute(routing_table[i], r) THEN r ELSE routing_table[i]]
           ELSE <<r>> \o routing_table
    /\ UNCHANGED <<file, ifc, arpVars, inc, ethVars, misled>>

(* del_route with addresses deletes one; without, it goes through all, and *)
(* passes over the one behind each that it deletes.                        *)
EverySecond(s) == [k \in 1 .. Len(s) \div 2 |-> s[2 * k]]
del_route(r) ==
    /\ routing_table' \in {SelectSeq(routing_table, LAMBDA s : ~SameRoute(r, s)),
                           EverySecond(routing_table)}
    /\ UNCHANGED <<file, ifc, arpVars, inc, ethVars, misled>>

(* find_route: the narrowest route that matches, the newest of several.    *)
Best(ip) ==
    LET Match == {i \in DOMAIN routing_table : ip \in routing_table[i].net}
        Better(i, j) == \/ routing_table[i].bits > routing_table[j].bits
                        \/ routing_table[i].bits = routing_table[j].bits /\ i <= j
    IN IF Match = {} THEN 0 ELSE CHOOSE i \in Match : \A j \in Match : Better(i, j)

(* F_DEST_IP: without a route the call fails, but the file keeps its old   *)
(* interface and MAC address beside the new destination.                   *)
find_route(c, ip) ==
    /\ file[c].at = "idle"
    /\ LET i == Best(ip)
       IN file' = [file EXCEPT ![c] =
              IF i = 0 \/ ifc.state # "listed" THEN [@ EXCEPT !.dest = ip]
              ELSE IF ip = Broadcast
              THEN [@ EXCEPT !.dest = ip, !.route = TRUE, !.mac = AllMacs]
              ELSE [@ EXCEPT !.dest = ip, !.route = TRUE, !.at = "lookup",
                             !.hop = IF routing_table[i].gw # Zero THEN routing_table[i].gw ELSE ip]]
    /\ UNCHANGED <<ifc, routing_table, arpVars, inc, ethVars, misled>>

----------------------------------------------------------------------------
Found(c, mac) ==
    file' = [file EXCEPT ![c].at = "idle", ![c].mac = mac, ![c].hop = Zero, ![c].slot = 0]

(* The order in which the slots were used, with slot i used last; the code *)
(* counts, and wraps after 2^31 uses.                                      *)
Touched(cache, i) ==
    [k \in DOMAIN cache |->
        [cache[k] EXCEPT !.last =
            IF k = i THEN Cardinality({j \in DOMAIN cache : j # i /\ cache[j].ip # Zero})
            ELSE IF @ > cache[i].last /\ cache[i].ip # Zero THEN @ - 1 ELSE @]]

(* arp_lookup                                                              *)
LookupHit(c) ==
    /\ file[c].at = "lookup"
    /\ \E i \in DOMAIN arp_cache :
          /\ arp_cache[i].ip = file[c].hop
          /\ \A j \in 1 .. i - 1 : arp_cache[j].ip # file[c].hop
          /\ arp_cache' = Touched(arp_cache, i)
          /\ Found(c, arp_cache[i].mac)
    /\ UNCHANGED <<ifc, routing_table, readers, arp_lock, reply, inc, ethVars,
                   misled, raced>>

(* arp_resolve: one request at a time                                      *)
LookupMiss(c) ==
    /\ file[c].at = "lookup"
    /\ \A i \in DOMAIN arp_cache : arp_cache[i].ip # file[c].hop
    /\ arp_lock = Nobody /\ arp_lock' = c
    /\ Goto(c, "resolve")
    /\ UNCHANGED <<ifc, routing_table, arp_cache, readers, reply, inc, ethVars,
                   misled, raced>>

(* Faulty: without the lock.                                               *)
SetFlagsUnlocked(who, type, mac) ==
    ifc' = [ifc EXCEPT !.type = type, !.mac = mac]

(* The flags are set under the lock of the interface, ...                  *)
SetFlags(who, type, mac) ==
    /\ ifc.lock = Nobody
    /\ ifc' = [ifc EXCEPT !.lock = who, !.type = type, !.mac = mac]

(* ... the frame leaves with what they say then, and the type goes back.   *)
EmitFrame(kind, want) ==
    /\ misled' = (misled \/ ifc.type # kind \/ ifc.mac # want)
    /\ ifc' = [ifc EXCEPT !.lock = Nobody, !.type = "ip"]

Request(c) ==
    /\ file[c].at = "resolve"
    /\ SetFlags(c, "arp", AllMacs)
    /\ Goto(c, "request")
    /\ UNCHANGED <<routing_table, arpVars, inc, ethVars, misled>>

RequestOut(c) ==
    /\ file[c].at = "request"
    /\ EmitFrame("arp", AllMacs)
    /\ Goto(c, "wait")
    /\ UNCHANGED <<routing_table, arpVars, inc, ethVars>>

(* The wait ends when reply_ip is the address asked for, or after three    *)
(* seconds; reply_mac is read when arp_lock is free again.                 *)
arp_resolve(c) ==
    /\ file[c].at = "wait"
    /\ arp_lock' = Nobody
    /\ \/ /\ reply.ip = file[c].hop /\ Goto(c, "read")
          /\ raced' = (raced \/ inc.at \in {"bytes", "ip"})
       \/ reply.ip # file[c].hop /\ Found(c, Zero) /\ UNCHANGED raced
    /\ UNCHANGED <<ifc, routing_table, arp_cache, readers, reply, inc, ethVars, misled>>

(* The slot for a new entry: the first free one, or else the oldest.       *)
Slot == LET Free == {i \in DOMAIN arp_cache : arp_cache[i].ip = Zero}
        IN IF Free # {} THEN CHOOSE i \in Free : \A j \in Free : i <= j
           ELSE CHOOSE i \in DOMAIN arp_cache :
                    \A j \in DOMAIN arp_cache : arp_cache[i].last <= arp_cache[j].last

ReadReply(c) ==
    /\ file[c].at = "read"
    /\ IF reply.mac = Zero
       THEN Found(c, Zero) /\ UNCHANGED readers
       ELSE /\ file' = [file EXCEPT ![c].at = "insert", ![c].mac = reply.mac, ![c].slot = Slot]
            /\ readers' = readers \cup {c}
    /\ UNCHANGED <<ifc, routing_table, arp_cache, arp_lock, reply, inc, ethVars,
                   misled, raced>>

InsertEntry(c) ==
    /\ file[c].at = "insert"
    /\ readers = {c} /\ readers' = {}
    /\ arp_cache' = [Touched(arp_cache, file[c].slot) EXCEPT
                        ![file[c].slot].ip = file[c].hop, ![file[c].slot].mac = file[c].mac]
    /\ Found(c, file[c].mac)
    /\ UNCHANGED <<ifc, routing_table, arp_lock, reply, inc, ethVars, misled, raced>>

----------------------------------------------------------------------------
(* service_stream_send: whatever find_route said, the frame goes to the    *)
(* MAC address of the file, once it has an interface.                      *)
SendSet(c) ==
    /\ file[c].at = "idle" /\ file[c].route
    /\ SetFlags(c, ifc.type, file[c].mac)
    /\ Goto(c, "send")
    /\ UNCHANGED <<routing_table, arpVars, inc, ethVars, misled>>

SendOut(c) ==
    /\ file[c].at = "send"
    /\ EmitFrame("ip", file[c].mac)
    /\ Goto(c, "idle")
    /\ UNCHANGED <<routing_table, arpVars, inc, ethVars>>

----------------------------------------------------------------------------
(* The Ethernet server queues a frame and signals if it was asked to.      *)
Arrive(p) ==
    /\ ifc.state # "none"
    /\ Len(ifc.queue) < MaxQueue /\ signals < MaxQueue
    /\ arrivals < MaxArrivals /\ arrivals' = arrivals + 1
    /\ ifc' = [ifc EXCEPT !.queue = Append(@, p)]
    /\ signals' = IF ifc.state \in {"signals", "listed"} THEN signals + 1 ELSE signals
    /\ UNCHANGED <<file, routing_table, arpVars, inc, misled>>

(* incoming: for an interface that is not in the list yet it does nothing. *)
incoming ==
    /\ inc.at = "idle" /\ signals > 0
    /\ signals' = signals - 1
    /\ inc' = [inc EXCEPT !.at = IF ifc.state = "listed" THEN "loop" ELSE "idle"]
    /\ UNCHANGED <<file, ifc, routing_table, arpVars, arrivals, misled>>

LoopEnd ==
    /\ inc.at = "loop" /\ ifc.queue = <<>>
    /\ inc' = [inc EXCEPT !.at = "idle"]
    /\ UNCHANGED <<file, ifc, routing_table, arpVars, ethVars, misled>>

(* Every file that is pointed to the sender gets a copy.                   *)
Deliver(src) ==
    [c \in Clients |-> IF file[c].at \notin {"free", "emptied"} /\ file[c].dest \in {src, Broadcast}
                          /\ file[c].inqueue < MaxQueue
                       THEN [file[c] EXCEPT !.inqueue = @ + 1] ELSE file[c]]

(* A frame is taken from the queue: an IP packet is delivered, a request   *)
(* or a reply handed to arp_incoming, anything else flushed.               *)
Take ==
    /\ inc.at = "loop" /\ ifc.queue # <<>>
    /\ LET p == Head(ifc.queue)
       IN /\ file' = IF p.type = "ip" THEN Deliver(p.src) ELSE file
          /\ inc' = IF p.type \in {"request", "reply"}
                    THEN [at |-> p.type, src |-> p.src] ELSE inc
    /\ ifc' = [ifc EXCEPT !.queue = Tail(@)]
    /\ UNCHANGED <<routing_table, arpVars, ethVars, misled>>

(* arp_incoming answers a request for the own address, ...                 *)
AnswerSet ==
    /\ inc.at = "request"
    /\ SetFlags("incoming", "arp", inc.src)
    /\ inc' = [inc EXCEPT !.at = "answer"]
    /\ UNCHANGED <<file, routing_table, arpVars, ethVars, misled>>

AnswerOut ==
    /\ inc.at = "answer"
    /\ EmitFrame("arp", inc.src)
    /\ inc' = [at |-> "loop", src |-> Zero]
    /\ UNCHANGED <<file, routing_table, arpVars, ethVars>>

(* ... and stores a reply byte by byte, the address last.                  *)
StoreReply(pc) ==
    CASE pc = "reply" -> [reply EXCEPT !.mac = Torn]
      [] pc = "bytes" -> [reply EXCEPT !.mac = inc.src]
      [] pc = "ip"    -> [reply EXCEPT !.ip = inc.src]

arp_incoming ==
    /\ inc.at \in {"reply", "bytes", "ip"}
    /\ reply' = StoreReply(inc.at)
    /\ inc' = CASE inc.at = "reply" -> [inc EXCEPT !.at = "bytes"]
                [] inc.at = "bytes" -> [inc EXCEPT !.at = "ip"]
                [] inc.at = "ip"    -> [at |-> "loop", src |-> Zero]
    /\ raced' = (raced \/ \E c \in Clients : file[c].at = "read")
    /\ UNCHANGED <<file, ifc, routing_table, arp_cache, readers, arp_lock,
                   ethVars, misled>>

Next ==
    \/ locate_interface
    \/ \E c \in Clients :
          \/ service_create_pipe(c) \/ service_destroy_pipe(c) \/ service_stream_recv(c)
          \/ \E ip \in Hosts \cup {Broadcast} : find_route(c, ip)
          \/ LookupHit(c) \/ LookupMiss(c) \/ Request(c) \/ RequestOut(c)
          \/ arp_resolve(c) \/ ReadReply(c) \/ InsertEntry(c)
          \/ SendSet(c) \/ SendOut(c)
    \/ \E r \in Routes : add_route(r) \/ del_route(r)
    \/ \E p \in Frames : Arrive(p)
    \/ incoming \/ LoopEnd \/ Take \/ AnswerSet \/ AnswerOut \/ arp_incoming

Spec == Init /\ [][Next]_vars

----------------------------------------------------------------------------
(* Every frame leaves with its own type and for its own destination,       *)
(* although all share the flags of one pipe.                               *)
FrameAddressed == ~misled

(* The address a client reads for a hop, and the cache keeps, is that of   *)
(* the host, unless an answer was being stored while somebody read one:    *)
(* reply_mac is built byte by byte, and read after arp_lock is free.       *)
CacheTrue == \A i \in DOMAIN arp_cache : arp_cache[i].mac = arp_cache[i].ip
MacOfHop  == \A c \in Clients : file[c].at = "insert" => file[c].mac = file[c].hop

AddressesTrue == raced \/ (CacheTrue /\ MacOfHop)

(* Frames go where they should, and the cache knows where that is.         *)
IpCorrect == FrameAddressed /\ AddressesTrue
=============================================================================
