-------------------------------- MODULE Tcp --------------------------------
(***************************************************************************)
(* The TCP server (progs/common/tcp).  A popup of the server carries out   *)
(* the calls of a client; the popups for incoming packets work one after   *)
(* the other (incoming_lock) and are one thread here.  It holds the list   *)
(* of connections read-locked while it goes through it for a packet.       *)
(*                                                                         *)
(* Sequence numbers count modulo Modulus (2^32), and a quarter of that      *)
(* (0x40000000) decides what lies ahead and what behind.  A byte is known  *)
(* by its sequence number.  Ports and addresses are left out: a segment    *)
(* names the connection its port belongs to.  The segments of the peer,    *)
(* lost, repeated and in any order, are taken from a set; the server has   *)
(* no timer, it repeats its own packets whenever it sends another one.     *)
(***************************************************************************)
EXTENDS Integers, Sequences, SequencesExt, FiniteSets

CONSTANTS
    Conns,      \* addresses of struct tcp_connection
    Modulus,     \* sequence numbers
    Segments,   \* what the peers send
    Sizes,      \* sizes of the clients' buffers
    MaxIn,      \* bound: packets of an inqueue
    MaxOut,     \* bound: packets of an outqueue when more come
    MaxSeq      \* bound: the server's own sequence number

VARIABLES
    conn,           \* the connections, with the call each of them is in
    connections,    \* the list of connections
    readers,        \* connection_lock: who holds it for reading
    inc,            \* the incoming thread: the packet, the connection it is at
    seen            \* history of each connection, see below

vars == <<conn, connections, readers, inc, seen>>

Plus(a, n)      == (a + n) % Modulus
Minus(a, b)     == (a - b + Modulus) % Modulus
NotBefore(a, b) == Minus(a, b) < Modulus \div 4
Bytes(p)        == {Plus(p.seq, k) : k \in 0 .. Minus(p.end, p.seq) - 1}

Statuses == {"CLOSED", "LISTEN", "SYN_RCVD", "SYN_SENT", "OPEN", "FIN_RCVD", "FIN_SENT"}

(* A segment of the peer as a packet; SYN and FIN take a number if there   *)
(* is no data.                                                             *)
SeqSize(flags, len) == IF len = 0 /\ flags \cap {"SYN", "FIN"} # {} THEN 1 ELSE len
Packet(s) == [seq |-> s.seq, end |-> Plus(s.seq, SeqSize(s.flags, s.len)),
              flags |-> s.flags, len |-> s.len, off |-> 0]

NoConn  == [at |-> "free", status |-> "CLOSED", seq |-> 0, ack |-> 0,
            inqueue |-> <<>>, outqueue |-> <<>>, then |-> "idle",
            want |-> 0, got |-> 0]
(* What was received (cover) since the queues were flushed, the number the *)
(* stream began with (base), and the next byte for the client (next): Odd  *)
(* once something happened that may keep the client from getting just the  *)
(* stream, Wrong if it got something else without that.  A packet is stray *)
(* if it was sent while tcp_connect was about to start over at number 0.   *)
Odd   == -1
Wrong == -2
NoSeen == [base |-> 0, cover |-> {}, next |-> 0, stray |-> FALSE]
SeenFrom(h, n) == [h EXCEPT !.base = n, !.cover = {}, !.next = n]
NoInc   == [at |-> "idle", todo |-> <<>>, seg |-> "none", status |-> "CLOSED", reply |-> <<>>]

Init ==
    /\ conn = [c \in Conns |-> NoConn]
    /\ connections = <<>>
    /\ readers = {}
    /\ inc = NoInc
    /\ seen = [c \in Conns |-> NoSeen]

----------------------------------------------------------------------------
(* send_tcp_packet puts a packet behind those with lower or equal numbers; *)
(* handle_outqueue then repeats all that fit the window.                   *)
send_tcp_packet(k, flags, len) ==
    LET n == Cardinality({i \in DOMAIN k.outqueue : k.outqueue[i].seq <= k.seq})
        p == [seq |-> k.seq, end |-> Plus(k.seq, SeqSize(flags, len)), flags |-> flags]
    IN [k EXCEPT !.seq = p.end, !.outqueue = InsertAt(@, n + 1, p)]

SendAll(k, fs) == FoldLeft(LAMBDA j, f : send_tcp_packet(j, f, 0), k, fs)

tcp_acked(k, ack) ==
    LET Kept == {i \in DOMAIN k.outqueue : ~NotBefore(ack, k.outqueue[i].end)}
    IN [k EXCEPT !.outqueue = IF Kept = {} THEN <<>>
            ELSE SubSeq(@, CHOOSE i \in Kept : \A j \in Kept : i <= j, Len(@))]

----------------------------------------------------------------------------
(* handle_inqueue.  r is what the loop has changed: the acknowledged       *)
(* number, the status, the queue and the answers.  The status is written   *)
(* after it was looked at: a client may come in between.                   *)
Accept(r, p) ==
    LET s == [r EXCEPT !.ack = p.end]
    IN IF "SYN" \in p.flags
       THEN CASE r.status = "LISTEN" -> [s EXCEPT !.status = "SYN_RCVD",
                                                  !.reply = Append(@, {"SYN", "ACK"})]
              [] r.status = "CLOSED" -> [s EXCEPT !.reply = Append(@, {"RST"})]
              [] OTHER -> [s EXCEPT !.status = "OPEN"]
       ELSE IF "FIN" \in p.flags
       THEN [s EXCEPT !.fin = TRUE,
                      !.status = IF @ \in {"FIN_SENT", "CLOSED"} THEN "CLOSED" ELSE "FIN_RCVD"]
       ELSE s


(* The packet begins where the acknowledged part ends, or before, and ends *)
(* behind it.                                                              *)
IsNext(r, p) == NotBefore(r.ack, p.seq) /\ r.ack # p.end /\ NotBefore(p.end, r.ack)

Second(q) == IF Len(q) > 1 THEN <<q[2]>> ELSE <<>>

(* A packet without data is removed, and the one behind it is passed over. *)
RECURSIVE InLoop(_, _, _)
InLoop(done, rest, r) ==
    IF rest = <<>> THEN [r EXCEPT !.inqueue = done]
    ELSE LET p == Head(rest)
         IN CASE IsNext(r, p) /\ p.len > 0 ->
                     InLoop(Append(done, p), Tail(rest), Accept(r, p))
              [] IsNext(r, p) /\ p.len = 0 ->
                     InLoop(done \o Second(rest), SubSeq(rest, 3, Len(rest)), Accept(r, p))
              [] ~IsNext(r, p) /\ NotBefore(p.seq, r.ack) -> [r EXCEPT !.inqueue = done \o rest]
              [] OTHER -> InLoop(Append(done, p), Tail(rest), r)

handle_inqueue(k) ==
    InLoop(<<>>, k.inqueue, [ack |-> k.ack, status |-> k.status, inqueue |-> <<>>,
                             reply |-> <<>>, fin |-> FALSE])

----------------------------------------------------------------------------
(* tcp_receive.  Each packet is copied from its beginning, whatever was    *)
(* read of it; one that is used up is removed and the next one passed over. *)
RECURSIVE RecvLoop(_, _, _, _)
RecvLoop(ack, done, rest, r) ==
    IF rest = <<>> THEN [r EXCEPT !.inqueue = done]
    ELSE LET p         == Head(rest)
             overlap   == Minus(r.last, p.seq)
             remaining == (p.len - p.off - overlap + 2 * Modulus) % Modulus
             copy_sz   == IF remaining > r.size THEN r.size ELSE remaining
             q         == [p EXCEPT !.off = Plus(@, copy_sz)]
             s         == [r EXCEPT !.last = p.end, !.size = @ - copy_sz,
                                    !.out = @ \o [k \in 1 .. copy_sz |-> Plus(p.seq, k - 1)],
                                    !.part = @ \/ copy_sz < remaining]
         IN CASE p.end # ack /\ NotBefore(p.end, ack) -> [r EXCEPT !.inqueue = done \o rest]
              [] p.len = 0 -> RecvLoop(ack, Append(done, p), Tail(rest), [r EXCEPT !.last = p.end])
              [] p.len = Plus(q.off, overlap) ->
                     RecvLoop(ack, done \o Second(rest), SubSeq(rest, 3, Len(rest)), s)
              [] OTHER -> RecvLoop(ack, Append(done, q), Tail(rest), s)

tcp_receive(k, size) ==
    RecvLoop(k.ack, <<>>, k.inqueue,
             [last |-> IF k.inqueue = <<>> THEN 0 ELSE Head(k.inqueue).seq,
              size |-> size, out |-> <<>>, inqueue |-> <<>>, part |-> FALSE])

(* F_READABLE: are there acknowledged bytes in the queue?                  *)
service_pipe_get_flag(k) ==
    \E i \in DOMAIN k.inqueue :
        /\ k.inqueue[i].len > 0
        /\ \A j \in 1 .. i : ~(k.inqueue[j].end # k.ack /\ NotBefore(k.inqueue[j].end, k.ack))

Waiting(k) == {i \in DOMAIN k.inqueue : k.inqueue[i].len > 0}
InOrder(out, next) == \A i \in DOMAIN out : out[i] = Plus(next, i - 1)

(* What a pass over the queue gave the client: its next bytes, unless the  *)
(* pass read a packet in parts, or removed more than one, or the buffer     *)
(* holds what an earlier pass gave: each begins at the front of the buffer. *)
Got(c, r, again) ==
    [seen EXCEPT ![c].next =
        CASE @ < 0 -> @
          [] @ >= 0 /\ (r.part \/ Cardinality(Waiting(conn[c])) > 2 \/ (again /\ r.out # <<>>)) -> Odd
          [] OTHER -> IF InOrder(r.out, @) THEN Plus(@, Len(r.out)) ELSE Wrong]

(* service_stream_recv with O_NONBLOCK                                     *)
ReceiveOnce(c, size) ==
    LET r == tcp_receive(conn[c], size)
    IN /\ conn[c].at = "idle" /\ service_pipe_get_flag(conn[c])
       /\ conn' = [conn EXCEPT ![c].inqueue = r.inqueue]
       /\ seen' = Got(c, r, FALSE)
       /\ UNCHANGED <<connections, readers, inc>>

(* service_stream_recv without: every pass reads into the whole buffer     *)
(* until the sum is what was asked for or the connection is not open.      *)
ReceiveBlocking(c, size) ==
    /\ conn[c].at = "idle"
    /\ conn' = [conn EXCEPT ![c].at = "recv", ![c].want = size]
    /\ UNCHANGED <<connections, readers, inc, seen>>

ReceivePass(c) ==
    LET k   == conn[c]
        r   == tcp_receive(k, k.want)
        got == k.got + Len(r.out)
        on  == got < k.want /\ k.status \in {"OPEN", "FIN_SENT"}
    IN /\ k.at = "recv"
       /\ conn' = [conn EXCEPT ![c] = [k EXCEPT !.inqueue = r.inqueue,
                !.at = IF on THEN @ ELSE "idle",
                !.want = IF on THEN @ ELSE 0, !.got = IF on THEN got ELSE 0]]
       /\ seen' = Got(c, r, k.got > 0)
       /\ UNCHANGED <<connections, readers, inc>>

(* service_stream_send, one packet's worth (MSS) of data                   *)
service_stream_send(c) ==
    /\ conn[c].at = "idle" /\ conn[c].status \in {"OPEN", "FIN_RCVD"}
    /\ conn[c].seq < MaxSeq
    /\ conn' = [conn EXCEPT ![c] = send_tcp_packet(@, {"ACK"}, 1)]
    /\ UNCHANGED <<connections, readers, inc, seen>>

----------------------------------------------------------------------------
(* service_create_pipe puts the connection into the list before it writes  *)
(* the status: what the memory held counts until then.                     *)
service_create_pipe(c) ==
    /\ conn[c].at = "free" /\ readers = {}
    /\ \E st \in Statuses : conn' = [conn EXCEPT ![c] = [NoConn EXCEPT !.at = "new", !.status = st]]
    /\ connections' = <<c>> \o connections
    /\ seen' = [seen EXCEPT ![c] = NoSeen]
    /\ UNCHANGED <<readers, inc>>

(* With an address it connects, and gives up if that fails.                *)
CreateEnd(c) ==
    /\ conn[c].at = "new"
    /\ \/ conn' = [conn EXCEPT ![c].status = "CLOSED", ![c].at = "idle"]
       \/ conn' = [conn EXCEPT ![c].at = "connect", ![c].then = "check"]
    /\ UNCHANGED <<connections, readers, inc, seen>>

(* flush_all_queues of tcp_connect and tcp_disconnect.  First the packets  *)
(* of the inqueue are freed and it is emptied.                             *)
FlushIn(c) ==
    /\ conn[c].at \in {"connect", "disconnect"}
    /\ conn' = [conn EXCEPT ![c].inqueue = <<>>,
                            ![c].at = IF @ = "connect" THEN "connect out" ELSE "disconnect out"]
    /\ seen' = [seen EXCEPT ![c] = SeenFrom(@, conn[c].ack)]
    /\ UNCHANGED <<connections, readers, inc>>

(* Then, under the lock of the outqueue, the packets of the inqueue again:  *)
(* one that came in between stays in its queue although it is freed.  The   *)
(* packets of the outqueue are forgotten.                                  *)
FlushOut(c) ==
    /\ conn[c].at \in {"connect out", "disconnect out"}
    /\ conn' = [conn EXCEPT ![c].outqueue = <<>>,
                            ![c].at = IF @ = "connect out" THEN "seq" ELSE "branch"]
    /\ seen' = [seen EXCEPT ![c].next = IF conn[c].inqueue # <<>> THEN Odd ELSE @,
                            ![c].stray = FALSE]
    /\ UNCHANGED <<connections, readers, inc>>

(* tcp_connect starts over at number 0, changes the status and sends a SYN. *)
tcp_connect(c) ==
    /\ \/ /\ conn[c].at = "seq"
          /\ conn' = [conn EXCEPT ![c].seq = 0, ![c].at = "status"]
          /\ seen' = [seen EXCEPT ![c].stray = conn[c].outqueue # <<>>]
       \/ /\ conn[c].at = "status"
          /\ conn' = [conn EXCEPT ![c].status = "SYN_SENT", ![c].at = "syn"]
          /\ UNCHANGED seen
       \/ /\ conn[c].at = "syn"
          /\ conn' = [conn EXCEPT ![c] = [send_tcp_packet(@, {"SYN"}, 0) EXCEPT !.at = "connecting"]]
          /\ UNCHANGED seen
    /\ UNCHANGED <<connections, readers, inc>>

(* The wait in tcp_connect ends with an answer or after five seconds.      *)
ConnectEnd(c) ==
    /\ conn[c].at = "connecting"
    /\ conn' = [conn EXCEPT ![c] =
           IF @.then = "check" /\ @.status # "OPEN"
           THEN [@ EXCEPT !.at = "disconnect", !.then = "destroy"]
           ELSE [@ EXCEPT !.at = "idle", !.then = "idle"]]
    /\ UNCHANGED <<connections, readers, inc, seen>>

(* service_destroy_pipe, and the flags that disconnect: F_DEST_IP,         *)
(* F_DEST_PORT, F_MY_PORT (connect) and F_CONNECTION_STATUS (0, 2)         *)
tcp_disconnect(c, then) ==
    /\ conn[c].at = "idle"
    /\ conn' = [conn EXCEPT ![c].at = "disconnect", ![c].then = then]
    /\ UNCHANGED <<connections, readers, inc, seen>>

service_destroy_pipe(c) == tcp_disconnect(c, "destroy")
service_pipe_set_flag(c) == \E then \in {"connect", "idle", "listen"} : tcp_disconnect(c, then)

(* After the flush tcp_disconnect looks at the status for what to do, and   *)
(* again when it changes it.                                               *)
DisconnectBranch(c) ==
    /\ conn[c].at = "branch"
    /\ conn' = [conn EXCEPT ![c].at =
           CASE conn[c].status \in {"CLOSED", "LISTEN"}     -> "closed"
             [] conn[c].status \in {"SYN_SENT", "SYN_RCVD"} -> "abort"
             [] OTHER                                       -> "close"]
    /\ UNCHANGED <<connections, readers, inc, seen>>

DisconnectSend(c) ==
    /\ conn[c].at \in {"abort", "close"}
    /\ conn' = [conn EXCEPT ![c] =
           IF @.at = "abort"
           THEN [send_tcp_packet(@, {"RST"}, 0) EXCEPT !.status = "CLOSED", !.at = "closed"]
           ELSE [send_tcp_packet(@, {"FIN", "ACK"}, 0) EXCEPT !.at = "closing",
                    !.status = CASE @ = "OPEN" -> "FIN_SENT" [] @ = "FIN_RCVD" -> "CLOSED"
                                 [] OTHER -> @]]
    /\ UNCHANGED <<connections, readers, inc, seen>>

(* The FIN is answered, or the time is over and a RST ends the wait.       *)
DisconnectEnd(c) ==
    /\ conn[c].at = "closing"
    /\ conn' = [conn EXCEPT ![c] =
           IF @.status = "CLOSED" THEN [@ EXCEPT !.at = "closed"]
           ELSE [send_tcp_packet(@, {"RST"}, 0) EXCEPT !.status = "CLOSED", !.at = "closed"]]
    /\ UNCHANGED <<connections, readers, inc, seen>>

(* What the call goes on with: destroy takes the list's lock for reading.  *)
Closed(c) ==
    /\ conn[c].at = "closed"
    /\ LET k == conn[c]
       IN CASE k.then = "destroy" -> /\ conn' = [conn EXCEPT ![c].at = "unlink"]
                                     /\ readers' = readers \cup {c}
            [] k.then = "connect" -> /\ conn' = [conn EXCEPT ![c].at = "connect", ![c].then = "idle"]
                                     /\ UNCHANGED readers
            [] k.then = "idle"    -> /\ conn' = [conn EXCEPT ![c].at = "idle"]
                                     /\ UNCHANGED readers
            [] k.then = "listen"  -> /\ conn' = [conn EXCEPT ![c].at = "idle", ![c].status = "LISTEN",
                                                          ![c].then = "idle"]
                                     /\ UNCHANGED readers
    /\ UNCHANGED <<connections, inc, seen>>

(* rwl_require_w waits for the other readers; then the connection leaves   *)
(* the list, its queues are flushed, and it is freed.                      *)
Unlink(c) ==
    /\ conn[c].at = "unlink"
    /\ readers = {c} /\ readers' = {}
    /\ connections' = SelectSeq(connections, LAMBDA d : d # c)
    /\ conn' = [conn EXCEPT ![c] = NoConn]
    /\ seen' = [seen EXCEPT ![c] = NoSeen]
    /\ UNCHANGED inc

----------------------------------------------------------------------------
InBounds(k) == Len(k.inqueue) < MaxIn /\ Len(k.outqueue) < MaxOut /\ k.seq < MaxSeq

(* A packet whose checksum is right; the others are dropped.               *)
incoming(s) ==
    /\ inc.at = "idle"
    /\ \A c \in Conns : InBounds(conn[c])
    /\ readers' = readers \cup {"incoming"}
    /\ inc' = [inc EXCEPT !.at = "walk", !.seg = s, !.todo = connections]
    /\ UNCHANGED <<conn, connections, seen>>

Skip(c) == inc' = [inc EXCEPT !.todo = Tail(@)]

Insert(q, p) ==
    InsertAt(q, Cardinality({i \in DOMAIN q : q[i].seq <= p.seq}) + 1, p)

Wrapped(q) == \E i, j \in DOMAIN q : i < j /\ ~NotBefore(q[j].seq, q[i].seq)

(* Is the packet one the code does not expect: received before, older than *)
(* the stream, new while others wait, or out of order in the queue?        *)
IsOdd(c, p, syn) ==
    \/ seen[c].next < 0
    \/ Bytes(p) \cap seen[c].cover # {}
    \/ ~syn /\ ~NotBefore(p.seq, seen[c].base)
    \/ syn /\ conn[c].inqueue # <<>>
    \/ Wrapped(Insert(conn[c].inqueue, p))

(* The next connection of the list: acknowledgement, RST, and the packet   *)
(* goes into the queue.  (The list is in ascending order but for the wrap  *)
(* of the numbers, where a walk from its front stops early.)               *)
Walk ==
    /\ inc.at = "walk" /\ inc.todo # <<>>
    /\ LET c == Head(inc.todo)
           s == inc.seg
           p == Packet(s)
           syn == "SYN" \in s.flags /\ conn[c].status \in {"LISTEN", "SYN_SENT"}
           k == [conn[c] EXCEPT !.ack = IF syn THEN s.seq ELSE @]
           a == IF "ACK" \in s.flags THEN tcp_acked(k, s.ack) ELSE k
       IN IF c # s.conn
          THEN Skip(c) /\ UNCHANGED <<conn, seen>>
          ELSE IF "RST" \in s.flags
          THEN /\ conn' = [conn EXCEPT ![c] = [a EXCEPT !.status = "CLOSED", !.inqueue = <<>>]]
               /\ seen' = [seen EXCEPT ![c] = SeenFrom(@, a.ack)]
               /\ inc' = [inc EXCEPT !.at = "flush"]
          ELSE IF s.len = 0 /\ s.flags \cap {"SYN", "FIN"} = {}
          THEN /\ conn' = [conn EXCEPT ![c] = a]
               /\ seen' = [seen EXCEPT ![c].base = IF syn THEN s.seq ELSE @]
               /\ Skip(c)
          ELSE /\ conn' = [conn EXCEPT ![c] = [a EXCEPT !.inqueue = Insert(@, p)]]
               /\ seen' = [seen EXCEPT ![c] =
                     [@ EXCEPT !.base  = IF syn THEN s.seq ELSE @,
                               !.next  = IF IsOdd(c, p, syn) THEN Odd
                                         ELSE IF syn \/ (s.len = 0 /\ s.seq = @) THEN p.end
                                         ELSE @,
                               !.cover = @ \cup Bytes(p)]]
               /\ inc' = [inc EXCEPT !.at = "queue"]
    /\ UNCHANGED <<connections, readers>>

(* The second half of flush_all_queues; nobody else fills an inqueue.      *)
WalkFlush ==
    /\ inc.at = "flush"
    /\ conn' = [conn EXCEPT ![Head(inc.todo)].outqueue = <<>>]
    /\ inc' = [inc EXCEPT !.at = "walk", !.todo = Tail(@)]
    /\ UNCHANGED <<connections, readers, seen>>

(* handle_inqueue under the lock of the queue; its verdict on the status   *)
(* and the answers follow.                                                 *)
Queue ==
    /\ inc.at = "queue"
    /\ LET c == Head(inc.todo)
           r == handle_inqueue(conn[c])
       IN /\ conn' = [conn EXCEPT ![c].ack = r.ack, ![c].inqueue = r.inqueue]
          /\ inc' = [inc EXCEPT !.at = "status",
                        !.status = IF r.status = conn[c].status THEN "same" ELSE r.status,
                        !.reply = r.reply \o (IF r.fin THEN <<{"fin"}>> ELSE <<>>)]
    /\ UNCHANGED <<connections, readers, seen>>

Answer ==
    /\ inc.at = "status"
    /\ LET c  == Head(inc.todo)
           k  == IF inc.status = "same" THEN conn[c] ELSE [conn[c] EXCEPT !.status = inc.status]
           rs == SelectSeq(inc.reply, LAMBDA f : f # {"fin"})
           ack == \/ k.status \in {"OPEN", "SYN_SENT", "SYN_RCVD", "FIN_RCVD"}
                  \/ {"fin"} \in Range(inc.reply)
       IN conn' = [conn EXCEPT ![c] = SendAll(k, rs \o (IF ack THEN <<{"ACK"}>> ELSE <<>>))]
    /\ inc' = [inc EXCEPT !.at = "walk", !.todo = Tail(@), !.status = "CLOSED", !.reply = <<>>]
    /\ UNCHANGED <<connections, readers, seen>>

WalkEnd ==
    /\ inc.at = "walk" /\ inc.todo = <<>>
    /\ readers' = readers \ {"incoming"}
    /\ inc' = NoInc
    /\ UNCHANGED <<conn, connections, seen>>

Next ==
    \/ \E c \in Conns :
          \/ service_create_pipe(c) \/ CreateEnd(c)
          \/ FlushIn(c) \/ FlushOut(c) \/ tcp_connect(c) \/ ConnectEnd(c)
          \/ service_destroy_pipe(c) \/ service_pipe_set_flag(c)
          \/ DisconnectBranch(c) \/ DisconnectSend(c) \/ DisconnectEnd(c)
          \/ Closed(c) \/ Unlink(c) \/ service_stream_send(c) \/ ReceivePass(c)
          \/ \E n \in Sizes : ReceiveOnce(c, n) \/ ReceiveBlocking(c, n)
    \/ \E s \in Segments : incoming(s)
    \/ Walk \/ WalkFlush \/ Queue \/ Answer \/ WalkEnd

----------------------------------------------------------------------------
Range2(b, e) == {Plus(b, k) : k \in 0 .. Minus(e, b) - 1}

(* The server never acknowledges a byte it has not received.               *)
AckedWasReceived == \A c \in Conns : conn[c].at # "free" =>
    Range2(seen[c].base, conn[c].ack) \subseteq seen[c].cover

(* The client gets the bytes of the stream, once and in order, unless a    *)
(* segment was repeated or belongs to no part of it, the numbers of the    *)
(* waiting packets wrapped around, a packet was read in parts, three       *)
(* packets waited at once, a blocking read took more than one pass, or a   *)
(* packet came in while the queues were being flushed.                     *)
StreamUnlessOdd == \A c \in Conns : seen[c].next # Wrong

(* No RST enters a queue: handle_inqueue would flush the queues with the   *)
(* lock of one of them held.                                               *)
NoRstQueued == \A c \in Conns : \A i \in DOMAIN conn[c].inqueue :
                   "RST" \notin conn[c].inqueue[i].flags

(* What was sent and not acknowledged is in the queue, in order, unless the *)
(* server answered a packet while the connection was about to start over.  *)
UnackedKept == \A c \in Conns : ~seen[c].stray =>
    LET q == conn[c].outqueue
    IN /\ \A i \in 1 .. Len(q) - 1 : q[i].end = q[i + 1].seq
       /\ q # <<>> => Last(q).end = conn[c].seq

(* The walk through the list meets no connection that was freed.           *)
WalkIsLive == \A i \in DOMAIN inc.todo : conn[inc.todo[i]].at # "free"

=============================================================================
