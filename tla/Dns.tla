-------------------------------- MODULE Dns ---------------------------------
(* The DNS server (progs/common/dns/dns.c).  A pipe carries a name; the      *)
(* first request that needs its address sends a query through the one pipe   *)
(* to (udp) or (tcp) that all pipes share, waits, and keeps the address as   *)
(* text (ip_string) and as number (ip).  Every query has ID 0 and an answer  *)
(* is not compared with it, so look-ups that overlap, answers that come      *)
(* after the time-out and a new name server for a pipe that waits mix the    *)
(* addresses up: such a look-up is marked as mixed, and so is what it stores.*)
(* A pipe is used by one thread at a time, but for its flags; the rest of an *)
(* answer over TCP is not lost, and comes in one piece.                      *)
EXTENDS Integers, Sequences, FiniteSets, SequencesExt

CONSTANTS
  Pipes, Names, Servers,
  Zone,        \* Zone[s][n]: the records of the answer, [host: BOOLEAN, len]
  Default,     \* default_dns_ip
  Sizes,       \* sizes of reads
  MaxPosition, \* bound: larger positions count as this one
  MaxChanges   \* bound: changes of name servers

VARIABLES
  use_tcp, default_dns_ip,
  con,         \* the connections: dname, dns_ip, ip_string, ip, position
  popup,       \* what a popup thread of the pipe is doing in update_ip
  asked,       \* queries, and rests of answers, on their way
  inqueue,     \* proto_fd: answers that can be read, in pieces
  changes      \* how often a name server was changed

vars == <<use_tcp, default_dns_ip, con, popup, asked, inqueue, changes>>

(* An address is known by the server and the name it was given for.          *)
NoIp == <<0, "none">>
NoText == [of |-> NoIp, len |-> 0]
NoCon == [open |-> FALSE, dname |-> CHOOSE n \in Names : TRUE, dns_ip |-> Default,
          ip_string |-> NoText, ip |-> NoIp, position |-> 0,
          mixed |-> FALSE, behind |-> FALSE]
Idle == [at |-> "idle", mixed |-> FALSE, part |-> NoIp]

Init ==
  /\ use_tcp \in BOOLEAN               \* main: (tcp) only when (udp) is missing
  /\ default_dns_ip = Default
  /\ con = [p \in Pipes |-> NoCon]
  /\ popup = [p \in Pipes |-> Idle]
  /\ asked = {}
  /\ inqueue = <<>>
  /\ changes = 0

Resolved(p) == con[p].ip_string.len > 0
Busy(p) == popup[p].at # "idle"

service_create_pipe(p) == \E n \in Names :
  /\ ~con[p].open
  /\ con' = [con EXCEPT ![p] = [NoCon EXCEPT !.open = TRUE, !.dname = n,
                                !.dns_ip = default_dns_ip]]
  /\ UNCHANGED <<use_tcp, default_dns_ip, popup, asked, inqueue, changes>>

service_destroy_pipe(p) ==
  /\ con[p].open /\ ~Busy(p)
  /\ con' = [con EXCEPT ![p] = NoCon]
  /\ UNCHANGED <<use_tcp, default_dns_ip, popup, asked, inqueue, changes>>

(* The text is duplicated without a look whether there is one: a pipe that   *)
(* is not resolved yet is never duplicated here.                             *)
service_duplicate_pipe(p, q) ==
  /\ con[p].open /\ Resolved(p) /\ ~con[q].open
  /\ con' = [con EXCEPT ![q] = con[p]]
  /\ UNCHANGED <<use_tcp, default_dns_ip, popup, asked, inqueue, changes>>

------------------------------------------------------------------------------
(* What a request does once update_ip is through: one for the pressure, for  *)
(* the size or whether there is something to read only looks, a read takes a *)
(* part of the text.  The number of bytes left is unsigned: a position behind*)
(* the text lets a read have its size.                                       *)
service_stream_recv(c, size) ==
  LET left == c.ip_string.len - c.position
      n == IF left >= 0 /\ size > left THEN left ELSE size IN
  [c EXCEPT !.position = IF @ + n > MaxPosition THEN MaxPosition ELSE @ + n]

Finish(p, c) ==
  /\ popup' = [popup EXCEPT ![p] = Idle]
  /\ \/ con' = [con EXCEPT ![p] = c]
     \/ /\ c.ip_string.len > 0
        /\ \E size \in Sizes : con' = [con EXCEPT ![p] = service_stream_recv(c, size)]

(* update_ip, first part: nothing to do, or the query is built and sent      *)
(* under proto_lock.  To set F_DEST_IP of a TCP pipe closes the connection   *)
(* it had.                                                                   *)
Request(p) ==
  /\ con[p].open /\ ~Busy(p)
  /\ IF Resolved(p)
     THEN Finish(p, con[p]) /\ UNCHANGED <<asked, inqueue>>
     ELSE LET others == \E q \in Pipes : Busy(q)
              old == IF use_tcp THEN {} ELSE asked
              late == old # {} \/ (~use_tcp /\ inqueue # <<>>) IN
          /\ asked' = old \union {[of |-> <<con[p].dns_ip, con[p].dname>>, rest |-> FALSE]}
          /\ inqueue' = IF use_tcp THEN <<>> ELSE inqueue
          /\ popup' = [q \in Pipes |->
               IF q = p THEN [Idle EXCEPT !.at = "waits", !.mixed = others \/ late]
               ELSE [popup[q] EXCEPT !.mixed = Busy(q)]]
          /\ UNCHANGED con
  /\ UNCHANGED <<use_tcp, default_dns_ip, changes>>

(* Five seconds without anything to read: -ETIMEDOUT.                        *)
Timeout(p) ==
  /\ popup[p].at = "waits" /\ inqueue = <<>>
  /\ popup' = [popup EXCEPT ![p] = Idle]
  /\ UNCHANGED <<use_tcp, default_dns_ip, con, asked, inqueue, changes>>

Readable(p) ==
  /\ popup[p].at = "waits" /\ inqueue # <<>>
  /\ popup' = [popup EXCEPT ![p].at = "reads"]
  /\ UNCHANGED <<use_tcp, default_dns_ip, con, asked, inqueue, changes>>

(* What is in buf: the first record that is a host address is kept.          *)
AnswerTaken(c, of, mixed) ==
  LET records == Zone[of[1]][of[2]]
      hosts == {i \in 1 .. Len(records) : records[i].host}
      first == CHOOSE i \in hosts : \A j \in hosts : i <= j IN
  IF hosts = {} THEN c
  ELSE [c EXCEPT !.ip_string = [of |-> of, len |-> records[first].len],
                 !.ip = of, !.mixed = mixed]

(* update_ip ends, and closes the connection if it used one.                 *)
Take(p, of) == Finish(p, AnswerTaken(con[p], of, popup[p].mixed))
TakeAnything(p) ==
  \/ Finish(p, con[p])
  \/ \E s \in Servers, n \in Names : Take(p, <<s, n>>)
Leave == IF use_tcp THEN inqueue' = <<>> /\ asked' = {}
         ELSE inqueue' = Tail(inqueue) /\ UNCHANGED asked

(* Nothing is left, as another thread was faster: buf still holds the query. *)
ReceiveNothing(p) ==
  /\ popup[p].at = "reads" /\ inqueue = <<>>
  /\ Finish(p, con[p])
  /\ asked' = IF use_tcp THEN {} ELSE asked
  /\ UNCHANGED <<use_tcp, default_dns_ip, inqueue, changes>>

(* UDP gives a whole answer; over TCP what is here is read, and the rest is  *)
(* waited for when the length says there is more.  The rest alone, when      *)
(* another thread took the beginning, is read as if it were an answer.       *)
Receive(p) ==
  /\ popup[p].at = "reads" /\ inqueue # <<>>
  /\ LET first == Head(inqueue)
         whole == Last(inqueue).of = first.of /\ ~Last(inqueue).more IN
     IF use_tcp /\ ~first.rest /\ ~whole
     THEN /\ popup' = [popup EXCEPT ![p].at = "rest", ![p].part = first.of]
          /\ inqueue' = <<>>
          /\ UNCHANGED <<con, asked>>
     ELSE /\ IF first.rest THEN TakeAnything(p) ELSE Take(p, first.of)
          /\ Leave
  /\ UNCHANGED <<use_tcp, default_dns_ip, changes>>

(* The blocking read ends with the rest, with what another connection gave,  *)
(* or because another thread closed the connection.                          *)
ReceiveRest(p) ==
  /\ popup[p].at = "rest"
  /\ inqueue # <<>> \/ asked = {}
  /\ IF inqueue # <<>> /\ Head(inqueue).rest /\ Head(inqueue).of = popup[p].part
     THEN Take(p, popup[p].part) ELSE TakeAnything(p)
  /\ Leave
  /\ UNCHANGED <<use_tcp, default_dns_ip, changes>>

------------------------------------------------------------------------------
(* Faulty: a new name server keeps the text that the old one gave.           *)
SetNsKept(c, s) == [c EXCEPT !.dns_ip = s]

(* The text is given up; the number and the position stay.                   *)
SetNs(c, s) == [c EXCEPT !.ip_string = NoText, !.dns_ip = s]

set_flag_dns_nsip(p) == \E s \in Servers :
  /\ changes < MaxChanges /\ changes' = changes + 1
  /\ con[p].open
  /\ con' = [con EXCEPT ![p] = [SetNs(con[p], s) EXCEPT !.behind = con[p].position > 0]]
  /\ popup' = [popup EXCEPT ![p].mixed = Busy(p)]
  /\ UNCHANGED <<use_tcp, default_dns_ip, asked, inqueue>>

set_flag_dns_default_nsip == \E s \in Servers :
  /\ changes < MaxChanges /\ changes' = changes + 1
  /\ default_dns_ip' = s
  /\ UNCHANGED <<use_tcp, con, popup, asked, inqueue>>

set_flag_position(p) == \E v \in 0 .. MaxPosition :
  /\ con[p].open
  /\ con' = [con EXCEPT ![p].behind = FALSE, ![p].position =
       IF v > con[p].ip_string.len THEN con[p].ip_string.len ELSE v]
  /\ UNCHANGED <<use_tcp, default_dns_ip, popup, asked, inqueue, changes>>

(* The network: a query is answered, over TCP at once or in two pieces, or   *)
(* lost.                                                                     *)
NetAnswers == \E a \in asked, more \in BOOLEAN :
  /\ Len(inqueue) < Cardinality(Pipes)
  /\ more => use_tcp /\ ~a.rest
  /\ asked' = (asked \ {a}) \union (IF more THEN {[a EXCEPT !.rest = TRUE]} ELSE {})
  /\ inqueue' = Append(inqueue, [of |-> a.of, rest |-> a.rest, more |-> more])
  /\ UNCHANGED <<use_tcp, default_dns_ip, con, popup, changes>>

NetLoses == \E a \in asked :
  /\ ~a.rest
  /\ asked' = asked \ {a}
  /\ UNCHANGED <<use_tcp, default_dns_ip, con, popup, inqueue, changes>>

Next ==
  \/ NetAnswers \/ NetLoses \/ set_flag_dns_default_nsip
  \/ \E p \in Pipes :
       \/ service_create_pipe(p) \/ service_destroy_pipe(p) \/ Request(p)
       \/ Timeout(p) \/ Readable(p) \/ ReceiveNothing(p) \/ Receive(p) \/ ReceiveRest(p)
       \/ set_flag_dns_nsip(p) \/ set_flag_position(p)
       \/ \E q \in Pipes : service_duplicate_pipe(p, q)

Spec == Init /\ [][Next]_vars

------------------------------------------------------------------------------
(* The text that a pipe shows is what its present name server answered for   *)
(* its name, unless its look-up was mixed with another one, with an answer   *)
(* that came late or with the change of the server (update_ip).              *)
TextIsOwn == \A p \in Pipes : Resolved(p) /\ ~con[p].mixed =>
  con[p].ip_string.of = <<con[p].dns_ip, con[p].dname>>

(* The number (F_DNS_RESOLVED_IP) is the same address as the text; only      *)
(* without a text, after a change of the server, it is an older one.         *)
NumberIsText == \A p \in Pipes :
  /\ Resolved(p) => con[p].ip = con[p].ip_string.of
  /\ con[p].ip # NoIp /\ ~con[p].mixed => con[p].ip[2] = con[p].dname

(* Reads stay inside the text, unless the server was changed after reading   *)
(* from the old text and the position was not set since.                     *)
ReadsStayInside == \A p \in Pipes : Resolved(p) /\ ~con[p].behind =>
  con[p].position <= con[p].ip_string.len

Correct == TextIsOwn /\ NumberIsText /\ ReadsStayInside
==============================================================================
