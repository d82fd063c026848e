--------------------------- MODULE Network_proofs ---------------------------
(***************************************************************************)
(* Proofs about the network servers, for any sets of files, popups, cards  *)
(* and frames.                                                             *)
(*                                                                         *)
(* The Ethernet server (Eth): a popup that walks the listeners of a card   *)
(* is a reader of their list, and whoever changes the list waits for the   *)
(* readers.  So what is left of the walk stays in the list (Walking), and  *)
(* what is in the list is open (ListenersAreOpen).  The pipes a driver     *)
(* opens for its frames are apart from those of clients (Sending).  A pipe *)
(* that is being duplicated has an original that is open, and nobody walks *)
(* the list of its card, as long as the surroundings are Calm (Copying).   *)
(*                                                                         *)
(* The UDP server (Udp), instantiated as U: what is written to and read    *)
(* from the pipe to the IP server is kept together by ip_lock (Locked), so *)
(* that a client that has pointed the pipe finds it so when it sends, and  *)
(* a popup that has read the source of a packet finds that packet at the   *)
(* head of the queue (Steady).                                             *)
(*                                                                         *)
(* The IP server (Ip), instantiated as I: while nobody has the lock of the *)
(* interface its frames are of type IP, and who has it finds the flags as  *)
(* it has set them (Flags).                                                *)
(*                                                                         *)
(* The DNS server (Dns), instantiated as DNS: as long as nothing has come  *)
(* between, the pipe to the name server holds the answer to the query of   *)
(* him who looks up, or a part of it (Exchange); the text of a pipe is for *)
(* its name, from its server (Texts).                                      *)
(*                                                                         *)
(* The network cards (NicRings), instantiated as NIC: the card is as many  *)
(* places before the driver as there are frames between them, and what is  *)
(* in the ring from the driver's place on is these frames (ReceiveInv);    *)
(* the same for sending, with the parts changed, until a frame has met a   *)
(* full ring (SendInv).                                                    *)
(*                                                                         *)
(* The DHCP client (Dhcp), instantiated as DHCP: only the server whose     *)
(* offer was taken answers the request of this run (PacketsInv), and the   *)
(* table of routes is short: a route to everywhere and behind it at most   *)
(* two to networks, of which del_route leaves one over (ShortTable).       *)
(***************************************************************************)
EXTENDS Eth, TLAPS, SequenceTheorems, WellFoundedInduction

CONSTANTS Packets, Ips, MinPort, MaxPort, MaxSignals    \* of Udp
VARIABLES sock, connections, port_counter, ip_lock, ip, inc, signals, wire

U == INSTANCE Udp WITH file <- sock, popup <- inc

CONSTANTS Clients, Hosts, Routes, CacheSize             \* of Ip
CONSTANT  MaxArrivals
VARIABLES ifc, routing_table, arp_cache, readers, arp_lock, reply, arrivals, misled, raced

I == INSTANCE Ip WITH file <- sock

CONSTANTS Pipes, Names, Servers, Zone, Default, Sizes   \* of Dns
CONSTANTS MaxPosition, MaxChanges
VARIABLES use_tcp, default_dns_ip, con, asked, inqueue, changes

DNS == INSTANCE Dns

CONSTANTS Drivers, Num                                  \* of NicRings
VARIABLES nic, up, rx, hw, isr, tx, txhw, snd, stored, queued, lastrx, lasttx
VARIABLES wrong, missent, overrun, overwritten

NIC == INSTANCE NicRings

CONSTANTS Bootp, Lease, MaxRuns, MaxIn                  \* of Dhcp
VARIABLES pc, my_ip, routes, default_dns, offer, net, granted, runs, strayed

DHCP == INSTANCE Dhcp

(* A sequence without its k-th entry (RemoveAt of the library).            *)
LEMMA RemoveAtFacts ==
  ASSUME NEW S, NEW s \in Seq(S), NEW k \in 1 .. Len(s)
  PROVE  /\ RemoveAt(s, k) \in Seq(S)
         /\ Len(RemoveAt(s, k)) = Len(s) - 1
         /\ \A i \in 1 .. Len(s) - 1 : RemoveAt(s, k)[i] = IF i < k THEN s[i] ELSE s[i + 1]
<1> DEFINE a == SubSeq(s, 1, k - 1)
           b == SubSeq(s, k + 1, Len(s))
<1>1. /\ Len(s) \in Nat /\ k \in Nat /\ k >= 1 /\ k <= Len(s)
      /\ \A i \in 1 .. Len(s) : s[i] \in S
  BY LenProperties, ElementOfSeq
<1>2. /\ a \in Seq(S) /\ Len(a) = k - 1 /\ \A i \in 1 .. k - 1 : a[i] = s[i]
  <2>1. 1 \in Int /\ k - 1 \in Int /\ \A i \in 1 .. k - 1 : s[i] \in S
    BY <1>1
  <2>2. /\ SubSeq(s, 1, k - 1) \in Seq(S)
        /\ Len(SubSeq(s, 1, k - 1)) = IF 1 <= k - 1 THEN k - 1 - 1 + 1 ELSE 0
        /\ \A i \in 1 .. k - 1 - 1 + 1 : SubSeq(s, 1, k - 1)[i] = s[1 + i - 1]
    BY <2>1, SubSeqProperties
  <2> QED
    BY <2>2, <1>1
<1>3. /\ b \in Seq(S) /\ Len(b) = Len(s) - k /\ \A i \in 1 .. Len(s) - k : b[i] = s[k + i]
  <2>1. k + 1 \in Int /\ Len(s) \in Int /\ \A i \in k + 1 .. Len(s) : s[i] \in S
    BY <1>1
  <2>2. /\ SubSeq(s, k + 1, Len(s)) \in Seq(S)
        /\ Len(SubSeq(s, k + 1, Len(s))) = IF k + 1 <= Len(s) THEN Len(s) - (k + 1) + 1 ELSE 0
        /\ \A i \in 1 .. Len(s) - (k + 1) + 1 : SubSeq(s, k + 1, Len(s))[i] = s[k + 1 + i - 1]
    BY <2>1, SubSeqProperties
  <2> QED
    BY <2>2, <1>1
<1>4. RemoveAt(s, k) = a \o b
  BY DEF RemoveAt
<1>5. /\ a \o b \in Seq(S) /\ Len(a \o b) = Len(s) - 1
      /\ \A i \in 1 .. Len(s) - 1 : (a \o b)[i] = IF i <= k - 1 THEN a[i] ELSE b[i - (k - 1)]
  <2> HIDE DEF a, b
  <2>1. /\ a \o b \in Seq(S) /\ Len(a \o b) = Len(a) + Len(b)
        /\ \A i \in 1 .. Len(a) + Len(b) : (a \o b)[i] = IF i <= Len(a) THEN a[i] ELSE b[i - Len(a)]
    BY <1>2, <1>3, ConcatProperties
  <2> QED
    BY <2>1, <1>1, <1>2, <1>3
<1> HIDE DEF a, b
<1> QED
  BY <1>1, <1>2, <1>3, <1>4, <1>5

(* Taking an entry off a list that has it once (service_destroy_pipe).     *)
LEMMA RemoveFirstFacts ==
  ASSUME NEW S, NEW s \in Seq(S), NEW e, e \in Range(s), IsInjective(s)
  PROVE  /\ RemoveFirst(s, e) \in Seq(S)
         /\ Range(RemoveFirst(s, e)) = Range(s) \ {e}
         /\ IsInjective(RemoveFirst(s, e))
<1> DEFINE k == SelectInSeq(s, LAMBDA v: v = e)
           r == RemoveAt(s, k)
<1>0. Len(s) \in Nat /\ DOMAIN s = 1 .. Len(s)
  BY LenProperties
<1>1. PICK m \in 1 .. Len(s) : s[m] = e
  BY <1>0 DEF Range
<1>2. {i \in 1 .. Len(s) : s[i] = e} = {m}
  BY <1>0, <1>1 DEF IsInjective
<1>3. k = Min({i \in 1 .. Len(s) : s[i] = e})
  BY <1>2 DEF SelectInSeq
<1>4. k = m
  <2>1. Min({m}) = m
    BY <1>1 DEF Min
  <2> QED
    BY <1>2, <1>3, <2>1
<1> HIDE DEF k
<1>5. RemoveFirst(s, e) = r
  BY <1>1 DEF RemoveFirst, k
<1>6. /\ r \in Seq(S) /\ Len(r) = Len(s) - 1 /\ DOMAIN r = 1 .. Len(s) - 1
      /\ \A i \in 1 .. Len(s) - 1 : r[i] = IF i < m THEN s[i] ELSE s[i + 1]
  BY <1>1, <1>4, RemoveAtFacts, LenProperties
<1> HIDE DEF r
<1>7. Range(r) = Range(s) \ {e}
  <2>1. ASSUME NEW x \in Range(r) PROVE x \in Range(s) \ {e}
    <3>1. PICK i \in 1 .. Len(s) - 1 : r[i] = x
      BY <2>1, <1>6 DEF Range
    <3>2. PICK j \in 1 .. Len(s) : x = s[j] /\ j # m
      BY <3>1, <1>0, <1>1, <1>6
    <3> QED
      BY <3>2, <1>0, <1>1 DEF Range, IsInjective
  <2>2. ASSUME NEW x \in Range(s) \ {e} PROVE x \in Range(r)
    <3>1. PICK j \in 1 .. Len(s) : x = s[j] /\ j # m
      BY <2>2, <1>0, <1>1 DEF Range
    <3>2. PICK i \in 1 .. Len(s) - 1 : r[i] = x
      <4>1. CASE j < m
        BY <4>1, <3>1, <1>0, <1>1, <1>6
      <4>2. CASE j > m
        <5>1. j - 1 \in 1 .. Len(s) - 1 /\ r[j - 1] = s[j]
          BY <4>2, <3>1, <1>0, <1>1, <1>6
        <5> QED
          BY <5>1, <3>1
      <4> QED
        BY <3>1, <1>1, <4>1, <4>2
    <3> QED
      BY <3>2, <1>6 DEF Range
  <2> QED
    BY <2>1, <2>2
<1>8. IsInjective(r)
  <2> SUFFICES ASSUME NEW i \in 1 .. Len(s) - 1, NEW j \in 1 .. Len(s) - 1, r[i] = r[j]
               PROVE  i = j
    BY <1>6 DEF IsInjective
  <2>1. PICK a \in 1 .. Len(s) : r[i] = s[a] /\ a = (IF i < m THEN i ELSE i + 1)
    BY <1>0, <1>1, <1>6
  <2>2. PICK b \in 1 .. Len(s) : r[j] = s[b] /\ b = (IF j < m THEN j ELSE j + 1)
    BY <1>0, <1>1, <1>6
  <2>3. a = b
    BY <2>1, <2>2, <1>0 DEF IsInjective
  <2> QED
    BY <2>1, <2>2, <2>3, <1>1
<1> QED
  BY <1>5, <1>6, <1>7, <1>8

-----------------------------------------------------------------------------
Macs == {frame.src : frame \in Frames}

FileType == [at : {"free", "open", "copying", "unlinked"}, type : Types,
             card : Cards \union {NoCard}, dest : Cards \union {AllMacs, Nobody},
             inqueue : Seq(Macs), readers : SUBSET Popups, signal : BOOLEAN,
             data : Seq(Cards \union Files)]
PopupType == [at : {"idle", "walk", "append", "signal"}, card : Cards \union {NoCard},
              frame : Frames \union {<<>>}, rest : Seq(Files)]
DriverType == [at : {"init", "ready"}, fd : Files \union {Nobody},
               frame : Frames \union {<<>>}]
CardType == [listeners : Seq(Files), readers : SUBSET Popups]

(* owed needs no typing: NoLostWakeup says where its members are.          *)
TypeOK ==
  /\ file \in [Files -> FileType]
  /\ cards \in Seq(Cards)
  /\ card \in [Cards -> CardType]
  /\ driver \in [Cards -> DriverType]
  /\ pending \in [Cards -> {<<>>} \union (Files \X Frames)]
  /\ popup \in [Popups -> PopupType]

(* The lock of the listeners (rwl_lock_r in eth_receive): who walks is a   *)
(* reader of the list, and what is left to walk is in it.                  *)
WalkInv(t) ==
  /\ popup[t].at = "idle" => popup[t].rest = <<>>
  /\ popup[t].at # "idle" =>
        /\ popup[t].card \in Cards /\ popup[t].frame \in Frames
        /\ t \in card[popup[t].card].readers
        /\ Range(popup[t].rest) \subseteq Range(card[popup[t].card].listeners)
  /\ popup[t].at \in {"append", "signal"} => popup[t].rest # <<>>

Walking == \A t \in Popups : WalkInv(t)

(* No file is in a list of listeners twice.                                *)
OnceEach == \A c \in Cards : IsInjective(card[c].listeners)

(* The pipe a driver has open for its frame (cdi_net_receive) is no        *)
(* client's, and no other driver's.                                        *)
Sending ==
  /\ \A c \in Cards : driver[c].fd # Nobody =>
        file[driver[c].fd].at = "open" /\ file[driver[c].fd].type = "TYPE_RECEIVE"
  /\ \A c, d \in Cards : driver[c].fd # Nobody /\ driver[c].fd = driver[d].fd => c = d

(* A copy that has no queue of its own yet (service_duplicate_pipe) has an *)
(* open original on the same card.                                         *)
CopyInv(nf) ==
  file[nf].at = "copying" =>
     /\ file[nf].type = "TYPE_CARD"
     /\ \E f \in Files : /\ file[nf].data = <<f>> /\ file[f].at = "open"
                         /\ file[f].type = "TYPE_CARD" /\ file[f].card = file[nf].card
     /\ Calm => \A t \in Popups : popup[t].at # "idle" => popup[t].card # file[nf].card

Copying == \A nf \in Files : CopyInv(nf)

(* Pipes that are listed have a card.                                      *)
Carded == \A f \in Files : file[f].type = "TYPE_CARD" => file[f].card \in Cards

(* The invariant: the first part does not need a quiet surrounding.        *)
SInv == TypeOK /\ Walking /\ OnceEach /\ Sending /\ Copying /\ Carded /\ ListenersAreOpen
IInv == SInv /\ (Calm => NoLostWakeup)
-----------------------------------------------------------------------------
(* Typing.  What a new file is (malloc in service_create_pipe).            *)
LEMMA NoFileType == NoFile \in FileType /\ <<>> \in Seq(Cards \union Files)
<1>1. <<>> \in Seq(Macs) /\ <<>> \in Seq(Cards \union Files)
  BY EmptySeq
<1> QED
  BY <1>1 DEF NoFile, FileType, Types

(* A file is replaced by another record (Set).                             *)
LEMMA SetType ==
  ASSUME TypeOK, NEW f \in Files, NEW r \in FileType, Set(f, r)
  PROVE  /\ file' \in [Files -> FileType]
         /\ file'[f] = r
         /\ \A g \in Files : g # f => file'[g] = file[g]
BY DEF TypeOK, Set

(* The end of a queue or a list is one (service_stream_recv, eth_receive). *)
LEMMA TailType ==
  ASSUME NEW S, NEW s \in Seq(S), s # <<>>
  PROVE  /\ Head(s) \in S /\ Tail(s) \in Seq(S)
         /\ Head(s) \in Range(s) /\ Range(Tail(s)) \subseteq Range(s)
<1>1. /\ Head(s) \in S /\ Tail(s) \in Seq(S) /\ Len(Tail(s)) = Len(s) - 1
      /\ \A i \in 1 .. Len(Tail(s)) : Tail(s)[i] = s[i + 1]
  BY HeadTailProperties
<1>2. Len(s) \in Nat \ {0} /\ DOMAIN s = 1 .. Len(s) /\ DOMAIN Tail(s) = 1 .. Len(Tail(s))
  BY <1>1, LenProperties, EmptySeq
<1>3. Head(s) = s[1]
  OBVIOUS
<1> QED
  BY <1>1, <1>2, <1>3 DEF Range

(* A new entry in front of a list (service_create_pipe, OpenCard).         *)
LEMMA PushFacts ==
  ASSUME NEW S, NEW s \in Seq(S), NEW e \in S
  PROVE  /\ <<e>> \o s \in Seq(S)
         /\ Range(<<e>> \o s) = Range(s) \union {e}
         /\ e \notin Range(s) /\ IsInjective(s) => IsInjective(<<e>> \o s)
<1>1. <<e>> \in Seq(S) /\ Len(<<e>>) = 1 /\ <<e>>[1] = e
  OBVIOUS
<1>2. /\ <<e>> \o s \in Seq(S) /\ Len(<<e>> \o s) = 1 + Len(s)
      /\ \A i \in 1 .. 1 + Len(s) : (<<e>> \o s)[i] = IF i <= 1 THEN e ELSE s[i - 1]
  BY <1>1, ConcatProperties
<1>3. /\ Len(s) \in Nat /\ DOMAIN s = 1 .. Len(s) /\ DOMAIN (<<e>> \o s) = 1 .. 1 + Len(s)
  BY <1>2, LenProperties
<1>4. Range(<<e>> \o s) = Range(s) \union {e}
  <2>1. ASSUME NEW x \in Range(s) PROVE x \in Range(<<e>> \o s)
    <3>1. PICK i \in 1 .. Len(s) : x = s[i]
      BY <1>3 DEF Range
    <3>2. i + 1 \in 1 .. 1 + Len(s) /\ (<<e>> \o s)[i + 1] = x
      BY <3>1, <1>2, <1>3
    <3> QED
      BY <3>2, <1>3 DEF Range
  <2>2. e \in Range(<<e>> \o s)
    BY <1>2, <1>3 DEF Range
  <2>3. ASSUME NEW x \in Range(<<e>> \o s) PROVE x \in Range(s) \union {e}
    <3>1. PICK i \in 1 .. 1 + Len(s) : x = (<<e>> \o s)[i]
      BY <1>3 DEF Range
    <3>2. CASE i = 1
      BY <3>1, <3>2, <1>2
    <3>3. CASE i # 1
      <4>1. i - 1 \in 1 .. Len(s) /\ x = s[i - 1]
        BY <3>1, <3>3, <1>2, <1>3
      <4> QED
        BY <4>1, <1>3 DEF Range
    <3> QED
      BY <3>2, <3>3
  <2> QED
    BY <2>1, <2>2, <2>3
<1>5. ASSUME e \notin Range(s), IsInjective(s) PROVE IsInjective(<<e>> \o s)
  <2> SUFFICES ASSUME NEW i \in 1 .. 1 + Len(s), NEW j \in 1 .. 1 + Len(s),
                      (<<e>> \o s)[i] = (<<e>> \o s)[j]
               PROVE  i = j
    BY <1>3 DEF IsInjective
  <2>1. ASSUME NEW k \in 1 .. 1 + Len(s), k # 1
        PROVE  k - 1 \in 1 .. Len(s) /\ (<<e>> \o s)[k] = s[k - 1] /\ s[k - 1] # e
    <3>1. k - 1 \in 1 .. Len(s) /\ (<<e>> \o s)[k] = s[k - 1]
      BY <2>1, <1>2, <1>3
    <3> QED
      BY <3>1, <1>3, <1>5 DEF Range
  <2>2. (<<e>> \o s)[1] = e
    BY <1>2, <1>3
  <2>3. CASE i = 1 \/ j = 1
    BY <2>1, <2>2, <2>3
  <2>4. CASE i # 1 /\ j # 1
    <3>1. i - 1 = j - 1
      BY <2>1, <2>4, <1>3, <1>5 DEF IsInjective
    <3> QED
      BY <3>1
  <2> QED
    BY <2>3, <2>4
<1> QED
  BY <1>2, <1>4, <1>5
(* Steps that leave the lists alone.  No file changes its state, its kind, *)
(* the card it listens on or, while it is copied, its original; popups at  *)
(* most go on where they are.                                              *)
LEMMA ListsKept ==
  ASSUME SInv, TypeOK', Walking',
         \A f \in Files : /\ file'[f].at = file[f].at /\ file'[f].type = file[f].type
                          /\ file[f].type = "TYPE_CARD" => file'[f].card = file[f].card
                          /\ file[f].at = "copying" => file'[f].data = file[f].data,
         \A c \in Cards : /\ card'[c].listeners = card[c].listeners
                          /\ driver'[c].fd = driver[c].fd,
         Calm => \A t \in Popups : popup'[t].at # "idle" =>
                     \/ popup[t].at # "idle" /\ popup'[t].card = popup[t].card
                     \/ \A f \in Files : file[f].at # "copying"
  PROVE  SInv'
<1>1. OnceEach'
  BY DEF SInv, OnceEach
<1>2. Sending'
  <2>1. \A c \in Cards : driver[c].fd \in Files \union {Nobody}
    BY DEF SInv, TypeOK, DriverType
  <2> QED
    BY <2>1 DEF SInv, Sending
<1>3. Copying'
  <2> SUFFICES ASSUME NEW nf \in Files, file'[nf].at = "copying" PROVE CopyInv(nf)'
    BY DEF Copying, CopyInv
  <2>1. CopyInv(nf) /\ file[nf].at = "copying"
    BY DEF SInv, Copying
  <2>2. file'[nf].type = "TYPE_CARD" /\ file'[nf].card = file[nf].card
        /\ file'[nf].data = file[nf].data
    BY <2>1 DEF CopyInv
  <2>3. PICK f \in Files : file[nf].data = <<f>> /\ file[f].at = "open"
                           /\ file[f].type = "TYPE_CARD" /\ file[f].card = file[nf].card
    BY <2>1 DEF CopyInv
  <2>4. file'[f].at = "open" /\ file'[f].type = "TYPE_CARD" /\ file'[f].card = file[nf].card
    BY <2>3
  <2>5. ASSUME Calm, NEW t \in Popups, popup'[t].at # "idle" PROVE popup'[t].card # file'[nf].card
    <3>1. popup[t].at # "idle" /\ popup'[t].card = popup[t].card
      BY <2>1, <2>5
    <3> QED
      BY <3>1, <2>1, <2>2, <2>5 DEF CopyInv
  <2> QED
    BY <2>2, <2>3, <2>4, <2>5 DEF CopyInv
<1>4. Carded'
  BY DEF SInv, Carded
<1>5. ListenersAreOpen'
  <2> SUFFICES ASSUME NEW c \in Cards
               PROVE  Range(card'[c].listeners) = {f \in Files : /\ file'[f].at \in {"open", "copying"}
                                                              /\ file'[f].type = "TYPE_CARD"
                                                              /\ file'[f].card = c}
    BY Zenon DEF ListenersAreOpen
  <2>1. Range(card'[c].listeners) = Range(card[c].listeners)
    OBVIOUS
  <2>2. Range(card[c].listeners) = {f \in Files : /\ file[f].at \in {"open", "copying"}
                                                 /\ file[f].type = "TYPE_CARD"
                                                 /\ file[f].card = c}
    BY Zenon DEF SInv, ListenersAreOpen
  <2> QED
    BY <2>1, <2>2
<1> QED
  BY <1>1, <1>2, <1>3, <1>4, <1>5 DEF SInv

(* Popups that have not moved are in the same place of the same list.      *)
LEMMA WalkKept ==
  ASSUME Walking, popup' = popup,
         \A t \in Popups : popup[t].at # "idle" /\ popup[t].card \in Cards =>
            /\ t \in card[popup[t].card].readers => t \in card'[popup[t].card].readers
            /\ t \in card[popup[t].card].readers =>
                   Range(card[popup[t].card].listeners) \subseteq Range(card'[popup[t].card].listeners)
  PROVE  Walking'
<1> SUFFICES ASSUME NEW t \in Popups PROVE WalkInv(t)'
  BY DEF Walking
<1>1. WalkInv(t)
  BY DEF Walking
<1> QED
  BY <1>1 DEF WalkInv

(* The steps of clients that leave the lists alone.                        *)
LEMMA SendFrameKeeps ==
  ASSUME SInv, NEW f \in Files, NEW size \in {1, 1500, 1501}, SendFrame(f, size)
  PROVE  SInv'
<1>1. UNCHANGED <<file, cards, card, driver, pending, popup>>
  BY DEF SendFrame
<1>2. TypeOK'
  BY <1>1 DEF SInv, TypeOK
<1>3. Walking'
  BY <1>1, WalkKept DEF SInv
<1> QED
  BY <1>1, <1>2, <1>3, ListsKept

(* What a readable file has (service_pipe_get_flag).                       *)
LEMMA Readable ==
  ASSUME NEW f \in Files, service_pipe_get_flag(f, "F_READABLE")
  PROVE  IF file[f].type = "TYPE_DIR" THEN file[f].data # <<>>
         ELSE file[f].type = "TYPE_CARD" /\ file[f].inqueue # <<>>
BY Zenon DEF service_pipe_get_flag

(* service_stream_recv                                                     *)
LEMMA RecvKeeps ==
  ASSUME SInv, NEW f \in Files, service_stream_recv(f)
  PROVE  SInv'
<1>1. /\ file[f].at = "open" /\ file[f] \in FileType
      /\ UNCHANGED <<cards, card, driver, pending, popup>>
  BY DEF SInv, TypeOK, service_stream_recv, Server
<1>2. PICK r \in FileType :
         /\ file' = [file EXCEPT ![f] = r]
         /\ r.at = "open" /\ r.type = file[f].type /\ r.card = file[f].card
  <2>1. CASE file[f].type = "TYPE_DIR"
    <3>1. file[f].data \in Seq(Cards \union Files) /\ file[f].data # <<>>
      BY <1>1, <2>1, Readable DEF service_stream_recv, FileType
    <3>2. Tail(file[f].data) \in Seq(Cards \union Files)
      BY <3>1, TailType
    <3>3. [file[f] EXCEPT !.data = Tail(@)] \in FileType
      BY <1>1, <3>2 DEF FileType
    <3>4. file' = [file EXCEPT ![f] = [file[f] EXCEPT !.data = Tail(@)]]
      BY <1>1, <2>1 DEF service_stream_recv, SInv, TypeOK
    <3> QED
      BY <1>1, <3>3, <3>4 DEF FileType
  <2>2. CASE file[f].type # "TYPE_DIR"
    <3>1. file[f].inqueue \in Seq(Macs) /\ file[f].inqueue # <<>>
      BY <1>1, <2>2, Readable DEF service_stream_recv, FileType
    <3>2. Tail(file[f].inqueue) \in Seq(Macs)
      BY <3>1, TailType
    <3>3. [file[f] EXCEPT !.inqueue = Tail(@)] \in FileType
      BY <1>1, <3>2 DEF FileType
    <3>4. file' = [file EXCEPT ![f] = [file[f] EXCEPT !.inqueue = Tail(@)]]
      BY <1>1, <2>2 DEF service_stream_recv, SInv, TypeOK
    <3> QED
      BY <1>1, <3>3, <3>4 DEF FileType
  <2> QED
    BY <2>1, <2>2
<1>3. TypeOK'
  BY <1>1, <1>2 DEF SInv, TypeOK
<1>4. Walking'
  BY <1>1, WalkKept DEF SInv
<1>5. \A g \in Files : /\ file'[g].at = file[g].at /\ file'[g].type = file[g].type
                       /\ file'[g].card = file[g].card
                       /\ file[g].at = "copying" => file'[g].data = file[g].data
  BY <1>1, <1>2 DEF SInv, TypeOK
<1> QED
  BY <1>1, <1>3, <1>4, <1>5, ListsKept

(* service_pipe_set_flag                                                   *)
LEMMA SetFlagKeeps ==
  ASSUME SInv, NEW f \in Files, service_pipe_set_flag(f)
  PROVE  SInv'
<1>1. /\ file[f].at = "open" /\ file[f] \in FileType
      /\ UNCHANGED <<cards, card, driver, pending, popup>>
  BY DEF SInv, TypeOK, service_pipe_set_flag
<1>2. PICK r \in FileType :
         /\ file' = [file EXCEPT ![f] = r]
         /\ r.at = "open" /\ r.type = file[f].type /\ r.card = file[f].card
  <2>1. ASSUME NEW c \in Cards, file' = [file EXCEPT ![f].dest = c]
        PROVE  \E r \in FileType : /\ file' = [file EXCEPT ![f] = r]
                                   /\ r.at = "open" /\ r.type = file[f].type /\ r.card = file[f].card
    <3>1. [file[f] EXCEPT !.dest = c] \in FileType
      BY <1>1 DEF FileType
    <3> QED
      BY <1>1, <2>1, <3>1 DEF FileType
  <2>2. ASSUME file' = [file EXCEPT ![f].signal = TRUE]
        PROVE  \E r \in FileType : /\ file' = [file EXCEPT ![f] = r]
                                   /\ r.at = "open" /\ r.type = file[f].type /\ r.card = file[f].card
    <3>1. [file[f] EXCEPT !.signal = TRUE] \in FileType
      BY <1>1 DEF FileType
    <3> QED
      BY <1>1, <2>2, <3>1 DEF FileType
  <2> QED
    BY <2>1, <2>2 DEF service_pipe_set_flag
<1>3. TypeOK'
  BY <1>1, <1>2 DEF SInv, TypeOK
<1>4. Walking'
  BY <1>1, WalkKept DEF SInv
<1>5. \A g \in Files : /\ file'[g].at = file[g].at /\ file'[g].type = file[g].type
                       /\ file'[g].card = file[g].card
                       /\ file[g].at = "copying" => file'[g].data = file[g].data
  BY <1>1, <1>2 DEF SInv, TypeOK
<1> QED
  BY <1>1, <1>3, <1>4, <1>5, ListsKept
(* A file that is in no list becomes another one that is in none.          *)
LEMMA UnlistedKept ==
  ASSUME SInv, NEW f \in Files, NEW r \in FileType, Set(f, r),
         file[f].type = "TYPE_CARD" => file[f].at \in {"free", "unlinked"},
         r.type # "TYPE_CARD", r.at # "copying",
         card' = card, popup' = popup, cards' \in Seq(Cards),
         driver' \in [Cards -> DriverType],
         pending' \in [Cards -> {<<>>} \union (Files \X Frames)],
         Sending'
  PROVE  SInv'
<1>1. /\ file' \in [Files -> FileType] /\ file'[f] = r
      /\ \A g \in Files : g # f => file'[g] = file[g]
  BY SetType DEF SInv
<1>2. TypeOK'
  BY <1>1 DEF SInv, TypeOK
<1>3. Walking' /\ OnceEach'
  BY WalkKept DEF SInv, OnceEach
<1>4. Copying'
  <2> SUFFICES ASSUME NEW nf \in Files, file'[nf].at = "copying" PROVE CopyInv(nf)'
    BY DEF Copying, CopyInv
  <2>1. nf # f /\ file'[nf] = file[nf] /\ CopyInv(nf)
    BY <1>1 DEF SInv, Copying
  <2>2. PICK g \in Files : file[nf].data = <<g>> /\ file[g].at = "open"
                           /\ file[g].type = "TYPE_CARD" /\ file[g].card = file[nf].card
    BY <2>1 DEF CopyInv
  <2>3. file'[g] = file[g]
    BY <1>1, <2>2
  <2> QED
    BY <2>1, <2>2, <2>3 DEF CopyInv
<1>5. Carded'
  BY <1>1 DEF SInv, Carded
<1>6. ListenersAreOpen'
  <2>1. ASSUME NEW c \in Cards
        PROVE  {g \in Files : /\ file'[g].at \in {"open", "copying"}
                              /\ file'[g].type = "TYPE_CARD" /\ file'[g].card = c}
               = {g \in Files : /\ file[g].at \in {"open", "copying"}
                                /\ file[g].type = "TYPE_CARD" /\ file[g].card = c}
    BY <1>1
  <2> QED
    BY <2>1 DEF SInv, ListenersAreOpen
<1> QED
  BY <1>2, <1>3, <1>4, <1>5, <1>6 DEF SInv

(* The pipe a driver has open is a file, and not a client's.               *)
LEMMA DriverPipe ==
  ASSUME SInv, NEW c \in Cards, driver[c].fd # Nobody
  PROVE  /\ driver[c].fd \in Files /\ file[driver[c].fd] \in FileType
         /\ file[driver[c].fd].at = "open" /\ file[driver[c].fd].type = "TYPE_RECEIVE"
         /\ \A d \in Cards : d # c => driver[d].fd # driver[c].fd
BY DEF SInv, TypeOK, DriverType, Sending

(* A step of a client on a file that is no driver's.                       *)
LEMMA SendingKept ==
  ASSUME SInv, NEW f \in Files, file[f].at # "open" \/ file[f].type # "TYPE_RECEIVE",
         \A g \in Files : g # f => file'[g] = file[g], driver' = driver
  PROVE  Sending'
<1>1. \A c \in Cards : driver[c].fd # Nobody => driver[c].fd \in Files /\ driver[c].fd # f
  BY DriverPipe
<1> QED
  BY <1>1 DEF SInv, Sending

(* Opening a pipe to the list of the cards.                                *)
LEMMA OpenDirKeeps ==
  ASSUME SInv, NEW f \in Files, OpenDir(f)
  PROVE  SInv'
<1> DEFINE r == [NoFile EXCEPT !.at = "open", !.data = cards]
<1>1. /\ file[f].at = "free" /\ Set(f, r)
      /\ UNCHANGED <<cards, card, driver, pending, popup>>
  BY DEF OpenDir, Server
<1>2. cards \in Seq(Cards \union Files)
  BY SeqMonotonic DEF SInv, TypeOK
<1>3. r \in FileType
  BY <1>2, NoFileType DEF FileType
<1>4. r.at = "open" /\ r.type = "TYPE_DIR"
  BY DEF NoFile
<1> HIDE DEF r
<1>5. Sending'
  BY <1>1, <1>3, SetType, SendingKept DEF SInv
<1> QED
  BY <1>1, <1>3, <1>4, <1>5, UnlistedKept DEF SInv, TypeOK

(* The second half of service_destroy_pipe.                                *)
LEMMA FreeKeeps ==
  ASSUME SInv, NEW f \in Files, Free(f)
  PROVE  SInv'
<1>1. /\ file[f].at = "unlinked" \/ (file[f].at = "open" /\ file[f].type = "TYPE_DIR")
      /\ Set(f, NoFile)
      /\ UNCHANGED <<cards, card, driver, pending, popup>>
  BY DEF Free
<1>2. NoFile \in FileType /\ NoFile.type = "TYPE_DIR" /\ NoFile.at = "free"
  BY NoFileType DEF NoFile
<1>3. Sending'
  BY <1>1, <1>2, SetType, SendingKept DEF SInv
<1> QED
  BY <1>1, <1>2, <1>3, UnlistedKept DEF SInv, TypeOK

(* The driver opens a pipe for a frame (cdi_net_receive).                  *)
LEMMA NetReceiveKeeps ==
  ASSUME SInv, NEW c \in Cards, NEW f \in Files, NEW frame \in Frames,
         cdi_net_receive(c, f, frame)
  PROVE  SInv'
<1>1. /\ driver[c].fd = Nobody /\ file[f].at = "free" /\ Set(f, ReceiveFile)
      /\ driver' = [driver EXCEPT ![c].fd = f, ![c].frame = frame]
      /\ UNCHANGED <<cards, card, pending, popup>>
  BY DEF cdi_net_receive, Server
<1>2. ReceiveFile \in FileType /\ ReceiveFile.type = "TYPE_RECEIVE" /\ ReceiveFile.at = "open"
  BY NoFileType DEF ReceiveFile, NoFile, FileType, Types
<1>3. driver' \in [Cards -> DriverType]
  <2>1. driver[c] \in DriverType
    BY DEF SInv, TypeOK
  <2>2. [driver[c] EXCEPT !.fd = f, !.frame = frame] \in DriverType
    BY <2>1 DEF DriverType
  <2>3. driver' = [driver EXCEPT ![c] = [driver[c] EXCEPT !.fd = f, !.frame = frame]]
    BY <1>1 DEF SInv, TypeOK
  <2> QED
    BY <2>2, <2>3 DEF SInv, TypeOK
<1>4. driver'[c].fd = f /\ \A d \in Cards : d # c => driver'[d] = driver[d]
  BY <1>1 DEF SInv, TypeOK, DriverType
<1>5. Sending'
  <2>1. /\ file'[f] = ReceiveFile
        /\ \A g \in Files : g # f => file'[g] = file[g]
    BY <1>1, <1>2, SetType DEF SInv
  <2>2. \A d \in Cards : driver[d].fd # Nobody => driver[d].fd \in Files /\ driver[d].fd # f
    BY <1>1, DriverPipe
  <2> QED
    BY <1>2, <1>4, <2>1, <2>2 DEF SInv, Sending
<1> QED
  BY <1>1, <1>2, <1>3, <1>5, UnlistedKept DEF SInv, TypeOK

(* The driver closes it.                                                   *)
LEMMA DestroyKeeps ==
  ASSUME SInv, NEW c \in Cards, ReceiveDestroy(c)
  PROVE  SInv'
<1>1. /\ driver[c].fd # Nobody /\ Set(driver[c].fd, NoFile)
      /\ driver' = [driver EXCEPT ![c].fd = Nobody]
      /\ UNCHANGED <<cards, card, pending, popup>>
  BY DEF ReceiveDestroy, Server
<1>2. NoFile \in FileType /\ NoFile.type = "TYPE_DIR" /\ NoFile.at = "free"
  BY NoFileType DEF NoFile
<1>3. PICK f \in Files : f = driver[c].fd /\ file[f].at = "open" /\ file[f].type = "TYPE_RECEIVE"
  BY <1>1, DriverPipe
<1>4. driver' \in [Cards -> DriverType]
  <2>1. driver[c] \in DriverType
    BY DEF SInv, TypeOK
  <2>2. [driver[c] EXCEPT !.fd = Nobody] \in DriverType
    BY <2>1 DEF DriverType
  <2>3. driver' = [driver EXCEPT ![c] = [driver[c] EXCEPT !.fd = Nobody]]
    BY <1>1 DEF SInv, TypeOK
  <2> QED
    BY <2>2, <2>3 DEF SInv, TypeOK
<1>5. driver'[c].fd = Nobody /\ \A d \in Cards : d # c => driver'[d] = driver[d]
  BY <1>1 DEF SInv, TypeOK, DriverType
<1>6. Sending'
  <2>1. \A g \in Files : g # f => file'[g] = file[g]
    BY <1>1, <1>2, <1>3, SetType DEF SInv
  <2>2. \A d \in Cards : d # c /\ driver[d].fd # Nobody => driver[d].fd \in Files /\ driver[d].fd # f
    BY <1>1, <1>3, DriverPipe
  <2> QED
    BY <1>5, <2>1, <2>2 DEF SInv, Sending
<1> QED
  BY <1>1, <1>2, <1>3, <1>4, <1>6, UnlistedKept DEF SInv, TypeOK
(* Nobody walks a list that has no readers.                                *)
LEMMA NoReaders ==
  ASSUME SInv, NEW c \in Cards, card[c].readers = {}
  PROVE  \A t \in Popups : popup[t].at # "idle" => popup[t].card # c
BY DEF SInv, Walking, WalkInv

(* A file becomes a listener: nobody walks the list meanwhile.             *)
LEMMA ListedKept ==
  ASSUME SInv, NEW f \in Files, NEW r \in FileType, NEW c \in Cards,
         file[f].at = "free", Set(f, r),
         r.type = "TYPE_CARD", r.at \in {"open", "copying"}, r.card = c,
         r.at = "copying" => \E g \in Files : /\ r.data = <<g>> /\ file[g].at = "open"
                                              /\ file[g].type = "TYPE_CARD" /\ file[g].card = c,
         card[c].readers = {},
         card' = [card EXCEPT ![c].listeners = <<f>> \o @],
         UNCHANGED <<cards, driver, pending, popup>>
  PROVE  SInv'
<1>1. /\ file' \in [Files -> FileType] /\ file'[f] = r
      /\ \A g \in Files : g # f => file'[g] = file[g]
  BY SetType DEF SInv
<1> DEFINE s == card[c].listeners
<1>2. /\ card[c] \in CardType /\ s \in Seq(Files) /\ IsInjective(s) /\ f \notin Range(s)
  <2>1. card[c] \in CardType /\ IsInjective(s)
    BY DEF SInv, TypeOK, OnceEach
  <2>2. f \notin Range(s)
    BY DEF SInv, ListenersAreOpen
  <2> QED
    BY <2>1, <2>2 DEF CardType
<1>3. /\ <<f>> \o s \in Seq(Files) /\ Range(<<f>> \o s) = Range(s) \union {f}
      /\ IsInjective(<<f>> \o s)
  BY <1>2, PushFacts
<1>4. /\ card' \in [Cards -> CardType]
      /\ card'[c].listeners = <<f>> \o s /\ card'[c].readers = {}
      /\ \A d \in Cards : d # c => card'[d] = card[d]
  <2>1. card' = [card EXCEPT ![c] = [card[c] EXCEPT !.listeners = <<f>> \o s]]
    BY DEF SInv, TypeOK
  <2>2. [card[c] EXCEPT !.listeners = <<f>> \o s] \in CardType
    BY <1>2, <1>3 DEF CardType
  <2>3. /\ [card[c] EXCEPT !.listeners = <<f>> \o s].listeners = <<f>> \o s
        /\ [card[c] EXCEPT !.listeners = <<f>> \o s].readers = {}
    BY <1>2 DEF CardType
  <2> DEFINE k == [card[c] EXCEPT !.listeners = <<f>> \o s]
  <2> HIDE DEF s, k
  <2>4. card' = [card EXCEPT ![c] = k] /\ card \in [Cards -> CardType]
    BY <2>1 DEF SInv, TypeOK, k
  <2>5. card'[c] = k /\ card' \in [Cards -> CardType]
        /\ \A d \in Cards : d # c => card'[d] = card[d]
    BY <2>2, <2>4 DEF k
  <2> QED
    BY <2>3, <2>5 DEF k
<1> HIDE DEF s
<1>5. TypeOK'
  BY <1>1, <1>4 DEF SInv, TypeOK
<1>6. Walking'
  <2>1. \A t \in Popups : popup[t].at # "idle" => popup[t].card # c
    BY NoReaders
  <2> QED
    BY <2>1, <1>4, WalkKept DEF SInv, Walking, WalkInv
<1>7. OnceEach'
  BY <1>3, <1>4 DEF SInv, OnceEach
<1>8. Sending'
  BY <1>1, SendingKept
<1>9. Copying'
  <2> SUFFICES ASSUME NEW nf \in Files, file'[nf].at = "copying" PROVE CopyInv(nf)'
    BY DEF Copying, CopyInv
  <2>1. CASE nf = f
    <3>1. PICK g \in Files : r.data = <<g>> /\ file[g].at = "open"
                             /\ file[g].type = "TYPE_CARD" /\ file[g].card = c
      BY <2>1, <1>1
    <3>2. file'[g] = file[g]
      BY <1>1, <3>1
    <3> QED
      BY <2>1, <3>1, <3>2, <1>1, NoReaders DEF CopyInv
  <2>2. CASE nf # f
    <3>1. file'[nf] = file[nf] /\ CopyInv(nf)
      BY <2>2, <1>1 DEF SInv, Copying
    <3>2. PICK g \in Files : file[nf].data = <<g>> /\ file[g].at = "open"
                             /\ file[g].type = "TYPE_CARD" /\ file[g].card = file[nf].card
      BY <3>1 DEF CopyInv
    <3>3. file'[g] = file[g]
      BY <1>1, <3>2
    <3> QED
      BY <3>1, <3>2, <3>3 DEF CopyInv
  <2> QED
    BY <2>1, <2>2
<1>10. Carded'
  BY <1>1 DEF SInv, Carded
<1>11. ListenersAreOpen'
  <2> SUFFICES ASSUME NEW d \in Cards
               PROVE  Range(card'[d].listeners) = {g \in Files : /\ file'[g].at \in {"open", "copying"}
                                                              /\ file'[g].type = "TYPE_CARD"
                                                              /\ file'[g].card = d}
    BY Zenon DEF ListenersAreOpen
  <2>1. Range(card[d].listeners) = {g \in Files : /\ file[g].at \in {"open", "copying"}
                                                 /\ file[g].type = "TYPE_CARD"
                                                 /\ file[g].card = d}
    BY Zenon DEF SInv, ListenersAreOpen
  <2>2. CASE d = c
    BY <2>1, <2>2, <1>1, <1>3, <1>4 DEF s
  <2>3. CASE d # c
    BY <2>1, <2>3, <1>1, <1>4
  <2> QED
    BY <2>2, <2>3
<1> QED
  BY <1>5, <1>6, <1>7, <1>8, <1>9, <1>10, <1>11 DEF SInv

(* Opening a card.                                                         *)
LEMMA OpenCardKeeps ==
  ASSUME SInv, NEW f \in Files, OpenCard(f)
  PROVE  SInv'
<1>1. PICK c \in Range(cards), dest \in Cards \cup {Nobody} :
        /\ card[c].readers = {}
        /\ Set(f, [NoFile EXCEPT !.at = "open", !.type = "TYPE_CARD", !.card = c, !.dest = dest])
        /\ card' = [card EXCEPT ![c].listeners = <<f>> \o @]
  BY Zenon DEF OpenCard
<1>2. /\ file[f].at = "free" /\ UNCHANGED <<cards, driver, pending, popup>>
      /\ c \in Cards
  BY RangeOfSeq DEF OpenCard, Server, SInv, TypeOK
<1> DEFINE r == [NoFile EXCEPT !.at = "open", !.type = "TYPE_CARD", !.card = c, !.dest = dest]
<1>3. r \in FileType /\ r.type = "TYPE_CARD" /\ r.at = "open" /\ r.card = c
  BY <1>2, NoFileType DEF NoFile, FileType, Types
<1>4. Set(f, r)
  BY <1>1
<1> HIDE DEF r
<1> QED
  BY <1>1, <1>2, <1>3, <1>4, ListedKept

(* service_duplicate_pipe                                                  *)
LEMMA DuplicateKeeps ==
  ASSUME SInv, NEW f \in Files, NEW nf \in Files, service_duplicate_pipe(f, nf)
  PROVE  SInv'
<1>1. /\ file[f].at = "open" /\ file[nf].at = "free" /\ file[f] \in FileType
      /\ UNCHANGED <<cards, driver, pending, popup>>
  BY DEF service_duplicate_pipe, Server, SInv, TypeOK
<1>2. CASE file[f].type = "TYPE_CARD"
  <2> DEFINE c == file[f].card
             r == [file[f] EXCEPT !.at = "copying", !.inqueue = <<>>, !.data = <<f>>]
  <2>1. /\ card[c].readers = {} /\ Set(nf, r)
        /\ card' = [card EXCEPT ![c].listeners = <<nf>> \o @]
    BY <1>2 DEF service_duplicate_pipe
  <2>2. c \in Cards
    BY <1>2 DEF SInv, Carded
  <2>3. /\ r \in FileType /\ r.type = "TYPE_CARD" /\ r.at = "copying" /\ r.card = c
        /\ r.data = <<f>>
    <3>1. <<>> \in Seq(Macs) /\ <<f>> \in Seq(Cards \union Files)
      BY EmptySeq
    <3> QED
      BY <1>1, <1>2, <3>1 DEF FileType, Types
  <2>4. \E g \in Files : /\ r.data = <<g>> /\ file[g].at = "open"
                         /\ file[g].type = "TYPE_CARD" /\ file[g].card = c
    BY <1>1, <1>2, <2>3
  <2> HIDE DEF r, c
  <2> QED
    BY <1>1, <2>1, <2>2, <2>3, <2>4, ListedKept
<1>3. CASE file[f].type # "TYPE_CARD"
  <2>1. file[f].type = "TYPE_DIR" /\ Set(nf, file[f]) /\ UNCHANGED card
    BY <1>3 DEF service_duplicate_pipe
  <2>2. Sending'
    BY <1>1, <2>1, SetType, SendingKept DEF SInv
  <2> QED
    BY <1>1, <2>1, <2>2, UnlistedKept DEF SInv, TypeOK
<1> QED
  BY <1>2, <1>3

(* The second half of it, after which the copy has its own queue.          *)
LEMMA DuplicateQueueKeeps ==
  ASSUME SInv, NEW nf \in Files, DuplicateQueue(nf)
  PROVE  SInv'
<1>1. /\ file[nf].at = "copying" /\ file[nf] \in FileType
      /\ UNCHANGED <<cards, card, driver, pending, popup>>
  BY DEF DuplicateQueue, SInv, TypeOK
<1>2. PICK f \in Files : file[nf].data = <<f>> /\ file[f].at = "open"
                         /\ file[f].type = "TYPE_CARD" /\ file[f].card = file[nf].card
  BY <1>1 DEF SInv, Copying, CopyInv
<1>3. file[nf].type = "TYPE_CARD" /\ file[f] \in FileType
  BY <1>1 DEF SInv, Copying, CopyInv, TypeOK
<1> DEFINE r == [file[nf] EXCEPT !.at = "open", !.data = <<>>, !.inqueue = file[f].inqueue]
<1>4. Head(file[nf].data) = f
  BY <1>2
<1>5. Set(nf, r)
  BY <1>4 DEF DuplicateQueue
<1>6. r \in FileType /\ r.type = "TYPE_CARD" /\ r.at = "open" /\ r.card = file[nf].card
  BY <1>1, <1>3, NoFileType DEF FileType
<1> HIDE DEF r
<1>7. /\ file' \in [Files -> FileType] /\ file'[nf] = r
      /\ \A g \in Files : g # nf => file'[g] = file[g]
  BY <1>5, <1>6, SetType DEF SInv
<1>8. TypeOK'
  BY <1>1, <1>7 DEF SInv, TypeOK
<1>9. Walking' /\ OnceEach'
  BY <1>1, WalkKept DEF SInv, OnceEach
<1>10. Sending'
  BY <1>1, <1>7, SendingKept
<1>11. Copying'
  <2> SUFFICES ASSUME NEW g \in Files, file'[g].at = "copying" PROVE CopyInv(g)'
    BY DEF Copying, CopyInv
  <2>1. g # nf /\ file'[g] = file[g] /\ CopyInv(g)
    BY <1>6, <1>7 DEF SInv, Copying
  <2>2. PICK h \in Files : file[g].data = <<h>> /\ file[h].at = "open"
                           /\ file[h].type = "TYPE_CARD" /\ file[h].card = file[g].card
    BY <2>1 DEF CopyInv
  <2>3. file'[h] = file[h]
    BY <1>1, <1>7, <2>2
  <2> QED
    BY <1>1, <2>1, <2>2, <2>3 DEF CopyInv
<1>12. Carded'
  BY <1>3, <1>6, <1>7 DEF SInv, Carded
<1>13. ListenersAreOpen'
  <2>1. ASSUME NEW c \in Cards
        PROVE  {g \in Files : /\ file'[g].at \in {"open", "copying"}
                              /\ file'[g].type = "TYPE_CARD" /\ file'[g].card = c}
               = {g \in Files : /\ file[g].at \in {"open", "copying"}
                                /\ file[g].type = "TYPE_CARD" /\ file[g].card = c}
    BY <1>1, <1>3, <1>6, <1>7
  <2> QED
    BY <1>1, <2>1 DEF SInv, ListenersAreOpen
<1> QED
  BY <1>8, <1>9, <1>10, <1>11, <1>12, <1>13 DEF SInv
(* The first half of service_destroy_pipe: nobody walks the list, and no   *)
(* copy is being made of the file.                                         *)
LEMMA UnlinkKeeps ==
  ASSUME SInv, NEW f \in Files, service_destroy_pipe(f)
  PROVE  SInv'
<1> DEFINE c == file[f].card
           s == card[c].listeners
           r == [file[f] EXCEPT !.at = "unlinked"]
<1>1. /\ file[f].at = "open" /\ file[f].type = "TYPE_CARD" /\ f \notin Copied
      /\ card[c].readers = {}
      /\ card' = [card EXCEPT ![c].listeners = RemoveFirst(@, f)]
      /\ file' = [file EXCEPT ![f].at = "unlinked"]
      /\ UNCHANGED <<cards, driver, pending, popup>>
  BY DEF service_destroy_pipe, Unlink, Server
<1>2. c \in Cards /\ file[f] \in FileType /\ card[c] \in CardType
  BY <1>1 DEF SInv, Carded, TypeOK
<1>3. s \in Seq(Files) /\ IsInjective(s) /\ f \in Range(s)
  BY <1>1, <1>2 DEF SInv, OnceEach, ListenersAreOpen, CardType
<1>4. /\ RemoveFirst(s, f) \in Seq(Files) /\ Range(RemoveFirst(s, f)) = Range(s) \ {f}
      /\ IsInjective(RemoveFirst(s, f))
  <2> HIDE DEF s
  <2> QED
    BY <1>3, RemoveFirstFacts
<1> DEFINE k == [card[c] EXCEPT !.listeners = RemoveFirst(s, f)]
<1>5. k \in CardType /\ k.listeners = RemoveFirst(s, f) /\ k.readers = {}
  <2> HIDE DEF s
  <2> QED
    BY <1>1, <1>2, <1>4 DEF CardType
<1>6. /\ card' \in [Cards -> CardType] /\ card'[c] = k
      /\ \A d \in Cards : d # c => card'[d] = card[d]
  <2>1. card' = [card EXCEPT ![c] = k] /\ card \in [Cards -> CardType]
    BY <1>1 DEF SInv, TypeOK
  <2> HIDE DEF k, c
  <2> QED
    BY <2>1, <1>2, <1>5
<1>7. r \in FileType /\ r.at = "unlinked" /\ r.type = "TYPE_CARD" /\ r.card = c
  BY <1>1, <1>2 DEF FileType
<1>8. /\ file' \in [Files -> FileType] /\ file'[f] = r
      /\ \A g \in Files : g # f => file'[g] = file[g]
  <2>1. file' = [file EXCEPT ![f] = r] /\ file \in [Files -> FileType]
    BY <1>1 DEF SInv, TypeOK
  <2> HIDE DEF r
  <2> QED
    BY <2>1, <1>7
<1> HIDE DEF r, k
<1>9. TypeOK'
  BY <1>1, <1>6, <1>8 DEF SInv, TypeOK
<1>10. Walking'
  <2>1. \A t \in Popups : popup[t].at # "idle" => popup[t].card # c
    BY <1>1, <1>2, NoReaders
  <2>2. \A t \in Popups : popup[t].at # "idle" /\ popup[t].card \in Cards =>
            card'[popup[t].card] = card[popup[t].card]
    BY <2>1, <1>6
  <2> QED
    BY <2>2, <1>1, WalkKept DEF SInv
<1>11. OnceEach'
  <2> SUFFICES ASSUME NEW d \in Cards PROVE IsInjective(card'[d].listeners)
    BY Zenon DEF OnceEach
  <2> QED
    BY <1>4, <1>5, <1>6 DEF SInv, OnceEach
<1>12. Sending'
  BY <1>1, <1>8, SendingKept
<1>13. Copying'
  <2> SUFFICES ASSUME NEW g \in Files, file'[g].at = "copying" PROVE CopyInv(g)'
    BY DEF Copying, CopyInv
  <2>1. g # f /\ file'[g] = file[g] /\ CopyInv(g)
    BY <1>7, <1>8 DEF SInv, Copying
  <2>2. PICK h \in Files : file[g].data = <<h>> /\ file[h].at = "open"
                           /\ file[h].type = "TYPE_CARD" /\ file[h].card = file[g].card
    BY <2>1 DEF CopyInv
  <2>3. h \in Copied
    <3>1. Head(file[g].data) = h
      BY <2>2
    <3> QED
      BY <2>1, <3>1 DEF Copied
  <2>4. file'[h] = file[h]
    BY <1>1, <1>8, <2>3
  <2> QED
    BY <1>1, <2>1, <2>2, <2>4 DEF CopyInv
<1>14. Carded'
  BY <1>1, <1>2, <1>7, <1>8 DEF SInv, Carded
<1>15. ListenersAreOpen'
  <2> SUFFICES ASSUME NEW d \in Cards
               PROVE  Range(card'[d].listeners) = {g \in Files : /\ file'[g].at \in {"open", "copying"}
                                                              /\ file'[g].type = "TYPE_CARD"
                                                              /\ file'[g].card = d}
    BY Zenon DEF ListenersAreOpen
  <2>1. Range(card[d].listeners) = {g \in Files : /\ file[g].at \in {"open", "copying"}
                                                 /\ file[g].type = "TYPE_CARD"
                                                 /\ file[g].card = d}
    BY Zenon DEF SInv, ListenersAreOpen
  <2>2. CASE d = c
    <3>1. Range(card'[d].listeners) = Range(card[d].listeners) \ {f}
      BY <2>2, <1>4, <1>5, <1>6
    <3> QED
      BY <2>1, <2>2, <3>1, <1>7, <1>8
  <2>3. CASE d # c
    BY <2>1, <2>3, <1>1, <1>6, <1>7, <1>8
  <2> QED
    BY <2>2, <2>3
<1> QED
  BY <1>9, <1>10, <1>11, <1>12, <1>13, <1>14, <1>15 DEF SInv

-----------------------------------------------------------------------------
(* cdi_net_device_init                                                     *)
LEMMA DeviceInitKeeps ==
  ASSUME SInv, NEW c \in Cards, cdi_net_device_init(c)
  PROVE  SInv'
<1>1. /\ driver' = [driver EXCEPT ![c].at = "ready"] /\ cards' = <<c>> \o cards
      /\ UNCHANGED <<file, card, pending, popup>>
  BY DEF cdi_net_device_init, Register, Server
<1>2. cards' \in Seq(Cards)
  BY <1>1, PushFacts DEF SInv, TypeOK
<1>3. driver' \in [Cards -> DriverType] /\ \A d \in Cards : driver'[d].fd = driver[d].fd
  <2>1. driver[c] \in DriverType /\ driver \in [Cards -> DriverType]
    BY DEF SInv, TypeOK
  <2> DEFINE r == [driver[c] EXCEPT !.at = "ready"]
  <2>2. r \in DriverType /\ r.fd = driver[c].fd
    BY <2>1 DEF DriverType
  <2>3. driver' = [driver EXCEPT ![c] = r]
    BY <1>1, <2>1
  <2> HIDE DEF r
  <2> QED
    BY <2>1, <2>2, <2>3
<1>4. TypeOK'
  BY <1>1, <1>2, <1>3 DEF SInv, TypeOK
<1>5. Walking'
  BY <1>1, WalkKept DEF SInv
<1> QED
  BY <1>1, <1>3, <1>4, <1>5, ListsKept

(* A frame is sent through the pipe of its driver (cdi_net_receive).       *)
LEMMA ReceiveSendKeeps ==
  ASSUME SInv, NEW c \in Cards, ReceiveSend(c)
  PROVE  SInv'
<1>1. /\ driver[c].fd # Nobody /\ driver[c].frame # <<>>
      /\ driver' = [driver EXCEPT ![c].frame = <<>>]
      /\ UNCHANGED <<cards, card, popup>>
  BY DEF ReceiveSend
<1>2. PICK f \in Files : f = driver[c].fd /\ file[f].at = "open" /\ file[f].type = "TYPE_RECEIVE"
                         /\ file[f] \in FileType
  BY <1>1, DriverPipe
<1>3. driver[c] \in DriverType /\ driver \in [Cards -> DriverType]
  BY DEF SInv, TypeOK
<1>4. driver' \in [Cards -> DriverType] /\ \A d \in Cards : driver'[d].fd = driver[d].fd
  <2> DEFINE r == [driver[c] EXCEPT !.frame = <<>>]
  <2>2. r \in DriverType /\ r.fd = driver[c].fd
    BY <1>3 DEF DriverType
  <2>3. driver' = [driver EXCEPT ![c] = r]
    BY <1>1, <1>3
  <2> HIDE DEF r
  <2> QED
    BY <1>3, <2>2, <2>3
<1>5. /\ file' \in [Files -> FileType]
      /\ pending' \in [Cards -> {<<>>} \union (Files \X Frames)]
      /\ \A g \in Files : /\ file'[g].at = file[g].at /\ file'[g].type = file[g].type
                          /\ file[g].type = "TYPE_CARD" => file'[g].card = file[g].card
                          /\ file'[g].data = file[g].data
  <2>1. CASE HasDevice(c)
    <3> DEFINE r == [file[f] EXCEPT !.card = c]
    <3>1. file' = [file EXCEPT ![f] = r] /\ file \in [Files -> FileType]
      BY <1>2, <2>1 DEF ReceiveSend, SInv, TypeOK
    <3>2. r \in FileType /\ r.at = file[f].at /\ r.type = file[f].type /\ r.data = file[f].data
      BY <1>2 DEF FileType
    <3>3. <<f, driver[c].frame>> \in Files \X Frames
      BY <1>1, <1>3 DEF DriverType
    <3>4. pending' = [pending EXCEPT ![c] = <<f, driver[c].frame>>]
      BY <1>2, <2>1 DEF ReceiveSend
    <3>5. pending' \in [Cards -> {<<>>} \union (Files \X Frames)]
      BY <3>3, <3>4 DEF SInv, TypeOK
    <3> HIDE DEF r
    <3> QED
      BY <1>2, <3>1, <3>2, <3>5
  <2>2. CASE ~HasDevice(c)
    BY <2>2 DEF ReceiveSend, SInv, TypeOK
  <2> QED
    BY <2>1, <2>2
<1>6. TypeOK'
  BY <1>1, <1>4, <1>5 DEF SInv, TypeOK
<1>7. Walking'
  BY <1>1, WalkKept DEF SInv
<1> QED
  BY <1>1, <1>4, <1>5, <1>6, <1>7, ListsKept
-----------------------------------------------------------------------------
(* One popup moves; the others stay where they are, and nobody else leaves *)
(* or enters a list.                                                       *)
LEMMA OneWalks ==
  ASSUME SInv, NEW t \in Popups, NEW r \in PopupType, popup' = [popup EXCEPT ![t] = r],
         \A c \in Cards : /\ card'[c].listeners = card[c].listeners
                          /\ card[c].readers \ {t} \subseteq card'[c].readers,
         WalkInv(t)'
  PROVE  /\ Walking'
         /\ popup' \in [Popups -> PopupType]
         /\ popup'[t] = r /\ \A u \in Popups : u # t => popup'[u] = popup[u]
<1>1. /\ popup' \in [Popups -> PopupType]
      /\ popup'[t] = r /\ \A u \in Popups : u # t => popup'[u] = popup[u]
  BY DEF SInv, TypeOK
<1>2. ASSUME NEW u \in Popups, u # t PROVE WalkInv(u)'
  <2>1. popup'[u] = popup[u] /\ WalkInv(u)
    BY <1>1, <1>2 DEF SInv, Walking
  <2> QED
    BY <1>2, <2>1 DEF WalkInv
<1> QED
  BY <1>1, <1>2 DEF Walking

(* The readers of one list change.                                         *)
LEMMA ReadersType ==
  ASSUME SInv, NEW c \in Cards, NEW R \in SUBSET Popups,
         card' = [card EXCEPT ![c].readers = R]
  PROVE  /\ card' \in [Cards -> CardType]
         /\ \A d \in Cards : card'[d].listeners = card[d].listeners
         /\ card'[c].readers = R
         /\ \A d \in Cards : d # c => card'[d].readers = card[d].readers
<1>1. card[c] \in CardType /\ card \in [Cards -> CardType]
  BY DEF SInv, TypeOK
<1> DEFINE k == [card[c] EXCEPT !.readers = R]
<1>2. k \in CardType /\ k.listeners = card[c].listeners /\ k.readers = R
  BY <1>1 DEF CardType
<1>3. card' = [card EXCEPT ![c] = k]
  BY <1>1
<1> HIDE DEF k
<1> QED
  BY <1>1, <1>2, <1>3

(* A frame gets its popup (eth_receive).                                   *)
LEMMA EthReceiveKeeps ==
  ASSUME SInv, NEW t \in Popups, NEW c \in Cards, eth_receive(t, c)
  PROVE  SInv'
<1>1. /\ popup[t].at = "idle" /\ pending[c] # <<>> /\ pending' = [pending EXCEPT ![c] = <<>>]
      /\ Calm => \A f \in Files : file[f].at # "copying"
      /\ UNCHANGED <<file, cards, driver>>
  BY DEF eth_receive
<1>2. pending' \in [Cards -> {<<>>} \union (Files \X Frames)]
  BY <1>1 DEF SInv, TypeOK
<1>3. CASE ~Accepts(c, pending[c][2])
  <2>1. UNCHANGED <<popup, card>>
    BY <1>3 DEF eth_receive
  <2>2. TypeOK'
    BY <1>1, <1>2, <2>1 DEF SInv, TypeOK
  <2>3. Walking'
    BY <2>1, WalkKept DEF SInv
  <2> QED
    BY <1>1, <2>1, <2>2, <2>3, ListsKept
<1>4. CASE Accepts(c, pending[c][2])
  <2> DEFINE r == [at |-> "walk", card |-> c, frame |-> pending[c][2], rest |-> card[c].listeners]
             R == card[c].readers \cup {t}
  <2>1. popup' = [popup EXCEPT ![t] = r] /\ card' = [card EXCEPT ![c].readers = R]
    BY <1>4 DEF eth_receive, SInv, TypeOK
  <2>2. r \in PopupType
    <3>1. pending[c] \in Files \X Frames /\ card[c].listeners \in Seq(Files)
      BY <1>1 DEF SInv, TypeOK, CardType
    <3>2. pending[c][2] \in Frames
      BY <3>1
    <3> QED
      BY <3>1, <3>2 DEF PopupType
  <2>3. R \in SUBSET Popups
    BY DEF SInv, TypeOK, CardType
  <2>4. /\ r.at = "walk" /\ r.card = c /\ r.rest = card[c].listeners
        /\ r.frame \in Frames
    <3>1. pending[c] \in Files \X Frames
      BY <1>1 DEF SInv, TypeOK
    <3> QED
      BY <3>1
  <2> HIDE DEF r
  <2>5. /\ card' \in [Cards -> CardType]
        /\ \A d \in Cards : card'[d].listeners = card[d].listeners
        /\ card'[c].readers = R
        /\ \A d \in Cards : d # c => card'[d].readers = card[d].readers
    <3> HIDE DEF R
    <3> QED
      BY <2>1, <2>3, ReadersType
  <2>6. popup'[t] = r
    BY <2>1 DEF SInv, TypeOK
  <2>7. WalkInv(t)'
    BY <2>4, <2>5, <2>6 DEF WalkInv
  <2>8. \A d \in Cards : card[d].readers \ {t} \subseteq card'[d].readers
    BY <2>5
  <2>9. /\ Walking' /\ popup' \in [Popups -> PopupType]
        /\ \A u \in Popups : u # t => popup'[u] = popup[u]
    BY <2>1, <2>2, <2>5, <2>7, <2>8, OneWalks
  <2>10. TypeOK'
    BY <1>1, <1>2, <2>5, <2>9 DEF SInv, TypeOK
  <2>11. Calm => \A u \in Popups : popup'[u].at # "idle" =>
             \/ popup[u].at # "idle" /\ popup'[u].card = popup[u].card
             \/ \A f \in Files : file[f].at # "copying"
    BY <1>1
  <2> QED
    BY <1>1, <2>5, <2>9, <2>10, <2>11, ListsKept
<1> QED
  BY <1>3, <1>4

(* Where a popup is that has a listener before it.                         *)
LEMMA ListenerFacts ==
  ASSUME SInv, NEW t \in Popups, popup[t].at # "idle", popup[t].rest # <<>>
  PROVE  /\ Listener(t) \in Files /\ file[Listener(t)] \in FileType
         /\ popup[t] \in PopupType /\ Tail(popup[t].rest) \in Seq(Files)
         /\ Range(Tail(popup[t].rest)) \subseteq Range(card[popup[t].card].listeners)
         /\ Listener(t) \in Range(card[popup[t].card].listeners)
         /\ popup[t].card \in Cards
<1>1. popup[t] \in PopupType /\ popup[t].rest \in Seq(Files) /\ WalkInv(t)
  BY DEF SInv, TypeOK, PopupType, Walking
<1>2. /\ Head(popup[t].rest) \in Files /\ Tail(popup[t].rest) \in Seq(Files)
      /\ Head(popup[t].rest) \in Range(popup[t].rest)
      /\ Range(Tail(popup[t].rest)) \subseteq Range(popup[t].rest)
  BY <1>1, TailType
<1> QED
  BY <1>1, <1>2 DEF Listener, WalkInv, SInv, TypeOK

(* A popup goes on at the listener it is at, or goes on to the next; the   *)
(* listener's file may change in what the lists do not know.               *)
LEMMA WalkOn ==
  ASSUME SInv, NEW t \in Popups, popup[t].at # "idle", popup[t].rest # <<>>,
         NEW r \in PopupType, popup' = [popup EXCEPT ![t] = r],
         r.card = popup[t].card, r.frame = popup[t].frame,
         \/ r.at \in {"append", "signal"} /\ r.rest = popup[t].rest
         \/ r.at = "walk" /\ r.rest = Tail(popup[t].rest),
         NEW l \in FileType, file' = [file EXCEPT ![Listener(t)] = l],
         l.at = file[Listener(t)].at, l.type = file[Listener(t)].type,
         l.card = file[Listener(t)].card, l.data = file[Listener(t)].data,
         UNCHANGED <<cards, card, driver, pending>>
  PROVE  SInv'
<1>1. /\ Listener(t) \in Files
      /\ Range(Tail(popup[t].rest)) \subseteq Range(card[popup[t].card].listeners)
  BY ListenerFacts
<1>2. popup'[t] = r /\ WalkInv(t)
  BY DEF SInv, TypeOK, Walking
<1>3. WalkInv(t)'
  BY <1>1, <1>2 DEF WalkInv
<1>4. /\ Walking' /\ popup' \in [Popups -> PopupType]
      /\ \A u \in Popups : u # t => popup'[u] = popup[u]
  BY <1>3, OneWalks
<1>5. /\ file' \in [Files -> FileType]
      /\ \A g \in Files : /\ file'[g].at = file[g].at /\ file'[g].type = file[g].type
                          /\ file'[g].card = file[g].card /\ file'[g].data = file[g].data
  BY <1>1 DEF SInv, TypeOK
<1>6. TypeOK'
  BY <1>4, <1>5 DEF SInv, TypeOK
<1>7. \A u \in Popups : popup'[u].at # "idle" => popup[u].at # "idle" /\ popup'[u].card = popup[u].card
  BY <1>2, <1>4
<1> QED
  BY <1>4, <1>5, <1>6, <1>7, ListsKept
(* It looks for the end of the listener's queue.                           *)
LEMMA FindEndKeeps ==
  ASSUME SInv, NEW t \in Popups, FindEnd(t)
  PROVE  SInv'
<1> DEFINE r == [popup[t] EXCEPT !.at = "append"]
           l == [file[Listener(t)] EXCEPT !.readers = @ \cup {t}]
<1>1. /\ popup[t].at = "walk" /\ popup[t].rest # <<>>
      /\ file' = [file EXCEPT ![Listener(t)].readers = @ \cup {t}]
      /\ popup' = [popup EXCEPT ![t].at = "append"]
      /\ UNCHANGED <<cards, card, driver, pending>>
  BY DEF FindEnd
<1>2. Listener(t) \in Files /\ file[Listener(t)] \in FileType /\ popup[t] \in PopupType
  BY <1>1, ListenerFacts
<1>3. /\ r \in PopupType /\ r.at = "append" /\ r.rest = popup[t].rest
      /\ r.card = popup[t].card /\ r.frame = popup[t].frame
  BY <1>2 DEF PopupType
<1>4. /\ l \in FileType /\ l.at = file[Listener(t)].at /\ l.type = file[Listener(t)].type
      /\ l.card = file[Listener(t)].card /\ l.data = file[Listener(t)].data
  <2>1. file[Listener(t)].readers \cup {t} \in SUBSET Popups
    BY <1>2 DEF FileType
  <2> QED
    BY <1>2, <2>1 DEF FileType
<1>5. popup' = [popup EXCEPT ![t] = r] /\ file' = [file EXCEPT ![Listener(t)] = l]
  BY <1>1, <1>2 DEF SInv, TypeOK
<1> HIDE DEF r, l
<1> QED
  BY <1>1, <1>3, <1>4, <1>5, WalkOn

(* It appends.                                                             *)
LEMMA AppendKeeps ==
  ASSUME SInv, NEW t \in Popups, AppendPacket(t)
  PROVE  SInv'
<1> DEFINE r == [popup[t] EXCEPT !.at = "signal"]
           l == [file[Listener(t)] EXCEPT !.inqueue = Append(@, popup[t].frame.src), !.readers = {}]
<1>1. /\ popup[t].at = "append"
      /\ file' = [file EXCEPT ![Listener(t)].inqueue = Append(@, popup[t].frame.src),
                              ![Listener(t)].readers = {}]
      /\ popup' = [popup EXCEPT ![t].at = "signal"]
      /\ UNCHANGED <<cards, card, driver, pending>>
  BY DEF AppendPacket
<1>2. popup[t].rest # <<>> /\ popup[t].frame \in Frames
  BY <1>1 DEF SInv, Walking, WalkInv
<1>3. Listener(t) \in Files /\ file[Listener(t)] \in FileType /\ popup[t] \in PopupType
  BY <1>1, <1>2, ListenerFacts
<1>4. /\ r \in PopupType /\ r.at = "signal" /\ r.rest = popup[t].rest
      /\ r.card = popup[t].card /\ r.frame = popup[t].frame
  BY <1>3 DEF PopupType
<1>5. /\ l \in FileType /\ l.at = file[Listener(t)].at /\ l.type = file[Listener(t)].type
      /\ l.card = file[Listener(t)].card /\ l.data = file[Listener(t)].data
  <2>1. popup[t].frame.src \in Macs /\ file[Listener(t)].inqueue \in Seq(Macs)
    BY <1>2, <1>3 DEF Macs, FileType
  <2>2. Append(file[Listener(t)].inqueue, popup[t].frame.src) \in Seq(Macs)
    BY <2>1, AppendProperties
  <2> QED
    BY <1>3, <2>2 DEF FileType
<1>6. popup' = [popup EXCEPT ![t] = r] /\ file' = [file EXCEPT ![Listener(t)] = l]
  BY <1>1, <1>3 DEF SInv, TypeOK
<1> HIDE DEF r, l
<1> QED
  BY <1>1, <1>2, <1>4, <1>5, <1>6, WalkOn

(* It signals, and goes on to the next listener.                           *)
LEMMA SignalKeeps ==
  ASSUME SInv, NEW t \in Popups, Signal(t)
  PROVE  SInv'
<1> DEFINE r == [popup[t] EXCEPT !.at = "walk", !.rest = Tail(@)]
<1>1. /\ popup[t].at = "signal"
      /\ popup' = [popup EXCEPT ![t].at = "walk", ![t].rest = Tail(@)]
      /\ UNCHANGED <<file, cards, card, driver, pending>>
  BY DEF Signal
<1>2. popup[t].rest # <<>>
  BY <1>1 DEF SInv, Walking, WalkInv
<1>3. /\ Listener(t) \in Files /\ file[Listener(t)] \in FileType /\ popup[t] \in PopupType
      /\ Tail(popup[t].rest) \in Seq(Files)
  BY <1>1, <1>2, ListenerFacts
<1>4. /\ r \in PopupType /\ r.at = "walk" /\ r.rest = Tail(popup[t].rest)
      /\ r.card = popup[t].card /\ r.frame = popup[t].frame
  BY <1>3 DEF PopupType
<1>5. /\ popup' = [popup EXCEPT ![t] = r]
      /\ file' = [file EXCEPT ![Listener(t)] = file[Listener(t)]]
  BY <1>1, <1>3 DEF SInv, TypeOK
<1> HIDE DEF r
<1> QED
  BY <1>1, <1>2, <1>3, <1>4, <1>5, WalkOn

(* It is through, and leaves the list.                                     *)
LEMMA WalkEndKeeps ==
  ASSUME SInv, NEW t \in Popups, WalkEnd(t)
  PROVE  SInv'
<1> DEFINE c == popup[t].card
           R == card[c].readers \ {t}
<1>1. /\ popup[t].at = "walk" /\ popup[t].rest = <<>>
      /\ card' = [card EXCEPT ![c].readers = R]
      /\ popup' = [popup EXCEPT ![t] = Idle]
      /\ UNCHANGED <<file, cards, driver, pending>>
  BY DEF WalkEnd, SInv, TypeOK
<1>2. c \in Cards /\ R \in SUBSET Popups
  BY <1>1 DEF SInv, Walking, WalkInv, TypeOK, CardType
<1>3. /\ card' \in [Cards -> CardType]
      /\ \A d \in Cards : card'[d].listeners = card[d].listeners
      /\ card'[c].readers = R
      /\ \A d \in Cards : d # c => card'[d].readers = card[d].readers
  <2> HIDE DEF c, R
  <2> QED
    BY <1>1, <1>2, ReadersType
<1>4. Idle \in PopupType /\ Idle.at = "idle" /\ Idle.rest = <<>>
  BY EmptySeq DEF Idle, PopupType
<1>5. popup'[t] = Idle
  BY <1>1 DEF SInv, TypeOK
<1>6. WalkInv(t)'
  BY <1>4, <1>5 DEF WalkInv
<1>7. \A d \in Cards : card[d].readers \ {t} \subseteq card'[d].readers
  BY <1>3
<1>8. /\ Walking' /\ popup' \in [Popups -> PopupType]
      /\ \A u \in Popups : u # t => popup'[u] = popup[u]
  BY <1>1, <1>3, <1>4, <1>6, <1>7, OneWalks
<1>9. TypeOK'
  BY <1>1, <1>3, <1>8 DEF SInv, TypeOK
<1>10. \A u \in Popups : popup'[u].at # "idle" => popup[u].at # "idle" /\ popup'[u].card = popup[u].card
  BY <1>4, <1>5, <1>8
<1> QED
  BY <1>1, <1>3, <1>8, <1>9, <1>10, ListsKept

(* Every step keeps the lists, the walks and the pipes in order.           *)
LEMMA NextSInv ==
  ASSUME SInv, [Next]_vars
  PROVE  SInv'
<1>1. CASE UNCHANGED vars
  <2>1. TypeOK' /\ Walking'
    BY <1>1 DEF vars, SInv, TypeOK, Walking, WalkInv
  <2> QED
    BY <1>1, <2>1, ListsKept DEF vars
<1>2. ASSUME NEW f \in Files, OpenDir(f) PROVE SInv'
  BY <1>2, OpenDirKeeps
<1>3. ASSUME NEW f \in Files, OpenCard(f) PROVE SInv'
  BY <1>3, OpenCardKeeps
<1>4. ASSUME NEW f \in Files, service_destroy_pipe(f) PROVE SInv'
  BY <1>4, UnlinkKeeps
<1>5. ASSUME NEW f \in Files, Free(f) PROVE SInv'
  BY <1>5, FreeKeeps
<1>6. ASSUME NEW f \in Files, DuplicateQueue(f) PROVE SInv'
  BY <1>6, DuplicateQueueKeeps
<1>7. ASSUME NEW f \in Files, service_stream_recv(f) PROVE SInv'
  BY <1>7, RecvKeeps
<1>8. ASSUME NEW f \in Files, service_pipe_set_flag(f) PROVE SInv'
  BY <1>8, SetFlagKeeps
<1>9. ASSUME NEW f \in Files, NEW nf \in Files, service_duplicate_pipe(f, nf) PROVE SInv'
  BY <1>9, DuplicateKeeps
<1>10. ASSUME NEW f \in Files, NEW size \in {1, 1500, 1501}, SendFrame(f, size) PROVE SInv'
  BY <1>10, SendFrameKeeps
<1>11. ASSUME NEW c \in Cards, cdi_net_device_init(c) PROVE SInv'
  BY <1>11, DeviceInitKeeps
<1>12. ASSUME NEW c \in Cards, ReceiveSend(c) PROVE SInv'
  BY <1>12, ReceiveSendKeeps
<1>13. ASSUME NEW c \in Cards, ReceiveDestroy(c) PROVE SInv'
  BY <1>13, DestroyKeeps
<1>14. ASSUME NEW c \in Cards, NEW f \in Files, NEW frame \in Frames, cdi_net_receive(c, f, frame)
       PROVE  SInv'
  BY <1>14, NetReceiveKeeps
<1>15. ASSUME NEW c \in Cards, NEW t \in Popups, eth_receive(t, c) PROVE SInv'
  BY <1>15, EthReceiveKeeps
<1>16. ASSUME NEW t \in Popups, FindEnd(t) PROVE SInv'
  BY <1>16, FindEndKeeps
<1>17. ASSUME NEW t \in Popups, AppendPacket(t) PROVE SInv'
  BY <1>17, AppendKeeps
<1>18. ASSUME NEW t \in Popups, Signal(t) PROVE SInv'
  BY <1>18, SignalKeeps
<1>19. ASSUME NEW t \in Popups, WalkEnd(t) PROVE SInv'
  BY <1>19, WalkEndKeeps
<1>20. ASSUME NEW f \in Files,
              \/ OpenDir(f) \/ OpenCard(f) \/ service_destroy_pipe(f) \/ Free(f)
              \/ DuplicateQueue(f) \/ service_stream_recv(f) \/ service_pipe_set_flag(f)
              \/ \E nf \in Files : service_duplicate_pipe(f, nf)
              \/ \E size \in {1, 1500, 1501} : SendFrame(f, size)
       PROVE  SInv'
  BY <1>20, <1>2, <1>3, <1>4, <1>5, <1>6, <1>7, <1>8, <1>9, <1>10
<1>21. ASSUME NEW c \in Cards,
              \/ cdi_net_device_init(c) \/ ReceiveSend(c) \/ ReceiveDestroy(c)
              \/ \E f \in Files, frame \in Frames : cdi_net_receive(c, f, frame)
              \/ \E t \in Popups : eth_receive(t, c)
       PROVE  SInv'
  BY <1>21, <1>11, <1>12, <1>13, <1>14, <1>15
<1>22. ASSUME NEW t \in Popups, FindEnd(t) \/ AppendPacket(t) \/ Signal(t) \/ WalkEnd(t)
       PROVE  SInv'
  BY <1>22, <1>16, <1>17, <1>18, <1>19
<1>23. CASE Next
  BY <1>23, <1>20, <1>21, <1>22 DEF Next
<1> QED
  BY <1>1, <1>23

(* In the beginning there are no files and no cards in the list.           *)
LEMMA InitSInv == Init => SInv
<1> SUFFICES ASSUME Init PROVE SInv
  OBVIOUS
<1>1. NoFile \in FileType /\ NoFile.at = "free" /\ NoFile.type = "TYPE_DIR"
  BY NoFileType DEF NoFile
<1>2. Idle \in PopupType /\ Idle.at = "idle" /\ Idle.rest = <<>>
  BY EmptySeq DEF Idle, PopupType
<1>3. /\ [listeners |-> <<>>, readers |-> {}] \in CardType
      /\ [at |-> "init", fd |-> Nobody, frame |-> <<>>] \in DriverType
      /\ <<>> \in Seq(Cards)
  BY EmptySeq DEF CardType, DriverType
<1>4. TypeOK
  BY <1>1, <1>2, <1>3 DEF Init, TypeOK
<1>5. Walking
  BY <1>2 DEF Init, Walking, WalkInv
<1>6. /\ \A c \in Cards : card[c].listeners = <<>> /\ driver[c].fd = Nobody
      /\ \A f \in Files : file[f].at = "free" /\ file[f].type = "TYPE_DIR"
  BY <1>1 DEF Init
<1>7. OnceEach /\ ListenersAreOpen
  <2>1. Range(<<>>) = {} /\ IsInjective(<<>>)
    BY DEF Range, IsInjective
  <2> QED
    BY <1>6, <2>1 DEF OnceEach, ListenersAreOpen
<1>8. Sending /\ Copying /\ Carded
  BY <1>6 DEF Sending, Copying, CopyInv, Carded
<1> QED
  BY <1>4, <1>5, <1>7, <1>8 DEF SInv
-----------------------------------------------------------------------------
(* What follows for a popup in its walk: every listener left is open.      *)
LEMMA WalksOpen == SInv => WalkMeetsOpen
<1> SUFFICES ASSUME SInv, NEW t \in Popups, NEW i \in DOMAIN popup[t].rest
             PROVE  /\ file[popup[t].rest[i]].at \in {"open", "copying"}
                    /\ file[popup[t].rest[i]].card = popup[t].card
  BY Zenon DEF WalkMeetsOpen
<1>1. WalkInv(t) /\ popup[t].rest # <<>>
  BY DEF SInv, Walking
<1>2. popup[t].at # "idle"
  BY <1>1 DEF WalkInv
<1>3. /\ popup[t].card \in Cards
      /\ popup[t].rest[i] \in Range(card[popup[t].card].listeners)
  BY <1>1, <1>2 DEF WalkInv, Range
<1>4. Range(card[popup[t].card].listeners)
        = {f \in Files : /\ file[f].at \in {"open", "copying"}
                         /\ file[f].type = "TYPE_CARD"
                         /\ file[f].card = popup[t].card}
  BY <1>3, Zenon DEF SInv, ListenersAreOpen
<1> QED
  BY <1>3, <1>4

(* A popup that is about to signal is not disturbed by the others.         *)
LEMMA OwedKept ==
  ASSUME NoLostWakeup, owed' \subseteq owed,
         \A t \in Popups : popup[t].at = "signal" => popup'[t] = popup[t]
  PROVE  NoLostWakeup'
<1> SUFFICES ASSUME NEW f \in owed'
             PROVE  \E t \in Popups : popup'[t].at = "signal" /\ Head(popup'[t].rest) = f
  BY Zenon DEF NoLostWakeup, Listener
<1>1. PICK t \in Popups : popup[t].at = "signal" /\ Head(popup[t].rest) = f
  BY DEF NoLostWakeup, Listener
<1> QED
  BY <1>1

(* A new copy owes nobody a signal: under Calm nobody has a packet for its *)
(* original in hand (DuplicateQueue).                                      *)
LEMMA CopyOwesNothing ==
  ASSUME SInv, Calm, NoLostWakeup, NEW nf \in Files, DuplicateQueue(nf)
  PROVE  owed' \subseteq owed
<1>1. file[nf].at = "copying" /\ CopyInv(nf)
  BY DEF DuplicateQueue, SInv, Copying
<1>2. PICK f \in Files : file[nf].data = <<f>> /\ file[f].card = file[nf].card
  BY <1>1 DEF CopyInv
<1>3. Head(file[nf].data) = f
  BY <1>2
<1>4. f \notin owed
  <2> SUFFICES ASSUME f \in owed PROVE FALSE
    OBVIOUS
  <2>1. PICK t \in Popups : popup[t].at = "signal" /\ Listener(t) = f
    BY DEF NoLostWakeup
  <2>2. popup[t].rest # <<>> /\ popup[t].at # "idle" /\ popup[t].card # file[nf].card
    BY <1>1, <2>1 DEF SInv, Walking, WalkInv, CopyInv
  <2>3. f \in Range(card[popup[t].card].listeners) /\ popup[t].card \in Cards
    BY <2>1, <2>2, ListenerFacts
  <2>4. file[f].card = popup[t].card
    BY <2>3 DEF SInv, ListenersAreOpen
  <2> QED
    BY <1>2, <2>2, <2>4
<1> QED
  BY <1>3, <1>4 DEF DuplicateQueue

(* Every step keeps the promise to signal.                                 *)
LEMMA NextWakeup ==
  ASSUME SInv, Calm, NoLostWakeup, [Next]_vars
  PROVE  NoLostWakeup'
<1>1. CASE UNCHANGED vars
  BY <1>1, OwedKept DEF vars
<1>2. ASSUME NEW f \in Files,
             \/ OpenDir(f) \/ OpenCard(f) \/ service_destroy_pipe(f)
             \/ service_stream_recv(f) \/ \E nf \in Files : service_duplicate_pipe(f, nf)
             \/ \E size \in {1, 1500, 1501} : SendFrame(f, size)
      PROVE  NoLostWakeup'
  <2>1. CASE OpenDir(f) \/ OpenCard(f) \/ service_destroy_pipe(f) \/ service_stream_recv(f)
    BY <2>1, OwedKept DEF OpenDir, OpenCard, service_destroy_pipe, service_stream_recv, Server
  <2>2. ASSUME NEW nf \in Files, service_duplicate_pipe(f, nf) PROVE NoLostWakeup'
    BY <2>2, OwedKept DEF service_duplicate_pipe, Server
  <2>3. ASSUME NEW size \in {1, 1500, 1501}, SendFrame(f, size) PROVE NoLostWakeup'
    BY <2>3, OwedKept DEF SendFrame
  <2> QED
    BY <1>2, <2>1, <2>2, <2>3
<1>3. ASSUME NEW f \in Files, Free(f) \/ service_pipe_set_flag(f)
      PROVE  NoLostWakeup'
  <2>1. popup' = popup /\ owed' \subseteq owed
    BY <1>3 DEF Free, service_pipe_set_flag
  <2> QED
    BY <2>1, OwedKept
<1>4. ASSUME NEW f \in Files, DuplicateQueue(f)
      PROVE  NoLostWakeup'
  <2>1. popup' = popup
    BY <1>4 DEF DuplicateQueue
  <2> QED
    BY <1>4, <2>1, CopyOwesNothing, OwedKept
<1>5. ASSUME NEW c \in Cards,
             \/ cdi_net_device_init(c) \/ ReceiveSend(c) \/ ReceiveDestroy(c)
             \/ \E f \in Files, frame \in Frames : cdi_net_receive(c, f, frame)
      PROVE  NoLostWakeup'
  <2>1. UNCHANGED <<popup, owed>>
    BY <1>5 DEF cdi_net_device_init, ReceiveSend, ReceiveDestroy, cdi_net_receive, Server
  <2> QED
    BY <2>1, OwedKept
<1>6. ASSUME NEW t \in Popups, popup[t].at # "signal", owed' = owed,
             \A u \in Popups : u # t => popup'[u] = popup[u]
      PROVE  NoLostWakeup'
  BY <1>6, OwedKept
<1>7. ASSUME NEW c \in Cards, NEW t \in Popups, eth_receive(t, c)
      PROVE  NoLostWakeup'
  <2>1. popup[t].at = "idle" /\ owed' = owed
    BY <1>7 DEF eth_receive
  <2>2. \A u \in Popups : u # t => popup'[u] = popup[u]
    BY <1>7 DEF eth_receive, SInv, TypeOK
  <2> QED
    BY <1>6, <2>1, <2>2
<1>8. ASSUME NEW t \in Popups, FindEnd(t) \/ WalkEnd(t)
      PROVE  NoLostWakeup'
  <2>1. popup[t].at = "walk" /\ owed' = owed
    BY <1>8 DEF FindEnd, WalkEnd
  <2>2. \A u \in Popups : u # t => popup'[u] = popup[u]
    BY <1>8 DEF FindEnd, WalkEnd, SInv, TypeOK
  <2> QED
    BY <1>6, <2>1, <2>2
<1>9. ASSUME NEW t \in Popups, AppendPacket(t)
      PROVE  NoLostWakeup'
  <2>1. /\ popup[t].at = "append" /\ popup[t] \in PopupType
        /\ popup' = [popup EXCEPT ![t].at = "signal"]
        /\ owed' = owed \/ owed' = owed \cup {Listener(t)}
    BY <1>9 DEF AppendPacket, SInv, TypeOK
  <2>2. /\ popup'[t].at = "signal" /\ popup'[t].rest = popup[t].rest
        /\ \A u \in Popups : u # t => popup'[u] = popup[u]
    BY <2>1 DEF SInv, TypeOK, PopupType
  <2> SUFFICES ASSUME NEW f \in owed'
               PROVE  \E u \in Popups : popup'[u].at = "signal" /\ Head(popup'[u].rest) = f
    BY Zenon DEF NoLostWakeup, Listener
  <2>3. CASE f \in owed
    <3>1. PICK u \in Popups : popup[u].at = "signal" /\ Head(popup[u].rest) = f
      BY <2>3 DEF NoLostWakeup, Listener
    <3> QED
      BY <2>1, <2>2, <3>1
  <2>4. CASE f \notin owed
    BY <2>1, <2>2, <2>4 DEF Listener
  <2> QED
    BY <2>3, <2>4
<1>10. ASSUME NEW t \in Popups, Signal(t)
       PROVE  NoLostWakeup'
  <2>1. /\ owed' = owed \ {Listener(t)}
        /\ \A u \in Popups : u # t => popup'[u] = popup[u]
    BY <1>10 DEF Signal, SInv, TypeOK
  <2> SUFFICES ASSUME NEW f \in owed'
               PROVE  \E u \in Popups : popup'[u].at = "signal" /\ Head(popup'[u].rest) = f
    BY Zenon DEF NoLostWakeup, Listener
  <2>2. PICK u \in Popups : popup[u].at = "signal" /\ Head(popup[u].rest) = f
    BY <2>1 DEF NoLostWakeup, Listener
  <2> QED
    BY <2>1, <2>2 DEF Listener
<1>11. ASSUME NEW f \in Files,
              \/ OpenDir(f) \/ OpenCard(f) \/ service_destroy_pipe(f) \/ Free(f)
              \/ DuplicateQueue(f) \/ service_stream_recv(f) \/ service_pipe_set_flag(f)
              \/ \E nf \in Files : service_duplicate_pipe(f, nf)
              \/ \E size \in {1, 1500, 1501} : SendFrame(f, size)
       PROVE  NoLostWakeup'
  BY <1>11, <1>2, <1>3, <1>4
<1>12. ASSUME NEW c \in Cards,
              \/ cdi_net_device_init(c) \/ ReceiveSend(c) \/ ReceiveDestroy(c)
              \/ \E f \in Files, frame \in Frames : cdi_net_receive(c, f, frame)
              \/ \E t \in Popups : eth_receive(t, c)
       PROVE  NoLostWakeup'
  BY <1>12, <1>5, <1>7
<1>13. ASSUME NEW t \in Popups, FindEnd(t) \/ AppendPacket(t) \/ Signal(t) \/ WalkEnd(t)
       PROVE  NoLostWakeup'
  BY <1>13, <1>8, <1>9, <1>10
<1>14. CASE Next
  BY <1>14, <1>11, <1>12, <1>13 DEF Next
<1> QED
  BY <1>1, <1>14

(* ListsAreLive (eth_receive, service_create_pipe, service_destroy_pipe,   *)
(* service_duplicate_pipe): for any number of files, popups and cards, and *)
(* however the calls come one after the other, a popup on its walk meets   *)
(* only files that are open on its card, and the list of a card has just   *)
(* the files that are.                                                     *)
THEOREM ListsAreLive == Spec => [](WalkMeetsOpen /\ ListenersAreOpen)
<1>1. Init => SInv
  BY InitSInv
<1>2. SInv /\ [Next]_vars => SInv'
  BY NextSInv
<1>3. SInv => WalkMeetsOpen /\ ListenersAreOpen
  BY WalksOpen DEF SInv
<1> QED
  BY <1>1, <1>2, <1>3, PTL DEF Spec

(* ListenersAreServed (eth_receive): in quiet surroundings whoever listens *)
(* to a card is also signalled for every packet it has been given.         *)
THEOREM ListenersAreServed ==
  ASSUME Calm
  PROVE  Spec => []EthCorrect
<1>1. Init => IInv
  BY InitSInv DEF IInv, Init, NoLostWakeup
<1>2. IInv /\ [Next]_vars => IInv'
  BY NextSInv, NextWakeup DEF IInv
<1>3. IInv => EthCorrect
  BY WalksOpen DEF IInv, SInv, EthCorrect
<1> QED
  BY <1>1, <1>2, <1>3, PTL DEF Spec
-----------------------------------------------------------------------------
(* The UDP server.  Files and popups are threads of it and not the same    *)
(* one, and neither is the name of nobody; packets are packets, and there  *)
(* are ports.                                                              *)
Datagrams ==
  /\ Files \cap Popups = {} /\ U!NoOne \notin Files \union Popups
  /\ Packets \subseteq U!PacketType
  /\ MinPort \in Nat /\ MaxPort \in Nat /\ MinPort <= MaxPort

Addresses == Ips \union {U!NoIp}

(* A copy for a client names the host it came from.                        *)
Copies == {r \in [src_ip : Ips, from : Ips] : r.src_ip = r.from}

SockType == [at : {"free", "idle", "prepared", "routed", "unlinked"},
             port : U!Ports \union {U!NoPort}, dest_ip : Addresses,
             inqueue : Seq(Copies), psip : Addresses]

UTypeOK ==
  /\ sock \in [Files -> SockType]
  /\ connections \in Seq(Files)
  /\ port_counter \in U!Ports
  /\ ip_lock \in Files \union Popups \union {U!NoOne}
  /\ ip \in [dest : Addresses, inqueue : Seq(Packets)]
  /\ inc \in [Popups -> [at : {"idle", "loop", "recv"}, src : Addresses]]
  /\ signals \in Nat
  /\ wire \in [to : Addresses, sum : Addresses]

(* Who works on the pipe has its lock.                                     *)
Locked ==
  /\ \A f \in Files : sock[f].at = "routed" => ip_lock = f
  /\ \A t \in Popups : inc[t].at # "idle" => ip_lock = t

(* What a call has written to the pipe or read from it still holds: where  *)
(* it points, and whose packet comes first.                                *)
Steady ==
  /\ \A f \in Files : sock[f].at \in {"prepared", "routed"} => sock[f].psip = sock[f].dest_ip
  /\ \A f \in Files : sock[f].at = "routed" => ip.dest = sock[f].psip
  /\ \A t \in Popups : inc[t].at = "recv" =>
        ip.inqueue # <<>> /\ inc[t].src = Head(ip.inqueue).src

(* The list has every file once, and no file that is on its way out.       *)
Listed ==
  /\ IsInjective(connections)
  /\ \A f \in Range(connections) : sock[f].at \notin {"free", "unlinked"}

UInv == UTypeOK /\ Locked /\ Steady /\ Listed /\ U!SentWhereSummed /\ U!NoLostWakeup

(* Unlinking and the members of the list are the same as above.            *)
LEMMA SameOperators ==
  /\ \A f \in Files : U!Unlink(f) = RemoveFirst(connections, f)
  /\ U!Range(connections) = Range(connections)
<1>1. ASSUME NEW s, NEW e PROVE U!RemoveFirst(s, e) = RemoveFirst(s, e)
  BY DEF U!RemoveFirst, RemoveFirst, U!RemoveAt, RemoveAt, U!SelectInSeq, SelectInSeq, U!Min, Min
<1>2. U!Range(connections) = Range(connections)
  BY DEF U!Range, Range
<1> QED
  BY <1>1, <1>2 DEF U!Unlink

(* The parts of UInv that are about the pipe and the popups.               *)
LEMMA PipeKept ==
  ASSUME UInv, UNCHANGED <<ip_lock, ip, inc, signals, wire>>,
         \A f \in Files : \/ sock'[f].at \notin {"routed", "prepared"}
                          \/ sock'[f] = sock[f]
                          \/ /\ sock'[f].at = sock[f].at /\ sock'[f].psip = sock[f].psip
                             /\ sock'[f].dest_ip = sock[f].dest_ip
  PROVE  Locked' /\ Steady' /\ U!SentWhereSummed' /\ U!NoLostWakeup'
<1>1. Locked'
  BY DEF UInv, Locked
<1>2. Steady'
  BY DEF UInv, Steady
<1>3. U!SentWhereSummed' /\ U!NoLostWakeup'
  BY DEF UInv, U!SentWhereSummed, U!NoLostWakeup
<1> QED
  BY <1>1, <1>2, <1>3

(* One file becomes another record, that is no newcomer to the list.       *)
LEMMA SockSet ==
  ASSUME UTypeOK, NEW f \in Files, NEW r \in SockType, sock' = [sock EXCEPT ![f] = r]
  PROVE  /\ sock' \in [Files -> SockType] /\ sock'[f] = r
         /\ \A g \in Files : g # f => sock'[g] = sock[g]
BY DEF UTypeOK

(* service_create_pipe                                                     *)
LEMMA UCreateKeeps ==
  ASSUME Datagrams, UInv, NEW f \in Files, U!service_create_pipe(f)
  PROVE  UInv'
<1> DEFINE r == U!NewFile(port_counter)
<1>1. /\ sock[f].at = "free" /\ sock' = [sock EXCEPT ![f] = r]
      /\ connections' = <<f>> \o connections
      /\ port_counter' = IF port_counter < MaxPort THEN port_counter + 1 ELSE MinPort
      /\ UNCHANGED <<ip_lock, ip, inc, signals, wire>>
  BY DEF U!service_create_pipe, U!get_user_port
<1>2. r \in SockType /\ r.at = "idle"
  BY EmptySeq DEF U!NewFile, SockType, Addresses, UInv, UTypeOK
<1> HIDE DEF r
<1>3. /\ sock' \in [Files -> SockType] /\ sock'[f] = r
      /\ \A g \in Files : g # f => sock'[g] = sock[g]
  BY <1>1, <1>2, SockSet DEF UInv
<1>4. port_counter' \in U!Ports
  BY <1>1 DEF Datagrams, U!Ports, UInv, UTypeOK
<1>5. connections \in Seq(Files) /\ IsInjective(connections) /\ f \notin Range(connections)
  BY <1>1 DEF UInv, UTypeOK, Listed
<1>6. /\ connections' \in Seq(Files) /\ IsInjective(connections')
      /\ Range(connections') = Range(connections) \union {f}
  BY <1>1, <1>5, PushFacts
<1>7. UTypeOK'
  BY <1>1, <1>3, <1>4, <1>6 DEF UInv, UTypeOK
<1>8. Listed'
  <2>1. Range(connections) \subseteq Files
    BY <1>5, RangeOfSeq
  <2> QED
    BY <1>2, <1>3, <1>6, <2>1 DEF UInv, Listed
<1>9. Locked' /\ Steady' /\ U!SentWhereSummed' /\ U!NoLostWakeup'
  BY <1>1, <1>2, <1>3, PipeKept
<1> QED
  BY <1>7, <1>8, <1>9 DEF UInv
(* A step of a client that changes its file only, and not the list.        *)
LEMMA SockStep ==
  ASSUME UInv, NEW f \in Files, NEW r \in SockType, sock' = [sock EXCEPT ![f] = r],
         UNCHANGED <<connections, port_counter, ip_lock, ip, inc, signals, wire>>,
         \/ r.at = "idle" /\ sock[f].at = "idle"
         \/ r.at = "free" /\ sock[f].at = "unlinked"
  PROVE  UInv'
<1>1. /\ sock' \in [Files -> SockType] /\ sock'[f] = r
      /\ \A g \in Files : g # f => sock'[g] = sock[g]
  BY SockSet DEF UInv
<1>2. UTypeOK'
  BY <1>1 DEF UInv, UTypeOK
<1>3. Listed'
  <2>1. Range(connections) \subseteq Files
    BY RangeOfSeq DEF UInv, UTypeOK
  <2>2. \A g \in Range(connections) : sock'[g].at \notin {"free", "unlinked"}
    BY <1>1, <2>1 DEF UInv, Listed
  <2> QED
    BY <2>2 DEF UInv, Listed
<1>4. Locked' /\ Steady' /\ U!SentWhereSummed' /\ U!NoLostWakeup'
  BY <1>1, PipeKept
<1> QED
  BY <1>2, <1>3, <1>4 DEF UInv

(* service_stream_recv, service_pipe_set_flag and the end of               *)
(* service_destroy_pipe                                                    *)
LEMMA UFileKeeps ==
  ASSUME Datagrams, UInv, NEW f \in Files,
         U!service_stream_recv(f) \/ U!service_pipe_set_flag(f) \/ U!Free(f)
  PROVE  UInv'
<1>0. sock[f] \in SockType /\ sock \in [Files -> SockType]
  BY DEF UInv, UTypeOK
<1>1. CASE U!service_stream_recv(f)
  <2> DEFINE r == [sock[f] EXCEPT !.inqueue = Tail(@)]
  <2>1. /\ sock[f].at = "idle" /\ sock' = [sock EXCEPT ![f] = r]
        /\ U!service_pipe_get_flag(f, "F_READABLE")
        /\ UNCHANGED <<connections, port_counter, ip_lock, ip, inc, signals, wire>>
    BY <1>0, <1>1 DEF U!service_stream_recv
  <2>2. sock[f].inqueue # <<>>
    BY <2>1, Zenon DEF U!service_pipe_get_flag
  <2>3. r \in SockType /\ r.at = "idle"
    <3>1. Tail(sock[f].inqueue) \in Seq(Copies)
      BY <1>0, <2>2, TailType DEF SockType
    <3> QED
      BY <1>0, <2>1, <3>1 DEF SockType
  <2> HIDE DEF r
  <2> QED
    BY <2>1, <2>3, SockStep
<1>2. CASE U!service_pipe_set_flag(f)
  <2>1. /\ sock[f].at = "idle"
        /\ UNCHANGED <<connections, port_counter, ip_lock, ip, inc, signals, wire>>
    BY <1>2 DEF U!service_pipe_set_flag
  <2>2. ASSUME NEW a \in Ips, sock' = [sock EXCEPT ![f].dest_ip = a] PROVE UInv'
    <3> DEFINE r == [sock[f] EXCEPT !.dest_ip = a]
    <3>1. sock' = [sock EXCEPT ![f] = r] /\ r \in SockType /\ r.at = "idle"
      BY <1>0, <2>1, <2>2 DEF SockType, Addresses
    <3> HIDE DEF r
    <3> QED
      BY <2>1, <3>1, SockStep
  <2>3. ASSUME NEW p \in U!Ports, sock' = [sock EXCEPT ![f].port = p] PROVE UInv'
    <3> DEFINE r == [sock[f] EXCEPT !.port = p]
    <3>1. sock' = [sock EXCEPT ![f] = r] /\ r \in SockType /\ r.at = "idle"
      BY <1>0, <2>1, <2>3 DEF SockType
    <3> HIDE DEF r
    <3> QED
      BY <2>1, <3>1, SockStep
  <2> QED
    BY <1>2, <2>2, <2>3 DEF U!service_pipe_set_flag
<1>3. CASE U!Free(f)
  <2>1. /\ sock[f].at = "unlinked" /\ sock' = [sock EXCEPT ![f] = U!NoFile]
        /\ UNCHANGED <<connections, port_counter, ip_lock, ip, inc, signals, wire>>
    BY <1>3 DEF U!Free
  <2>2. U!NoFile \in SockType /\ U!NoFile.at = "free"
    BY EmptySeq DEF U!NoFile, U!NewFile, SockType, Addresses
  <2> QED
    BY <2>1, <2>2, SockStep
<1> QED
  BY <1>1, <1>2, <1>3

(* The beginning of service_destroy_pipe                                   *)
LEMMA UUnlinkKeeps ==
  ASSUME Datagrams, UInv, NEW f \in Files, U!service_destroy_pipe(f)
  PROVE  UInv'
<1> DEFINE r == [sock[f] EXCEPT !.at = "unlinked"]
<1>0. sock[f] \in SockType /\ sock \in [Files -> SockType] /\ connections \in Seq(Files)
  BY DEF UInv, UTypeOK
<1>1. /\ sock[f].at = "idle" /\ sock' = [sock EXCEPT ![f] = r]
      /\ connections' = RemoveFirst(connections, f)
      /\ UNCHANGED <<port_counter, ip_lock, ip, inc, signals, wire>>
  BY <1>0, SameOperators DEF U!service_destroy_pipe, U!Goto
<1>2. r \in SockType /\ r.at = "unlinked"
  BY <1>0 DEF SockType
<1> HIDE DEF r
<1>3. /\ sock' \in [Files -> SockType] /\ sock'[f] = r
      /\ \A g \in Files : g # f => sock'[g] = sock[g]
  BY <1>1, <1>2, SockSet DEF UInv
<1>4. /\ connections' \in Seq(Files) /\ IsInjective(connections')
      /\ Range(connections') = Range(connections) \ {f}
  <2>1. CASE f \in Range(connections)
    BY <1>0, <1>1, <2>1, RemoveFirstFacts DEF UInv, Listed
  <2>2. CASE f \notin Range(connections)
    <3>1. ~\E i \in 1 .. Len(connections) : connections[i] = f
      BY <1>0, <2>2, LenProperties DEF Range
    <3>2. connections' = connections
      BY <1>1, <3>1 DEF RemoveFirst
    <3> QED
      BY <1>0, <2>2, <3>2 DEF UInv, Listed
  <2> QED
    BY <2>1, <2>2
<1>5. UTypeOK'
  BY <1>1, <1>3, <1>4 DEF UInv, UTypeOK
<1>6. Listed'
  <2>1. Range(connections) \subseteq Files
    BY <1>0, RangeOfSeq
  <2> QED
    BY <1>3, <1>4, <2>1 DEF UInv, Listed
<1>7. Locked' /\ Steady' /\ U!SentWhereSummed' /\ U!NoLostWakeup'
  BY <1>1, <1>2, <1>3, PipeKept
<1> QED
  BY <1>5, <1>6, <1>7 DEF UInv

-----------------------------------------------------------------------------
(* The first part of service_stream_send: nobody is on the pipe.           *)
LEMMA PrepareKeeps ==
  ASSUME Datagrams, UInv, NEW f \in Files, U!SendPrepare(f)
  PROVE  UInv'
<1> DEFINE r == [sock[f] EXCEPT !.at = "prepared", !.psip = sock[f].dest_ip]
<1>0. sock[f] \in SockType /\ sock \in [Files -> SockType]
  BY DEF UInv, UTypeOK
<1>1. /\ sock[f].at = "idle" /\ ip_lock = U!NoOne
      /\ ip' = [ip EXCEPT !.dest = sock[f].dest_ip]
      /\ sock' = [sock EXCEPT ![f] = r]
      /\ UNCHANGED <<connections, port_counter, ip_lock, inc, signals, wire>>
  BY <1>0 DEF U!SendPrepare
<1>2. r \in SockType /\ r.at = "prepared" /\ r.psip = r.dest_ip
  BY <1>0 DEF SockType
<1> HIDE DEF r
<1>3. /\ sock' \in [Files -> SockType] /\ sock'[f] = r
      /\ \A g \in Files : g # f => sock'[g] = sock[g]
  BY <1>1, <1>2, SockSet DEF UInv
<1>4. ip' \in [dest : Addresses, inqueue : Seq(Packets)] /\ ip'.inqueue = ip.inqueue
  BY <1>0, <1>1 DEF UInv, UTypeOK, SockType
<1>5. /\ \A g \in Files : sock[g].at # "routed"
      /\ \A t \in Popups : inc[t].at = "idle"
  <2>1. U!NoOne \notin Files /\ U!NoOne \notin Popups
    BY DEF Datagrams
  <2> QED
    BY <1>1, <2>1 DEF UInv, Locked
<1>6. UTypeOK'
  BY <1>1, <1>3, <1>4 DEF UInv, UTypeOK
<1>7. Listed'
  <2>1. Range(connections) \subseteq Files
    BY RangeOfSeq DEF UInv, UTypeOK
  <2>2. \A g \in Range(connections) : sock'[g].at \notin {"free", "unlinked"}
    BY <1>2, <1>3, <2>1 DEF UInv, Listed
  <2> QED
    BY <1>1, <2>2 DEF UInv, Listed
<1>8. Locked' /\ Steady'
  BY <1>1, <1>2, <1>3, <1>5 DEF UInv, Locked, Steady
<1>9. U!SentWhereSummed' /\ U!NoLostWakeup'
  BY <1>1, <1>4 DEF UInv, U!SentWhereSummed, U!NoLostWakeup
<1> QED
  BY <1>6, <1>7, <1>8, <1>9 DEF UInv

(* The second part takes the lock and points the pipe.                     *)
LEMMA RouteKeeps ==
  ASSUME Datagrams, UInv, NEW f \in Files, U!SendRoute(f)
  PROVE  UInv'
<1> DEFINE r == [sock[f] EXCEPT !.at = "routed"]
<1>0. sock[f] \in SockType /\ sock \in [Files -> SockType]
  BY DEF UInv, UTypeOK
<1>1. /\ sock[f].at = "prepared" /\ ip_lock = U!NoOne /\ ip_lock' = f
      /\ ip' = [ip EXCEPT !.dest = sock[f].dest_ip]
      /\ sock' = [sock EXCEPT ![f] = r]
      /\ UNCHANGED <<connections, port_counter, inc, signals, wire>>
  BY <1>0 DEF U!SendRoute, U!Goto
<1>2. r \in SockType /\ r.at = "routed" /\ r.psip = sock[f].psip /\ r.dest_ip = sock[f].dest_ip
  BY <1>0 DEF SockType
<1> HIDE DEF r
<1>3. /\ sock' \in [Files -> SockType] /\ sock'[f] = r
      /\ \A g \in Files : g # f => sock'[g] = sock[g]
  BY <1>1, <1>2, SockSet DEF UInv
<1>4. /\ ip' \in [dest : Addresses, inqueue : Seq(Packets)] /\ ip'.inqueue = ip.inqueue
      /\ ip'.dest = sock[f].dest_ip
  BY <1>0, <1>1 DEF UInv, UTypeOK, SockType
<1>5. /\ \A g \in Files : sock[g].at # "routed"
      /\ \A t \in Popups : inc[t].at = "idle"
  <2>1. U!NoOne \notin Files /\ U!NoOne \notin Popups
    BY DEF Datagrams
  <2> QED
    BY <1>1, <2>1 DEF UInv, Locked
<1>6. UTypeOK'
  BY <1>1, <1>3, <1>4 DEF UInv, UTypeOK
<1>7. Listed'
  <2>1. Range(connections) \subseteq Files
    BY RangeOfSeq DEF UInv, UTypeOK
  <2>2. \A g \in Range(connections) : sock'[g].at \notin {"free", "unlinked"}
    BY <1>2, <1>3, <2>1 DEF UInv, Listed
  <2> QED
    BY <1>1, <2>2 DEF UInv, Listed
<1>8. Locked' /\ Steady'
  <2>1. sock[f].psip = sock[f].dest_ip
    BY <1>1 DEF UInv, Steady
  <2> QED
    BY <1>1, <1>2, <1>3, <1>4, <1>5, <2>1 DEF UInv, Locked, Steady
<1>9. U!SentWhereSummed' /\ U!NoLostWakeup'
  BY <1>1, <1>4 DEF UInv, U!SentWhereSummed, U!NoLostWakeup
<1> QED
  BY <1>6, <1>7, <1>8, <1>9 DEF UInv

(* The datagram leaves, and the lock is free again.                        *)
LEMMA SendOutKeeps ==
  ASSUME Datagrams, UInv, NEW f \in Files, U!SendOut(f)
  PROVE  UInv'
<1> DEFINE r == [sock[f] EXCEPT !.at = "idle", !.psip = U!NoIp]
<1>0. sock[f] \in SockType /\ sock \in [Files -> SockType]
  BY DEF UInv, UTypeOK
<1>1. /\ sock[f].at = "routed" /\ ip_lock' = U!NoOne
      /\ wire' = [to |-> ip.dest, sum |-> sock[f].psip]
      /\ sock' = [sock EXCEPT ![f] = r]
      /\ UNCHANGED <<connections, port_counter, ip, inc, signals>>
  BY <1>0 DEF U!SendOut
<1>2. r \in SockType /\ r.at = "idle"
  BY <1>0 DEF SockType, Addresses
<1> HIDE DEF r
<1>3. /\ sock' \in [Files -> SockType] /\ sock'[f] = r
      /\ \A g \in Files : g # f => sock'[g] = sock[g]
  BY <1>1, <1>2, SockSet DEF UInv
<1>4. wire' \in [to : Addresses, sum : Addresses] /\ wire'.to = wire'.sum
  <2>1. ip.dest = sock[f].psip /\ sock[f].psip \in Addresses
    BY <1>0, <1>1 DEF UInv, Steady, SockType
  <2> QED
    BY <1>1, <2>1
<1>5. /\ \A g \in Files : g # f => sock[g].at # "routed"
      /\ \A t \in Popups : inc[t].at = "idle"
  <2>1. ip_lock = f /\ f \notin Popups
    BY <1>1 DEF UInv, Locked, Datagrams
  <2> QED
    BY <2>1 DEF UInv, Locked
<1>6. UTypeOK'
  BY <1>1, <1>3, <1>4 DEF UInv, UTypeOK
<1>7. Listed'
  <2>1. Range(connections) \subseteq Files
    BY RangeOfSeq DEF UInv, UTypeOK
  <2>2. \A g \in Range(connections) : sock'[g].at \notin {"free", "unlinked"}
    BY <1>2, <1>3, <2>1 DEF UInv, Listed
  <2> QED
    BY <1>1, <2>2 DEF UInv, Listed
<1>8. Locked' /\ Steady'
  BY <1>1, <1>2, <1>3, <1>5 DEF UInv, Locked, Steady
<1>9. U!SentWhereSummed' /\ U!NoLostWakeup'
  BY <1>1, <1>4 DEF UInv, U!SentWhereSummed, U!NoLostWakeup
<1> QED
  BY <1>6, <1>7, <1>8, <1>9 DEF UInv
-----------------------------------------------------------------------------
(* The clients are where they were, and nobody of them is on the pipe.     *)
LEMMA PopupHolds ==
  ASSUME Datagrams, UInv, NEW t \in Popups, inc[t].at # "idle"
  PROVE  /\ ip_lock = t
         /\ \A f \in Files : sock[f].at # "routed"
         /\ \A u \in Popups : u # t => inc[u].at = "idle"
<1>1. ip_lock = t /\ t \notin Files
  BY DEF UInv, Locked, Datagrams
<1> QED
  BY <1>1 DEF UInv, Locked

(* A popup of the server is replaced by another record.                    *)
LEMMA IncSet ==
  ASSUME UTypeOK, NEW t \in Popups, NEW r \in [at : {"idle", "loop", "recv"}, src : Addresses],
         inc' = [inc EXCEPT ![t] = r]
  PROVE  /\ inc' \in [Popups -> [at : {"idle", "loop", "recv"}, src : Addresses]]
         /\ inc'[t] = r /\ \A u \in Popups : u # t => inc'[u] = inc[u]
BY DEF UTypeOK

(* The list is not changed by what does not end a file.                    *)
LEMMA ListedKeptU ==
  ASSUME UInv, connections' = connections,
         \A f \in Files : sock'[f].at = sock[f].at
  PROVE  Listed'
<1>1. Range(connections) \subseteq Files
  BY RangeOfSeq DEF UInv, UTypeOK
<1>2. \A g \in Range(connections) : sock'[g].at \notin {"free", "unlinked"}
  BY <1>1 DEF UInv, Listed
<1> QED
  BY <1>2 DEF UInv, Listed

(* A signal of the IP server gets its popup.                               *)
LEMMA IncomingKeeps ==
  ASSUME Datagrams, UInv, NEW t \in Popups, U!incoming(t)
  PROVE  UInv'
<1> DEFINE r == [inc[t] EXCEPT !.at = "loop"]
<1>0. inc[t] \in [at : {"idle", "loop", "recv"}, src : Addresses]
      /\ inc \in [Popups -> [at : {"idle", "loop", "recv"}, src : Addresses]] /\ signals \in Nat
  BY DEF UInv, UTypeOK
<1>1. /\ signals > 0 /\ signals' = signals - 1
      /\ ip_lock = U!NoOne /\ ip_lock' = t
      /\ inc' = [inc EXCEPT ![t] = r]
      /\ UNCHANGED <<sock, connections, port_counter, ip, wire>>
  BY <1>0 DEF U!incoming
<1>2. r \in [at : {"idle", "loop", "recv"}, src : Addresses] /\ r.at = "loop"
  BY <1>0
<1> HIDE DEF r
<1>3. /\ inc' \in [Popups -> [at : {"idle", "loop", "recv"}, src : Addresses]]
      /\ inc'[t] = r /\ \A u \in Popups : u # t => inc'[u] = inc[u]
  BY <1>1, <1>2, IncSet DEF UInv
<1>4. /\ \A f \in Files : sock[f].at # "routed"
      /\ \A u \in Popups : inc[u].at = "idle"
  <2>1. U!NoOne \notin Files /\ U!NoOne \notin Popups
    BY DEF Datagrams
  <2> QED
    BY <1>1, <2>1 DEF UInv, Locked
<1>5. UTypeOK'
  BY <1>0, <1>1, <1>3 DEF UInv, UTypeOK
<1>6. Locked' /\ Steady'
  BY <1>1, <1>2, <1>3, <1>4 DEF UInv, Locked, Steady
<1>7. Listed'
  BY <1>1, ListedKeptU
<1>8. U!SentWhereSummed' /\ U!NoLostWakeup'
  BY <1>1, <1>2, <1>3 DEF UInv, U!SentWhereSummed, U!NoLostWakeup
<1> QED
  BY <1>5, <1>6, <1>7, <1>8 DEF UInv

(* It leaves when the queue is empty.                                      *)
LEMMA LoopEndKeeps ==
  ASSUME Datagrams, UInv, NEW t \in Popups, U!LoopEnd(t)
  PROVE  UInv'
<1> DEFINE r == [inc[t] EXCEPT !.at = "idle"]
<1>0. inc[t] \in [at : {"idle", "loop", "recv"}, src : Addresses]
      /\ inc \in [Popups -> [at : {"idle", "loop", "recv"}, src : Addresses]]
  BY DEF UInv, UTypeOK
<1>1. /\ inc[t].at = "loop" /\ ip_lock' = U!NoOne
      /\ inc' = [inc EXCEPT ![t] = r]
      /\ UNCHANGED <<sock, connections, port_counter, ip, signals, wire>>
  BY <1>0 DEF U!LoopEnd
<1>2. ip.inqueue = <<>>
  <2>1. ~U!IpFlag("F_READABLE")
    BY DEF U!LoopEnd
  <2> QED
    BY <2>1, Zenon DEF U!IpFlag
<1>3. r \in [at : {"idle", "loop", "recv"}, src : Addresses] /\ r.at = "idle"
  BY <1>0
<1> HIDE DEF r
<1>4. /\ inc' \in [Popups -> [at : {"idle", "loop", "recv"}, src : Addresses]]
      /\ inc'[t] = r /\ \A u \in Popups : u # t => inc'[u] = inc[u]
  BY <1>1, <1>3, IncSet DEF UInv
<1>5. /\ \A f \in Files : sock[f].at # "routed"
      /\ \A u \in Popups : u # t => inc[u].at = "idle"
  BY <1>1, PopupHolds
<1>6. UTypeOK'
  BY <1>1, <1>4 DEF UInv, UTypeOK
<1>7. Locked' /\ Steady'
  BY <1>1, <1>3, <1>4, <1>5 DEF UInv, Locked, Steady
<1>8. Listed'
  BY <1>1, ListedKeptU
<1>9. U!SentWhereSummed' /\ U!NoLostWakeup'
  BY <1>1, <1>2 DEF UInv, U!SentWhereSummed, U!NoLostWakeup
<1> QED
  BY <1>6, <1>7, <1>8, <1>9 DEF UInv

(* It reads the source of the first packet: the packet stays the first as  *)
(* long as nobody else is on the pipe.                                     *)
LEMMA ReadFlagsKeeps ==
  ASSUME Datagrams, UInv, NEW t \in Popups, U!ReadFlags(t)
  PROVE  UInv'
<1>1. /\ inc[t].at = "loop" /\ U!IpFlag("F_READABLE")
      /\ inc' = [inc EXCEPT ![t] = [at |-> "recv", src |-> U!IpFlag("F_SRC_IP")]]
      /\ UNCHANGED <<sock, connections, port_counter, ip_lock, ip, signals, wire>>
  BY DEF U!ReadFlags
<1>2. ip.inqueue # <<>>
  BY <1>1, Zenon DEF U!IpFlag
<1>3. U!IpFlag("F_SRC_IP") = Head(ip.inqueue).src
  <2>1. U!IpFlag("F_SRC_IP") = IF ip.inqueue # <<>> THEN Head(ip.inqueue).src ELSE U!NoIp
    BY Zenon DEF U!IpFlag
  <2> QED
    BY <1>2, <2>1
<1> DEFINE r == [at |-> "recv", src |-> U!IpFlag("F_SRC_IP")]
<1>4. /\ r \in [at : {"idle", "loop", "recv"}, src : Addresses]
      /\ r.at = "recv" /\ r.src = Head(ip.inqueue).src
  <2>1. Head(ip.inqueue) \in U!PacketType
    BY <1>2, TailType DEF UInv, UTypeOK, Datagrams
  <2> QED
    BY <1>3, <2>1 DEF U!PacketType, Addresses
<1>5. inc' = [inc EXCEPT ![t] = r]
  BY <1>1
<1> HIDE DEF r
<1>6. /\ inc' \in [Popups -> [at : {"idle", "loop", "recv"}, src : Addresses]]
      /\ inc'[t] = r /\ \A u \in Popups : u # t => inc'[u] = inc[u]
  BY <1>4, <1>5, IncSet DEF UInv
<1>7. /\ ip_lock = t
      /\ \A u \in Popups : u # t => inc[u].at = "idle"
  BY <1>1, PopupHolds
<1>8. UTypeOK'
  BY <1>1, <1>6 DEF UInv, UTypeOK
<1>9. Locked' /\ Steady'
  BY <1>1, <1>2, <1>4, <1>6, <1>7 DEF UInv, Locked, Steady
<1>10. Listed'
  BY <1>1, ListedKeptU
<1>11. U!SentWhereSummed' /\ U!NoLostWakeup'
  BY <1>1, <1>4, <1>6 DEF UInv, U!SentWhereSummed, U!NoLostWakeup
<1> QED
  BY <1>8, <1>9, <1>10, <1>11 DEF UInv
(* A packet of another protocol leaves the queue.                          *)
LEMMA FlushOtherKeeps ==
  ASSUME Datagrams, UInv, NEW t \in Popups, U!FlushOther(t)
  PROVE  UInv'
<1>0. ip \in [dest : Addresses, inqueue : Seq(Packets)]
  BY DEF UInv, UTypeOK
<1>1. /\ inc[t].at = "loop" /\ U!IpFlag("F_READABLE")
      /\ ip' = [ip EXCEPT !.inqueue = Tail(@)]
      /\ UNCHANGED <<sock, connections, port_counter, ip_lock, inc, signals, wire>>
  BY DEF U!FlushOther
<1>2. ip.inqueue # <<>>
  BY <1>1, Zenon DEF U!IpFlag
<1>3. ip' \in [dest : Addresses, inqueue : Seq(Packets)] /\ ip'.dest = ip.dest
  BY <1>0, <1>1, <1>2, TailType
<1>4. /\ ip_lock = t
      /\ \A f \in Files : sock[f].at # "routed"
      /\ \A u \in Popups : u # t => inc[u].at = "idle"
  BY <1>1, PopupHolds
<1>5. UTypeOK'
  BY <1>1, <1>3 DEF UInv, UTypeOK
<1>6. Locked' /\ Steady'
  BY <1>1, <1>3, <1>4 DEF UInv, Locked, Steady
<1>7. Listed'
  BY <1>1, ListedKeptU
<1>8. U!SentWhereSummed' /\ U!NoLostWakeup'
  BY <1>1 DEF UInv, U!SentWhereSummed, U!NoLostWakeup
<1> QED
  BY <1>5, <1>6, <1>7, <1>8 DEF UInv

(* Every file is given a copy that names the true source, or none.         *)
LEMMA DeliverFacts ==
  ASSUME UTypeOK, NEW p \in U!PacketType, NEW f \in Files
  PROVE  LET g == U!Deliver(p, p.src)[f] IN
         /\ g \in SockType /\ g.at = sock[f].at
         /\ g.psip = sock[f].psip /\ g.dest_ip = sock[f].dest_ip
<1> DEFINE c == [src_ip |-> p.src, from |-> p.src]
           r == [sock[f] EXCEPT !.inqueue = Append(@, c)]
<1>1. sock[f] \in SockType
  BY DEF UTypeOK
<1>2. c \in Copies
  BY DEF Copies, U!PacketType
<1>3. Append(sock[f].inqueue, c) \in Seq(Copies)
  <2>1. sock[f].inqueue \in Seq(Copies)
    BY <1>1 DEF SockType
  <2> HIDE DEF c
  <2> QED
    BY <1>2, <2>1, AppendProperties
<1>4. /\ r \in SockType /\ r.at = sock[f].at
      /\ r.psip = sock[f].psip /\ r.dest_ip = sock[f].dest_ip
  <2> HIDE DEF c
  <2> QED
    BY <1>1, <1>3 DEF SockType
<1>5. U!Deliver(p, p.src)[f] = r \/ U!Deliver(p, p.src)[f] = sock[f]
  BY DEF U!Deliver
<1> HIDE DEF r
<1> QED
  BY <1>1, <1>4, <1>5

(* The packet is the one whose source has been read.                       *)
LEMMA RecvPacketKeeps ==
  ASSUME Datagrams, UInv, NEW t \in Popups, U!RecvPacket(t)
  PROVE  UInv'
<1> DEFINE p == Head(ip.inqueue)
           r == [at |-> "loop", src |-> U!NoIp]
<1>0. ip \in [dest : Addresses, inqueue : Seq(Packets)] /\ sock \in [Files -> SockType]
  BY DEF UInv, UTypeOK
<1>1. /\ inc[t].at = "recv" /\ ip.inqueue # <<>>
      /\ sock' = IF U!ChecksumOk(p, inc[t].src) THEN U!Deliver(p, inc[t].src) ELSE sock
      /\ ip' = [ip EXCEPT !.inqueue = Tail(@)]
      /\ inc' = [inc EXCEPT ![t] = r]
      /\ UNCHANGED <<connections, port_counter, ip_lock, signals, wire>>
  BY DEF U!RecvPacket
<1>2. p \in U!PacketType /\ inc[t].src = p.src
  BY <1>0, <1>1, TailType DEF Datagrams, UInv, Steady
<1>3. r \in [at : {"idle", "loop", "recv"}, src : Addresses] /\ r.at = "loop"
  BY DEF Addresses
<1>4. sock' = U!Deliver(p, p.src) \/ sock' = sock
  BY <1>1, <1>2
<1> HIDE DEF p, r
<1>5. \A f \in Files :
        /\ sock'[f] \in SockType /\ sock'[f].at = sock[f].at
        /\ sock'[f].psip = sock[f].psip /\ sock'[f].dest_ip = sock[f].dest_ip
  <2>1. CASE sock' = sock
    BY <1>0, <2>1
  <2>2. CASE sock' = U!Deliver(p, p.src)
    BY <1>2, <2>2, DeliverFacts DEF UInv
  <2> QED
    BY <1>4, <2>1, <2>2
<1>6. sock' \in [Files -> SockType]
  <2>1. sock' = [f \in Files |-> sock'[f]]
    BY <1>0, <1>4 DEF U!Deliver
  <2> QED
    BY <1>5, <2>1
<1>7. ip' \in [dest : Addresses, inqueue : Seq(Packets)] /\ ip'.dest = ip.dest
  BY <1>0, <1>1, TailType
<1>8. /\ inc' \in [Popups -> [at : {"idle", "loop", "recv"}, src : Addresses]]
      /\ inc'[t] = r /\ \A u \in Popups : u # t => inc'[u] = inc[u]
  BY <1>1, <1>3, IncSet DEF UInv
<1>9. /\ ip_lock = t
      /\ \A f \in Files : sock[f].at # "routed"
      /\ \A u \in Popups : u # t => inc[u].at = "idle"
  BY <1>1, PopupHolds
<1>10. UTypeOK'
  BY <1>1, <1>6, <1>7, <1>8 DEF UInv, UTypeOK
<1>11. Locked' /\ Steady'
  <2>1. Locked'
    BY <1>1, <1>3, <1>5, <1>8, <1>9 DEF Locked
  <2>2. \A f \in Files : sock[f].at \in {"prepared", "routed"} => sock[f].psip = sock[f].dest_ip
    BY DEF UInv, Steady
  <2>3. Steady'
    BY <1>3, <1>5, <1>8, <1>9, <2>2 DEF Steady
  <2> QED
    BY <2>1, <2>3
<1>12. Listed'
  BY <1>1, <1>5, ListedKeptU
<1>13. U!SentWhereSummed' /\ U!NoLostWakeup'
  BY <1>1, <1>3, <1>8 DEF UInv, U!SentWhereSummed, U!NoLostWakeup
<1> QED
  BY <1>10, <1>11, <1>12, <1>13 DEF UInv

(* A packet of another host goes to the end of the queue, with a signal.   *)
LEMMA ArriveKeeps ==
  ASSUME Datagrams, UInv, NEW p \in Packets, U!Arrive(p)
  PROVE  UInv'
<1>0. ip \in [dest : Addresses, inqueue : Seq(Packets)] /\ signals \in Nat
  BY DEF UInv, UTypeOK
<1>1. /\ ip' = [ip EXCEPT !.inqueue = Append(@, p)] /\ signals' = signals + 1
      /\ UNCHANGED <<sock, connections, port_counter, ip_lock, inc, wire>>
  BY DEF U!Arrive
<1>2. /\ Append(ip.inqueue, p) \in Seq(Packets) /\ Append(ip.inqueue, p) # <<>>
      /\ ip.inqueue # <<>> => Head(Append(ip.inqueue, p)) = Head(ip.inqueue)
  BY <1>0, AppendProperties, HeadTailAppend
<1>3. /\ ip' \in [dest : Addresses, inqueue : Seq(Packets)] /\ ip'.dest = ip.dest
      /\ ip'.inqueue # <<>>
      /\ ip.inqueue # <<>> => Head(ip'.inqueue) = Head(ip.inqueue)
  BY <1>0, <1>1, <1>2
<1>4. UTypeOK'
  BY <1>0, <1>1, <1>3 DEF UInv, UTypeOK
<1>5. Locked' /\ Steady'
  BY <1>1, <1>3 DEF UInv, Locked, Steady
<1>6. Listed'
  BY <1>1, ListedKeptU
<1>7. U!SentWhereSummed' /\ U!NoLostWakeup'
  BY <1>0, <1>1 DEF UInv, U!SentWhereSummed, U!NoLostWakeup
<1> QED
  BY <1>4, <1>5, <1>6, <1>7 DEF UInv

(* Every step of the UDP server keeps UInv.                                *)
LEMMA NextUInv ==
  ASSUME Datagrams, UInv, [U!Next]_(U!vars)
  PROVE  UInv'
<1>1. CASE UNCHANGED U!vars
  BY <1>1 DEF U!vars, UInv, UTypeOK, Locked, Steady, Listed, U!SentWhereSummed, U!NoLostWakeup
<1>2. ASSUME NEW f \in Files, U!service_create_pipe(f) PROVE UInv'
  BY <1>2, UCreateKeeps
<1>3. ASSUME NEW f \in Files, U!service_destroy_pipe(f) PROVE UInv'
  BY <1>3, UUnlinkKeeps
<1>4. ASSUME NEW f \in Files,
             U!Free(f) \/ U!service_stream_recv(f) \/ U!service_pipe_set_flag(f)
      PROVE  UInv'
  BY <1>4, UFileKeeps
<1>5. ASSUME NEW f \in Files, U!SendPrepare(f) PROVE UInv'
  BY <1>5, PrepareKeeps
<1>6. ASSUME NEW f \in Files, U!SendRoute(f) PROVE UInv'
  BY <1>6, RouteKeeps
<1>7. ASSUME NEW f \in Files, U!SendOut(f) PROVE UInv'
  BY <1>7, SendOutKeeps
<1>8. ASSUME NEW t \in Popups, U!incoming(t) PROVE UInv'
  BY <1>8, IncomingKeeps
<1>9. ASSUME NEW t \in Popups, U!LoopEnd(t) PROVE UInv'
  BY <1>9, LoopEndKeeps
<1>10. ASSUME NEW t \in Popups, U!FlushOther(t) PROVE UInv'
  BY <1>10, FlushOtherKeeps
<1>11. ASSUME NEW t \in Popups, U!ReadFlags(t) PROVE UInv'
  BY <1>11, ReadFlagsKeeps
<1>12. ASSUME NEW t \in Popups, U!RecvPacket(t) PROVE UInv'
  BY <1>12, RecvPacketKeeps
<1>13. ASSUME NEW p \in Packets, U!Arrive(p) PROVE UInv'
  BY <1>13, ArriveKeeps
<1>14. CASE U!Next
  BY <1>2, <1>3, <1>4, <1>5, <1>6, <1>7, <1>8, <1>9, <1>10, <1>11, <1>12, <1>13, <1>14
     DEF U!Next
<1> QED
  BY <1>1, <1>14

(* At the start nobody is on the pipe and nothing is in it.                *)
LEMMA InitUInv ==
  ASSUME Datagrams, U!Init
  PROVE  UInv
<1>1. U!NoFile \in SockType /\ U!NoFile.at = "free"
  BY EmptySeq DEF U!NoFile, U!NewFile, SockType, Addresses
<1>2. connections \in Seq(Files) /\ Range(connections) = {} /\ IsInjective(connections)
  BY EmptySeq DEF U!Init, Range, IsInjective
<1>3. \A f \in Files : sock[f] = U!NoFile
  BY DEF U!Init
<1> HIDE DEF U!NoFile
<1>4. UTypeOK
  <2>1. sock \in [Files -> SockType]
    BY <1>1 DEF U!Init
  <2>2. port_counter \in U!Ports
    BY DEF U!Init, U!Ports, Datagrams
  <2>3. ip \in [dest : Addresses, inqueue : Seq(Packets)]
    BY EmptySeq DEF U!Init, Addresses
  <2> QED
    BY <1>2, <2>1, <2>2, <2>3 DEF U!Init, UTypeOK, Addresses
<1>5. Locked /\ Steady
  BY <1>1, <1>3 DEF U!Init, Locked, Steady
<1>6. Listed
  BY <1>2 DEF Listed
<1>7. U!SentWhereSummed /\ U!NoLostWakeup
  BY DEF U!Init, U!SentWhereSummed, U!NoLostWakeup
<1> QED
  BY <1>4, <1>5, <1>6, <1>7 DEF UInv

(* Copies name their sources, and the list has what is neither freed nor   *)
(* about to be.                                                            *)
LEMMA DatagramsRight == UInv => U!UdpCorrect
<1> SUFFICES ASSUME UInv PROVE U!UdpCorrect
  OBVIOUS
<1>1. U!SourceIsReal
  <2> SUFFICES ASSUME NEW f \in Files, NEW i \in DOMAIN sock[f].inqueue
               PROVE  sock[f].inqueue[i].src_ip = sock[f].inqueue[i].from
    BY DEF U!SourceIsReal
  <2>1. sock[f].inqueue \in Seq(Copies)
    BY DEF UInv, UTypeOK, SockType
  <2>2. sock[f].inqueue[i] \in Copies
    BY <2>1, LenProperties
  <2> QED
    BY <2>2 DEF Copies
<1>2. U!ListedIsLive
  BY DEF UInv, Listed, U!ListedIsLive, Range
<1> QED
  BY <1>1, <1>2 DEF UInv, U!UdpCorrect

(* Whatever clients, signals and other hosts do, a datagram leaves for the *)
(* address its checksum was computed for, a packet names the host it came  *)
(* from, none waits in the pipe with nobody left to look, and incoming     *)
(* meets no file that has been freed.                                      *)
THEOREM DatagramsKeepTheirAddresses ==
  ASSUME Datagrams
  PROVE  U!Spec => []U!UdpCorrect
<1>1. U!Init => UInv
  BY InitUInv
<1>2. UInv /\ [U!Next]_(U!vars) => UInv'
  BY NextUInv
<1>3. UInv => U!UdpCorrect
  BY DatagramsRight
<1> QED
  BY <1>1, <1>2, <1>3, PTL DEF U!Spec
-----------------------------------------------------------------------------
(* The IP server, with any number of clients.  None of them is called      *)
(* nobody, or like the thread of the server.                               *)
Interface == I!Nobody \notin Clients /\ "incoming" \notin Clients

Fields(r) == [at : {r.at}, dest : {r.dest}, route : {r.route}, mac : {r.mac},
              hop : {r.hop}, inqueue : {r.inqueue}, slot : {r.slot}]
IfcFields(i) == [state : {i.state}, lock : {i.lock}, type : {i.type},
                 mac : {i.mac}, queue : {i.queue}]
IncFields(i) == [at : {i.at}, src : {i.src}]

(* Files and the interface keep their fields, whatever is in them.         *)
Shape ==
  /\ sock = [c \in Clients |-> sock[c]]
  /\ \A c \in Clients : sock[c] \in Fields(sock[c])
  /\ ifc \in IfcFields(ifc)
  /\ inc \in IncFields(inc)

(* The flags of the interface are those of the thread that has its lock.   *)
Flags ==
  /\ ifc.lock = I!Nobody => ifc.type = "ip"
  /\ \A c \in Clients : sock[c].at = "request" =>
        ifc.lock = c /\ ifc.type = "arp" /\ ifc.mac = I!AllMacs
  /\ \A c \in Clients : sock[c].at = "send" =>
        ifc.lock = c /\ ifc.type = "ip" /\ ifc.mac = sock[c].mac
  /\ inc.at = "answer" =>
        ifc.lock = "incoming" /\ ifc.type = "arp" /\ ifc.mac = inc.src

PInv == Shape /\ Flags /\ I!FrameAddressed

(* One file becomes another record of the same fields.                     *)
LEMMA ClientSet ==
  ASSUME Shape, NEW c \in Clients, NEW r, r \in Fields(r), sock' = [sock EXCEPT ![c] = r]
  PROVE  /\ sock' = [d \in Clients |-> sock'[d]]
         /\ \A d \in Clients : sock'[d] \in Fields(sock'[d])
         /\ sock'[c] = r /\ \A d \in Clients : d # c => sock'[d] = sock[d]
<1>1. sock'[c] = r /\ \A d \in Clients : d # c => sock'[d] = sock[d]
  BY DEF Shape
<1>2. \A d \in Clients : sock'[d] \in Fields(sock'[d])
  BY <1>1 DEF Shape
<1>3. sock' = [d \in Clients |-> sock'[d]]
  BY DEF Shape
<1> QED
  BY <1>1, <1>2, <1>3

(* A client that neither sets flags nor uses them goes from one step to    *)
(* the next; the interface may be listed and its queue grow meanwhile.     *)
LEMMA AsideKeeps ==
  ASSUME PInv, Shape',
         ifc'.lock = ifc.lock, ifc'.type = ifc.type, ifc'.mac = ifc.mac,
         misled' = misled,
         \A c \in Clients :
            \/ sock'[c].at \notin {"request", "send"}
            \/ sock'[c].at = sock[c].at /\ sock'[c].mac = sock[c].mac,
         inc'.at # "answer" \/ inc' = inc
  PROVE  PInv'
<1>1. Flags'
  BY DEF PInv, Flags
<1> QED
  BY <1>1 DEF PInv, I!FrameAddressed
(* Calls of a client that only change its file.                            *)
LEMMA FileAside ==
  ASSUME PInv, NEW c \in Clients, NEW r, r \in Fields(r), r.at \notin {"request", "send"},
         sock' = [sock EXCEPT ![c] = r], UNCHANGED <<ifc, inc, misled>>
  PROVE  PInv'
<1>1. /\ sock' = [d \in Clients |-> sock'[d]]
      /\ \A d \in Clients : sock'[d] \in Fields(sock'[d])
      /\ sock'[c] = r /\ \A d \in Clients : d # c => sock'[d] = sock[d]
  BY ClientSet DEF PInv
<1>2. Shape'
  BY <1>1 DEF PInv, Shape
<1>3. \A d \in Clients : \/ sock'[d].at \notin {"request", "send"}
                         \/ sock'[d].at = sock[d].at /\ sock'[d].mac = sock[d].mac
  BY <1>1
<1> QED
  BY <1>1, <1>2, <1>3, AsideKeeps

(* The calls of a client but for those that send a frame.                  *)
LEMMA ClientKeeps ==
  ASSUME PInv, NEW c \in Clients,
         \/ I!service_create_pipe(c) \/ I!service_destroy_pipe(c)
         \/ I!service_stream_recv(c) \/ I!LookupHit(c) \/ I!LookupMiss(c)
         \/ I!arp_resolve(c) \/ I!ReadReply(c) \/ I!InsertEntry(c)
         \/ \E to \in Hosts \cup {I!Broadcast} : I!find_route(c, to)
  PROVE  PInv'
<1> DEFINE Aside(r) == /\ sock' = [sock EXCEPT ![c] = r]
                       /\ r \in Fields(r) /\ r.at \notin {"request", "send"}
<1>1. SUFFICES \E r : Aside(r) /\ UNCHANGED <<ifc, inc, misled>>
  BY FileAside
<1>2. sock[c] \in Fields(sock[c]) /\ sock = [d \in Clients |-> sock[d]]
  BY DEF PInv, Shape
<1>4. ASSUME NEW mac, I!Found(c, mac), UNCHANGED <<ifc, inc, misled>>
      PROVE  \E r : Aside(r) /\ UNCHANGED <<ifc, inc, misled>>
  <2> DEFINE r == [sock[c] EXCEPT !.at = "idle", !.mac = mac, !.hop = I!Zero, !.slot = 0]
  <2>1. sock' = [sock EXCEPT ![c] = r]
    BY <1>2, <1>4 DEF I!Found
  <2>2. r \in Fields(r) /\ r.at = "idle"
    BY <1>2 DEF Fields
  <2> HIDE DEF r
  <2> QED
    BY <1>4, <2>1, <2>2
<1>5. ASSUME NEW at, at \notin {"request", "send"}, I!Goto(c, at), UNCHANGED <<ifc, inc, misled>>
      PROVE  \E r : Aside(r) /\ UNCHANGED <<ifc, inc, misled>>
  <2> DEFINE r == [sock[c] EXCEPT !.at = at]
  <2>1. sock' = [sock EXCEPT ![c] = r]
    BY <1>2, <1>5 DEF I!Goto
  <2>2. r \in Fields(r) /\ r.at = at
    BY <1>2 DEF Fields
  <2> HIDE DEF r
  <2> QED
    BY <1>5, <2>1, <2>2
<1>6. CASE I!service_create_pipe(c)
  <2> DEFINE r == [I!NoFile EXCEPT !.at = "idle"]
  <2>1. r \in Fields(r) /\ r.at = "idle"
    BY DEF I!NoFile, Fields
  <2>2. sock' = [sock EXCEPT ![c] = r] /\ UNCHANGED <<ifc, inc, misled>>
    BY <1>6 DEF I!service_create_pipe
  <2> HIDE DEF r
  <2> QED
    BY <2>1, <2>2
<1>7. CASE I!service_destroy_pipe(c)
  <2> DEFINE r == IF sock[c].at = "idle" THEN [sock[c] EXCEPT !.at = "emptied", !.inqueue = 0]
                  ELSE I!NoFile
  <2>1. r \in Fields(r) /\ r.at \in {"emptied", "free"}
    <3>1. CASE sock[c].at = "idle"
      BY <1>2, <3>1 DEF Fields
    <3>2. CASE sock[c].at # "idle"
      BY <3>2 DEF I!NoFile, Fields
    <3> QED
      BY <3>1, <3>2
  <2>2. sock' = [sock EXCEPT ![c] = r] /\ UNCHANGED <<ifc, inc, misled>>
    BY <1>2, <1>7 DEF I!service_destroy_pipe
  <2> HIDE DEF r
  <2> QED
    BY <2>1, <2>2
<1>8. CASE I!service_stream_recv(c)
  <2> DEFINE r == [sock[c] EXCEPT !.inqueue = @ - 1]
  <2>1. sock' = [sock EXCEPT ![c] = r] /\ UNCHANGED <<ifc, inc, misled>> /\ sock[c].at = "idle"
    BY <1>2, <1>8 DEF I!service_stream_recv
  <2>2. r \in Fields(r) /\ r.at = "idle"
    BY <1>2, <2>1 DEF Fields
  <2> HIDE DEF r
  <2> QED
    BY <2>1, <2>2
<1>9. CASE I!LookupHit(c)
  <2>1. PICK i \in DOMAIN arp_cache : I!Found(c, arp_cache[i].mac)
    BY <1>9, Zenon DEF I!LookupHit
  <2>2. UNCHANGED <<ifc, inc, misled>>
    BY <1>9 DEF I!LookupHit
  <2> QED
    BY <1>4, <2>1, <2>2
<1>10. CASE I!LookupMiss(c)
  BY <1>5, <1>10 DEF I!LookupMiss
<1>11. CASE I!arp_resolve(c)
  BY <1>4, <1>5, <1>11 DEF I!arp_resolve
<1>12. CASE I!ReadReply(c)
  <2> DEFINE r == [sock[c] EXCEPT !.at = "insert", !.mac = reply.mac, !.slot = I!Slot]
  <2>1. UNCHANGED <<ifc, inc, misled>>
    BY <1>12 DEF I!ReadReply
  <2>2. I!Found(c, I!Zero) \/ sock' = [sock EXCEPT ![c] = r]
    BY <1>2, <1>12 DEF I!ReadReply
  <2>3. r \in Fields(r) /\ r.at = "insert"
    BY <1>2 DEF Fields
  <2> HIDE DEF r
  <2> QED
    BY <1>4, <2>1, <2>2, <2>3
<1>13. CASE I!InsertEntry(c)
  BY <1>4, <1>13 DEF I!InsertEntry
<1>14. ASSUME NEW to \in Hosts \cup {I!Broadcast}, I!find_route(c, to)
       PROVE  \E r : Aside(r) /\ UNCHANGED <<ifc, inc, misled>>
  <2> DEFINE i == I!Best(to)
             hop == IF routing_table[i].gw # I!Zero THEN routing_table[i].gw ELSE to
             r == IF i = 0 \/ ifc.state # "listed" THEN [sock[c] EXCEPT !.dest = to]
                  ELSE IF to = I!Broadcast
                  THEN [sock[c] EXCEPT !.dest = to, !.route = TRUE, !.mac = I!AllMacs]
                  ELSE [sock[c] EXCEPT !.dest = to, !.route = TRUE, !.at = "lookup", !.hop = hop]
  <2>1. /\ sock' = [sock EXCEPT ![c] = r] /\ sock[c].at = "idle"
        /\ UNCHANGED <<ifc, inc, misled>>
    <3>1. sock' = [sock EXCEPT ![c] = r]
      BY <1>2, <1>14, Zenon DEF I!find_route
    <3>2. sock[c].at = "idle" /\ UNCHANGED <<ifc, inc, misled>>
      BY <1>14, Zenon DEF I!find_route
    <3> QED
      BY <3>1, <3>2
  <2> HIDE DEF i, hop
  <2>2. r \in Fields(r) /\ r.at \in {"idle", "lookup"}
    BY <1>2, <2>1 DEF Fields
  <2> HIDE DEF r
  <2> QED
    BY <2>1, <2>2
<1> QED
  BY <1>6, <1>7, <1>8, <1>9, <1>10, <1>11, <1>12, <1>13, <1>14
(* Who finds the interface free sets its flags; nobody else is at a frame. *)
LEMMA FreeInterface ==
  ASSUME Interface, PInv, ifc.lock = I!Nobody
  PROVE  /\ ifc.type = "ip" /\ inc.at # "answer"
         /\ \A c \in Clients : sock[c].at \notin {"request", "send"}
BY DEF Interface, PInv, Flags

(* A client sets the flags, ...                                            *)
LEMMA SetKeeps ==
  ASSUME Interface, PInv, NEW c \in Clients, I!Request(c) \/ I!SendSet(c)
  PROVE  PInv'
<1>0. /\ sock[c] \in Fields(sock[c]) /\ sock = [d \in Clients |-> sock[d]]
      /\ ifc \in IfcFields(ifc) /\ inc \in IncFields(inc)
  BY DEF PInv, Shape
<1>1. ifc.lock = I!Nobody /\ UNCHANGED <<inc, misled>>
  BY DEF I!Request, I!SendSet, I!SetFlags
<1>2. /\ ifc.type = "ip" /\ inc.at # "answer"
      /\ \A d \in Clients : sock[d].at \notin {"request", "send"}
  BY <1>1, FreeInterface
<1>3. ASSUME NEW at, NEW type, NEW mac, I!SetFlags(c, type, mac), I!Goto(c, at),
             \/ at = "request" /\ type = "arp" /\ mac = I!AllMacs
             \/ at = "send" /\ type = "ip" /\ mac = sock[c].mac
      PROVE  PInv'
  <2> DEFINE r == [sock[c] EXCEPT !.at = at]
             i == [ifc EXCEPT !.lock = c, !.type = type, !.mac = mac]
  <2>1. sock' = [sock EXCEPT ![c] = r] /\ ifc' = i
    BY <1>0, <1>3 DEF I!Goto, I!SetFlags
  <2>2. r \in Fields(r) /\ r.at = at /\ r.mac = sock[c].mac
    BY <1>0 DEF Fields
  <2>3. i \in IfcFields(i) /\ i.lock = c /\ i.type = type /\ i.mac = mac
    BY <1>0 DEF IfcFields
  <2> HIDE DEF r, i
  <2>4. /\ sock' = [d \in Clients |-> sock'[d]]
        /\ \A d \in Clients : sock'[d] \in Fields(sock'[d])
        /\ sock'[c] = r /\ \A d \in Clients : d # c => sock'[d] = sock[d]
    BY <2>1, <2>2, ClientSet DEF PInv
  <2>5. Shape'
    BY <1>0, <1>1, <2>1, <2>3, <2>4 DEF Shape
  <2>6. Flags'
    BY <1>1, <1>2, <1>3, <2>1, <2>2, <2>3, <2>4 DEF Interface, Flags
  <2> QED
    BY <1>1, <2>5, <2>6 DEF PInv, I!FrameAddressed
<1>4. CASE I!Request(c)
  BY <1>3, <1>4 DEF I!Request
<1>5. CASE I!SendSet(c)
  BY <1>2, <1>3, <1>5 DEF I!SendSet
<1> QED
  BY <1>4, <1>5

(* ... and its frame leaves with them.                                     *)
LEMMA EmitKeeps ==
  ASSUME Interface, PInv, NEW c \in Clients, I!RequestOut(c) \/ I!SendOut(c)
  PROVE  PInv'
<1>0. /\ sock[c] \in Fields(sock[c]) /\ sock = [d \in Clients |-> sock[d]]
      /\ ifc \in IfcFields(ifc) /\ inc \in IncFields(inc)
  BY DEF PInv, Shape
<1> DEFINE i == [ifc EXCEPT !.lock = I!Nobody, !.type = "ip"]
<1>1. /\ ifc.lock = c /\ sock[c].at \in {"request", "send"}
      /\ inc' = inc /\ ifc' = i /\ ~misled'
  <2>1. CASE I!RequestOut(c)
    <3>1. ifc.lock = c /\ ifc.type = "arp" /\ ifc.mac = I!AllMacs
      BY <2>1 DEF I!RequestOut, PInv, Flags
    <3>2. sock[c].at = "request" /\ inc' = inc /\ ifc' = i
      BY <2>1 DEF I!RequestOut, I!EmitFrame
    <3>3. misled' = (misled \/ ifc.type # "arp" \/ ifc.mac # I!AllMacs)
      BY <2>1, Zenon DEF I!RequestOut, I!EmitFrame
    <3> QED
      BY <3>1, <3>2, <3>3, Zenon DEF PInv, I!FrameAddressed
  <2>2. CASE I!SendOut(c)
    <3>1. ifc.lock = c /\ ifc.type = "ip" /\ ifc.mac = sock[c].mac
      BY <2>2 DEF I!SendOut, PInv, Flags
    <3>2. sock[c].at = "send" /\ inc' = inc /\ ifc' = i
      BY <2>2 DEF I!SendOut, I!EmitFrame
    <3>3. misled' = (misled \/ ifc.type # "ip" \/ ifc.mac # sock[c].mac)
      BY <2>2, Zenon DEF I!SendOut, I!EmitFrame
    <3> QED
      BY <3>1, <3>2, <3>3, Zenon DEF PInv, I!FrameAddressed
  <2> QED
    BY <2>1, <2>2
<1>2. inc.at # "answer" /\ \A d \in Clients : d # c => sock[d].at \notin {"request", "send"}
  BY <1>1 DEF Interface, PInv, Flags
<1>3. i \in IfcFields(i) /\ i.lock = I!Nobody /\ i.type = "ip"
  BY <1>0 DEF IfcFields
<1> HIDE DEF i
<1>4. ASSUME NEW at, at \notin {"request", "send"}, I!Goto(c, at) PROVE PInv'
  <2> DEFINE r == [sock[c] EXCEPT !.at = at]
  <2>1. sock' = [sock EXCEPT ![c] = r]
    BY <1>0, <1>4 DEF I!Goto
  <2>2. r \in Fields(r) /\ r.at = at
    BY <1>0 DEF Fields
  <2> HIDE DEF r
  <2>3. /\ sock' = [d \in Clients |-> sock'[d]]
        /\ \A d \in Clients : sock'[d] \in Fields(sock'[d])
        /\ sock'[c] = r /\ \A d \in Clients : d # c => sock'[d] = sock[d]
    BY <2>1, <2>2, ClientSet DEF PInv
  <2>4. Shape'
    BY <1>0, <1>1, <1>3, <2>3 DEF Shape
  <2>5. Flags'
    BY <1>1, <1>2, <1>3, <1>4, <2>2, <2>3 DEF Flags
  <2> QED
    BY <1>1, <2>4, <2>5 DEF PInv, I!FrameAddressed
<1> QED
  BY <1>4 DEF I!RequestOut, I!SendOut

(* The thread of the server does the same with its answer.                 *)
LEMMA AnswerKeeps ==
  ASSUME Interface, PInv, I!AnswerSet \/ I!AnswerOut
  PROVE  PInv'
<1>0. ifc \in IfcFields(ifc) /\ inc \in IncFields(inc)
  BY DEF PInv, Shape
<1>1. CASE I!AnswerSet
  <2> DEFINE i == [ifc EXCEPT !.lock = "incoming", !.type = "arp", !.mac = inc.src]
             n == [inc EXCEPT !.at = "answer"]
  <2>1. /\ ifc.lock = I!Nobody /\ ifc' = i /\ inc' = n /\ UNCHANGED <<sock, misled>>
    BY <1>1 DEF I!AnswerSet, I!SetFlags
  <2>2. /\ i \in IfcFields(i) /\ i.lock = "incoming" /\ i.type = "arp" /\ i.mac = inc.src
        /\ n \in IncFields(n) /\ n.at = "answer" /\ n.src = inc.src
    BY <1>0 DEF IfcFields, IncFields
  <2> HIDE DEF i, n
  <2>3. \A c \in Clients : sock[c].at \notin {"request", "send"}
    BY <2>1, FreeInterface
  <2>4. Shape'
    BY <2>1, <2>2 DEF PInv, Shape
  <2>5. Flags'
    BY <2>1, <2>2, <2>3 DEF Flags, I!Nobody
  <2> QED
    BY <2>1, <2>4, <2>5 DEF PInv, I!FrameAddressed
<1>2. CASE I!AnswerOut
  <2> DEFINE i == [ifc EXCEPT !.lock = I!Nobody, !.type = "ip"]
             n == [at |-> "loop", src |-> I!Zero]
  <2>1. /\ ifc.lock = "incoming" /\ ifc' = i /\ inc' = n /\ ~misled' /\ sock' = sock
    <3>1. ifc.lock = "incoming" /\ ifc.type = "arp" /\ ifc.mac = inc.src
      BY <1>2 DEF I!AnswerOut, PInv, Flags
    <3>2. inc' = n /\ ifc' = i /\ sock' = sock
      BY <1>2 DEF I!AnswerOut, I!EmitFrame
    <3>3. misled' = (misled \/ ifc.type # "arp" \/ ifc.mac # inc.src)
      BY <1>2, Zenon DEF I!AnswerOut, I!EmitFrame
    <3> QED
      BY <3>1, <3>2, <3>3, Zenon DEF PInv, I!FrameAddressed
  <2>2. /\ i \in IfcFields(i) /\ i.lock = I!Nobody /\ i.type = "ip"
        /\ n \in IncFields(n) /\ n.at = "loop"
    BY <1>0 DEF IfcFields, IncFields
  <2> HIDE DEF i, n
  <2>3. \A c \in Clients : sock[c].at \notin {"request", "send"}
    BY <2>1 DEF Interface, PInv, Flags
  <2>4. Shape'
    BY <2>1, <2>2 DEF PInv, Shape
  <2>5. Flags'
    BY <2>1, <2>2, <2>3 DEF Flags
  <2> QED
    BY <2>1, <2>4, <2>5 DEF PInv, I!FrameAddressed
<1> QED
  BY <1>1, <1>2

(* The interface, its queue, and the rest of the thread of the server.     *)
LEMMA ServerKeeps ==
  ASSUME PInv,
         \/ I!locate_interface \/ I!incoming \/ I!LoopEnd \/ I!Take \/ I!arp_incoming
         \/ \E r \in Routes : I!add_route(r) \/ I!del_route(r)
         \/ \E p \in Frames : I!Arrive(p)
  PROVE  PInv'
<1>0. /\ \A c \in Clients : sock[c] \in Fields(sock[c])
      /\ sock = [d \in Clients |-> sock[d]]
      /\ ifc \in IfcFields(ifc) /\ inc \in IncFields(inc)
  BY DEF PInv, Shape
<1>1. ASSUME NEW i, i \in IfcFields(i), i.lock = ifc.lock, i.type = ifc.type, i.mac = ifc.mac,
             ifc' = i, UNCHANGED <<sock, inc, misled>>
      PROVE  PInv'
  <2>1. Shape'
    BY <1>1 DEF PInv, Shape
  <2> QED
    BY <1>1, <2>1, AsideKeeps
<1>2. ASSUME NEW n, n \in IncFields(n), n.at # "answer", inc' = n, UNCHANGED <<sock, ifc, misled>>
      PROVE  PInv'
  <2>1. Shape'
    BY <1>2 DEF PInv, Shape
  <2> QED
    BY <1>2, <2>1, AsideKeeps
<1>3. ASSUME UNCHANGED <<sock, ifc, inc, misled>> PROVE PInv'
  BY <1>0, <1>1, <1>3
<1>4. CASE I!locate_interface
  <2>1. PICK st : ifc' = [ifc EXCEPT !.state = st]
    BY <1>4 DEF I!locate_interface
  <2>2. UNCHANGED <<sock, inc, misled>>
    BY <1>4 DEF I!locate_interface
  <2> DEFINE i == [ifc EXCEPT !.state = st]
  <2>3. i \in IfcFields(i) /\ i.lock = ifc.lock /\ i.type = ifc.type /\ i.mac = ifc.mac
    BY <1>0 DEF IfcFields
  <2> HIDE DEF i
  <2> QED
    BY <1>1, <2>1, <2>2, <2>3 DEF i
<1>5. CASE I!incoming
  <2> DEFINE at == IF ifc.state = "listed" THEN "loop" ELSE "idle"
             n == [inc EXCEPT !.at = at]
  <2>1. inc' = n /\ UNCHANGED <<sock, ifc, misled>>
    BY <1>5 DEF I!incoming
  <2>2. n \in IncFields(n) /\ n.at = at
    BY <1>0 DEF IncFields
  <2> HIDE DEF n
  <2> QED
    BY <1>2, <2>1, <2>2
<1>6. CASE I!LoopEnd
  <2> DEFINE n == [inc EXCEPT !.at = "idle"]
  <2>1. inc' = n /\ UNCHANGED <<sock, ifc, misled>>
    BY <1>6 DEF I!LoopEnd
  <2>2. n \in IncFields(n) /\ n.at = "idle"
    BY <1>0 DEF IncFields
  <2> HIDE DEF n
  <2> QED
    BY <1>2, <2>1, <2>2
<1>7. CASE I!arp_incoming
  <2>1. UNCHANGED <<sock, ifc, misled>>
    BY <1>7 DEF I!arp_incoming
  <2>2. \E n : n \in IncFields(n) /\ n.at # "answer" /\ inc' = n
    <3>1. \/ inc' = [inc EXCEPT !.at = "bytes"]
          \/ inc' = [inc EXCEPT !.at = "ip"]
          \/ inc' = [at |-> "loop", src |-> I!Zero]
      BY <1>7 DEF I!arp_incoming
    <3>2. LET n == [inc EXCEPT !.at = "bytes"] IN n \in IncFields(n) /\ n.at = "bytes"
      BY <1>0 DEF IncFields
    <3>3. LET n == [inc EXCEPT !.at = "ip"] IN n \in IncFields(n) /\ n.at = "ip"
      BY <1>0 DEF IncFields
    <3>4. LET n == [at |-> "loop", src |-> I!Zero] IN n \in IncFields(n) /\ n.at = "loop"
      BY DEF IncFields
    <3> QED
      BY <3>1, <3>2, <3>3, <3>4
  <2> QED
    BY <1>2, <2>1, <2>2
<1>8. CASE I!Take
  <2> DEFINE p == Head(ifc.queue)
             i == [ifc EXCEPT !.queue = Tail(@)]
             n == [at |-> p.type, src |-> p.src]
  <2>1. /\ ifc' = i /\ misled' = misled
        /\ sock' = I!Deliver(p.src) \/ sock' = sock
        /\ inc' = inc \/ (inc' = n /\ p.type \in {"request", "reply"})
    BY <1>8 DEF I!Take
  <2>2. i \in IfcFields(i) /\ i.lock = ifc.lock /\ i.type = ifc.type /\ i.mac = ifc.mac
    BY <1>0 DEF IfcFields
  <2>3. n \in IncFields(n) /\ n.at = p.type
    BY DEF IncFields
  <2>4. ASSUME NEW c \in Clients
        PROVE  LET q == [sock[c] EXCEPT !.inqueue = @ + 1] IN
               q \in Fields(q) /\ q.at = sock[c].at /\ q.mac = sock[c].mac
    BY <1>0 DEF Fields
  <2> HIDE DEF i, n, p
  <2>5. \A c \in Clients : /\ sock'[c] \in Fields(sock'[c])
                           /\ sock'[c].at = sock[c].at /\ sock'[c].mac = sock[c].mac
    BY <1>0, <2>1, <2>4 DEF I!Deliver
  <2>6. sock' = [c \in Clients |-> sock'[c]]
    BY <1>0, <2>1 DEF I!Deliver
  <2>7. Shape'
    BY <1>0, <2>1, <2>2, <2>3, <2>5, <2>6 DEF Shape
  <2> QED
    BY <2>1, <2>2, <2>3, <2>5, <2>7, AsideKeeps
<1>9. ASSUME NEW p \in Frames, I!Arrive(p) PROVE PInv'
  <2> DEFINE i == [ifc EXCEPT !.queue = Append(@, p)]
  <2>1. ifc' = i /\ UNCHANGED <<sock, inc, misled>>
    BY <1>9 DEF I!Arrive
  <2>2. i \in IfcFields(i) /\ i.lock = ifc.lock /\ i.type = ifc.type /\ i.mac = ifc.mac
    BY <1>0 DEF IfcFields
  <2> HIDE DEF i
  <2> QED
    BY <1>1, <2>1, <2>2
<1>10. ASSUME NEW r \in Routes, I!add_route(r) \/ I!del_route(r) PROVE PInv'
  <2>1. UNCHANGED <<sock, ifc, inc, misled>>
    BY <1>10 DEF I!add_route, I!del_route
  <2> QED
    BY <1>3, <2>1
<1> QED
  BY <1>4, <1>5, <1>6, <1>7, <1>8, <1>9, <1>10

(* Every frame leaves with its own type and for its own destination, as    *)
(* many clients as there may be at the flags of the one interface.         *)
THEOREM FramesAreAddressed ==
  ASSUME Interface
  PROVE  I!Spec => []I!FrameAddressed
<1>1. I!Init => PInv
  <2> SUFFICES ASSUME I!Init PROVE PInv
    OBVIOUS
  <2>1. I!NoFile \in Fields(I!NoFile) /\ I!NoFile.at = "free"
    BY DEF I!NoFile, Fields
  <2>2. /\ ifc \in IfcFields(ifc) /\ ifc.lock = I!Nobody /\ ifc.type = "ip"
        /\ inc \in IncFields(inc) /\ inc.at = "idle" /\ ~misled
    BY DEF I!Init, IfcFields, IncFields
  <2>3. sock = [c \in Clients |-> I!NoFile]
    BY DEF I!Init
  <2> HIDE DEF I!NoFile
  <2>4. Shape
    BY <2>1, <2>2, <2>3 DEF Shape
  <2>5. Flags
    BY <2>1, <2>2, <2>3 DEF Flags
  <2> QED
    BY <2>2, <2>4, <2>5 DEF PInv, I!FrameAddressed
<1>2. PInv /\ [I!Next]_(I!vars) => PInv'
  <2> SUFFICES ASSUME PInv, [I!Next]_(I!vars) PROVE PInv'
    OBVIOUS
  <2>1. CASE UNCHANGED I!vars
    BY <2>1 DEF I!vars, PInv, Shape, Flags, I!FrameAddressed, Fields, IfcFields, IncFields
  <2>2. CASE I!Next
    BY <2>2, ServerKeeps, AnswerKeeps, ClientKeeps, SetKeeps, EmitKeeps DEF I!Next
  <2> QED
    BY <2>1, <2>2
<1>3. PInv => I!FrameAddressed
  BY DEF PInv
<1> QED
  BY <1>1, <1>2, <1>3, PTL DEF I!Spec

-----------------------------------------------------------------------------
(* A set of natural numbers has a least element; so the first record that  *)
(* is a host address is one of them.                                       *)
LEMMA LeastIndex ==
  ASSUME NEW S \in SUBSET Nat, S # {}
  PROVE  \E m \in S : \A x \in S : m <= x
<1> DEFINE Less == OpToRel(<, Nat)
<1>1. IsWellFoundedOn(Less, Nat)
  BY NatLessThanWellFounded
<1>2. Less = {ss \in Nat \X Nat : ss[1] < ss[2]}
  BY Zenon DEF OpToRel
<1> HIDE DEF Less
<1>3. PICK m \in S : \A x \in S : ~(<<x, m>> \in Less)
  BY <1>1, WFMin
<1>4. ASSUME NEW x \in S, x < m PROVE FALSE
  <2>1. <<x, m>> \in {ss \in Nat \X Nat : ss[1] < ss[2]}
    BY <1>4
  <2> QED
    BY <1>2, <1>3, <2>1
<1> QED
  BY <1>4

(* The answer that is taken is the first record that names a host.         *)
LEMMA FirstHost ==
  ASSUME NEW records \in Seq([host : BOOLEAN, len : Nat]),
         NEW hosts, hosts = {i \in 1 .. Len(records) : records[i].host}, hosts # {}
  PROVE  records[CHOOSE i \in hosts : \A j \in hosts : i <= j].len \in Nat
<1>1. hosts \in SUBSET Nat /\ \A i \in hosts : records[i].len \in Nat
  <2>1. hosts \subseteq 1 .. Len(records)
    BY Zenon
  <2>2. \A i \in 1 .. Len(records) : records[i] \in [host : BOOLEAN, len : Nat]
    BY ElementOfSeq
  <2>3. \A i \in 1 .. Len(records) : records[i].len \in Nat
    BY <2>2
  <2>4. 1 .. Len(records) \subseteq Nat
    BY LenProperties
  <2> QED
    BY Zenon, <2>1, <2>3, <2>4
<1>2. \E i \in hosts : \A j \in hosts : i <= j
  BY ONLY <1>1, hosts # {}, LeastIndex
<1>3. (CHOOSE i \in hosts : \A j \in hosts : i <= j) \in hosts
  BY Zenon, <1>2
<1> QED
  BY Zenon, <1>1, <1>3

(* An answer to the query of the pipe leaves a text that is true (the loop *)

(* The DNS server.  Records have lengths, and there is a zone for each     *)
(* server that may be asked.                                               *)
Asked == Servers \union {Default}
Address == Asked \X Names

Resolver ==
  /\ Names # {} /\ Sizes \subseteq Nat /\ MaxPosition \in Nat
  /\ Zone \in [Asked -> [Names -> Seq([host : BOOLEAN, len : Nat])]]

Text == [of : Address \union {DNS!NoIp}, len : Nat]
Connection == [open : BOOLEAN, dname : Names, dns_ip : Asked, ip_string : Text,
               ip : Address \union {DNS!NoIp}, position : Nat, mixed : BOOLEAN, behind : BOOLEAN]
Lookup == [at : {"idle", "waits", "reads", "rest"}, mixed : BOOLEAN,
           part : Address \union {DNS!NoIp}]
Way   == [of : Address, rest : BOOLEAN]
Piece == [of : Address, rest : BOOLEAN, more : BOOLEAN]

(* The text of a pipe that was not mixed up is the answer of its server    *)
(* for its name, its number is the same or older, and what was read of it  *)
(* is not more than there is.                                              *)
TextTrue(c) ==
  /\ c.ip_string.len > 0 /\ ~c.mixed => c.ip_string.of = <<c.dns_ip, c.dname>>
  /\ c.ip_string.len > 0 => c.ip = c.ip_string.of
  /\ c.ip # DNS!NoIp /\ ~c.mixed => c.ip[2] = c.dname
  /\ ~c.behind => c.position <= c.ip_string.len

Texts ==
  /\ use_tcp \in BOOLEAN /\ default_dns_ip \in Asked
  /\ con \in [Pipes -> Connection] /\ popup \in [Pipes -> Lookup]
  /\ asked \subseteq Way /\ inqueue \in Seq(Piece)
  /\ \A p \in Pipes : TextTrue(con[p])

(* Who looks a name up without being mixed up is alone, and what is on its *)
(* way or can be read is the answer to the query of this pipe.             *)
Own(p)     == <<con[p].dns_ip, con[p].dname>>
Query(p)   == [of |-> Own(p), rest |-> FALSE]
Rest(p)    == [of |-> Own(p), rest |-> TRUE]
Whole(p)   == [of |-> Own(p), rest |-> FALSE, more |-> FALSE]
Begin(p)   == [of |-> Own(p), rest |-> FALSE, more |-> TRUE]
End(p)     == [of |-> Own(p), rest |-> TRUE, more |-> FALSE]

Exchange(p) ==
  IF popup[p].at = "rest"
  THEN /\ popup[p].part = Own(p)
       /\ \/ asked = {Rest(p)} /\ inqueue = <<>>
          \/ asked = {} /\ inqueue = <<End(p)>>
  ELSE \/ asked \subseteq {Query(p)} /\ inqueue = <<>>
       \/ asked = {} /\ inqueue = <<Whole(p)>>
       \/ use_tcp /\ asked = {Rest(p)} /\ inqueue = <<Begin(p)>>
       \/ use_tcp /\ asked = {} /\ inqueue = <<Begin(p), End(p)>>

Alone(p) ==
  /\ \A q \in Pipes \ {p} : popup[q].at = "idle"
  /\ Exchange(p)

LooksUp(p) ==
  /\ con[p].open /\ con[p].ip_string.len = 0
  /\ popup[p].at = "rest" => use_tcp
  /\ ~popup[p].mixed => Alone(p)

RInv == Texts /\ \A p \in Pipes : popup[p].at # "idle" => LooksUp(p)

(* The sentinels are of the types.                                         *)
LEMMA Sentinels ==
  ASSUME Resolver
  PROVE  DNS!NoCon \in Connection /\ TextTrue(DNS!NoCon) /\ ~DNS!NoCon.open /\ DNS!Idle \in Lookup
<1>1. (CHOOSE n \in Names : TRUE) \in Names
  BY DEF Resolver
<1> QED
  BY <1>1 DEF DNS!NoCon, DNS!NoText, DNS!Idle, Connection, Text, Lookup, TextTrue, Asked

(* An answer for the pipe, or any answer for a look-up that is mixed up,   *)
(* leaves a text that is true (the loop over the answer section in         *)
(* update_ip).                                                             *)
LEMMA AnswerTrue ==
  ASSUME Resolver, NEW c \in Connection, TextTrue(c), c.ip_string.len = 0,
         NEW a \in Address, NEW mixed \in BOOLEAN, ~mixed => a = <<c.dns_ip, c.dname>>,
         NEW d, d = DNS!AnswerTaken(c, a, mixed)
  PROVE  d \in Connection /\ TextTrue(d)
<1> DEFINE records == Zone[a[1]][a[2]]
           hosts == {i \in 1 .. Len(records) : records[i].host}
           first == CHOOSE i \in hosts : \A j \in hosts : i <= j
           text == [of |-> a, len |-> records[first].len]
<1>1. a = <<a[1], a[2]>> /\ a[1] \in Asked /\ a[2] \in Names
  BY DEF Address
<1>2. records \in Seq([host : BOOLEAN, len : Nat])
  BY <1>1 DEF Resolver
<1>3. CASE hosts = {}
  <2>1. d = c
    BY Zenon, <1>3 DEF DNS!AnswerTaken
  <2> QED
    BY Zenon, <2>1
<1>4. CASE hosts # {}
  <2>1. d = [c EXCEPT !.ip_string = text, !.ip = a, !.mixed = mixed]
    BY Zenon, <1>4 DEF DNS!AnswerTaken
  <2>2. records[first].len \in Nat
    <3> HIDE DEF records
    <3> QED
      BY Zenon, <1>2, <1>4, FirstHost
  <2> HIDE DEF first, records, hosts
  <2>3. text \in Text /\ text.of = a /\ text.len \in Nat
    BY <2>2 DEF Text
  <2> HIDE DEF text
  <2>4. /\ d \in Connection /\ d.position = c.position /\ d.ip_string = text /\ d.ip = a
        /\ d.mixed = mixed /\ d.dns_ip = c.dns_ip /\ d.dname = c.dname /\ d.behind = c.behind
    BY <2>1, <2>3 DEF Connection
  <2>5. ~d.behind => d.position <= d.ip_string.len
    <3>1. c.position \in Nat /\ (~c.behind => c.position = 0)
      BY DEF TextTrue, Connection
    <3> QED
      BY <2>3, <2>4, <3>1
  <2>6. d.ip # DNS!NoIp /\ ~d.mixed => d.ip[2] = d.dname
    BY <2>4
  <2> QED
    BY <2>3, <2>4, <2>5, <2>6 DEF TextTrue
<1> QED
  BY <1>3, <1>4

(* A read goes on in the text, and not behind it (service_stream_recv).    *)
LEMMA ReadTrue ==
  ASSUME Resolver, NEW c \in Connection, TextTrue(c), NEW size \in Sizes,
         NEW d, d = DNS!service_stream_recv(c, size)
  PROVE  d \in Connection /\ TextTrue(d)
<1> DEFINE left == c.ip_string.len - c.position
           n == IF left >= 0 /\ size > left THEN left ELSE size
           v == IF c.position + n > MaxPosition THEN MaxPosition ELSE c.position + n
<1>1. c.ip_string.len \in Nat /\ c.position \in Nat /\ size \in Nat /\ MaxPosition \in Nat
  BY DEF Connection, Text, Resolver
<1>2. v \in Nat /\ (c.position <= c.ip_string.len => v <= c.ip_string.len)
  BY <1>1
<1>3. d = [c EXCEPT !.position = v]
  BY Zenon DEF DNS!service_stream_recv
<1> HIDE DEF v
<1>4. /\ d \in Connection /\ d.position = v /\ d.ip_string = c.ip_string /\ d.ip = c.ip
      /\ d.mixed = c.mixed /\ d.dns_ip = c.dns_ip /\ d.dname = c.dname /\ d.behind = c.behind
  BY <1>2, <1>3 DEF Connection
<1> QED
  BY <1>2, <1>4 DEF TextTrue

(* What a request leaves of a pipe with a true text.                       *)
LEMMA FinishTrue ==
  ASSUME Resolver, NEW p \in Pipes, NEW c \in Connection, TextTrue(c), DNS!Finish(p, c)
  PROVE  /\ popup' = [popup EXCEPT ![p] = DNS!Idle]
         /\ \E d \in Connection : TextTrue(d) /\ con' = [con EXCEPT ![p] = d]
<1>1. popup' = [popup EXCEPT ![p] = DNS!Idle]
  BY DEF DNS!Finish
<1>2. CASE con' = [con EXCEPT ![p] = c]
  BY <1>1, <1>2
<1>3. ASSUME NEW size \in Sizes, con' = [con EXCEPT ![p] = DNS!service_stream_recv(c, size)]
      PROVE  \E d \in Connection : TextTrue(d) /\ con' = [con EXCEPT ![p] = d]
  BY Zenon, <1>3, ReadTrue
<1> QED
  BY Zenon, <1>1, <1>2, <1>3 DEF DNS!Finish

(* One pipe changes while a popup of it works; every other look-up is      *)
(* mixed up then, and nothing has to be said of it.                        *)
LEMMA WorkKeeps ==
  ASSUME Resolver, RInv, NEW p \in Pipes, popup[p].at # "idle",
         NEW c \in Connection, TextTrue(c), con' = [con EXCEPT ![p] = c],
         NEW l \in Lookup, popup' = [popup EXCEPT ![p] = l],
         UNCHANGED <<use_tcp, default_dns_ip>>, asked' \subseteq Way, inqueue' \in Seq(Piece),
         l.at # "idle" => /\ l.mixed = popup[p].mixed
                          /\ c.open /\ c.ip_string.len = 0
                          /\ l.at = "rest" => use_tcp
                          /\ ~l.mixed => Exchange(p)'
  PROVE  RInv'
<1>1. /\ con' \in [Pipes -> Connection] /\ con'[p] = c
      /\ popup' \in [Pipes -> Lookup] /\ popup'[p] = l
      /\ \A q \in Pipes \ {p} : con'[q] = con[q] /\ popup'[q] = popup[q]
  BY DEF RInv, Texts
<1>2. Texts'
  <2>1. \A q \in Pipes : TextTrue(con[q])'
    BY <1>1 DEF RInv, Texts, TextTrue
  <2> QED
    BY <1>1, <2>1 DEF RInv, Texts
<1>3. ASSUME NEW q \in Pipes \ {p}, popup'[q].at # "idle" PROVE LooksUp(q)'
  <2>1. con'[q] = con[q] /\ popup'[q] = popup[q] /\ LooksUp(q)
    BY <1>1, <1>3 DEF RInv
  <2>2. popup[q].mixed
    BY <2>1 DEF LooksUp, Alone
  <2> QED
    BY <2>1, <2>2 DEF LooksUp
<1>4. ASSUME popup'[p].at # "idle" PROVE LooksUp(p)'
  <2>1. LooksUp(p)
    BY DEF RInv
  <2>2. ~l.mixed => Alone(p)'
    BY <1>1, <1>4, <2>1 DEF LooksUp, Alone
  <2> QED
    BY <1>1, <1>4, <2>2 DEF LooksUp
<1> QED
  BY <1>2, <1>3, <1>4 DEF RInv

(* What can be taken from the pipe to the name servers is one of their     *)
(* answers.                                                                *)
LEMMA PiecesFacts ==
  ASSUME RInv, inqueue # <<>>
  PROVE  /\ Head(inqueue) \in Piece /\ Tail(inqueue) \in Seq(Piece) /\ Len(inqueue) \in Nat \ {0}
         /\ Head(inqueue).of \in Address
<1>1. inqueue \in Seq(Piece)
  BY DEF RInv, Texts
<1>2. Head(inqueue) \in Piece /\ Tail(inqueue) \in Seq(Piece)
  BY <1>1, HeadTailProperties
<1>3. Len(inqueue) \in Nat \ {0}
  BY <1>1, LenProperties, EmptySeq
<1> QED
  BY <1>2, <1>3 DEF Piece

(* A look-up ends: with nothing, or with an answer that is its own unless  *)
(* it is mixed up.                                                         *)
LEMMA EndKeeps ==
  ASSUME Resolver, RInv, NEW p \in Pipes, popup[p].at # "idle",
         \/ DNS!Finish(p, con[p])
         \/ \E of \in Address : DNS!Take(p, of) /\ (~popup[p].mixed => of = Own(p)),
         UNCHANGED <<use_tcp, default_dns_ip>>, asked' \subseteq Way, inqueue' \in Seq(Piece)
  PROVE  RInv'
<1>1. con[p] \in Connection /\ TextTrue(con[p]) /\ con[p].ip_string.len = 0
  BY DEF RInv, Texts, LooksUp
<1>2. popup[p].mixed \in BOOLEAN
  BY DEF RInv, Texts, Lookup
<1>3. \E c \in Connection : TextTrue(c) /\ DNS!Finish(p, c)
  <2>1. CASE DNS!Finish(p, con[p])
    BY <1>1, <2>1
  <2>2. ASSUME NEW of \in Address, DNS!Take(p, of), ~popup[p].mixed => of = Own(p)
        PROVE  \E c \in Connection : TextTrue(c) /\ DNS!Finish(p, c)
    <3> DEFINE d == DNS!AnswerTaken(con[p], of, popup[p].mixed)
    <3>1. d \in Connection /\ TextTrue(d)
      <4>1. ~popup[p].mixed => of = <<con[p].dns_ip, con[p].dname>>
        BY <2>2 DEF Own
      <4> QED
        BY <1>1, <1>2, <4>1, AnswerTrue, Zenon
    <3>2. DNS!Finish(p, d)
      BY <2>2 DEF DNS!Take
    <3> QED
      BY <3>1, <3>2, Zenon
  <2> QED
    BY <2>1, <2>2
<1>4. PICK d \in Connection : /\ TextTrue(d) /\ con' = [con EXCEPT ![p] = d]
                              /\ popup' = [popup EXCEPT ![p] = DNS!Idle]
  BY <1>3, FinishTrue
<1>5. DNS!Idle \in Lookup /\ DNS!Idle.at = "idle"
  BY Sentinels DEF DNS!Idle
<1> HIDE DEF RInv
<1> QED
  BY <1>4, <1>5, WorkKeeps

(* The pieces of an exchange.                                              *)
LEMMA ExchangeFacts ==
  ASSUME NEW p \in Pipes
  PROVE  /\ Head(<<Whole(p)>>) = Whole(p) /\ Head(<<Begin(p)>>) = Begin(p)
         /\ Head(<<Begin(p), End(p)>>) = Begin(p) /\ Head(<<End(p)>>) = End(p)
         /\ DNS!Last(<<Whole(p)>>) = Whole(p) /\ DNS!Last(<<Begin(p)>>) = Begin(p)
         /\ DNS!Last(<<Begin(p), End(p)>>) = End(p)
         /\ <<Whole(p)>> # <<>> /\ <<Begin(p)>> # <<>> /\ <<Begin(p), End(p)>> # <<>>
BY DEF DNS!Last

(* An answer is read, and the rest of one (update_ip).                     *)
LEMMA ReceiveKeeps ==
  ASSUME Resolver, RInv, NEW p \in Pipes,
         DNS!ReceiveNothing(p) \/ DNS!Receive(p) \/ DNS!ReceiveRest(p)
  PROVE  RInv'
<1>1. /\ popup[p].at \in {"reads", "rest"} /\ LooksUp(p)
      /\ UNCHANGED <<use_tcp, default_dns_ip>>
  BY DEF DNS!ReceiveNothing, DNS!Receive, DNS!ReceiveRest, RInv
<1>2. con[p] \in Connection /\ TextTrue(con[p]) /\ popup[p] \in Lookup /\ inqueue \in Seq(Piece)
      /\ asked \subseteq Way /\ con = [con EXCEPT ![p] = con[p]]
  BY DEF RInv, Texts
<1>3. ASSUME DNS!Leave, inqueue # <<>> \/ use_tcp
      PROVE  asked' \subseteq Way /\ inqueue' \in Seq(Piece)
  <2>1. CASE use_tcp
    BY <1>3, <2>1 DEF DNS!Leave
  <2>2. CASE ~use_tcp
    <3>1. Tail(inqueue) \in Seq(Piece)
      BY <1>3, <2>2, PiecesFacts
    <3>2. inqueue' = Tail(inqueue) /\ asked' = asked
      BY <1>3, <2>2 DEF DNS!Leave
    <3> QED
      BY <1>2, <3>1, <3>2
  <2> QED
    BY <2>1, <2>2
<1>4. ASSUME DNS!TakeAnything(p), popup[p].mixed
      PROVE  \/ DNS!Finish(p, con[p])
             \/ \E of \in Address : DNS!Take(p, of) /\ (~popup[p].mixed => of = Own(p))
  <2>1. ASSUME NEW s \in Servers, NEW n \in Names, DNS!Take(p, <<s, n>>)
        PROVE  \E of \in Address : DNS!Take(p, of) /\ (~popup[p].mixed => of = Own(p))
    <3>1. <<s, n>> \in Address
      BY DEF Address, Asked
    <3> QED
      BY <1>4, <2>1, <3>1
  <2> QED
    BY <1>4, <2>1, Zenon DEF DNS!TakeAnything
<1>5. CASE DNS!ReceiveNothing(p)
  <2>1. asked' \subseteq Way /\ inqueue' \in Seq(Piece) /\ DNS!Finish(p, con[p])
    BY <1>2, <1>5 DEF DNS!ReceiveNothing
  <2> QED
    BY <1>1, <2>1, EndKeeps
<1>6. CASE DNS!Receive(p)
  <2> DEFINE first == Head(inqueue)
             whole == DNS!Last(inqueue).of = first.of /\ ~DNS!Last(inqueue).more
             l == [popup[p] EXCEPT !.at = "rest", !.part = first.of]
  <2>1. popup[p].at = "reads" /\ inqueue # <<>> /\ first \in Piece /\ first.of \in Address
    BY <1>6, PiecesFacts DEF DNS!Receive
  <2>2. ASSUME ~popup[p].mixed
        PROVE  /\ first.of = Own(p) /\ ~first.rest
               /\ \/ whole
                  \/ use_tcp /\ asked = {Rest(p)} /\ inqueue = <<Begin(p)>>
    <3>1. Exchange(p)
      BY <1>1, <2>2 DEF LooksUp, Alone
    <3>2. \/ inqueue = <<Whole(p)>>
          \/ use_tcp /\ asked = {Rest(p)} /\ inqueue = <<Begin(p)>>
          \/ inqueue = <<Begin(p), End(p)>>
      BY <2>1, <3>1 DEF Exchange
    <3> QED
      <4>1. CASE inqueue = <<Whole(p)>>
        <5>1. first = Whole(p) /\ DNS!Last(inqueue) = Whole(p)
          BY <4>1, ExchangeFacts
        <5> HIDE DEF first
        <5> QED
          BY <4>1, <5>1 DEF Whole
      <4>2. CASE use_tcp /\ asked = {Rest(p)} /\ inqueue = <<Begin(p)>>
        <5>1. first = Begin(p) /\ DNS!Last(inqueue) = Begin(p)
          BY <4>2, ExchangeFacts
        <5> HIDE DEF first
        <5> QED
          BY <4>2, <5>1 DEF Begin
      <4>3. CASE inqueue = <<Begin(p), End(p)>>
        <5>1. first = Begin(p) /\ DNS!Last(inqueue) = End(p)
          BY <4>3, ExchangeFacts
        <5> HIDE DEF first
        <5> QED
          BY <4>3, <5>1 DEF Begin, End
      <4> QED
        BY <3>2, <4>1, <4>2, <4>3
  <2>3. CASE use_tcp /\ ~first.rest /\ ~whole
    <3>1. popup' = [popup EXCEPT ![p] = l] /\ inqueue' = <<>> /\ UNCHANGED <<con, asked>>
      BY <1>2, <1>6, <2>3, Zenon DEF DNS!Receive
    <3>2. l \in Lookup /\ l.mixed = popup[p].mixed /\ l.part = first.of /\ l.at = "rest"
      BY <1>2, <2>1 DEF Lookup
    <3>3. popup'[p] = l
      BY <3>1 DEF RInv, Texts
    <3> HIDE DEF l
    <3>4. ~l.mixed => Exchange(p)'
      BY <2>2, <2>3, <3>1, <3>2, <3>3 DEF Exchange, Own, Rest
    <3>5. con[p].open /\ con[p].ip_string.len = 0
      BY <1>1 DEF LooksUp
    <3>6. asked' \subseteq Way /\ inqueue' \in Seq(Piece) /\ con' = [con EXCEPT ![p] = con[p]]
      BY <1>2, <3>1
    <3>7. popup[p].at # "idle"
      BY <1>1
    <3> HIDE DEF RInv
    <3> QED
      BY <1>1, <1>2, <2>3, <3>1, <3>2, <3>4, <3>5, <3>6, <3>7, WorkKeeps
  <2>4. CASE ~(use_tcp /\ ~first.rest /\ ~whole)
    <3>1. DNS!Leave /\ IF first.rest THEN DNS!TakeAnything(p) ELSE DNS!Take(p, first.of)
      BY <1>6, <2>4, Zenon DEF DNS!Receive
    <3>2. asked' \subseteq Way /\ inqueue' \in Seq(Piece)
      BY <1>3, <2>1, <3>1
    <3>3. \/ DNS!Finish(p, con[p])
          \/ \E of \in Address : DNS!Take(p, of) /\ (~popup[p].mixed => of = Own(p))
      <4>1. CASE first.rest
        <5>1. popup[p].mixed
          BY <2>2, <4>1
        <5> QED
          BY <1>4, <3>1, <4>1, <5>1
      <4>2. CASE ~first.rest
        <5>1. DNS!Take(p, first.of)
          BY <3>1, <4>2
        <5>2. ~popup[p].mixed => first.of = Own(p)
          BY <2>2
        <5> QED
          BY <2>1, <5>1, <5>2
      <4> QED
        BY <4>1, <4>2
    <3> QED
      BY <1>1, <3>2, <3>3, EndKeeps
  <2> QED
    BY <2>3, <2>4
<1>7. CASE DNS!ReceiveRest(p)
  <2>1. popup[p].at = "rest" /\ DNS!Leave /\ (inqueue # <<>> \/ asked = {})
    BY <1>7 DEF DNS!ReceiveRest
  <2>2. ~popup[p].mixed => inqueue = <<End(p)>> /\ popup[p].part = Own(p)
    <3> SUFFICES ASSUME ~popup[p].mixed PROVE inqueue = <<End(p)>> /\ popup[p].part = Own(p)
      OBVIOUS
    <3>1. Exchange(p)
      BY <1>1 DEF LooksUp, Alone
    <3> QED
      BY <2>1, <3>1 DEF Exchange
  <2>3. asked' \subseteq Way /\ inqueue' \in Seq(Piece)
    <3>1. CASE inqueue # <<>>
      BY <1>3, <2>1, <3>1
    <3>2. CASE inqueue = <<>>
      <4>1. use_tcp
        BY <1>1, <2>1 DEF LooksUp
      <4> QED
        BY <2>1, <4>1 DEF DNS!Leave
    <3> QED
      BY <3>1, <3>2
  <2> DEFINE rest == inqueue # <<>> /\ Head(inqueue).rest /\ Head(inqueue).of = popup[p].part
  <2>4. CASE rest
    <3>1. DNS!Take(p, popup[p].part)
      BY <1>7, <2>4, Zenon DEF DNS!ReceiveRest
    <3>2. popup[p].part \in Address
      BY <2>4, PiecesFacts
    <3> QED
      BY <1>1, <2>2, <2>3, <3>1, <3>2, EndKeeps
  <2>5. CASE ~rest
    <3>1. DNS!TakeAnything(p)
      BY <1>7, <2>5, Zenon DEF DNS!ReceiveRest
    <3>2. popup[p].mixed
      BY <2>2, <2>5, ExchangeFacts DEF End
    <3> QED
      BY <1>1, <1>4, <2>3, <3>1, <3>2, EndKeeps
  <2> QED
    BY <2>4, <2>5
<1> QED
  BY <1>5, <1>6, <1>7

-----------------------------------------------------------------------------
(* A pipe changes but for the query of a look-up that works on it.         *)
LEMMA PipeSet ==
  ASSUME RInv, NEW p \in Pipes, NEW c \in Connection, TextTrue(c),
         con' = [con EXCEPT ![p] = c],
         popup[p].at = "idle" \/ /\ c.open /\ c.ip_string.len = 0
                                 /\ c.dns_ip = con[p].dns_ip /\ c.dname = con[p].dname,
         UNCHANGED <<use_tcp, default_dns_ip, popup, asked, inqueue>>
  PROVE  RInv'
<1>1. /\ con' \in [Pipes -> Connection] /\ con'[p] = c
      /\ \A q \in Pipes \ {p} : con'[q] = con[q]
  BY DEF RInv, Texts
<1>2. Texts'
  <2>1. \A q \in Pipes : TextTrue(con[q])'
    BY <1>1 DEF RInv, Texts, TextTrue
  <2> QED
    BY <1>1, <2>1 DEF RInv, Texts
<1>3. ASSUME NEW q \in Pipes, popup[q].at # "idle" PROVE LooksUp(q)'
  <2>1. LooksUp(q)
    BY <1>3 DEF RInv
  <2>2. Own(q)' = Own(q) /\ con'[q].open /\ con'[q].ip_string.len = 0
    BY <1>1, <1>3, <2>1 DEF Own, LooksUp
  <2>3. Exchange(q) => Exchange(q)'
    BY <2>2 DEF Exchange, Query, Rest, Whole, Begin, End
  <2> QED
    BY <2>1, <2>2, <2>3 DEF LooksUp, Alone
<1> QED
  BY <1>2, <1>3 DEF RInv

(* Pipes are opened, closed, duplicated and read from another place.       *)
LEMMA PipeKeeps ==
  ASSUME Resolver, RInv, NEW p \in Pipes,
         \/ DNS!service_create_pipe(p) \/ DNS!service_destroy_pipe(p)
         \/ DNS!set_flag_position(p)
         \/ \E q \in Pipes : DNS!service_duplicate_pipe(p, q)
  PROVE  RInv'
<1>1. con[p] \in Connection /\ TextTrue(con[p]) /\ default_dns_ip \in Asked
  BY DEF RInv, Texts
<1>2. DNS!NoCon \in Connection /\ TextTrue(DNS!NoCon)
  BY Sentinels
<1>3. \A q \in Pipes : ~con[q].open => popup[q].at = "idle"
  BY DEF RInv, LooksUp
<1>4. ASSUME NEW n \in Names, ~con[p].open,
             con' = [con EXCEPT ![p] = [DNS!NoCon EXCEPT !.open = TRUE, !.dname = n,
                                        !.dns_ip = default_dns_ip]],
             UNCHANGED <<use_tcp, default_dns_ip, popup, asked, inqueue>>
      PROVE  RInv'
  <2> DEFINE c == [DNS!NoCon EXCEPT !.open = TRUE, !.dname = n, !.dns_ip = default_dns_ip]
  <2>1. DNS!NoCon.ip_string.len = 0 /\ DNS!NoCon.ip = DNS!NoIp /\ DNS!NoCon.position = 0
    BY DEF DNS!NoCon, DNS!NoText
  <2>2. /\ c \in Connection /\ c.ip_string = DNS!NoCon.ip_string /\ c.ip = DNS!NoIp
        /\ c.position = 0
    <3> HIDE DEF DNS!NoCon
    <3> QED
      BY <1>1, <1>2, <2>1 DEF Connection
  <2>6. TextTrue(c)
    <3> HIDE DEF c
    <3> QED
      BY <2>1, <2>2 DEF TextTrue
  <2>3. popup[p].at = "idle"
    BY <1>3, <1>4
  <2>4. con' = [con EXCEPT ![p] = c]
    BY <1>4
  <2> HIDE DEF c, RInv
  <2> QED
    BY <1>4, <2>2, <2>3, <2>4, <2>6, PipeSet
<1>5. CASE DNS!service_create_pipe(p)
  BY <1>4, <1>5, Zenon DEF DNS!service_create_pipe
<1>6. CASE DNS!service_destroy_pipe(p)
  <2>1. /\ con' = [con EXCEPT ![p] = DNS!NoCon] /\ popup[p].at = "idle"
        /\ UNCHANGED <<use_tcp, default_dns_ip, popup, asked, inqueue>>
    BY <1>6 DEF DNS!service_destroy_pipe, DNS!Busy
  <2> HIDE DEF RInv
  <2> QED
    BY <1>2, <2>1, PipeSet
<1>7. ASSUME NEW v \in 0 .. MaxPosition, con[p].open,
             con' = [con EXCEPT ![p].behind = FALSE, ![p].position =
                       IF v > con[p].ip_string.len THEN con[p].ip_string.len ELSE v],
             UNCHANGED <<use_tcp, default_dns_ip, popup, asked, inqueue>>
      PROVE  RInv'
  <2> DEFINE to == IF v > con[p].ip_string.len THEN con[p].ip_string.len ELSE v
             c == [con[p] EXCEPT !.behind = FALSE, !.position = to]
  <2>1. to \in Nat /\ to <= con[p].ip_string.len
    BY <1>1 DEF Connection, Text, Resolver
  <2>2. con' = [con EXCEPT ![p] = c]
    BY <1>7 DEF RInv, Texts
  <2> HIDE DEF to
  <2>3. /\ c \in Connection /\ c.position = to /\ c.ip_string = con[p].ip_string
        /\ c.ip = con[p].ip /\ c.mixed = con[p].mixed /\ c.dns_ip = con[p].dns_ip
        /\ c.dname = con[p].dname /\ c.open
    BY <1>1, <1>7, <2>1 DEF Connection
  <2> HIDE DEF c
  <2>4. TextTrue(c)
    BY <1>1, <2>1, <2>3 DEF TextTrue
  <2>5. popup[p].at # "idle" => c.ip_string.len = 0
    BY <2>3 DEF RInv, LooksUp
  <2> HIDE DEF RInv
  <2> QED
    BY <1>7, <2>2, <2>3, <2>4, <2>5, PipeSet
<1>8. CASE DNS!set_flag_position(p)
  BY <1>7, <1>8, Zenon DEF DNS!set_flag_position
<1>9. ASSUME NEW q \in Pipes, DNS!service_duplicate_pipe(p, q) PROVE RInv'
  <2>1. /\ con' = [con EXCEPT ![q] = con[p]] /\ ~con[q].open
        /\ UNCHANGED <<use_tcp, default_dns_ip, popup, asked, inqueue>>
    BY <1>9 DEF DNS!service_duplicate_pipe
  <2>2. popup[q].at = "idle"
    BY <1>3, <2>1
  <2> HIDE DEF RInv
  <2> QED
    BY <1>1, <2>1, <2>2, PipeSet
<1> QED
  BY <1>5, <1>6, <1>8, <1>9

(* Another server: the text is given up, and a look-up of it is mixed up.  *)
LEMMA ServerSet ==
  ASSUME Resolver, RInv, NEW p \in Pipes, DNS!set_flag_dns_nsip(p)
  PROVE  RInv'
<1>1. con[p] \in Connection /\ TextTrue(con[p]) /\ popup[p] \in Lookup
  BY DEF RInv, Texts
<1>2. PICK s \in Servers :
        con' = [con EXCEPT ![p] = [DNS!SetNs(con[p], s) EXCEPT !.behind = con[p].position > 0]]
  BY Zenon DEF DNS!set_flag_dns_nsip
<1>3. /\ popup' = [popup EXCEPT ![p].mixed = popup[p].at # "idle"] /\ con[p].open
      /\ UNCHANGED <<use_tcp, default_dns_ip, asked, inqueue>>
  BY DEF DNS!set_flag_dns_nsip, DNS!Busy
<1> DEFINE c == [DNS!SetNs(con[p], s) EXCEPT !.behind = con[p].position > 0]
           l == [popup[p] EXCEPT !.mixed = popup[p].at # "idle"]
<1>4. /\ c \in Connection /\ c.open /\ c.ip_string = DNS!NoText /\ c.ip = con[p].ip
      /\ c.mixed = con[p].mixed /\ c.dname = con[p].dname /\ c.position = con[p].position
      /\ ~c.behind => c.position = 0
  <2> DEFINE behind == con[p].position > 0
             d == DNS!SetNs(con[p], s)
  <2>1. DNS!NoText \in Text
    BY DEF DNS!NoText, Text
  <2>2. behind \in BOOLEAN /\ (~behind => con[p].position = 0) /\ s \in Asked
    BY <1>1 DEF Connection, Asked
  <2>3. /\ d \in Connection /\ d.open = con[p].open /\ d.ip_string = DNS!NoText
        /\ d.ip = con[p].ip /\ d.mixed = con[p].mixed /\ d.dname = con[p].dname
        /\ d.position = con[p].position
    BY <1>1, <2>1, <2>2 DEF DNS!SetNs, Connection
  <2>4. c = [d EXCEPT !.behind = behind]
    OBVIOUS
  <2> HIDE DEF behind, d, c
  <2> QED
    BY <1>3, <2>2, <2>3, <2>4 DEF Connection
<1>5. TextTrue(c)
  <2>1. c.ip_string.len = 0 /\ c.position \in Nat
    BY <1>1, <1>4 DEF DNS!NoText, Connection
  <2>2. ~c.behind => c.position <= c.ip_string.len
    BY <1>4, <2>1
  <2> QED
    BY <1>1, <1>4, <2>1, <2>2 DEF TextTrue
<1>6. l \in Lookup /\ l.at = popup[p].at /\ (l.at # "idle" => l.mixed)
  BY <1>1 DEF Lookup
<1> HIDE DEF c, l
<1>7. /\ con' \in [Pipes -> Connection] /\ con'[p] = c
      /\ popup' \in [Pipes -> Lookup] /\ popup'[p] = l
      /\ \A q \in Pipes \ {p} : con'[q] = con[q] /\ popup'[q] = popup[q]
  <2>1. con' = [con EXCEPT ![p] = c] /\ popup' = [popup EXCEPT ![p] = l]
    BY <1>2, <1>3 DEF c, l, RInv, Texts
  <2> QED
    BY <1>4, <1>6, <2>1 DEF RInv, Texts
<1>8. Texts'
  <2>1. \A q \in Pipes : TextTrue(con[q])'
    BY <1>5, <1>7 DEF RInv, Texts, TextTrue
  <2> QED
    BY <1>3, <1>7, <2>1 DEF RInv, Texts
<1>9. ASSUME NEW q \in Pipes \ {p}, popup'[q].at # "idle" PROVE LooksUp(q)'
  <2>1. con'[q] = con[q] /\ popup'[q] = popup[q] /\ LooksUp(q)
    BY <1>7, <1>9 DEF RInv
  <2>2. ~popup[q].mixed => Alone(q)'
    <3> SUFFICES ASSUME ~popup[q].mixed PROVE Alone(q)'
      OBVIOUS
    <3>1. Alone(q)
      BY <2>1 DEF LooksUp
    <3>2. popup'[p].at = "idle"
      BY <1>6, <1>7, <3>1 DEF Alone
    <3>3. Own(q)' = Own(q)
      BY <2>1 DEF Own
    <3>4. Exchange(q)'
      BY <1>3, <2>1, <3>1, <3>3 DEF Alone, Exchange, Query, Rest, Whole, Begin, End
    <3> QED
      BY <1>7, <3>1, <3>2, <3>4 DEF Alone
  <2> QED
    BY <1>3, <2>1, <2>2 DEF LooksUp
<1>10. ASSUME popup'[p].at # "idle" PROVE LooksUp(p)'
  <2>1. LooksUp(p) /\ l.mixed
    BY <1>6, <1>7, <1>10 DEF RInv
  <2>2. c.ip_string.len = 0
    BY <1>4 DEF DNS!NoText
  <2>3. con'[p].open /\ con'[p].ip_string.len = 0 /\ popup'[p].mixed
    BY <1>4, <1>7, <2>1, <2>2
  <2>4. popup'[p].at = "rest" => use_tcp'
    BY <1>3, <1>6, <1>7, <2>1 DEF LooksUp
  <2> QED
    BY <2>3, <2>4 DEF LooksUp
<1> QED
  BY <1>8, <1>9, <1>10 DEF RInv

(* A request of a pipe whose name is known already.                        *)
LEMMA KnownKeeps ==
  ASSUME RInv, NEW p \in Pipes, popup[p].at = "idle",
         NEW c \in Connection, TextTrue(c), con' = [con EXCEPT ![p] = c],
         NEW l \in Lookup, l.at = "idle", popup' = [popup EXCEPT ![p] = l],
         UNCHANGED <<use_tcp, default_dns_ip, asked, inqueue>>
  PROVE  RInv'
<1>1. /\ con' \in [Pipes -> Connection] /\ con'[p] = c
      /\ popup' \in [Pipes -> Lookup] /\ popup'[p] = l
      /\ \A q \in Pipes \ {p} : con'[q] = con[q] /\ popup'[q] = popup[q]
  BY DEF RInv, Texts
<1>2. Texts'
  <2>1. \A q \in Pipes : TextTrue(con[q])'
    BY <1>1 DEF RInv, Texts, TextTrue
  <2> QED
    BY <1>1, <2>1 DEF RInv, Texts
<1>3. ASSUME NEW q \in Pipes, popup'[q].at # "idle" PROVE LooksUp(q)'
  <2>1. q # p /\ con'[q] = con[q] /\ popup'[q] = popup[q] /\ LooksUp(q)
    BY <1>1, <1>3 DEF RInv
  <2>2. Own(q)' = Own(q)
    BY <2>1 DEF Own
  <2>3. Exchange(q) => Exchange(q)'
    BY <2>1, <2>2 DEF Exchange, Query, Rest, Whole, Begin, End
  <2>4. \A r \in Pipes : popup[r].at = "idle" => popup'[r].at = "idle"
    BY <1>1
  <2> QED
    BY <2>1, <2>3, <2>4 DEF LooksUp, Alone
<1> QED
  BY <1>2, <1>3 DEF RInv

(* A name is looked up: every look-up that was under way is mixed up now,  *)
(* and this one too if there was one, or an old answer (update_ip).        *)
LEMMA RequestKeeps ==
  ASSUME Resolver, RInv, NEW p \in Pipes, DNS!Request(p)
  PROVE  RInv'
<1>1. /\ con[p].open /\ popup[p].at = "idle" /\ con[p] \in Connection /\ TextTrue(con[p])
      /\ UNCHANGED <<use_tcp, default_dns_ip>>
  BY DEF DNS!Request, DNS!Busy, RInv, Texts
<1>2. DNS!Idle \in Lookup /\ DNS!Idle.at = "idle"
  BY Sentinels DEF DNS!Idle
<1>3. CASE DNS!Resolved(p)
  <2>1. DNS!Finish(p, con[p]) /\ UNCHANGED <<asked, inqueue>>
    BY <1>3, Zenon DEF DNS!Request
  <2>2. PICK d \in Connection : /\ TextTrue(d) /\ con' = [con EXCEPT ![p] = d]
                                /\ popup' = [popup EXCEPT ![p] = DNS!Idle]
    BY <1>1, <2>1, FinishTrue
  <2> HIDE DEF RInv
  <2> QED
    BY <1>1, <1>2, <2>1, <2>2, KnownKeeps
<1>4. CASE ~DNS!Resolved(p)
  <2> DEFINE others == \E q \in Pipes : popup[q].at # "idle"
             old == IF use_tcp THEN {} ELSE asked
             late == old # {} \/ (~use_tcp /\ inqueue # <<>>)
             l == [DNS!Idle EXCEPT !.at = "waits", !.mixed = others \/ late]
             m(q) == [popup[q] EXCEPT !.mixed = popup[q].at # "idle"]
  <2>1. /\ asked' = old \union {Query(p)}
        /\ inqueue' = (IF use_tcp THEN <<>> ELSE inqueue)
        /\ popup' = [q \in Pipes |-> IF q = p THEN l ELSE m(q)]
        /\ con' = con
    BY <1>4, Zenon DEF DNS!Request, DNS!Busy, Query, Own
  <2>2. l \in Lookup /\ l.at = "waits" /\ (l.mixed <=> (others \/ late))
    <3>1. (others \/ late) \in BOOLEAN
      OBVIOUS
    <3> HIDE DEF others, late
    <3> QED
      BY <3>1 DEF DNS!Idle, DNS!NoIp, Lookup
  <2>3. \A q \in Pipes : /\ m(q) \in Lookup /\ m(q).at = popup[q].at
                         /\ popup[q].at # "idle" => m(q).mixed
    BY DEF RInv, Texts, Lookup
  <2> HIDE DEF l, m
  <2>4. /\ popup' \in [Pipes -> Lookup] /\ popup'[p] = l
        /\ \A q \in Pipes \ {p} : popup'[q] = m(q)
    BY <2>1, <2>2, <2>3
  <2>5. Query(p) \in Way
    BY <1>1 DEF Query, Own, Way, Address, Connection
  <2>6. Texts'
    <3>1. asked' \subseteq Way /\ inqueue' \in Seq(Piece)
      BY <2>1, <2>5 DEF RInv, Texts
    <3>2. \A q \in Pipes : TextTrue(con[q])'
      BY <2>1 DEF RInv, Texts, TextTrue
    <3> QED
      BY <1>1, <2>1, <2>4, <3>1, <3>2 DEF RInv, Texts
  <2>7. ASSUME NEW q \in Pipes \ {p}, popup'[q].at # "idle" PROVE LooksUp(q)'
    <3>1. LooksUp(q) /\ popup'[q].at = popup[q].at /\ popup'[q].mixed
      BY <2>3, <2>4, <2>7 DEF RInv
    <3> QED
      BY <1>1, <2>1, <3>1 DEF LooksUp
  <2>8. LooksUp(p)'
    <3>1. con[p].ip_string.len = 0
      BY <1>1, <1>4 DEF DNS!Resolved, Connection, Text
    <3>2. ~l.mixed => Alone(p)'
      <4> SUFFICES ASSUME ~l.mixed PROVE Alone(p)'
        OBVIOUS
      <4>1. ~others /\ ~late
        BY <2>2
      <4>2. asked' = {Query(p)} /\ inqueue' = <<>>
        BY <2>1, <4>1
      <4>3. \A q \in Pipes \ {p} : popup'[q].at = "idle"
        BY <2>3, <2>4, <4>1
      <4>4. Query(p)' = Query(p)
        BY <2>1 DEF Query, Own
      <4>5. Exchange(p)'
        BY <2>2, <2>4, <4>2, <4>4 DEF Exchange
      <4> QED
        BY <4>3, <4>5 DEF Alone
    <3> QED
      BY <1>1, <2>1, <2>2, <2>4, <3>1, <3>2 DEF LooksUp
  <2> QED
    BY <2>6, <2>7, <2>8 DEF RInv
<1> QED
  BY <1>3, <1>4

(* Time passes, or there is something to read.                             *)
LEMMA WaitKeepsD ==
  ASSUME Resolver, RInv, NEW p \in Pipes, DNS!Timeout(p) \/ DNS!Readable(p)
  PROVE  RInv'
<1>1. /\ con[p] \in Connection /\ TextTrue(con[p]) /\ popup[p] \in Lookup
      /\ popup[p].at = "waits" /\ LooksUp(p) /\ con = [con EXCEPT ![p] = con[p]]
      /\ asked \subseteq Way /\ inqueue \in Seq(Piece)
  BY DEF DNS!Timeout, DNS!Readable, RInv, Texts
<1>2. UNCHANGED <<use_tcp, default_dns_ip, con, asked, inqueue>>
  BY DEF DNS!Timeout, DNS!Readable
<1>3. CASE DNS!Timeout(p)
  <2>1. popup' = [popup EXCEPT ![p] = DNS!Idle] /\ DNS!Idle \in Lookup /\ DNS!Idle.at = "idle"
    BY <1>3, Sentinels DEF DNS!Timeout, DNS!Idle
  <2> HIDE DEF RInv
  <2> QED
    BY <1>1, <1>2, <2>1, WorkKeeps
<1>4. CASE DNS!Readable(p)
  <2> DEFINE l == [popup[p] EXCEPT !.at = "reads"]
  <2>1. popup' = [popup EXCEPT ![p] = l]
    BY <1>4 DEF DNS!Readable, RInv, Texts
  <2>2. l \in Lookup /\ l.at = "reads" /\ l.mixed = popup[p].mixed
    BY <1>1 DEF Lookup
  <2> HIDE DEF l
  <2>3. popup'[p] = l
    BY <2>1 DEF RInv, Texts
  <2>4. ~l.mixed => Exchange(p)'
    <3>1. Own(p)' = Own(p)
      BY <1>2 DEF Own
    <3> QED
      BY <1>1, <1>2, <2>2, <2>3, <3>1 DEF LooksUp, Alone, Exchange, Query, Rest, Whole, Begin, End
  <2>5. con[p].open /\ con[p].ip_string.len = 0
    BY <1>1 DEF LooksUp
  <2>6. asked' \subseteq Way /\ inqueue' \in Seq(Piece) /\ con' = [con EXCEPT ![p] = con[p]]
    BY <1>1, <1>2
  <2> HIDE DEF RInv
  <2> QED
    BY <1>1, <1>2, <2>1, <2>2, <2>4, <2>5, <2>6, WorkKeeps
<1> QED
  BY <1>3, <1>4

-----------------------------------------------------------------------------
(* A sequence of two is one of one with an entry appended.                 *)
LEMMA AppendIsBoth ==
  ASSUME NEW S, NEW one \in Seq(S), NEW both \in Seq(S), NEW y \in S,
         Len(one) = 1, Len(both) = 2, both[1] = one[1], both[2] = y
  PROVE  Append(one, y) = both
<1> DEFINE more == Append(one, y)
<1>1. more \in Seq(S)
  BY AppendProperties
<1>2. Len(more) = Len(one) + 1
  BY AppendProperties
<1>3. \A i \in 1 .. Len(one) : more[i] = one[i]
  BY AppendProperties
<1>4. more[Len(one) + 1] = y
  BY AppendProperties
<1> HIDE DEF more
<1>5. Len(more) = Len(both) /\ \A i \in 1 .. Len(more) : more[i] = both[i]
  <2>1. Len(more) = 2 /\ more[1] = one[1] /\ more[2] = y
    BY <1>2, <1>3, <1>4
  <2> QED
    BY <2>1
<1>6. more = both
  BY Zenon, <1>1, <1>5, SeqEqual
<1> QED
  BY <1>6 DEF more

(* Appending to a sequence of one, written out.                            *)
LEMMA AppendToOne == ASSUME NEW x, NEW y PROVE Append(<<x>>, y) = <<x, y>>
<1> DEFINE one == <<x>>
           both == <<x, y>>
           S == {x, y}
<1>1. /\ one \in Seq(S) /\ Len(one) = 1 /\ one[1] = x
      /\ both \in Seq(S) /\ Len(both) = 2 /\ both[1] = x /\ both[2] = y /\ y \in S
  OBVIOUS
<1> HIDE DEF one, both, S
<1>2. Append(one, y) = both
  BY <1>1, AppendIsBoth
<1> QED
  BY <1>2 DEF one, both

(* The network answers, over TCP perhaps only with the beginning, or loses *)
(* a query; the name server for new pipes changes.                         *)
LEMMA NetKeeps ==
  ASSUME Resolver, RInv, DNS!NetAnswers \/ DNS!NetLoses \/ DNS!set_flag_dns_default_nsip
  PROVE  RInv'
<1>1. UNCHANGED <<use_tcp, con, popup>> /\ default_dns_ip' \in Asked
  BY DEF DNS!NetAnswers, DNS!NetLoses, DNS!set_flag_dns_default_nsip, RInv, Texts, Asked
<1>2. \A q \in Pipes : /\ Own(q)' = Own(q) /\ Query(q)' = Query(q) /\ Rest(q)' = Rest(q)
                       /\ Whole(q)' = Whole(q) /\ Begin(q)' = Begin(q) /\ End(q)' = End(q)
  BY <1>1 DEF Own, Query, Rest, Whole, Begin, End
<1>3. asked \subseteq Way /\ inqueue \in Seq(Piece)
  BY DEF RInv, Texts
<1>4. ASSUME asked' \subseteq Way, inqueue' \in Seq(Piece),
             \A p \in Pipes : popup[p].at # "idle" /\ ~popup[p].mixed /\ Exchange(p) => Exchange(p)'
      PROVE  RInv'
  <2>1. Texts'
    <3>1. \A q \in Pipes : TextTrue(con[q])'
      BY <1>1 DEF RInv, Texts, TextTrue
    <3> QED
      BY <1>1, <1>4, <3>1 DEF RInv, Texts
  <2>2. \A q \in Pipes : popup'[q].at # "idle" => LooksUp(q)'
    BY <1>1, <1>4 DEF RInv, LooksUp, Alone
  <2> QED
    BY <2>1, <2>2 DEF RInv
<1>5. ASSUME NEW a \in asked, NEW more \in BOOLEAN, more => use_tcp /\ ~a.rest,
             asked' = (asked \ {a}) \union (IF more THEN {[a EXCEPT !.rest = TRUE]} ELSE {}),
             inqueue' = Append(inqueue, [of |-> a.of, rest |-> a.rest, more |-> more])
      PROVE  RInv'
  <2> DEFINE piece == [of |-> a.of, rest |-> a.rest, more |-> more]
  <2>1. a \in Way /\ [a EXCEPT !.rest = TRUE] \in Way /\ piece \in Piece
    BY <1>3 DEF Way, Piece
  <2>2. asked' \subseteq Way
    BY <1>3, <1>5, <2>1
  <2>3. inqueue' \in Seq(Piece)
    <3> HIDE DEF piece
    <3>1. Append(inqueue, piece) \in Seq(Piece)
      BY Zenon, <1>3, <2>1, AppendProperties
    <3> QED
      BY <1>5, <3>1 DEF piece
  <2>4. ASSUME NEW p \in Pipes, Exchange(p) PROVE Exchange(p)'
    <3>1. ASSUME a = Rest(p), asked = {Rest(p)}
          PROVE  asked' = {} /\ piece = End(p)
      BY <1>5, <3>1 DEF Rest, End
    <3>2. ASSUME a = Query(p), asked = {Query(p)}
          PROVE  \/ asked' = {} /\ piece = Whole(p)
                 \/ use_tcp /\ asked' = {Rest(p)} /\ piece = Begin(p)
      <4>1. CASE more
        <5>1. [a EXCEPT !.rest = TRUE] = Rest(p) /\ piece = Begin(p)
          <6>1. a.of = Own(p) /\ a.rest = FALSE /\ more = TRUE
            BY <3>2, <4>1 DEF Query
          <6>2. [a EXCEPT !.rest = TRUE] = [of |-> Own(p), rest |-> TRUE]
            <7>1. \A b, c \in Way : b.of = c.of /\ b.rest = c.rest => b = c
              BY DEF Way
            <7>2. [of |-> Own(p), rest |-> TRUE] \in Way
              BY <2>1, <6>1 DEF Way
            <7>3. [a EXCEPT !.rest = TRUE].of = a.of /\ [a EXCEPT !.rest = TRUE].rest = TRUE
              BY <2>1 DEF Way
            <7> QED
              BY <2>1, <6>1, <7>1, <7>2, <7>3
          <6> QED
            BY <6>1, <6>2 DEF Rest, Begin
        <5> QED
          BY <1>5, <3>2, <4>1, <5>1
      <4>2. CASE ~more
        <5>1. piece = Whole(p)
          BY <3>2, <4>2 DEF Query, Whole
        <5> QED
          BY <1>5, <3>2, <4>2, <5>1
      <4> QED
        BY <4>1, <4>2
    <3>3. inqueue' = Append(inqueue, piece)
      BY <1>5
    <3> HIDE DEF piece
    <3>4. CASE popup[p].at = "rest"
      <4>1. popup[p].part = Own(p) /\ asked = {Rest(p)} /\ inqueue = <<>>
        BY <2>4, <3>4 DEF Exchange
      <4>2. inqueue' = <<End(p)>> /\ asked' = {}
        BY <3>1, <3>3, <4>1
      <4> QED
        BY <1>1, <1>2, <3>4, <4>1, <4>2 DEF Exchange
    <3>5. CASE popup[p].at # "rest"
      <4>1. \/ asked = {Query(p)} /\ inqueue = <<>>
            \/ use_tcp /\ asked = {Rest(p)} /\ inqueue = <<Begin(p)>>
        BY <2>4, <3>5 DEF Exchange
      <4>2. \/ asked' = {} /\ inqueue' = <<Whole(p)>>
            \/ use_tcp /\ asked' = {Rest(p)} /\ inqueue' = <<Begin(p)>>
            \/ use_tcp /\ asked' = {} /\ inqueue' = <<Begin(p), End(p)>>
        <5>1. CASE asked = {Query(p)} /\ inqueue = <<>>
          BY <3>2, <3>3, <5>1
        <5>2. CASE use_tcp /\ asked = {Rest(p)} /\ inqueue = <<Begin(p)>>
          <6>1. asked' = {} /\ piece = End(p)
            BY <3>1, <5>2
          <6>2. Append(<<Begin(p)>>, End(p)) = <<Begin(p), End(p)>>
            BY AppendToOne
          <6> QED
            BY <3>3, <5>2, <6>1, <6>2
        <5> QED
          BY <4>1, <5>1, <5>2
      <4> QED
        BY <1>1, <1>2, <3>5, <4>2 DEF Exchange
    <3> QED
      BY <3>4, <3>5
  <2> QED
    BY <1>4, <2>2, <2>3, <2>4
<1>6. CASE DNS!NetAnswers
  BY <1>5, <1>6, Zenon DEF DNS!NetAnswers
<1>7. CASE DNS!NetLoses
  <2>1. PICK a \in asked : ~a.rest /\ asked' = asked \ {a} /\ inqueue' = inqueue
    BY <1>7 DEF DNS!NetLoses
  <2>2. ASSUME NEW p \in Pipes, Exchange(p) PROVE Exchange(p)'
    <3>1. Rest(p).rest
      BY DEF Rest
    <3>2. ~(asked = {Rest(p)})
      BY <2>1, <3>1
    <3> QED
      BY <1>1, <1>2, <2>1, <2>2, <3>2 DEF Exchange
  <2> QED
    BY <1>3, <1>4, <2>1, <2>2
<1>8. CASE DNS!set_flag_dns_default_nsip
  <2>1. UNCHANGED <<asked, inqueue>>
    BY <1>8 DEF DNS!set_flag_dns_default_nsip
  <2>2. \A p \in Pipes : Exchange(p) => Exchange(p)'
    BY <1>1, <1>2, <2>1 DEF Exchange
  <2> QED
    BY <1>3, <1>4, <2>1, <2>2
<1> QED
  BY <1>6, <1>7, <1>8

(* Whatever the name servers answer, lose or send late, and whoever looks  *)
(* names up at the same time: the address that a pipe shows, as text or as *)
(* number, is the one its own server has given for its name, unless its    *)
(* look-up was mixed with another or with a change of the server, and it   *)
(* is read to its end and not further (update_ip, service_stream_recv).    *)
THEOREM AnswersAreOwn ==
  ASSUME Resolver
  PROVE  DNS!Spec => []DNS!Correct
<1>1. DNS!Init => RInv
  <2> SUFFICES ASSUME DNS!Init PROVE RInv
    OBVIOUS
  <2>1. /\ con = [p \in Pipes |-> DNS!NoCon] /\ popup = [p \in Pipes |-> DNS!Idle]
        /\ use_tcp \in BOOLEAN /\ default_dns_ip \in Asked /\ asked = {} /\ inqueue = <<>>
    BY DEF DNS!Init, Asked
  <2>2. DNS!Idle.at = "idle"
    BY DEF DNS!Idle
  <2> HIDE DEF DNS!Init
  <2>3. DNS!NoCon \in Connection /\ TextTrue(DNS!NoCon) /\ DNS!Idle \in Lookup
    BY Sentinels
  <2>4. Texts
    BY <2>1, <2>3 DEF Texts
  <2> QED
    BY <2>1, <2>2, <2>4 DEF RInv
<1>2. RInv /\ [DNS!Next]_(DNS!vars) => RInv'
  <2> SUFFICES ASSUME RInv, [DNS!Next]_(DNS!vars) PROVE RInv'
    OBVIOUS
  <2>1. CASE UNCHANGED DNS!vars
    BY <2>1 DEF DNS!vars, RInv, Texts, TextTrue, LooksUp, Alone, Exchange, Query, Rest, Whole,
       Begin, End, Own
  <2>2. CASE DNS!Next
    BY <2>2, PipeKeeps, ServerSet, RequestKeeps, WaitKeepsD, ReceiveKeeps, NetKeeps DEF DNS!Next
  <2> QED
    BY <2>1, <2>2
<1>3. RInv => DNS!Correct
  BY DEF RInv, Texts, TextTrue, DNS!Correct, DNS!TextIsOwn, DNS!NumberIsText,
     DNS!ReadsStayInside, DNS!Resolved
<1> QED
  BY <1>1, <1>2, <1>3, PTL DEF DNS!Spec

-----------------------------------------------------------------------------
(* The rings of the network cards.  A place in a ring, counted from        *)
(* another; what is in a ring from a place on: the first n frames of a     *)
(* sequence, and nothing behind them.                                      *)
Ring == Num \in Nat \ {0}

Plus(i, k) == IF i + k < Num THEN i + k ELSE i + k - Num

Has(ring, from, seq, n) == \A k \in 0 .. n - 1 : ring[Plus(from, k)] = seq[k + 1]

Holds(ring, from, seq, n) ==
  \A k \in 0 .. Num - 1 : ring[Plus(from, k)] = IF k < n THEN seq[k + 1] ELSE 0

Numbers == Nat \ {0}

ReceiveType ==
  /\ up \in {"off", "started", "registered"}
  /\ rx \in [NIC!Slots -> Nat]
  /\ hw \in [pos : NIC!Slots, tail : NIC!Slots, idle : BOOLEAN, irq : BOOLEAN, ready : BOOLEAN]
  /\ isr \in [at : {"idle", "head", "loop", "clear"}, cur : NIC!Slots, head : NIC!Slots, idle : BOOLEAN]
  /\ stored \in Seq(Numbers) /\ lastrx \in Numbers

SendType ==
  /\ tx \in [NIC!Slots -> Nat]
  /\ txhw \in [pos : NIC!Slots, tail : NIC!Slots]
  /\ snd \in [at : {"idle", "fill", "tail", "own", "wait"}, cur : NIC!Slots, slot : NIC!Slots]
  /\ queued \in Seq(Numbers) /\ lasttx \in Numbers

(* The card is as far before the driver as frames are stored.              *)
Received ==
  /\ up = "off" => isr.cur = 0 /\ isr.at = "idle" /\ stored = <<>> /\ ~hw.ready
  /\ hw.pos = Plus(isr.cur, Len(stored))

(* The e1000 never clears a descriptor: its tail is before the driver, so  *)
(* that a full ring has one frame less than it has descriptors; the head   *)
(* that was read is behind the card only by frames that ask for another    *)
(* interrupt.                                                              *)
ReceivedByTail ==
  nic = "e1000" =>
    /\ Len(stored) < Num
    /\ Has(rx, isr.cur, stored, Len(stored))
    /\ isr.at \in {"idle", "head", "loop"}
    /\ \E m \in Len(stored) .. Num - 1 : hw.tail = Plus(isr.cur, m)
    /\ isr.at = "loop" => \E h \in 0 .. Len(stored) :
         isr.head = Plus(isr.cur, h) /\ (hw.irq \/ h = Len(stored))
    /\ isr.at = "idle" => hw.irq \/ stored = <<>>

(* With the others a descriptor that is not empty holds a frame.           *)
ReceivedByMark ==
  nic # "e1000" =>
    /\ Len(stored) <= Num
    /\ Holds(rx, isr.cur, stored, Len(stored))
    /\ nic = "sis900" => isr.at \in {"idle", "loop"} /\ (isr.at = "idle" => hw.irq \/ stored = <<>>)

(* What is in the transmit ring, as long as no frame has met a full ring:  *)
(* all that was accepted, but for a frame                                  *)
(* that is just being put there.                                           *)
Filled == Len(queued) - (IF snd.at \in {"fill", "own"} THEN 1 ELSE 0)

Sent ==
  /\ Len(queued) <= Num
  /\ Filled >= 0
  /\ Holds(tx, txhw.pos, queued, Filled)
  /\ snd.at \in {"fill", "own"} =>
       queued[Len(queued)] = lasttx /\ snd.slot = Plus(txhw.pos, Filled)
  /\ nic # "sis900" => snd.cur = Plus(txhw.pos, Len(queued))
  /\ nic # "sis900" => snd.at # "wait"
  /\ nic # "e1000" => snd.at \notin {"fill", "tail"}
  /\ nic # "rtl8168b" => snd.at # "own"

SentByTail ==
  nic = "e1000" =>
    /\ Len(queued) < Num
    /\ snd.at = "idle" => txhw.tail = snd.cur
    /\ snd.at # "idle" => Len(queued) > 0 /\ txhw.tail = Plus(txhw.pos, Len(queued) - 1)

SentAndWaited ==
  nic = "sis900" =>
    /\ snd.at = "idle" => queued = <<>>
    /\ Len(queued) <= 1
    /\ queued # <<>> => snd.slot = txhw.pos

(* The drivers that look at the descriptor find it empty.                  *)
LookedAt ==
  /\ nic = "sis900" => ~overrun
  /\ nic = "rtl8168b" /\ snd.at = "own" => tx[snd.slot] = 0
  /\ overwritten => nic \in {"e1000", "pcnet"}

ReceiveInv == ReceiveType /\ Received /\ ReceivedByTail /\ ReceivedByMark
SendInv == Sent /\ SentByTail /\ SentAndWaited /\ ~missent /\ ~overwritten
RingInv == ReceiveInv /\ ~wrong /\ SendType /\ (overrun \/ SendInv) /\ LookedAt /\ ~missent

(* Places are counted around the ring.                                     *)
LEMMA Places ==
  ASSUME Ring, NEW i \in NIC!Slots
  PROVE  /\ NIC!After(i) = Plus(i, 1) /\ NIC!After(i) \in NIC!Slots
         /\ Plus(i, 0) = i /\ Plus(i, Num) = i
         /\ (i + Num - 1) % Num = Plus(i, Num - 1)
         /\ \A k \in 0 .. Num : Plus(i, k) \in NIC!Slots
         /\ \A k \in 0 .. Num - 1 : Plus(NIC!After(i), k) = Plus(i, k + 1)
         /\ \A j, k \in 0 .. Num - 1 : Plus(i, j) = Plus(i, k) => j = k
         /\ \A s \in NIC!Slots : \E k \in 0 .. Num - 1 : s = Plus(i, k)
<1>1. Num \in Nat /\ Num >= 1 /\ i \in Nat /\ i < Num
  BY DEF Ring, NIC!Slots
<1>2. NIC!After(i) = IF i + 1 < Num THEN i + 1 ELSE 0
  <2>1. CASE i + 1 < Num
    BY <1>1, <2>1 DEF NIC!After
  <2>2. CASE i + 1 = Num
    BY <1>1, <2>2 DEF NIC!After
  <2> QED
    BY <1>1, <2>1, <2>2
<1>3. (i + Num - 1) % Num = IF i = 0 THEN Num - 1 ELSE i - 1
  <2>1. CASE i = 0
    <3>1. i + Num - 1 = Num - 1 /\ Num - 1 \in 0 .. Num - 1
      BY <1>1, <2>1
    <3> QED
      BY <1>1, <2>1, <3>1
  <2>2. CASE i # 0
    <3>1. i + Num - 1 = (i - 1) + 1 * Num /\ i - 1 \in 0 .. Num - 1
      BY <1>1, <2>2
    <3>2. ((i - 1) + 1 * Num) % Num = i - 1
      BY <1>1, <3>1
    <3> QED
      BY <2>2, <3>1, <3>2
  <2> QED
    BY <2>1, <2>2
<1>4. \A s \in NIC!Slots : \E k \in 0 .. Num - 1 : s = Plus(i, k)
  <2> SUFFICES ASSUME NEW s \in NIC!Slots PROVE \E k \in 0 .. Num - 1 : s = Plus(i, k)
    OBVIOUS
  <2>1. s \in Nat /\ s < Num
    BY DEF NIC!Slots, Ring
  <2>2. CASE s >= i
    <3>1. s - i \in 0 .. Num - 1 /\ s = Plus(i, s - i)
      BY <1>1, <2>1, <2>2 DEF Plus
    <3> QED
      BY <3>1
  <2>3. CASE s < i
    <3>1. s - i + Num \in 0 .. Num - 1 /\ s = Plus(i, s - i + Num)
      BY <1>1, <2>1, <2>3 DEF Plus
    <3> QED
      BY <3>1
  <2> QED
    BY <1>1, <2>1, <2>2, <2>3
<1> QED
  BY <1>1, <1>2, <1>3, <1>4 DEF Plus, NIC!Slots

(* The place behind a place.                                               *)
LEMMA PlaceAfter ==
  ASSUME Ring, NEW i \in NIC!Slots, NEW n \in 0 .. Num - 1
  PROVE  NIC!After(Plus(i, n)) = Plus(i, n + 1) /\ NIC!After(Plus(i, n)) \in NIC!Slots
<1>1. Plus(i, n) \in NIC!Slots
  <2>1. \A k \in 0 .. Num : Plus(i, k) \in NIC!Slots
    BY Zenon, Places
  <2> QED
    BY <2>1 DEF Ring
<1>2. NIC!After(Plus(i, n)) = Plus(Plus(i, n), 1) /\ NIC!After(Plus(i, n)) \in NIC!Slots
  BY Zenon, <1>1, Places
<1>3. Plus(Plus(i, n), 1) = Plus(i, n + 1)
  BY DEF Plus, Ring, NIC!Slots
<1> QED
  BY <1>2, <1>3

(* Fewer places than the ring has never lead back to where they start.     *)
LEMMA PlaceSame ==
  ASSUME Ring, NEW i \in NIC!Slots, NEW n \in 0 .. Num - 1, Plus(i, n) = i
  PROVE  n = 0
  BY DEF Plus, Ring, NIC!Slots

(* The number of the next frame.                                           *)
LEMMA NumbersGoOn == ASSUME Ring, NEW f \in Numbers PROVE NIC!NextOf(f) \in Numbers
<1>1. f % (2 * Num + 1) \in Nat
  <2>1. 2 * Num + 1 \in Nat /\ 2 * Num + 1 > 0 /\ f \in Nat
    BY DEF Ring, Numbers
  <2> QED
    BY ONLY <2>1
<1> QED
  BY <1>1 DEF NIC!NextOf, Numbers

-----------------------------------------------------------------------------
(* A frame is put behind the others, taken from the front, looked for.     *)
LEMMA HoldsPut ==
  ASSUME Ring, NEW ring \in [NIC!Slots -> Nat], NEW from \in NIC!Slots, NEW seq, NEW n \in 0 .. Num - 1,
         Holds(ring, from, seq, n)
  PROVE  Holds([ring EXCEPT ![Plus(from, n)] = seq[n + 1]], from, seq, n + 1)
<1> SUFFICES ASSUME NEW k \in 0 .. Num - 1
    PROVE [ring EXCEPT ![Plus(from, n)] = seq[n + 1]][Plus(from, k)] = IF k < n + 1 THEN seq[k + 1] ELSE 0
  BY DEF Holds
<1>1. Plus(from, k) \in NIC!Slots /\ Plus(from, n) \in NIC!Slots /\ (Plus(from, k) = Plus(from, n) => k = n)
  <2>1. /\ \A j \in 0 .. Num : Plus(from, j) \in NIC!Slots
        /\ \A j, m \in 0 .. Num - 1 : Plus(from, j) = Plus(from, m) => j = m
    BY Zenon, Places
  <2> QED
    BY <2>1 DEF Ring
<1>2. ring[Plus(from, k)] = IF k < n THEN seq[k + 1] ELSE 0
  BY DEF Holds
<1>3. CASE k = n
  BY <1>1, <1>3 DEF Ring
<1>4. CASE k # n
  BY <1>1, <1>2, <1>4 DEF Ring
<1> QED
  BY <1>3, <1>4

(* A frame that is accepted and not yet in the ring.                       *)
LEMMA HoldsAppend ==
  ASSUME Ring, NEW ring, NEW from, NEW seq \in Seq(Numbers), NEW n \in Nat, n <= Len(seq), NEW f \in Numbers,
         Holds(ring, from, seq, n)
  PROVE  Holds(ring, from, Append(seq, f), n)
<1>1. \A k \in 0 .. Num - 1 : k < n => Append(seq, f)[k + 1] = seq[k + 1]
  BY DEF Ring
<1> QED
  BY <1>1 DEF Holds

(* The first frame leaves the ring.                                        *)
LEMMA HoldsPop ==
  ASSUME Ring, NEW ring \in [NIC!Slots -> Nat], NEW from \in NIC!Slots, NEW seq \in Seq(Numbers),
         NEW n \in 1 .. Num, n <= Len(seq), Holds(ring, from, seq, n)
  PROVE  /\ ring[from] = Head(seq)
         /\ Holds([ring EXCEPT ![from] = 0], NIC!After(from), Tail(seq), n - 1)
<1>1. \A k \in 0 .. Num - 1 : ring[Plus(from, k)] = IF k < n THEN seq[k + 1] ELSE 0
  BY DEF Holds
<1>2. ring[from] = Head(seq)
  <2>1. Plus(from, 0) = from /\ 0 \in 0 .. Num - 1
    BY Places DEF Ring
  <2> QED
    BY <1>1, <2>1
<1>3. ASSUME NEW k \in 0 .. Num - 1
      PROVE  [ring EXCEPT ![from] = 0][Plus(NIC!After(from), k)] =
               IF k < n - 1 THEN Tail(seq)[k + 1] ELSE 0
  <2>0. /\ \A j \in 0 .. Num : Plus(from, j) \in NIC!Slots
        /\ \A j, m \in 0 .. Num - 1 : Plus(from, j) = Plus(from, m) => j = m
        /\ \A j \in 0 .. Num - 1 : Plus(NIC!After(from), j) = Plus(from, j + 1)
        /\ Plus(from, 0) = from /\ Plus(from, Num) = from
    BY Zenon, Places
  <2>1. Plus(NIC!After(from), k) = Plus(from, k + 1) /\ Plus(from, k + 1) \in NIC!Slots
    BY <2>0 DEF Ring
  <2>2. CASE k = Num - 1
    <3>1. Plus(from, k + 1) = from
      BY <2>0, <2>2 DEF Ring
    <3> QED
      BY <2>1, <2>2, <3>1 DEF Ring
  <2>3. CASE k # Num - 1
    <3>1. k + 1 \in 0 .. Num - 1 /\ 0 \in 0 .. Num - 1
      BY <2>3 DEF Ring
    <3>2. Plus(from, k + 1) # from
      BY <2>0, <3>1 DEF Ring
    <3>3. ring[Plus(from, k + 1)] = IF k + 1 < n THEN seq[k + 2] ELSE 0
      BY <1>1, <3>1
    <3>4. k + 1 < n => Tail(seq)[k + 1] = seq[k + 2]
      BY DEF Ring
    <3> QED
      BY <2>1, <3>2, <3>3, <3>4
  <2> QED
    BY <2>2, <2>3
<1> QED
  BY <1>2, <1>3 DEF Holds

(* The first descriptor is empty only if the ring is, and the one behind   *)
(* the last frame only if there is room.                                   *)
LEMMA HoldsLook ==
  ASSUME Ring, NEW ring, NEW from \in NIC!Slots, NEW seq \in Seq(Numbers),
         NEW n \in 0 .. Num, n <= Len(seq), Holds(ring, from, seq, n)
  PROVE  /\ ring[from] = 0 <=> n = 0
         /\ n < Num <=> ring[Plus(from, n)] = 0
<1>1. \A k \in 0 .. Num - 1 : ring[Plus(from, k)] = IF k < n THEN seq[k + 1] ELSE 0
  BY DEF Holds
<1>2. Plus(from, 0) = from /\ Plus(from, Num) = from /\ 0 \in 0 .. Num - 1
  BY Places DEF Ring
<1>3. n > 0 => seq[1] # 0
  BY DEF Numbers
<1>4. ring[from] = 0 <=> n = 0
  BY <1>1, <1>2, <1>3
<1>5. n < Num => ring[Plus(from, n)] = 0
  <2> SUFFICES ASSUME n < Num PROVE ring[Plus(from, n)] = 0
    OBVIOUS
  <2>1. n \in 0 .. Num - 1 /\ ~(n < n)
    BY DEF Ring
  <2> QED
    BY <1>1, <2>1
<1> QED
  BY <1>2, <1>4, <1>5 DEF Ring

(* An empty ring is empty from any place on.                               *)
LEMMA HoldsNone ==
  ASSUME Ring, NEW ring, NEW from \in NIC!Slots, NEW seq, Holds(ring, from, seq, 0),
         NEW g \in NIC!Slots, NEW other
  PROVE  Holds(ring, g, other, 0)
<1>1. \A k \in 0 .. Num - 1 : ring[Plus(from, k)] = 0
  BY DEF Holds
<1>2. \A s \in NIC!Slots : ring[s] = 0
  <2>1. \A s \in NIC!Slots : \E k \in 0 .. Num - 1 : s = Plus(from, k)
    BY Zenon, Places
  <2> QED
    BY Zenon, <1>1, <2>1
<1>3. \A k \in 0 .. Num - 1 : Plus(g, k) \in NIC!Slots
  <2>1. \A k \in 0 .. Num : Plus(g, k) \in NIC!Slots
    BY Zenon, Places
  <2> QED
    BY <2>1 DEF Ring
<1> QED
  BY <1>2, <1>3 DEF Holds

(* The same for a ring that is never cleared: a frame more,                *)
LEMMA HasPut ==
  ASSUME Ring, NEW ring \in [NIC!Slots -> Nat], NEW from \in NIC!Slots, NEW seq \in Seq(Numbers),
         Len(seq) < Num, Has(ring, from, seq, Len(seq)), NEW f \in Numbers
  PROVE  Has([ring EXCEPT ![Plus(from, Len(seq))] = f], from, Append(seq, f), Len(Append(seq, f)))
<1>1. Len(Append(seq, f)) = Len(seq) + 1 /\ Len(seq) \in Nat
  OBVIOUS
<1> SUFFICES ASSUME NEW k \in 0 .. Len(seq)
    PROVE [ring EXCEPT ![Plus(from, Len(seq))] = f][Plus(from, k)] = Append(seq, f)[k + 1]
  BY <1>1 DEF Has
<1>2. k \in 0 .. Num - 1 /\ Len(seq) \in 0 .. Num - 1
  BY <1>1 DEF Ring
<1>3. /\ Plus(from, k) \in NIC!Slots /\ Plus(from, Len(seq)) \in NIC!Slots
      /\ Plus(from, k) = Plus(from, Len(seq)) => k = Len(seq)
  <2>1. /\ \A j \in 0 .. Num : Plus(from, j) \in NIC!Slots
        /\ \A j, m \in 0 .. Num - 1 : Plus(from, j) = Plus(from, m) => j = m
    BY Zenon, Places
  <2> QED
    BY <1>2, <2>1 DEF Ring
<1>4. CASE k = Len(seq)
  BY <1>1, <1>3, <1>4
<1>5. CASE k # Len(seq)
  <2>1. ring[Plus(from, k)] = seq[k + 1] /\ Append(seq, f)[k + 1] = seq[k + 1]
    BY <1>1, <1>5 DEF Has
  <2> QED
    BY <1>3, <1>5, <2>1
<1> QED
  BY <1>4, <1>5

(* and a frame less.                                                       *)
LEMMA HasPop ==
  ASSUME Ring, NEW ring, NEW from \in NIC!Slots, NEW seq \in Seq(Numbers),
         Len(seq) < Num, seq # <<>>, Has(ring, from, seq, Len(seq))
  PROVE  ring[from] = Head(seq) /\ Has(ring, NIC!After(from), Tail(seq), Len(Tail(seq)))
<1>1. Len(Tail(seq)) = Len(seq) - 1 /\ Len(seq) \in Nat /\ Len(seq) > 0
  OBVIOUS
<1>2. Plus(from, 0) = from
  BY Places
<1>3. ring[from] = Head(seq)
  BY <1>1, <1>2 DEF Has
<1>4. ASSUME NEW k \in 0 .. Len(seq) - 2 PROVE ring[Plus(NIC!After(from), k)] = Tail(seq)[k + 1]
  <2>1. Plus(NIC!After(from), k) = Plus(from, k + 1)
    BY <1>1, Places DEF Ring
  <2>2. ring[Plus(from, k + 1)] = seq[k + 2] /\ Tail(seq)[k + 1] = seq[k + 2]
    BY <1>1 DEF Has
  <2> QED
    BY <2>1, <2>2
<1> QED
  BY <1>1, <1>3, <1>4 DEF Has

-----------------------------------------------------------------------------
(* The card and the handler leave the transmit ring alone.                 *)
LEMMA ReceiveOnly ==
  ASSUME RingInv, ReceiveInv', ~wrong', UNCHANGED <<nic, tx, txhw, snd, queued, lasttx, missent, overrun, overwritten>>
  PROVE  RingInv'
<1>1. SendType'
  BY DEF RingInv, SendType, NIC!Slots
<1>2. SendInv => SendInv'
  BY DEF SendInv, Sent, SentByTail, SentAndWaited, Filled, Holds, Plus
<1>3. LookedAt'
  BY DEF RingInv, LookedAt
<1> QED
  BY <1>1, <1>2, <1>3 DEF RingInv

(* A step that leaves the receive ring alone keeps what is said of it.     *)
LEMMA SendOnly ==
  ASSUME RingInv, SendType', ~overrun' => SendInv', LookedAt', ~missent',
         UNCHANGED <<nic, up, rx, hw, isr, stored, lastrx, wrong>>
  PROVE  RingInv'
<1>1. ReceiveInv'
  BY DEF RingInv, ReceiveInv, ReceiveType, Received, ReceivedByTail, ReceivedByMark, Has, Holds, Plus, NIC!Slots
<1> QED
  BY <1>1 DEF RingInv

(* The driver is started, and the card told where it may store.            *)
LEMMA StartKeeps ==
  ASSUME Ring, RingInv, NIC!Start \/ NIC!Register
  PROVE  RingInv'
<1>1. /\ up' \in {"started", "registered"}
      /\ UNCHANGED <<nic, rx, isr, stored, lastrx, wrong>>
      /\ UNCHANGED <<nic, tx, txhw, snd, queued, lasttx, missent, overrun, overwritten>>
  BY DEF NIC!Start, NIC!Register, NIC!txvars, NIC!rxvars, NIC!e1000_init_device,
         NIC!rtl8168b_init_device, NIC!pcnet_init_device, NIC!sis900_init_device
<1>2. /\ hw' \in [pos : NIC!Slots, tail : NIC!Slots, idle : BOOLEAN, irq : BOOLEAN, ready : BOOLEAN]
      /\ hw'.pos = hw.pos /\ hw'.irq = hw.irq
      /\ hw'.tail = hw.tail \/ (up = "off" /\ hw'.tail = Num - 1)
  <2>1. hw' = hw \/ hw' = [hw EXCEPT !.ready = TRUE]
          \/ (up = "off" /\ hw' = [hw EXCEPT !.tail = Num - 1, !.ready = TRUE])
    BY DEF NIC!Start, NIC!Register, NIC!rxvars, NIC!e1000_reset_nic, NIC!rtl8168b_rings,
           NIC!pcnet_dev_init, NIC!sis900_reset_nic
  <2>2. Num - 1 \in NIC!Slots
    BY DEF NIC!Slots, Ring
  <2> QED
    BY <2>1, <2>2 DEF RingInv, ReceiveInv, ReceiveType
<1>3. ReceiveType'
  BY <1>1, <1>2 DEF RingInv, ReceiveInv, ReceiveType
<1>4. Received'
  BY <1>1, <1>2 DEF RingInv, ReceiveInv, Received, Plus
<1>5. ReceivedByMark'
  BY <1>1, <1>2 DEF RingInv, ReceiveInv, ReceivedByMark, Holds, Plus
<1>6. ReceivedByTail'
  <2> SUFFICES ASSUME nic = "e1000" PROVE ReceivedByTail'
    BY <1>1 DEF ReceivedByTail
  <2>1. \E m \in Len(stored) .. Num - 1 : hw'.tail = Plus(isr.cur, m)
    <3>1. CASE hw'.tail = hw.tail
      BY <3>1 DEF RingInv, ReceiveInv, ReceivedByTail
    <3>2. CASE up = "off" /\ hw'.tail = Num - 1
      <4>1. isr.cur = 0 /\ Len(stored) = 0
        BY <3>2 DEF RingInv, ReceiveInv, Received
      <4>2. Num - 1 \in 0 .. Num - 1 /\ Plus(0, Num - 1) = Num - 1
        BY DEF Ring, Plus
      <4> QED
        BY <3>2, <4>1, <4>2
    <3> QED
      BY <1>2, <3>1, <3>2
  <2> QED
    BY <1>1, <1>2, <2>1 DEF RingInv, ReceiveInv, ReceivedByTail, Has, Plus
<1> QED
  BY <1>1, <1>3, <1>4, <1>5, <1>6, ReceiveOnly DEF RingInv, ReceiveInv

(* The card stores a frame behind the others.                              *)
LEMMA StoreKeeps ==
  ASSUME Ring, RingInv, NIC!StoreFrame
  PROVE  RingInv'
<1> DEFINE f == NIC!NextOf(lastrx)
           n == Len(stored)
<1>1. /\ hw.ready /\ NIC!MayStore
      /\ rx' = [rx EXCEPT ![hw.pos] = f] /\ lastrx' = f /\ stored' = Append(stored, f)
      /\ hw' = [hw EXCEPT !.pos = NIC!After(hw.pos), !.irq = TRUE]
      /\ UNCHANGED <<nic, up, isr, wrong>> /\ UNCHANGED <<nic, tx, txhw, snd, queued, lasttx, missent, overrun, overwritten>>
  BY DEF NIC!StoreFrame, NIC!txvars
<1>2. f \in Numbers
  BY NumbersGoOn DEF RingInv, ReceiveInv, ReceiveType
<1> HIDE DEF f
<1>3. /\ rx \in [NIC!Slots -> Nat] /\ stored \in Seq(Numbers) /\ isr.cur \in NIC!Slots /\ hw.pos \in NIC!Slots
      /\ n \in Nat /\ hw.pos = Plus(isr.cur, n)
  BY DEF RingInv, ReceiveInv, ReceiveType, Received
<1>4. n < Num
  <2>1. CASE nic = "e1000"
    BY <2>1 DEF RingInv, ReceiveInv, ReceivedByTail
  <2>2. CASE nic # "e1000"
    <3>1. n \in 0 .. Num /\ Holds(rx, isr.cur, stored, n)
      BY <1>3, <2>2 DEF RingInv, ReceiveInv, ReceivedByMark
    <3>2. rx[Plus(isr.cur, n)] = 0
      BY <1>1, <1>3, <2>2 DEF NIC!MayStore, NIC!Empty
    <3> QED
      BY <1>3, <3>1, <3>2, HoldsLook
  <2> QED
    BY <2>1, <2>2
<1>5. /\ NIC!After(hw.pos) \in NIC!Slots
      /\ NIC!After(hw.pos) = Plus(isr.cur, n + 1)
  <2>1. n \in 0 .. Num - 1
    BY <1>3, <1>4 DEF Ring
  <2> QED
    BY Zenon, <1>3, <2>1, PlaceAfter
<1>6. /\ hw' \in [pos : NIC!Slots, tail : NIC!Slots, idle : BOOLEAN, irq : BOOLEAN, ready : BOOLEAN]
      /\ hw'.pos = NIC!After(hw.pos) /\ hw'.irq /\ hw'.tail = hw.tail
  BY <1>1, <1>5 DEF RingInv, ReceiveInv, ReceiveType
<1>7. stored' \in Seq(Numbers) /\ Len(stored') = n + 1 /\ stored' # <<>>
  BY <1>1, <1>2, <1>3
<1>8. ReceiveType'
  <2>1. rx' \in [NIC!Slots -> Nat]
    BY <1>1, <1>2, <1>3 DEF Numbers
  <2> QED
    BY <1>1, <1>2, <1>6, <1>7, <2>1 DEF RingInv, ReceiveInv, ReceiveType
<1>9. Received'
  BY <1>1, <1>5, <1>6, <1>7 DEF RingInv, ReceiveInv, Received, Plus
<1>10. ReceivedByMark'
  <2> SUFFICES ASSUME nic # "e1000" PROVE ReceivedByMark'
    BY <1>1 DEF ReceivedByMark
  <2>1. Holds(rx, isr.cur, stored, n)
    BY DEF RingInv, ReceiveInv, ReceivedByMark
  <2>2. Holds(rx, isr.cur, Append(stored, f), n)
    BY <1>2, <1>3, <2>1, HoldsAppend
  <2>3. Append(stored, f)[n + 1] = f
    BY <1>3
  <2>4. Holds(rx', isr.cur, stored', n + 1)
    <3>1. n \in 0 .. Num - 1
      BY <1>3, <1>4 DEF Ring
    <3>2. Holds([rx EXCEPT ![Plus(isr.cur, n)] = Append(stored, f)[n + 1]], isr.cur, Append(stored, f), n + 1)
      BY <1>3, <2>2, <3>1, HoldsPut
    <3> QED
      BY <1>1, <1>3, <2>3, <3>2
  <2> QED
    <3>1. Holds(rx, isr.cur, stored, Len(stored))'
      BY <1>1, <1>7, <2>4 DEF Holds, Plus
    <3>2. n + 1 <= Num
      BY <1>3, <1>4 DEF Ring
    <3>3. nic = "sis900" => isr.at \in {"idle", "loop"}
      BY DEF RingInv, ReceiveInv, ReceivedByMark
    <3> QED
      BY <1>1, <1>6, <1>7, <3>1, <3>2, <3>3 DEF ReceivedByMark
<1>11. ReceivedByTail'
  <2> SUFFICES ASSUME nic = "e1000" PROVE ReceivedByTail'
    BY <1>1 DEF ReceivedByTail
  <2>1. /\ Has(rx, isr.cur, stored, n) /\ isr.at \in {"idle", "head", "loop"}
        /\ \E m \in n .. Num - 1 : hw.tail = Plus(isr.cur, m)
        /\ isr.at = "loop" => \E h \in 0 .. n : isr.head = Plus(isr.cur, h)
    BY DEF RingInv, ReceiveInv, ReceivedByTail
  <2>2. PICK m \in n .. Num - 1 : hw.tail = Plus(isr.cur, m)
    BY <2>1
  <2>3. m # n
    BY <1>1, <1>3, <2>2 DEF NIC!MayStore
  <2>4. m \in n + 1 .. Num - 1 /\ n + 1 < Num
    BY <1>3, <2>2, <2>3 DEF Ring
  <2>5. Has(rx', isr.cur, stored', n + 1)
    BY <1>1, <1>2, <1>3, <1>4, <1>7, <2>1, HasPut
  <2>6. isr.at = "loop" => \E h \in 0 .. n + 1 : isr.head = Plus(isr.cur, h)
    BY <1>3, <2>1
  <2>7. \E k \in n + 1 .. Num - 1 : hw'.tail = Plus(isr.cur, k)
    BY <1>6, <2>2, <2>4
  <2> QED
    BY <1>1, <1>6, <1>7, <2>1, <2>4, <2>5, <2>6, <2>7 DEF ReceivedByTail, Has, Plus
<1> QED
  BY <1>1, <1>8, <1>9, <1>10, <1>11, ReceiveOnly DEF RingInv, ReceiveInv

(* The frames stay where they are; the card and the handler have changed   *)
(* something else.                                                         *)
LEMMA MarksKeep ==
  ASSUME RingInv, UNCHANGED <<nic, up, rx, stored, lastrx, wrong>>,
         UNCHANGED <<nic, tx, txhw, snd, queued, lasttx, missent, overrun, overwritten>>,
         hw' \in [pos : NIC!Slots, tail : NIC!Slots, idle : BOOLEAN, irq : BOOLEAN, ready : BOOLEAN],
         isr' \in [at : {"idle", "head", "loop", "clear"}, cur : NIC!Slots, head : NIC!Slots, idle : BOOLEAN],
         isr'.cur = isr.cur, hw'.pos = hw.pos,
         up = "off" => isr'.at = "idle" /\ (hw'.ready => hw.ready),
         nic = "e1000" =>
           /\ isr'.at \in {"idle", "head", "loop"}
           /\ \E m \in Len(stored) .. Num - 1 : hw'.tail = Plus(isr.cur, m)
           /\ isr'.at = "loop" => \E h \in 0 .. Len(stored) :
                isr'.head = Plus(isr.cur, h) /\ (hw'.irq \/ h = Len(stored))
           /\ isr'.at = "idle" => hw'.irq \/ stored = <<>>,
         nic = "sis900" =>
           isr'.at \in {"idle", "loop"} /\ (isr'.at = "idle" => hw'.irq \/ stored = <<>>)
  PROVE  RingInv'
<1>1. ReceiveType'
  BY DEF RingInv, ReceiveInv, ReceiveType
<1>2. Received'
  BY DEF RingInv, ReceiveInv, Received, Plus
<1>3. ReceivedByMark'
  <2> SUFFICES ASSUME nic # "e1000" PROVE ReceivedByMark'
    BY DEF ReceivedByMark
  <2>1. Holds(rx, isr.cur, stored, Len(stored)) /\ Len(stored) <= Num
    BY DEF RingInv, ReceiveInv, ReceivedByMark
  <2>2. Holds(rx, isr.cur, stored, Len(stored))'
    BY <2>1 DEF Holds, Plus
  <2> QED
    BY <2>1, <2>2 DEF ReceivedByMark
<1>4. ReceivedByTail'
  <2> SUFFICES ASSUME nic = "e1000" PROVE ReceivedByTail'
    BY DEF ReceivedByTail
  <2>1. Has(rx, isr.cur, stored, Len(stored)) /\ Len(stored) < Num
    BY DEF RingInv, ReceiveInv, ReceivedByTail
  <2>2. Has(rx, isr.cur, stored, Len(stored))'
    BY <2>1 DEF Has, Plus
  <2> QED
    BY <2>1, <2>2 DEF ReceivedByTail, Plus
<1> QED
  BY <1>1, <1>2, <1>3, <1>4, ReceiveOnly DEF RingInv, ReceiveInv

(* A step of the handler, or a lost frame, that takes no frame.            *)
LEMMA HandlerKeeps ==
  ASSUME Ring, RingInv,
         NIC!LoseFrame \/ NIC!HandlerStart \/ NIC!e1000_ReadHead \/ NIC!pcnet_LoopEnd
           \/ NIC!pcnet_stop \/ NIC!pcnet_Clear
  PROVE  RingInv'
<1>1. UNCHANGED <<nic, up, rx, stored, lastrx, wrong>> /\ UNCHANGED <<nic, tx, txhw, snd, queued, lasttx, missent, overrun, overwritten>>
  BY DEF NIC!LoseFrame, NIC!HandlerStart, NIC!e1000_ReadHead, NIC!pcnet_LoopEnd,
         NIC!pcnet_stop, NIC!pcnet_Clear, NIC!txvars
<1>2. /\ hw \in [pos : NIC!Slots, tail : NIC!Slots, idle : BOOLEAN, irq : BOOLEAN, ready : BOOLEAN]
      /\ isr \in [at : {"idle", "head", "loop", "clear"}, cur : NIC!Slots, head : NIC!Slots, idle : BOOLEAN]
      /\ Len(stored) \in Nat
      /\ hw.pos = Plus(isr.cur, Len(stored))
      /\ up = "off" => isr.at = "idle"
  BY DEF RingInv, ReceiveInv, ReceiveType, Received
<1>3. nic = "e1000" =>
        /\ isr.at \in {"idle", "head", "loop"}
        /\ \E m \in Len(stored) .. Num - 1 : hw.tail = Plus(isr.cur, m)
        /\ isr.at = "loop" => \E h \in 0 .. Len(stored) :
             isr.head = Plus(isr.cur, h) /\ (hw.irq \/ h = Len(stored))
        /\ isr.at = "idle" => hw.irq \/ stored = <<>>
  BY DEF RingInv, ReceiveInv, ReceivedByTail
<1>4. nic = "sis900" => isr.at \in {"idle", "loop"} /\ (isr.at = "idle" => hw.irq \/ stored = <<>>)
  BY DEF RingInv, ReceiveInv, ReceivedByMark
<1>5. CASE NIC!LoseFrame
  <2>1. hw' = [hw EXCEPT !.idle = (nic = "sis900"), !.irq = hw.irq \/ nic = "sis900"] /\ isr' = isr
    BY <1>5 DEF NIC!LoseFrame
  <2>2. /\ hw' \in [pos : NIC!Slots, tail : NIC!Slots, idle : BOOLEAN, irq : BOOLEAN, ready : BOOLEAN]
        /\ hw'.pos = hw.pos /\ hw'.tail = hw.tail /\ hw'.ready = hw.ready /\ (hw.irq => hw'.irq)
    BY <1>2, <2>1
  <2> QED
    BY <1>1, <1>2, <1>3, <1>4, <2>1, <2>2, MarksKeep
<1>6. CASE NIC!HandlerStart
  <2>1. /\ isr' = [isr EXCEPT !.at = IF nic = "e1000" THEN "head" ELSE "loop", !.idle = hw.idle]
        /\ hw' = [hw EXCEPT !.irq = (nic = "pcnet")] /\ up # "off"
    BY <1>6 DEF NIC!HandlerStart, NIC!Interruptible
  <2>2. /\ hw' \in [pos : NIC!Slots, tail : NIC!Slots, idle : BOOLEAN, irq : BOOLEAN, ready : BOOLEAN]
        /\ hw'.pos = hw.pos /\ hw'.tail = hw.tail
    BY <1>2, <2>1
  <2>3. /\ isr' \in [at : {"idle", "head", "loop", "clear"}, cur : NIC!Slots, head : NIC!Slots, idle : BOOLEAN]
        /\ isr'.cur = isr.cur /\ isr'.at = IF nic = "e1000" THEN "head" ELSE "loop"
    BY <1>2, <2>1
  <2> QED
    BY <1>1, <1>3, <2>1, <2>2, <2>3, MarksKeep
<1>7. CASE NIC!e1000_ReadHead
  <2>1. nic = "e1000" /\ isr' = [isr EXCEPT !.at = "loop", !.head = hw.pos] /\ hw' = hw /\ isr.at = "head"
    BY <1>7 DEF NIC!e1000_ReadHead
  <2>2. /\ isr' \in [at : {"idle", "head", "loop", "clear"}, cur : NIC!Slots, head : NIC!Slots, idle : BOOLEAN]
        /\ isr'.cur = isr.cur /\ isr'.at = "loop" /\ isr'.head = hw.pos
    BY <1>2, <2>1
  <2>3. \E h \in 0 .. Len(stored) : isr'.head = Plus(isr.cur, h) /\ (hw'.irq \/ h = Len(stored))
    <3>1. Len(stored) \in 0 .. Len(stored) /\ isr'.head = Plus(isr.cur, Len(stored))
      BY <1>2, <2>2
    <3> QED
      BY <3>1
  <2>4. up # "off"
    BY <1>2, <2>1
  <2> QED
    BY <1>1, <1>2, <1>3, <2>1, <2>2, <2>3, <2>4, MarksKeep
<1>8. CASE NIC!pcnet_LoopEnd \/ NIC!pcnet_stop \/ NIC!pcnet_Clear
  <2>1. /\ nic = "pcnet" /\ isr.at # "idle"
        /\ isr' = isr \/ isr' = [isr EXCEPT !.at = "clear"] \/ isr' = [isr EXCEPT !.at = "idle"]
        /\ hw' = hw \/ hw' = [hw EXCEPT !.ready = FALSE] \/ hw' = [hw EXCEPT !.irq = FALSE]
    BY <1>8 DEF NIC!pcnet_LoopEnd, NIC!pcnet_stop, NIC!pcnet_Clear
  <2>2. /\ isr' \in [at : {"idle", "head", "loop", "clear"}, cur : NIC!Slots, head : NIC!Slots, idle : BOOLEAN]
        /\ isr'.cur = isr.cur
    BY <1>2, <2>1
  <2>3. /\ hw' \in [pos : NIC!Slots, tail : NIC!Slots, idle : BOOLEAN, irq : BOOLEAN, ready : BOOLEAN]
        /\ hw'.pos = hw.pos
    BY <1>2, <2>1
  <2>4. up # "off"
    BY <1>2, <2>1
  <2> QED
    BY <1>1, <2>1, <2>2, <2>3, <2>4, MarksKeep
<1> QED
  BY <1>5, <1>6, <1>7, <1>8

(* The e1000 lets the card have the ring up to the frame that is read      *)
(* next; a sis900 that had stopped goes on where it stood.                 *)
LEMMA HandlerEndKeeps ==
  ASSUME Ring, RingInv, NIC!e1000_WriteTail \/ NIC!sis900_Restart
  PROVE  RingInv'
<1>1. UNCHANGED <<nic, up, rx, stored, lastrx, wrong>> /\ UNCHANGED <<nic, tx, txhw, snd, queued, lasttx, missent, overrun, overwritten>>
  BY DEF NIC!e1000_WriteTail, NIC!sis900_Restart, NIC!txvars
<1>2. /\ hw \in [pos : NIC!Slots, tail : NIC!Slots, idle : BOOLEAN, irq : BOOLEAN, ready : BOOLEAN]
      /\ isr \in [at : {"idle", "head", "loop", "clear"}, cur : NIC!Slots, head : NIC!Slots, idle : BOOLEAN]
      /\ stored \in Seq(Numbers) /\ Len(stored) \in Nat
      /\ hw.pos = Plus(isr.cur, Len(stored)) /\ isr.cur \in NIC!Slots
      /\ up = "off" => isr.at = "idle"
  BY DEF RingInv, ReceiveInv, ReceiveType, Received
<1>3. CASE NIC!e1000_WriteTail
  <2>1. /\ nic = "e1000" /\ isr.at = "loop" /\ isr.cur = isr.head
        /\ hw' = [hw EXCEPT !.tail = NIC!NewTail] /\ isr' = [isr EXCEPT !.at = "idle", !.head = 0]
    BY <1>3 DEF NIC!e1000_WriteTail
  <2>2. Len(stored) < Num /\ \E h \in 0 .. Len(stored) :
          isr.head = Plus(isr.cur, h) /\ (hw.irq \/ h = Len(stored))
    BY <2>1 DEF RingInv, ReceiveInv, ReceivedByTail
  <2>3. PICK h \in 0 .. Len(stored) : isr.head = Plus(isr.cur, h) /\ (hw.irq \/ h = Len(stored))
    BY <2>2
  <2>4. h = 0
    <3>1. h \in 0 .. Num - 1 /\ Plus(isr.cur, h) = isr.cur
      BY <1>2, <2>1, <2>2, <2>3 DEF Ring
    <3> QED
      BY Zenon, <1>2, <3>1, PlaceSame
  <2>5. hw.irq \/ stored = <<>>
    BY <1>2, <2>3, <2>4
  <2>6. NIC!NewTail = Plus(isr.cur, Num - 1) /\ NIC!NewTail \in NIC!Slots
    <3>1. (isr.head + Num - 1) % Num = Plus(isr.head, Num - 1)
      BY Zenon, <1>2, <2>1, Places
    <3>2. \A k \in 0 .. Num : Plus(isr.cur, k) \in NIC!Slots
      BY Zenon, <1>2, Places
    <3>3. Num - 1 \in 0 .. Num
      BY DEF Ring
    <3> QED
      BY Zenon, <2>1, <3>1, <3>2, <3>3 DEF NIC!NewTail
  <2>7. /\ hw' \in [pos : NIC!Slots, tail : NIC!Slots, idle : BOOLEAN, irq : BOOLEAN, ready : BOOLEAN]
        /\ hw'.pos = hw.pos /\ hw'.tail = Plus(isr.cur, Num - 1) /\ hw'.irq = hw.irq
    BY <1>2, <2>1, <2>6
  <2>8. 0 \in NIC!Slots
    BY DEF NIC!Slots, Ring
  <2>9. /\ isr' \in [at : {"idle", "head", "loop", "clear"}, cur : NIC!Slots, head : NIC!Slots, idle : BOOLEAN]
        /\ isr'.cur = isr.cur /\ isr'.at = "idle"
    BY <1>2, <2>1, <2>8
  <2>10. \E m \in Len(stored) .. Num - 1 : hw'.tail = Plus(isr.cur, m)
    <3>1. Num - 1 \in Len(stored) .. Num - 1
      BY <1>2, <2>2 DEF Ring
    <3> QED
      BY <2>7, <3>1
  <2>11. up # "off"
    BY <1>2, <2>1
  <2> QED
    BY <1>1, <2>1, <2>5, <2>7, <2>9, <2>10, <2>11, MarksKeep
<1>4. CASE NIC!sis900_Restart
  <2>1. /\ nic = "sis900" /\ isr.at = "loop" /\ rx[isr.cur] = 0
        /\ hw' = [hw EXCEPT !.idle = FALSE, !.pos = IF isr.idle THEN isr.cur ELSE hw.pos]
        /\ isr' = [isr EXCEPT !.at = "idle", !.idle = FALSE]
    BY <1>4 DEF NIC!sis900_Restart, NIC!Restarted, NIC!Empty
  <2>2. Len(stored) \in 0 .. Num /\ Holds(rx, isr.cur, stored, Len(stored))
    BY <1>2, <2>1 DEF RingInv, ReceiveInv, ReceivedByMark
  <2>3. Len(stored) = 0
    BY <1>2, <2>1, <2>2, HoldsLook
  <2>4. hw.pos = isr.cur
    BY <1>2, <2>3 DEF Plus, NIC!Slots, Ring
  <2>5. /\ hw' \in [pos : NIC!Slots, tail : NIC!Slots, idle : BOOLEAN, irq : BOOLEAN, ready : BOOLEAN]
        /\ hw'.pos = hw.pos
    BY <1>2, <2>1, <2>4
  <2>6. /\ isr' \in [at : {"idle", "head", "loop", "clear"}, cur : NIC!Slots, head : NIC!Slots, idle : BOOLEAN]
        /\ isr'.cur = isr.cur /\ isr'.at = "idle"
    BY <1>2, <2>1
  <2>7. stored = <<>> /\ up # "off"
    BY <1>2, <2>1, <2>3
  <2> QED
    BY <1>1, <2>1, <2>5, <2>6, <2>7, MarksKeep
<1> QED
  BY <1>3, <1>4

(* A frame is delivered.                                                   *)
LEMMA DeliverFirst ==
  ASSUME NEW i, NIC!Deliver(i), ~wrong, stored # <<>>, rx[i] = Head(stored)
  PROVE  ~wrong' /\ stored' = Tail(stored)
  BY DEF NIC!Deliver

(* The handler of the e1000 takes a frame and leaves the descriptor.       *)
LEMMA ReceiveByTailKeeps ==
  ASSUME Ring, RingInv, NIC!e1000_Receive
  PROVE  RingInv'
<1> DEFINE n == Len(stored)
<1>1. /\ nic = "e1000" /\ isr.at = "loop" /\ isr.cur # isr.head /\ NIC!Deliver(isr.cur)
      /\ isr' = [isr EXCEPT !.cur = NIC!After(isr.cur)]
      /\ UNCHANGED <<nic, up, rx, hw, lastrx>> /\ UNCHANGED <<nic, tx, txhw, snd, queued, lasttx, missent, overrun, overwritten>>
  BY DEF NIC!e1000_Receive, NIC!txvars
<1>2. /\ rx \in [NIC!Slots -> Nat] /\ stored \in Seq(Numbers) /\ isr.cur \in NIC!Slots
      /\ isr \in [at : {"idle", "head", "loop", "clear"}, cur : NIC!Slots, head : NIC!Slots, idle : BOOLEAN]
      /\ n \in Nat /\ hw.pos = Plus(isr.cur, n) /\ ~wrong
      /\ up = "off" => isr.at = "idle"
  BY DEF RingInv, ReceiveInv, ReceiveType, Received
<1>3. n < Num /\ Has(rx, isr.cur, stored, n)
  BY <1>1 DEF RingInv, ReceiveInv, ReceivedByTail
<1>4. PICK m \in n .. Num - 1 : hw.tail = Plus(isr.cur, m)
  BY <1>1 DEF RingInv, ReceiveInv, ReceivedByTail
<1>5. PICK h \in 0 .. n : isr.head = Plus(isr.cur, h) /\ (hw.irq \/ h = n)
  BY <1>1 DEF RingInv, ReceiveInv, ReceivedByTail
<1>6. h # 0
  <2>1. Plus(isr.cur, 0) = isr.cur
    BY Zenon, <1>2, Places
  <2> QED
    BY <1>1, <1>5, <2>1
<1>7. n > 0 /\ stored # <<>> /\ h - 1 \in 0 .. n - 1 /\ m - 1 \in n - 1 .. Num - 1
  BY <1>2, <1>4, <1>5, <1>6 DEF Ring
<1>8. rx[isr.cur] = Head(stored) /\ Has(rx, NIC!After(isr.cur), Tail(stored), Len(Tail(stored)))
  BY <1>2, <1>3, <1>7, HasPop
<1>9. ~wrong' /\ stored' = Tail(stored)
  BY <1>1, <1>2, <1>7, <1>8, DeliverFirst
<1>10. stored' \in Seq(Numbers) /\ Len(stored') = n - 1
  BY <1>2, <1>7, <1>9
<1>11. /\ NIC!After(isr.cur) \in NIC!Slots
       /\ \A k \in 0 .. Num - 1 : Plus(NIC!After(isr.cur), k) = Plus(isr.cur, k + 1)
  BY Zenon, <1>2, Places
<1>12. /\ isr' \in [at : {"idle", "head", "loop", "clear"}, cur : NIC!Slots, head : NIC!Slots, idle : BOOLEAN]
       /\ isr'.cur = NIC!After(isr.cur) /\ isr'.at = "loop" /\ isr'.head = isr.head
  BY <1>1, <1>2, <1>11
<1>13. /\ Plus(isr'.cur, n - 1) = Plus(isr.cur, n)
       /\ Plus(isr'.cur, m - 1) = Plus(isr.cur, m)
       /\ Plus(isr'.cur, h - 1) = Plus(isr.cur, h)
  <2>1. n - 1 \in 0 .. Num - 1 /\ m - 1 \in 0 .. Num - 1 /\ h - 1 \in 0 .. Num - 1
    BY <1>2, <1>3, <1>4, <1>5, <1>7 DEF Ring
  <2>2. (n - 1) + 1 = n /\ (m - 1) + 1 = m /\ (h - 1) + 1 = h
    BY <1>2, <1>4, <1>5
  <2> HIDE DEF n
  <2> QED
    BY <1>11, <1>12, <2>1, <2>2
<1>14. ReceiveType'
  BY <1>1, <1>10, <1>12 DEF RingInv, ReceiveInv, ReceiveType
<1>15. Received'
  BY <1>1, <1>2, <1>10, <1>12, <1>13 DEF Received, Plus
<1>16. ReceivedByTail'
  <2>1. Has(rx, isr.cur, stored, Len(stored))'
    BY <1>1, <1>8, <1>9, <1>12 DEF Has, Plus
  <2>2. Len(stored') < Num
    BY <1>2, <1>3, <1>10 DEF Ring
  <2>3. \E k \in Len(stored') .. Num - 1 : hw'.tail = Plus(isr.cur, k)'
    <3>1. hw'.tail = Plus(isr.cur, m - 1)'
      BY <1>1, <1>4, <1>13 DEF Plus
    <3> QED
      BY <1>7, <1>10, <3>1
  <2>4. \E k \in 0 .. Len(stored') : isr'.head = Plus(isr.cur, k)' /\ (hw'.irq \/ k = Len(stored'))
    <3>1. isr'.head = Plus(isr.cur, h - 1)' /\ (hw'.irq \/ h - 1 = n - 1)
      BY <1>1, <1>5, <1>12, <1>13 DEF Plus
    <3> QED
      BY <1>7, <1>10, <3>1
  <2> QED
    BY <1>12, <2>1, <2>2, <2>3, <2>4 DEF ReceivedByTail
<1>17. ReceivedByMark'
  BY <1>1 DEF ReceivedByMark
<1> QED
  BY <1>1, <1>9, <1>14, <1>15, <1>16, <1>17, ReceiveOnly DEF RingInv, ReceiveInv

(* The others empty the descriptor.  The rtl8168b, if it finds its place   *)
(* empty, looks at the first one; in vain, since then nothing is stored.   *)
LEMMA ReceiveByMarkKeeps ==
  ASSUME Ring, RingInv, NIC!rtl8168b_handle_receive_ok \/ NIC!pcnet_Receive \/ NIC!sis900_Receive
  PROVE  RingInv'
<1> DEFINE n == Len(stored)
<1>1. /\ nic \in {"rtl8168b", "pcnet", "sis900"} /\ isr.at = "loop"
      /\ UNCHANGED <<nic, up, hw, lastrx>> /\ UNCHANGED <<nic, tx, txhw, snd, queued, lasttx, missent, overrun, overwritten>>
  BY DEF NIC!rtl8168b_handle_receive_ok, NIC!pcnet_Receive, NIC!sis900_Receive, NIC!txvars
<1>2. /\ rx \in [NIC!Slots -> Nat] /\ stored \in Seq(Numbers) /\ isr.cur \in NIC!Slots
      /\ isr \in [at : {"idle", "head", "loop", "clear"}, cur : NIC!Slots, head : NIC!Slots, idle : BOOLEAN]
      /\ hw \in [pos : NIC!Slots, tail : NIC!Slots, idle : BOOLEAN, irq : BOOLEAN, ready : BOOLEAN]
      /\ n \in Nat /\ hw.pos = Plus(isr.cur, n) /\ ~wrong
      /\ up = "off" => isr.at = "idle"
  BY DEF RingInv, ReceiveInv, ReceiveType, Received
<1>3. n \in 0 .. Num /\ Holds(rx, isr.cur, stored, n)
  BY <1>1, <1>2 DEF RingInv, ReceiveInv, ReceivedByMark
<1>4. rx[isr.cur] = 0 <=> n = 0
  BY <1>2, <1>3, HoldsLook
<1>5. CASE rx[isr.cur] = 0
  <2>1. rx[0] = 0
    <3>1. n = 0 /\ 0 \in NIC!Slots
      BY <1>4, <1>5 DEF NIC!Slots, Ring
    <3>2. Holds(rx, 0, stored, 0)
      BY <1>2, <1>3, <3>1, HoldsNone
    <3>3. 0 \in 0 .. Num /\ 0 <= Len(stored)
      BY <1>2 DEF Ring
    <3> QED
      BY <1>2, <3>1, <3>2, <3>3, HoldsLook
  <2>2. nic = "rtl8168b" /\ isr' = [isr EXCEPT !.at = "idle"] /\ UNCHANGED <<rx, stored, wrong>>
    BY <1>5, <2>1 DEF NIC!rtl8168b_handle_receive_ok, NIC!pcnet_Receive, NIC!sis900_Receive, NIC!Empty
  <2>3. /\ isr' \in [at : {"idle", "head", "loop", "clear"}, cur : NIC!Slots, head : NIC!Slots, idle : BOOLEAN]
        /\ isr'.cur = isr.cur
    BY <1>2, <2>2
  <2>4. up # "off"
    BY <1>1, <1>2
  <2> QED
    BY <1>1, <1>2, <2>2, <2>3, <2>4, MarksKeep
<1>6. CASE rx[isr.cur] # 0
  <2>1. /\ NIC!Deliver(isr.cur) /\ rx' = [rx EXCEPT ![isr.cur] = 0]
        /\ \E at \in {"idle", "loop"} : isr' = [isr EXCEPT !.at = at, !.cur = NIC!After(isr.cur)]
        /\ nic = "sis900" => isr' = [isr EXCEPT !.cur = NIC!After(isr.cur)]
    <3>1. CASE NIC!rtl8168b_handle_receive_ok
      BY <1>6, <3>1 DEF NIC!rtl8168b_handle_receive_ok, NIC!Empty
    <3>2. CASE NIC!pcnet_Receive \/ NIC!sis900_Receive
      <4>1. /\ NIC!Deliver(isr.cur) /\ rx' = [rx EXCEPT ![isr.cur] = 0]
            /\ isr' = [isr EXCEPT !.cur = NIC!After(isr.cur)]
        BY <3>2 DEF NIC!pcnet_Receive, NIC!sis900_Receive, NIC!Empty
      <4>2. [isr EXCEPT !.cur = NIC!After(isr.cur)] = [isr EXCEPT !.at = "loop", !.cur = NIC!After(isr.cur)]
        BY <1>1, <1>2
      <4> QED
        BY Zenon, <4>1, <4>2
    <3> QED
      BY <3>1, <3>2
  <2>2. n \in 1 .. Num /\ stored # <<>>
    BY <1>2, <1>3, <1>4, <1>6
  <2>3. rx[isr.cur] = Head(stored) /\ Holds(rx', NIC!After(isr.cur), Tail(stored), n - 1)
    <3>1. /\ rx[isr.cur] = Head(stored)
          /\ Holds([rx EXCEPT ![isr.cur] = 0], NIC!After(isr.cur), Tail(stored), n - 1)
      <4>1. n <= Len(stored)
        BY <1>2
      <4> HIDE DEF n
      <4> QED
        BY Zenon, <1>2, <1>3, <2>2, <4>1, HoldsPop
    <3> QED
      BY Zenon, <2>1, <3>1
  <2>4. ~wrong' /\ stored' = Tail(stored)
    BY <1>2, <2>1, <2>2, <2>3, DeliverFirst
  <2>5. stored' \in Seq(Numbers) /\ Len(stored') = n - 1
    BY <1>2, <2>2, <2>4
  <2>6. /\ NIC!After(isr.cur) \in NIC!Slots
        /\ \A k \in 0 .. Num - 1 : Plus(NIC!After(isr.cur), k) = Plus(isr.cur, k + 1)
    BY Zenon, <1>2, Places
  <2>7. /\ isr' \in [at : {"idle", "head", "loop", "clear"}, cur : NIC!Slots, head : NIC!Slots, idle : BOOLEAN]
        /\ isr'.cur = NIC!After(isr.cur) /\ (nic = "sis900" => isr'.at = "loop")
    BY <1>1, <1>2, <2>1, <2>6
  <2>8. Plus(isr'.cur, n - 1) = Plus(isr.cur, n)
    <3>1. n - 1 \in 0 .. Num - 1 /\ (n - 1) + 1 = n
      BY <1>2, <2>2 DEF Ring
    <3> HIDE DEF n
    <3> QED
      BY <2>6, <2>7, <3>1
  <2>9. ReceiveType'
    BY <1>1, <1>2, <2>1, <2>5, <2>7 DEF RingInv, ReceiveInv, ReceiveType
  <2>10. Received'
    BY <1>1, <1>2, <2>5, <2>7, <2>8 DEF Received, Plus
  <2>11. ReceivedByMark'
    <3>1. Holds(rx, isr.cur, stored, Len(stored))'
      BY <1>1, <2>3, <2>4, <2>5, <2>7 DEF Holds, Plus
    <3>2. Len(stored') <= Num
      BY <2>2, <2>5 DEF Ring
    <3> QED
      BY <2>7, <3>1, <3>2, <1>1 DEF ReceivedByMark
  <2>12. ReceivedByTail'
    BY <1>1 DEF ReceivedByTail
  <2> QED
    BY <1>1, <2>4, <2>9, <2>10, <2>11, <2>12, ReceiveOnly DEF RingInv, ReceiveInv
<1> QED
  BY <1>5, <1>6

-----------------------------------------------------------------------------
(* What a driver has accepted; where the next frame goes.                  *)
LEMMA SendFacts ==
  ASSUME RingInv, ~overrun
  PROVE  /\ tx \in [NIC!Slots -> Nat] /\ queued \in Seq(Numbers) /\ lasttx \in Numbers
         /\ txhw \in [pos : NIC!Slots, tail : NIC!Slots] /\ txhw.pos \in NIC!Slots
         /\ snd \in [at : {"idle", "fill", "tail", "own", "wait"}, cur : NIC!Slots, slot : NIC!Slots]
         /\ snd.cur \in NIC!Slots /\ Len(queued) \in Nat
         /\ Len(queued) <= Num /\ Filled \in Nat /\ Filled <= Len(queued)
         /\ Holds(tx, txhw.pos, queued, Filled)
         /\ ~missent /\ ~overwritten
<1>1. /\ tx \in [NIC!Slots -> Nat] /\ queued \in Seq(Numbers) /\ lasttx \in Numbers
      /\ txhw \in [pos : NIC!Slots, tail : NIC!Slots] /\ txhw.pos \in NIC!Slots
      /\ snd \in [at : {"idle", "fill", "tail", "own", "wait"}, cur : NIC!Slots, slot : NIC!Slots]
      /\ snd.cur \in NIC!Slots /\ Len(queued) \in Nat
  BY DEF RingInv, SendType
<1>2. /\ Len(queued) <= Num /\ Filled >= 0 /\ Holds(tx, txhw.pos, queued, Filled)
      /\ ~missent /\ ~overwritten
  BY DEF RingInv, SendInv, Sent
<1>3. Filled \in Int /\ Filled <= Len(queued)
  BY <1>1 DEF Filled
<1> QED
  BY <1>1, <1>2, <1>3

(* e1000_send_packet and rtl8168b_send_packet take a descriptor and fill   *)
(* it later.                                                               *)
LEMMA TakeKeeps ==
  ASSUME Ring, RingInv, ~overrun, ~overrun', NIC!e1000_send_packet \/ NIC!rtl8168b_send_packet
  PROVE  SendInv'
<1> DEFINE f == NIC!NextOf(lasttx)
           n == Len(queued)
<1>1. /\ nic \in {"e1000", "rtl8168b"} /\ snd.at = "idle"
      /\ UNCHANGED nic /\ UNCHANGED <<tx, txhw>>
  BY DEF NIC!e1000_send_packet, NIC!rtl8168b_send_packet
<1>2. f \in Numbers /\ n \in Nat /\ Filled = n
  BY <1>1, NumbersGoOn, SendFacts DEF Filled
<1>3. snd.cur = Plus(txhw.pos, n) /\ n <= Num
  BY <1>1 DEF RingInv, SendInv, Sent
<1>4. /\ lasttx' = f /\ queued' = Append(queued, f) /\ UNCHANGED <<missent, overwritten>>
      /\ snd' = [at |-> IF nic = "e1000" THEN "fill" ELSE "own", cur |-> NIC!After(snd.cur), slot |-> snd.cur]
      /\ n < Num /\ (nic = "e1000" => n + 1 < Num)
  <2>1. CASE NIC!e1000_send_packet
    <3>1. nic = "e1000" /\ NIC!After(snd.cur) # txhw.pos
      BY <2>1 DEF NIC!e1000_send_packet, NIC!GiveUp
    <3>2. NIC!Accept(snd.cur, "fill", FALSE) /\ UNCHANGED <<missent, overwritten>>
      BY <2>1, <3>1 DEF NIC!e1000_send_packet
    <3>3. n < Num
      BY <3>1 DEF RingInv, SendInv, SentByTail
    <3>4. NIC!After(snd.cur) = Plus(txhw.pos, n + 1)
      <4>1. n \in 0 .. Num - 1
        BY <1>2, <3>3 DEF Ring
      <4> QED
        BY Zenon, <1>3, <4>1, SendFacts, PlaceAfter
    <3>5. Plus(txhw.pos, Num) = txhw.pos
      BY Zenon, SendFacts, Places
    <3>6. n + 1 < Num
      <4> HIDE DEF n
      <4> QED
        BY <1>2, <3>1, <3>3, <3>4, <3>5 DEF Ring
    <3> QED
      BY <3>1, <3>2, <3>3, <3>6 DEF NIC!Accept
  <2>2. CASE NIC!rtl8168b_send_packet
    <3>1. nic = "rtl8168b" /\ tx[snd.cur] = 0
      BY <2>2 DEF NIC!rtl8168b_send_packet, NIC!Empty, NIC!GiveUp
    <3>2. NIC!Accept(snd.cur, "own", FALSE) /\ UNCHANGED <<missent, overwritten>>
      BY <2>2, <3>1 DEF NIC!rtl8168b_send_packet, NIC!Empty
    <3>3. n < Num
      <4>1. n \in 0 .. Num /\ Holds(tx, txhw.pos, queued, n)
        BY <1>2, <1>3, SendFacts DEF Ring
      <4>2. tx[Plus(txhw.pos, n)] = 0
        BY <1>3, <3>1
      <4> QED
        BY <4>1, <4>2, SendFacts, HoldsLook
    <3> QED
      BY <3>1, <3>2, <3>3 DEF NIC!Accept
  <2> QED
    BY <2>1, <2>2
<1> HIDE DEF f
<1>5. NIC!After(snd.cur) = Plus(txhw.pos, n + 1) /\ NIC!After(snd.cur) \in NIC!Slots
  <2>1. n \in 0 .. Num - 1
    BY <1>2, <1>4 DEF Ring
  <2> QED
    BY Zenon, <1>3, <2>1, SendFacts, PlaceAfter
<1>6. queued' \in Seq(Numbers) /\ Len(queued') = n + 1 /\ queued'[n + 1] = f
  BY <1>2, <1>4, SendFacts
<1>7. /\ snd' \in [at : {"idle", "fill", "tail", "own", "wait"}, cur : NIC!Slots, slot : NIC!Slots]
      /\ snd'.at = (IF nic = "e1000" THEN "fill" ELSE "own")
      /\ snd'.cur = Plus(txhw.pos, n + 1) /\ snd'.slot = Plus(txhw.pos, n)
  BY <1>3, <1>4, <1>5, SendFacts
<1>8. Filled' = n
  BY <1>2, <1>6, <1>7, <1>1 DEF Filled
<1>10. Sent'
  <2>1. Holds(tx, txhw.pos, queued, Filled)'
    <3>1. Holds(tx, txhw.pos, queued, n)
      BY <1>2, SendFacts
    <3>2. Holds(tx, txhw.pos, Append(queued, f), n)
      BY <1>2, <3>1, SendFacts, HoldsAppend
    <3> QED
      BY <1>1, <1>4, <1>8, <3>2 DEF Holds, Plus
  <2>2. Len(queued') <= Num
    BY <1>2, <1>4, <1>6 DEF Ring
  <2>3. snd'.slot = Plus(txhw.pos, Filled)' /\ snd'.cur = Plus(txhw.pos, Len(queued))'
    BY <1>1, <1>6, <1>7, <1>8 DEF Plus
  <2>4. queued'[Len(queued')] = lasttx' /\ Filled' >= 0
    BY <1>2, <1>4, <1>6, <1>8
  <2> QED
    BY <1>1, <1>7, <2>1, <2>2, <2>3, <2>4 DEF Sent
<1>11. SentByTail'
  <2> SUFFICES ASSUME nic = "e1000" PROVE SentByTail'
    BY <1>1 DEF SentByTail
  <2>1. txhw.tail = snd.cur
    BY <1>1 DEF RingInv, SendInv, SentByTail
  <2>2. Len(queued') - 1 = n /\ Len(queued') > 0 /\ Len(queued') < Num
    BY <1>2, <1>4, <1>6 DEF Ring
  <2>3. txhw'.tail = Plus(txhw.pos, Len(queued) - 1)'
    BY <1>1, <1>3, <2>1, <2>2 DEF Plus
  <2> QED
    BY <1>7, <2>2, <2>3 DEF SentByTail
<1>12. SentAndWaited'
  BY <1>1 DEF SentAndWaited
<1> QED
  BY <1>4, <1>10, <1>11, <1>12, SendFacts DEF SendInv

(* The frame is put into its descriptor; the e1000 moves the tail next.    *)
LEMMA FillKeeps ==
  ASSUME Ring, RingInv, ~overrun, ~overrun', NIC!e1000_Fill \/ NIC!rtl8168b_Own
  PROVE  SendInv'
<1> DEFINE n == Len(queued)
<1>1. /\ nic \in {"e1000", "rtl8168b"} /\ snd.at = (IF nic = "e1000" THEN "fill" ELSE "own")
      /\ tx' = [tx EXCEPT ![snd.slot] = lasttx]
      /\ snd' = [snd EXCEPT !.at = IF nic = "e1000" THEN "tail" ELSE "idle", !.slot = 0]
      /\ UNCHANGED nic /\ UNCHANGED <<txhw, queued, lasttx, missent>>
      /\ overwritten' = (overwritten \/ tx[snd.slot] # 0)
  BY DEF NIC!e1000_Fill, NIC!rtl8168b_Own, NIC!Put, NIC!Empty
<1>2. Filled = n - 1 /\ n \in Nat /\ n <= Num /\ n >= 1
  BY <1>1, SendFacts DEF Filled
<1>3. queued[n] = lasttx /\ snd.slot = Plus(txhw.pos, n - 1) /\ snd.cur = Plus(txhw.pos, n)
  BY <1>1, <1>2 DEF RingInv, SendInv, Sent
<1>4. 0 \in NIC!Slots
  BY DEF NIC!Slots, Ring
<1>5. /\ snd' \in [at : {"idle", "fill", "tail", "own", "wait"}, cur : NIC!Slots, slot : NIC!Slots]
      /\ snd'.at = (IF nic = "e1000" THEN "tail" ELSE "idle") /\ snd'.cur = snd.cur
  BY <1>1, <1>4, SendFacts
<1>6. Filled' = n
  BY <1>1, <1>2, <1>5 DEF Filled
<1>8. Holds(tx, txhw.pos, queued, Filled)'
  <2>1. n - 1 \in 0 .. Num - 1 /\ (n - 1) + 1 = n /\ Holds(tx, txhw.pos, queued, n - 1)
    BY <1>2, SendFacts DEF Ring
  <2>2. Holds([tx EXCEPT ![Plus(txhw.pos, n - 1)] = queued[(n - 1) + 1]], txhw.pos, queued, (n - 1) + 1)
    <3> HIDE DEF n
    <3> QED
      BY Zenon, <2>1, SendFacts, HoldsPut
  <2>3. Holds(tx', txhw.pos, queued, n)
    <3> HIDE DEF n
    <3> QED
      BY Zenon, <1>1, <1>3, <2>1, <2>2
  <2> QED
    BY <1>1, <1>6, <2>3 DEF Holds, Plus
<1>9. Sent'
  <2>1. snd'.cur = Plus(txhw.pos, Len(queued))'
    BY <1>1, <1>3, <1>5 DEF Plus
  <2> QED
    BY <1>1, <1>2, <1>5, <1>6, <1>8, <2>1 DEF Sent
<1>10. SentByTail'
  <2> SUFFICES ASSUME nic = "e1000" PROVE SentByTail'
    BY <1>1 DEF SentByTail
  <2>1. Len(queued) < Num /\ txhw.tail = Plus(txhw.pos, Len(queued) - 1)
    BY <1>1 DEF RingInv, SendInv, SentByTail
  <2> QED
    BY <1>1, <1>2, <1>5, <2>1 DEF SentByTail, Plus
<1>11. SentAndWaited'
  BY <1>1 DEF SentAndWaited
<1>12. tx[snd.slot] = 0
  <2>1. n - 1 \in 0 .. Num /\ n - 1 < Num /\ n - 1 <= Len(queued) /\ Holds(tx, txhw.pos, queued, n - 1)
    BY <1>2, SendFacts DEF Ring
  <2> HIDE DEF n
  <2> QED
    BY <1>3, <2>1, SendFacts, HoldsLook
<1> QED
  BY <1>1, <1>9, <1>10, <1>11, <1>12, SendFacts DEF SendInv

(* e1000_send_packet tells the card that the frame is there.               *)
LEMMA SetTailKeeps ==
  ASSUME Ring, RingInv, ~overrun, ~overrun', NIC!e1000_SetTail
  PROVE  SendInv'
<1>1. /\ nic = "e1000" /\ snd.at = "tail"
      /\ txhw' = [txhw EXCEPT !.tail = snd.cur] /\ snd' = [snd EXCEPT !.at = "idle"]
      /\ UNCHANGED nic /\ UNCHANGED <<tx, queued, lasttx, missent, overwritten>>
  BY DEF NIC!e1000_SetTail
<1>2. /\ txhw' \in [pos : NIC!Slots, tail : NIC!Slots] /\ txhw'.pos = txhw.pos /\ txhw'.tail = snd.cur
      /\ snd' \in [at : {"idle", "fill", "tail", "own", "wait"}, cur : NIC!Slots, slot : NIC!Slots]
      /\ snd'.at = "idle" /\ snd'.cur = snd.cur
  BY <1>1, SendFacts
<1>3. Filled' = Filled
  BY <1>1, <1>2 DEF Filled
<1>5. Sent'
  <2>1. Holds(tx, txhw.pos, queued, Filled)'
    BY <1>1, <1>2, <1>3, SendFacts DEF Holds, Plus
  <2>2. snd.cur = Plus(txhw.pos, Len(queued))
    BY <1>1 DEF RingInv, SendInv, Sent
  <2>3. snd'.cur = Plus(txhw.pos, Len(queued))'
    BY <1>1, <1>2, <2>2 DEF Plus
  <2> QED
    BY <1>1, <1>2, <1>3, <2>1, <2>3, SendFacts DEF Sent
<1>6. SentByTail'
  BY <1>1, <1>2 DEF RingInv, SendInv, SentByTail
<1>7. SentAndWaited'
  BY <1>1 DEF SentAndWaited
<1> QED
  BY <1>1, <1>5, <1>6, <1>7, SendFacts DEF SendInv

(* pcnet_send_packet and sis900_send_packet fill it at once; the latter    *)
(* points the card to it, and waits.                                       *)
LEMMA SendAtOnceKeeps ==
  ASSUME Ring, RingInv, ~overrun, ~overrun', NIC!pcnet_send_packet \/ NIC!sis900_send_packet
  PROVE  SendInv'
<1> DEFINE f == NIC!NextOf(lasttx)
           n == Len(queued)
<1>1. /\ nic \in {"pcnet", "sis900"}
      /\ UNCHANGED nic /\ UNCHANGED missent
      /\ tx' = [tx EXCEPT ![snd.cur] = f] /\ lasttx' = f /\ queued' = Append(queued, f)
      /\ tx[snd.cur] = 0 /\ ~overwritten'
  BY SendFacts DEF NIC!pcnet_send_packet, NIC!sis900_send_packet, NIC!Accept, NIC!Put, NIC!Empty
<1>2. f \in Numbers /\ n \in Nat /\ Filled = n
  <2>1. snd.at \notin {"fill", "own"}
    BY <1>1 DEF RingInv, SendInv, Sent
  <2> QED
    BY <2>1, NumbersGoOn, SendFacts DEF Filled
<1> HIDE DEF f
<1>3. queued' \in Seq(Numbers) /\ Len(queued') = n + 1 /\ queued'[n + 1] = f
  BY <1>1, <1>2, SendFacts
<1>4. tx' \in [NIC!Slots -> Nat]
  BY <1>1, <1>2, SendFacts DEF Numbers
<1>5. 0 \in NIC!Slots
  BY DEF NIC!Slots, Ring
<1>6. NIC!After(snd.cur) \in NIC!Slots
  BY Zenon, SendFacts, Places
<1>7. CASE NIC!pcnet_send_packet
  <2>1. /\ nic = "pcnet" /\ tx[snd.cur] = 0 /\ UNCHANGED txhw
        /\ snd' = [at |-> "idle", cur |-> NIC!After(snd.cur), slot |-> 0]
    BY <1>1, <1>7 DEF NIC!pcnet_send_packet, NIC!Accept
  <2>2. snd.cur = Plus(txhw.pos, n) /\ n <= Num
    BY <2>1 DEF RingInv, SendInv, Sent
  <2>3. n \in 0 .. Num - 1
    <3>1. n \in 0 .. Num /\ Holds(tx, txhw.pos, queued, n) /\ n <= Len(queued)
      BY <1>2, <2>2, SendFacts DEF Ring
    <3>2. n < Num
      BY <2>1, <2>2, <3>1, SendFacts, HoldsLook
    <3> QED
      BY <3>1, <3>2 DEF Ring
  <2>4. NIC!After(snd.cur) = Plus(txhw.pos, n + 1)
    BY Zenon, <2>2, <2>3, SendFacts, PlaceAfter
  <2>5. /\ snd' \in [at : {"idle", "fill", "tail", "own", "wait"}, cur : NIC!Slots, slot : NIC!Slots]
        /\ snd'.at = "idle" /\ snd'.cur = Plus(txhw.pos, n + 1)
    BY <1>5, <1>6, <2>1, <2>4
  <2>6. Filled' = n + 1
    BY <1>2, <1>3, <2>5 DEF Filled
  <2>7. Holds(tx, txhw.pos, queued, Filled)'
    <3>1. Holds(tx, txhw.pos, queued, n)
      BY <1>2, SendFacts
    <3>2. Holds(tx, txhw.pos, queued', n)
      BY <1>1, <1>2, <3>1, SendFacts, HoldsAppend
    <3>3. Holds([tx EXCEPT ![Plus(txhw.pos, n)] = queued'[n + 1]], txhw.pos, queued', n + 1)
      <4> HIDE DEF n
      <4> QED
        BY Zenon, <2>3, <3>2, SendFacts, HoldsPut
    <3>4. Holds(tx', txhw.pos, queued', n + 1)
      <4> HIDE DEF n
      <4> QED
        BY Zenon, <1>1, <1>3, <2>2, <3>3
    <3> QED
      BY <2>1, <2>6, <3>4 DEF Holds, Plus
  <2>9. Sent'
    <3>1. snd'.cur = Plus(txhw.pos, Len(queued))'
      BY <1>3, <2>1, <2>5 DEF Plus
    <3>2. Len(queued') <= Num /\ Filled' >= 0
      BY <1>2, <1>3, <2>3, <2>6 DEF Ring
    <3> QED
      BY <1>1, <2>1, <2>5, <2>7, <3>1, <3>2 DEF Sent
  <2>10. SentByTail' /\ SentAndWaited'
    BY <1>1, <2>1 DEF SentByTail, SentAndWaited
  <2> QED
    BY <1>1, <2>9, <2>10, SendFacts DEF SendInv
<1>8. CASE NIC!sis900_send_packet
  <2>1. /\ nic = "sis900" /\ snd.at = "idle" /\ txhw' = [txhw EXCEPT !.pos = snd.cur]
        /\ snd' = [at |-> "wait", cur |-> NIC!After(snd.cur), slot |-> snd.cur]
    BY <1>8 DEF NIC!sis900_send_packet, NIC!Accept
  <2>2. queued = <<>> /\ n = 0
    BY <2>1 DEF RingInv, SendInv, SentAndWaited
  <2>3. /\ snd' \in [at : {"idle", "fill", "tail", "own", "wait"}, cur : NIC!Slots, slot : NIC!Slots]
        /\ snd'.at = "wait" /\ snd'.slot = snd.cur
    BY <1>6, <2>1, SendFacts
  <2>4. txhw' \in [pos : NIC!Slots, tail : NIC!Slots] /\ txhw'.pos = snd.cur
    BY <2>1, SendFacts
  <2>5. Filled' = 1
    BY <1>3, <2>2, <2>3 DEF Filled
  <2>6. Holds(tx, txhw.pos, queued, Filled)'
    <3>1. Holds(tx, txhw.pos, queued, 0)
      BY <1>2, <2>2, SendFacts
    <3>2. Holds(tx, snd.cur, queued', 0)
      BY <3>1, SendFacts, HoldsNone
    <3>3. 0 \in 0 .. Num - 1 /\ 0 + 1 = 1 /\ queued'[0 + 1] = f
      BY <1>3, <2>2 DEF Ring
    <3>4. Holds([tx EXCEPT ![Plus(snd.cur, 0)] = queued'[0 + 1]], snd.cur, queued', 0 + 1)
      BY Zenon, <3>2, <3>3, SendFacts, HoldsPut
    <3>5. Plus(snd.cur, 0) = snd.cur
      BY Zenon, SendFacts, Places
    <3>6. Holds(tx', snd.cur, queued', 1)
      BY Zenon, <1>1, <3>3, <3>4, <3>5
    <3> QED
      BY <2>4, <2>5, <3>6 DEF Holds, Plus
  <2>8. Len(queued') = 1 /\ 1 <= Num
    BY <1>3, <2>2 DEF Ring
  <2>9. Sent'
    BY <1>1, <2>1, <2>3, <2>5, <2>6, <2>8 DEF Sent
  <2>10. SentByTail' /\ SentAndWaited'
    BY <1>1, <2>1, <2>3, <2>4, <2>8 DEF SentByTail, SentAndWaited
  <2> QED
    BY <1>1, <2>9, <2>10, SendFacts DEF SendInv
<1> QED
  BY <1>7, <1>8

(* The sis900 looks into the descriptor until the frame has been sent.     *)
LEMMA WaitKeeps ==
  ASSUME Ring, RingInv, ~overrun, ~overrun', NIC!sis900_Sent
  PROVE  SendInv'
<1>1. /\ nic = "sis900" /\ snd.at = "wait" /\ tx[snd.slot] = 0
      /\ snd' = [snd EXCEPT !.at = "idle", !.slot = 0]
      /\ UNCHANGED nic /\ UNCHANGED <<tx, txhw, queued, lasttx, missent, overwritten>>
  BY DEF NIC!sis900_Sent, NIC!Empty
<1>2. 0 \in NIC!Slots
  BY DEF NIC!Slots, Ring
<1>3. /\ snd' \in [at : {"idle", "fill", "tail", "own", "wait"}, cur : NIC!Slots, slot : NIC!Slots]
      /\ snd'.at = "idle"
  BY <1>1, <1>2, SendFacts
<1>4. Filled' = Filled /\ Filled = Len(queued)
  BY <1>1, <1>3, SendFacts DEF Filled
<1>5. queued = <<>>
  <2> SUFFICES ASSUME queued # <<>> PROVE FALSE
    OBVIOUS
  <2>1. tx[txhw.pos] = 0 /\ Len(queued) # 0
    BY <1>1, SendFacts DEF RingInv, SendInv, SentAndWaited
  <2>2. Len(queued) \in 0 .. Num
    BY SendFacts DEF Ring
  <2> QED
    BY <1>4, <2>1, <2>2, SendFacts, HoldsLook
<1>7. Sent'
  <2>1. Holds(tx, txhw.pos, queued, Filled)'
    BY <1>1, <1>4, SendFacts DEF Holds, Plus
  <2> QED
    BY <1>1, <1>3, <1>4, <2>1, SendFacts DEF Sent
<1>8. SentByTail' /\ SentAndWaited'
  BY <1>1, <1>3, <1>5 DEF SentByTail, SentAndWaited
<1> QED
  BY <1>1, <1>7, <1>8, SendFacts DEF SendInv

(* The card sends a frame only if there is one, and then the first.        *)
LEMMA TransmitKeeps ==
  ASSUME Ring, RingInv, ~overrun, ~overrun', NIC!Transmit
  PROVE  SendInv'
<1> DEFINE n == Len(queued)
           w == Filled
<1>1. /\ IF nic = "e1000" THEN txhw.pos # txhw.tail ELSE tx[txhw.pos] # 0
      /\ missent' = (missent \/ queued = <<>> \/ tx[txhw.pos] # Head(queued))
      /\ overwritten' = overwritten
      /\ queued' = IF queued = <<>> THEN <<>> ELSE Tail(queued)
      /\ tx' = [tx EXCEPT ![txhw.pos] = 0]
      /\ txhw' = [txhw EXCEPT !.pos = NIC!After(txhw.pos)]
      /\ UNCHANGED nic /\ UNCHANGED <<snd, lasttx>>
  BY DEF NIC!Transmit, NIC!Empty
<1>2. n \in 0 .. Num /\ w \in 0 .. n /\ w \in 0 .. Num
  BY SendFacts DEF Ring
<1>3. w # 0
  <2>1. CASE nic = "e1000"
    <3>1. Plus(txhw.pos, 0) = txhw.pos
      BY Zenon, SendFacts, Places
    <3>2. CASE snd.at = "idle"
      <4>1. txhw.tail = Plus(txhw.pos, n)
        BY <2>1, <3>2 DEF RingInv, SendInv, Sent, SentByTail
      <4>2. n # 0
        BY <1>1, <2>1, <3>1, <4>1
      <4> QED
        BY <3>2, <4>2, SendFacts DEF Filled
    <3>3. CASE snd.at # "idle"
      <4>1. n > 0 /\ txhw.tail = Plus(txhw.pos, n - 1)
        BY <2>1, <3>3 DEF RingInv, SendInv, SentByTail
      <4>2. n - 1 # 0
        BY <1>1, <2>1, <3>1, <4>1
      <4> QED
        BY <4>1, <4>2, SendFacts DEF Filled
    <3> QED
      BY <3>2, <3>3
  <2>2. CASE nic # "e1000"
    <3>1. tx[txhw.pos] # 0
      BY <1>1, <2>2
    <3> QED
      BY <1>2, <3>1, SendFacts, HoldsLook
  <2> QED
    BY <2>1, <2>2
<1>4. w \in 1 .. Num /\ w <= Len(queued) /\ queued # <<>> /\ n >= 1
  BY <1>2, <1>3, SendFacts
<1>5. /\ tx[txhw.pos] = Head(queued)
      /\ Holds([tx EXCEPT ![txhw.pos] = 0], NIC!After(txhw.pos), Tail(queued), w - 1)
  <2> HIDE DEF w
  <2>1. Holds(tx, txhw.pos, queued, w)
    BY SendFacts DEF w
  <2> QED
    BY Zenon, <1>4, <2>1, SendFacts, HoldsPop
<1>6. ~missent' /\ queued' = Tail(queued)
  BY <1>1, <1>4, <1>5, SendFacts
<1>7. queued' \in Seq(Numbers) /\ Len(queued') = n - 1
  BY <1>4, <1>6, SendFacts
<1>8. Filled' = w - 1
  BY <1>1, <1>7, SendFacts DEF Filled
<1>9. /\ NIC!After(txhw.pos) \in NIC!Slots
      /\ \A k \in 0 .. Num - 1 : Plus(NIC!After(txhw.pos), k) = Plus(txhw.pos, k + 1)
  BY Zenon, SendFacts, Places
<1>10. /\ txhw' \in [pos : NIC!Slots, tail : NIC!Slots]
       /\ txhw'.pos = NIC!After(txhw.pos) /\ txhw'.tail = txhw.tail
  BY <1>1, <1>9, SendFacts
<1>11. tx' \in [NIC!Slots -> Nat]
  BY <1>1, SendFacts
<1>12. /\ Plus(txhw'.pos, n - 1) = Plus(txhw.pos, n)
       /\ Plus(txhw'.pos, w - 1) = Plus(txhw.pos, w)
       /\ n - 1 >= 1 => Plus(txhw'.pos, (n - 1) - 1) = Plus(txhw.pos, n - 1)
  <2>1. n - 1 \in 0 .. Num - 1 /\ w - 1 \in 0 .. Num - 1 /\ (n - 1 >= 1 => (n - 1) - 1 \in 0 .. Num - 1)
    BY <1>2, <1>4 DEF Ring
  <2>2. (n - 1) + 1 = n /\ (w - 1) + 1 = w /\ ((n - 1) - 1) + 1 = n - 1
    BY <1>2
  <2> HIDE DEF n, w
  <2> QED
    BY <1>9, <1>10, <2>1, <2>2
<1>14. Sent'
  <2>1. Holds(tx, txhw.pos, queued, Filled)'
    <3>1. Holds(tx', txhw'.pos, queued', w - 1)
      <4> HIDE DEF w
      <4> QED
        BY Zenon, <1>1, <1>5, <1>6, <1>10
    <3> QED
      BY <1>8, <3>1 DEF Holds, Plus
  <2>2. Len(queued') <= Num /\ Filled' >= 0
    BY <1>2, <1>4, <1>7, <1>8 DEF Ring
  <2>3. nic # "sis900" => snd'.cur = Plus(txhw.pos, Len(queued))'
    <3>1. nic # "sis900" => snd.cur = Plus(txhw.pos, n)
      BY DEF RingInv, SendInv, Sent
    <3> QED
      BY <1>1, <1>7, <1>12, <3>1 DEF Plus
  <2>4. snd.at \in {"fill", "own"} => queued'[Len(queued')] = lasttx' /\ snd'.slot = Plus(txhw.pos, Filled)'
    <3> SUFFICES ASSUME snd.at \in {"fill", "own"}
        PROVE queued'[Len(queued')] = lasttx' /\ snd'.slot = Plus(txhw.pos, Filled)'
      OBVIOUS
    <3>1. queued[n] = lasttx /\ snd.slot = Plus(txhw.pos, w)
      BY DEF RingInv, SendInv, Sent
    <3>2. w = n - 1
      BY SendFacts DEF Filled
    <3>3. n - 1 \in 1 .. Len(queued) - 1
      BY <1>4, <3>2, SendFacts
    <3>4. Tail(queued)[n - 1] = queued[n]
      BY <3>3, SendFacts
    <3>5. snd'.slot = Plus(txhw.pos, Filled)'
      BY <1>1, <1>8, <1>12, <3>1 DEF Plus
    <3> QED
      BY <1>1, <1>6, <1>7, <3>1, <3>4, <3>5
  <2>5. /\ nic # "sis900" => snd.at # "wait"
        /\ nic # "e1000" => snd.at \notin {"fill", "tail"}
        /\ nic # "rtl8168b" => snd.at # "own"
    BY DEF RingInv, SendInv, Sent
  <2> QED
    BY <1>1, <2>1, <2>2, <2>3, <2>4, <2>5 DEF Sent
<1>15. SentByTail'
  <2> SUFFICES ASSUME nic = "e1000" PROVE SentByTail'
    BY <1>1 DEF SentByTail
  <2>1. /\ n < Num
        /\ snd.at = "idle" => txhw.tail = snd.cur
        /\ snd.at # "idle" => txhw.tail = Plus(txhw.pos, n - 1)
    BY DEF RingInv, SendInv, SentByTail
  <2>2. Len(queued') < Num
    BY <1>2, <1>7, <2>1 DEF Ring
  <2>3. CASE snd.at = "idle"
    BY <1>1, <1>10, <2>1, <2>2, <2>3 DEF SentByTail
  <2>4. CASE snd.at # "idle"
    <3>1. n - 1 >= 1
      <4>1. Plus(txhw.pos, 0) = txhw.pos
        BY Zenon, SendFacts, Places
      <4>2. n - 1 # 0
        BY <1>1, <2>1, <2>4, <4>1
      <4>3. n \in Nat /\ n >= 1
        BY <1>4, SendFacts
      <4> HIDE DEF n
      <4> QED
        BY <4>2, <4>3
    <3>2. txhw'.tail = Plus(txhw.pos, Len(queued) - 1)'
      BY <1>7, <1>10, <1>12, <2>1, <2>4, <3>1 DEF Plus
    <3>3. Len(queued') > 0
      BY <1>7, <3>1
    <3> QED
      BY <1>1, <2>2, <2>4, <3>2, <3>3 DEF SentByTail
  <2> QED
    BY <2>3, <2>4
<1>16. SentAndWaited'
  <2> SUFFICES ASSUME nic = "sis900" PROVE SentAndWaited'
    BY <1>1 DEF SentAndWaited
  <2>1. n <= 1
    BY DEF RingInv, SendInv, SentAndWaited
  <2>2. Len(queued') = 0
    BY <1>4, <1>7, <2>1
  <2>3. queued' = <<>>
    BY <1>7, <2>2
  <2> QED
    BY <2>2, <2>3 DEF SentAndWaited
<1> QED
  BY <1>1, <1>6, <1>14, <1>15, <1>16, SendFacts DEF SendInv

-----------------------------------------------------------------------------
(* What the driver does to send, and the card.                             *)
Sends == \/ NIC!e1000_send_packet \/ NIC!rtl8168b_send_packet
         \/ NIC!e1000_Fill \/ NIC!rtl8168b_Own \/ NIC!e1000_SetTail
         \/ NIC!pcnet_send_packet \/ NIC!sis900_send_packet \/ NIC!sis900_Sent
         \/ NIC!Transmit

(* Before and after an overrun the variables have their types.             *)
LEMMA TypeKept ==
  ASSUME Ring, RingInv, Sends
  PROVE  SendType'
<1>1. /\ tx \in [NIC!Slots -> Nat] /\ txhw \in [pos : NIC!Slots, tail : NIC!Slots]
      /\ snd \in [at : {"idle", "fill", "tail", "own", "wait"}, cur : NIC!Slots, slot : NIC!Slots]
      /\ queued \in Seq(Numbers) /\ lasttx \in Numbers
  BY DEF RingInv, SendType
<1>2. /\ NIC!After(snd.cur) \in NIC!Slots /\ NIC!After(txhw.pos) \in NIC!Slots /\ 0 \in NIC!Slots
  <2>1. snd.cur \in NIC!Slots /\ txhw.pos \in NIC!Slots
    BY <1>1
  <2>2. NIC!After(snd.cur) \in NIC!Slots /\ NIC!After(txhw.pos) \in NIC!Slots
    BY Zenon, <2>1, Places
  <2> QED
    BY <2>2 DEF NIC!Slots, Ring
<1>3. NIC!NextOf(lasttx) \in Numbers /\ 1 \in Numbers
  BY <1>1, NumbersGoOn DEF Numbers
<1>4. ASSUME NEW slot \in NIC!Slots, NEW at \in {"idle", "fill", "own", "wait"}, NEW full,
             NIC!Accept(slot, at, full)
      PROVE  /\ snd' \in [at : {"idle", "fill", "tail", "own", "wait"}, cur : NIC!Slots, slot : NIC!Slots]
             /\ queued' \in Seq(Numbers) /\ lasttx' \in Numbers
  <2>1. snd' = [at |-> at, cur |-> NIC!After(snd.cur), slot |-> slot]
    BY <1>4 DEF NIC!Accept
  <2>2. /\ lasttx' \in Numbers
        /\ queued' = <<>> \/ queued' = Append(queued, lasttx')
    BY <1>3, <1>4 DEF NIC!Accept
  <2>3. queued' \in Seq(Numbers)
    <3>1. <<>> \in Seq(Numbers)
      OBVIOUS
    <3>2. Append(queued, lasttx') \in Seq(Numbers)
      <4>1. queued \in Seq(Numbers) /\ lasttx' \in Numbers
        BY <1>1, <2>2
      <4> QED
        BY Zenon, <4>1, AppendProperties
    <3> QED
      BY <2>2, <3>1, <3>2
  <2>4. snd' \in [at : {"idle", "fill", "tail", "own", "wait"}, cur : NIC!Slots, slot : NIC!Slots]
    BY <1>2, <2>1
  <2> QED
    BY <2>2, <2>3, <2>4
<1>5. ASSUME NEW slot \in NIC!Slots, NEW f \in Numbers, NIC!Put(slot, f)
      PROVE  tx' \in [NIC!Slots -> Nat]
  BY <1>1, <1>5 DEF NIC!Put, Numbers
<1>6. ASSUME NIC!GiveUp
      PROVE  /\ snd' \in [at : {"idle", "fill", "tail", "own", "wait"}, cur : NIC!Slots, slot : NIC!Slots]
             /\ queued' \in Seq(Numbers) /\ lasttx' \in Numbers
  <2>1. snd' = [snd EXCEPT !.cur = NIC!After(snd.cur)] /\ lasttx' = 1 /\ queued' = <<>>
    BY <1>6 DEF NIC!GiveUp
  <2> QED
    BY <1>1, <1>2, <1>3, <2>1
<1>7. CASE NIC!e1000_send_packet \/ NIC!rtl8168b_send_packet
  <2>1. /\ NIC!GiveUp \/ NIC!Accept(snd.cur, "fill", FALSE) \/ NIC!Accept(snd.cur, "own", FALSE)
        /\ UNCHANGED <<tx, txhw>>
    BY <1>7 DEF NIC!e1000_send_packet, NIC!rtl8168b_send_packet
  <2>2. /\ snd' \in [at : {"idle", "fill", "tail", "own", "wait"}, cur : NIC!Slots, slot : NIC!Slots]
        /\ queued' \in Seq(Numbers) /\ lasttx' \in Numbers
    BY <1>1, <1>4, <1>6, <2>1
  <2> QED
    BY <1>1, <2>1, <2>2 DEF SendType
<1>8. CASE NIC!e1000_Fill \/ NIC!rtl8168b_Own
  <2>1. /\ NIC!Put(snd.slot, lasttx) /\ UNCHANGED <<txhw, queued, lasttx>>
        /\ \E at \in {"tail", "idle"} : snd' = [snd EXCEPT !.at = at, !.slot = 0]
    BY <1>8 DEF NIC!e1000_Fill, NIC!rtl8168b_Own
  <2>2. tx' \in [NIC!Slots -> Nat]
    BY <1>1, <1>5, <2>1
  <2> QED
    BY <1>1, <1>2, <2>1, <2>2 DEF SendType
<1>9. CASE NIC!e1000_SetTail \/ NIC!sis900_Sent
  BY <1>1, <1>2, <1>9 DEF NIC!e1000_SetTail, NIC!sis900_Sent, SendType
<1>10. CASE NIC!pcnet_send_packet \/ NIC!sis900_send_packet
  <2>1. /\ \/ NIC!Accept(0, "idle", tx[snd.cur] # NIC!Empty)
           \/ NIC!Accept(snd.cur, "wait", tx[snd.cur] # NIC!Empty)
        /\ NIC!Put(snd.cur, lasttx')
        /\ txhw' = txhw \/ txhw' = [txhw EXCEPT !.pos = snd.cur]
    BY <1>10 DEF NIC!pcnet_send_packet, NIC!sis900_send_packet
  <2>2. /\ snd' \in [at : {"idle", "fill", "tail", "own", "wait"}, cur : NIC!Slots, slot : NIC!Slots]
        /\ queued' \in Seq(Numbers) /\ lasttx' \in Numbers
    BY <1>1, <1>2, <1>4, <2>1
  <2>3. tx' \in [NIC!Slots -> Nat]
    BY <1>1, <1>5, <2>1, <2>2
  <2> QED
    BY <1>1, <2>1, <2>2, <2>3 DEF SendType
<1>11. CASE NIC!Transmit
  BY <1>1, <1>2, <1>11 DEF NIC!Transmit, SendType, NIC!Empty
<1> QED
  BY <1>7, <1>8, <1>9, <1>10, <1>11 DEF Sends

(* Who looks at a descriptor is the only one to fill it.                   *)
LEMMA LooksKept ==
  ASSUME Ring, RingInv, Sends
  PROVE  LookedAt'
<1>1. /\ tx \in [NIC!Slots -> Nat] /\ snd.slot \in NIC!Slots /\ txhw.pos \in NIC!Slots
      /\ snd \in [at : {"idle", "fill", "tail", "own", "wait"}, cur : NIC!Slots, slot : NIC!Slots]
  BY DEF RingInv, SendType
<1>2. /\ nic = "sis900" => ~overrun
      /\ nic = "rtl8168b" /\ snd.at = "own" => tx[snd.slot] = 0
      /\ overwritten => nic \in {"e1000", "pcnet"}
  BY DEF RingInv, LookedAt
<1>3. CASE NIC!e1000_send_packet \/ NIC!e1000_Fill \/ NIC!e1000_SetTail \/ NIC!pcnet_send_packet
  BY <1>3 DEF NIC!e1000_send_packet, NIC!e1000_Fill, NIC!e1000_SetTail, NIC!pcnet_send_packet, LookedAt
<1>4. CASE NIC!rtl8168b_send_packet
  <2>1. \/ snd' = [snd EXCEPT !.cur = NIC!After(snd.cur)] /\ snd.at = "idle"
        \/ snd' = [at |-> "own", cur |-> NIC!After(snd.cur), slot |-> snd.cur] /\ tx[snd.cur] = 0
    BY <1>4 DEF NIC!rtl8168b_send_packet, NIC!GiveUp, NIC!Accept, NIC!Empty
  <2>2. nic = "rtl8168b" /\ UNCHANGED <<nic, tx, overwritten>>
    BY <1>4 DEF NIC!rtl8168b_send_packet
  <2> QED
    BY <1>1, <1>2, <2>1, <2>2 DEF LookedAt
<1>5. CASE NIC!rtl8168b_Own
  BY <1>1, <1>2, <1>5 DEF NIC!rtl8168b_Own, NIC!Put, NIC!Empty, LookedAt
<1>6. CASE NIC!sis900_send_packet
  <2>1. nic = "sis900" /\ snd.at = "idle" /\ ~overrun
    BY <1>2, <1>6 DEF NIC!sis900_send_packet
  <2>2. queued = <<>> /\ Filled = 0 /\ snd.cur \in NIC!Slots
    BY <1>1, <2>1 DEF RingInv, SendInv, SentAndWaited, Filled
  <2>3. Holds(tx, txhw.pos, queued, 0)
    BY <2>1, <2>2, SendFacts
  <2>4. Holds(tx, snd.cur, queued, 0)
    BY <2>1, <2>2, <2>3, SendFacts, HoldsNone
  <2>5. tx[snd.cur] = 0
    <3>1. Plus(snd.cur, 0) = snd.cur /\ 0 \in 0 .. Num - 1
      BY <2>2 DEF Plus, Ring, NIC!Slots
    <3> QED
      BY <2>4, <3>1 DEF Holds
  <2> QED
    BY <1>2, <1>6, <2>1, <2>5 DEF NIC!sis900_send_packet, NIC!Accept, NIC!Put, NIC!Empty, LookedAt
<1>7. CASE NIC!sis900_Sent
  BY <1>2, <1>7 DEF NIC!sis900_Sent, LookedAt
<1>8. CASE NIC!Transmit
  <2>1. tx' = [tx EXCEPT ![txhw.pos] = 0] /\ UNCHANGED <<nic, snd, overrun, overwritten>>
    BY <1>8 DEF NIC!Transmit, NIC!Empty
  <2> QED
    BY <1>1, <1>2, <2>1 DEF LookedAt
<1> QED
  BY <1>3, <1>4, <1>5, <1>6, <1>7, <1>8 DEF Sends

(* Until a frame meets a full ring, what is sent stays in order.           *)
LEMMA SendsKeep ==
  ASSUME Ring, RingInv, Sends
  PROVE  RingInv'
<1>1. UNCHANGED <<nic, up, rx, hw, isr, stored, lastrx, wrong>>
  BY DEF Sends, NIC!rxvars, NIC!e1000_send_packet, NIC!rtl8168b_send_packet, NIC!e1000_Fill,
         NIC!rtl8168b_Own, NIC!e1000_SetTail, NIC!pcnet_send_packet, NIC!sis900_send_packet,
         NIC!sis900_Sent, NIC!Transmit
<1>2. overrun => overrun'
  BY Zenon DEF Sends, NIC!e1000_send_packet, NIC!rtl8168b_send_packet, NIC!e1000_Fill,
         NIC!rtl8168b_Own, NIC!e1000_SetTail, NIC!pcnet_send_packet, NIC!sis900_send_packet,
         NIC!sis900_Sent, NIC!Transmit, NIC!Accept, NIC!GiveUp
<1>3. ASSUME ~overrun' PROVE SendInv'
  BY <1>2, <1>3, TakeKeeps, FillKeeps, SetTailKeeps, SendAtOnceKeeps, WaitKeeps, TransmitKeeps DEF Sends
<1>4. ~missent'
  <2>1. CASE ~overrun'
    BY <1>3, <2>1 DEF SendInv
  <2>2. CASE overrun'
    <3>1. NIC!Transmit => overrun /\ ~missent'
      BY Zenon, <2>2 DEF NIC!Transmit, RingInv
    <3>2. ~NIC!Transmit => UNCHANGED missent
      BY DEF Sends, NIC!e1000_send_packet, NIC!rtl8168b_send_packet, NIC!e1000_Fill,
             NIC!rtl8168b_Own, NIC!e1000_SetTail, NIC!pcnet_send_packet, NIC!sis900_send_packet, NIC!sis900_Sent
    <3> QED
      BY <3>1, <3>2 DEF RingInv
  <2> QED
    BY <2>1, <2>2
<1> QED
  BY <1>1, <1>3, <1>4, TypeKept, LooksKept, SendOnly

(* The rings are empty before a driver is started.                         *)
LEMMA InitRings ==
  ASSUME Ring, NIC!Init
  PROVE  RingInv
<1>1. 0 \in NIC!Slots /\ \A k \in 0 .. Num - 1 : Plus(0, k) = k /\ k \in NIC!Slots
  BY DEF NIC!Slots, Ring, Plus
<1>2. /\ up = "off" /\ ~wrong /\ ~missent /\ ~overrun /\ ~overwritten
      /\ rx = [i \in NIC!Slots |-> 0] /\ tx = [i \in NIC!Slots |-> 0]
      /\ hw = [pos |-> 0, tail |-> 0, idle |-> FALSE, irq |-> FALSE, ready |-> FALSE]
      /\ isr = [at |-> "idle", cur |-> 0, head |-> 0, idle |-> FALSE]
      /\ txhw = [pos |-> 0, tail |-> 0] /\ snd = [at |-> "idle", cur |-> 0, slot |-> 0]
      /\ stored = <<>> /\ queued = <<>> /\ lastrx = 1 /\ lasttx = 1
  BY DEF NIC!Init, NIC!Empty
<1>3. Len(stored) = 0 /\ Len(queued) = 0 /\ Filled = 0
  BY <1>2 DEF Filled
<1>4. Num > 0 /\ Num \in Nat /\ 0 \in 0 .. Num - 1 /\ Plus(0, 0) = 0
  BY DEF Ring, Plus
<1>5. ReceiveType /\ SendType
  BY <1>1, <1>2 DEF ReceiveType, SendType, Numbers
<1>6. Holds(rx, 0, stored, 0) /\ Holds(tx, 0, queued, 0) /\ Has(rx, 0, stored, 0)
  BY <1>1, <1>2 DEF Holds, Has
<1>7. Received
  BY <1>2, <1>3, <1>4 DEF Received
<1>8. ReceivedByTail
  BY <1>2, <1>3, <1>4, <1>6 DEF ReceivedByTail
<1>9. ReceivedByMark
  BY <1>2, <1>3, <1>4, <1>6 DEF ReceivedByMark
<1>10. Sent /\ SentByTail /\ SentAndWaited
  BY <1>2, <1>3, <1>4, <1>6 DEF Sent, SentByTail, SentAndWaited
<1>11. LookedAt
  BY <1>2 DEF LookedAt
<1> QED
  BY <1>2, <1>5, <1>7, <1>8, <1>9, <1>10, <1>11 DEF RingInv, ReceiveInv, SendInv

(* For rings of any size: every frame the card has stored is delivered     *)
(* once and in order, wherever the ring wraps and however the card and the *)
(* handler overtake each other, and e1000 and sis900 leave no frame lying; *)
(* every frame that was accepted is sent once and in order until a frame   *)
(* is sent while every descriptor is in use, which the sis900 never does;  *)
(* and neither it nor the rtl8168b ever overwrites a frame that is to be   *)
(* sent (the interrupt handlers and xxx_send_packet of the four drivers).  *)
THEOREM FramesKeepTheirOrder ==
  ASSUME Ring
  PROVE  NIC!Spec => []NIC!Correct
<1>1. NIC!Init => RingInv
  BY InitRings
<1>2. RingInv /\ [NIC!Next]_(NIC!vars) => RingInv'
  <2> SUFFICES ASSUME RingInv, [NIC!Next]_(NIC!vars) PROVE RingInv'
    OBVIOUS
  <2>1. CASE UNCHANGED NIC!vars
    <3>1. UNCHANGED <<nic, up, rx, hw, isr, stored, lastrx, wrong>> /\ UNCHANGED <<nic, tx, txhw, snd, queued, lasttx, missent, overrun, overwritten>>
      BY <2>1 DEF NIC!vars, NIC!rxvars, NIC!txvars
    <3>2. ReceiveInv'
      BY <3>1 DEF RingInv, ReceiveInv, ReceiveType, Received, ReceivedByTail, ReceivedByMark, Has, Holds, Plus, NIC!Slots
    <3> QED
      BY <3>1, <3>2, ReceiveOnly DEF RingInv
  <2>2. CASE NIC!Next
    BY <2>2, StartKeeps, StoreKeeps, HandlerKeeps, HandlerEndKeeps, ReceiveByTailKeeps,
       ReceiveByMarkKeeps, SendsKeep DEF NIC!Next, Sends
  <2> QED
    BY <2>1, <2>2
<1>3. RingInv => NIC!Correct
  <2> SUFFICES ASSUME RingInv PROVE NIC!Correct
    OBVIOUS
  <2>1. NIC!ReceivedInOrder /\ NIC!SentInOrder /\ NIC!OverwrittenOnlyBy
    BY DEF RingInv, SendInv, LookedAt, NIC!ReceivedInOrder, NIC!SentInOrder, NIC!OverwrittenOnlyBy
  <2>2. CASE nic = "e1000"
    <3>1. /\ isr.at \in {"idle", "head", "loop"} /\ Len(stored) < Num
          /\ isr.at = "idle" => hw.irq \/ stored = <<>>
      BY <2>2 DEF RingInv, ReceiveInv, ReceivedByTail
    <3>2. ASSUME isr.at = "loop", isr.cur = isr.head PROVE hw.irq \/ stored = <<>>
      <4>1. PICK h \in 0 .. Len(stored) : isr.head = Plus(isr.cur, h) /\ (hw.irq \/ h = Len(stored))
        BY <2>2, <3>2 DEF RingInv, ReceiveInv, ReceivedByTail
      <4>2. isr.cur \in NIC!Slots /\ Len(stored) \in Nat /\ stored \in Seq(Numbers)
        BY DEF RingInv, ReceiveInv, ReceiveType
      <4>3. h \in 0 .. Num - 1 /\ Plus(isr.cur, h) = isr.cur
        BY <3>1, <3>2, <4>1, <4>2 DEF Ring
      <4>4. h = 0
        BY Zenon, <4>2, <4>3, PlaceSame
      <4> QED
        BY <4>1, <4>2, <4>4
    <3> QED
      BY <2>1, <2>2, <3>1, <3>2 DEF NIC!Correct, NIC!NoFrameWaits
  <2>3. CASE nic # "e1000"
    BY <2>1, <2>3 DEF NIC!Correct, NIC!NoFrameWaits, RingInv, ReceiveInv, ReceivedByMark
  <2> QED
    BY <2>2, <2>3
<1> QED
  BY <1>1, <1>2, <1>3, PTL DEF NIC!Spec
-----------------------------------------------------------------------------
(* The DHCP client.  A route of the interface: to everywhere, to its own   *)
(* network, or the default route of a lease.                               *)
Direct(s) == [dest |-> Lease[s].net, gw |-> 0]
Gateway(s) == [dest |-> 0, gw |-> Lease[s].router]
RoutesOfLeases == {DHCP!AllRoute} \union {Direct(s) : s \in Servers} \union {Gateway(s) : s \in Servers}

(* At most one route to everywhere, in front, and behind it those to a     *)
(* network, of which DelAll leaves one over.                               *)
Table(rs) ==
  /\ rs \in Seq(RoutesOfLeases) /\ Len(rs) <= 3
  /\ \A i \in 2 .. Len(rs) : rs[i].dest # 0

ShortTable ==
  /\ Table(routes)
  /\ pc \in {"wait offer", "wait ack"} => Len(routes) > 0 /\ routes[1] = DHCP!AllRoute

(* The routes that the acknowledged lease brings, and one of another.      *)
RangeOf(rs) == {rs[i] : i \in 1 .. Len(rs)}
OfLease(s) == (IF Lease[s].net # 0 THEN {Direct(s)} ELSE {})
              \union (IF Lease[s].router # 0 THEN {Gateway(s)} ELSE {})
OwnRoutes == \E old \in Servers :
  OfLease(offer) \subseteq RangeOf(routes) /\ RangeOf(routes) \subseteq OfLease(offer) \union {Direct(old)}

(* A function on the first numbers is a sequence.                          *)
LEMMA SequenceOf ==
  ASSUME NEW S, NEW m \in Nat, NEW f \in [1 .. m -> S]
  PROVE  f \in Seq(S) /\ Len(f) = m
  BY SeqDef, LenProperties

(* A sequence over a set is one over every larger set.                     *)
LEMMA SequencesGrow ==
  ASSUME NEW A, NEW B, A \subseteq B, NEW s \in Seq(A)
  PROVE  s \in Seq(B)
<1>1. Len(s) \in Nat /\ s \in [1 .. Len(s) -> A]
  BY LenProperties
<1>2. s \in [1 .. Len(s) -> B]
  BY <1>1
<1> QED
  BY <1>1, <1>2, SequenceOf

(* Deleting all routes of a short table leaves the second one (del_route   *)
(* of routing.c).                                                          *)
LEMMA DelAllFacts ==
  ASSUME NEW S, NEW rs \in Seq(S), Len(rs) <= 3
  PROVE  /\ DHCP!DelAll(rs) \in Seq(S)
         /\ Len(DHCP!DelAll(rs)) = IF Len(rs) >= 2 THEN 1 ELSE 0
         /\ Len(rs) >= 2 => DHCP!DelAll(rs)[1] = rs[2]
<1> DEFINE d == DHCP!DelAll(rs)
           m == IF Len(rs) >= 2 THEN 1 ELSE 0
<1>1. Len(rs) \in Nat /\ \A i \in 1 .. Len(rs) : rs[i] \in S
  BY LenProperties, ElementOfSeq
<1>2. Len(rs) \div 2 = m
  <2>1. 0 \div 2 = 0 /\ 1 \div 2 = 0 /\ 2 \div 2 = 1 /\ 3 \div 2 = 1
    OBVIOUS
  <2>2. Len(rs) = 0 \/ Len(rs) = 1 \/ Len(rs) = 2 \/ Len(rs) = 3
    <3>1. Len(rs) \in Nat /\ Len(rs) <= 3
      BY <1>1
    <3>2. \A n \in Nat : n <= 3 => n = 0 \/ n = 1 \/ n = 2 \/ n = 3
      OBVIOUS
    <3> QED
      BY Zenon, <3>1, <3>2
  <2> QED
    BY <2>1, <2>2
<1>3. d = [k \in 1 .. m |-> rs[2 * k]]
  BY <1>2 DEF DHCP!DelAll
<1>4. m \in Nat /\ (m = 1 <=> Len(rs) >= 2) /\ (m = 0 \/ m = 1)
  OBVIOUS
<1>5. \A k \in 1 .. m : k = 1 /\ m = 1 /\ rs[2 * k] \in S
  BY <1>1, <1>4
<1> HIDE DEF d, m
<1>6. d \in [1 .. m -> S]
  BY <1>3, <1>5
<1>7. d \in Seq(S) /\ Len(d) = m
  BY <1>4, <1>6, SequenceOf
<1>8. m = 1 => d[1] = rs[2]
  BY <1>3
<1> QED
  BY <1>4, <1>7, <1>8 DEF d, m

(* Adding a route to a destination that is not in the table, ...           *)
LEMMA AddInFront ==
  ASSUME NEW S, NEW rs \in Seq(S), NEW r \in S,
         \A i \in 1 .. Len(rs) : rs[i].dest # r.dest
  PROVE  /\ DHCP!Add(rs, r) \in Seq(S)
         /\ Len(DHCP!Add(rs, r)) = Len(rs) + 1 /\ DHCP!Add(rs, r)[1] = r
         /\ \A i \in 2 .. Len(rs) + 1 : DHCP!Add(rs, r)[i] = rs[i - 1]
<1> DEFINE n == Len(rs)
<1>1. n \in Nat
  BY LenProperties
<1>2. DHCP!Add(rs, r) = <<r>> \o rs
  BY DEF DHCP!Add
<1>3. <<r>> \in Seq(S) /\ Len(<<r>>) = 1 /\ <<r>>[1] = r
  OBVIOUS
<1>4. /\ <<r>> \o rs \in Seq(S) /\ Len(<<r>> \o rs) = 1 + n
      /\ \A i \in 1 .. 1 + n : (<<r>> \o rs)[i] = IF i <= 1 THEN <<r>>[i] ELSE rs[i - 1]
  <2> HIDE DEF n
  <2>1. <<r>> \o rs \in Seq(S) /\ Len(<<r>> \o rs) = Len(<<r>>) + Len(rs)
        /\ \A i \in 1 .. Len(<<r>>) + Len(rs) :
             (<<r>> \o rs)[i] = IF i <= Len(<<r>>) THEN <<r>>[i] ELSE rs[i - Len(<<r>>)]
    BY <1>3, ConcatProperties
  <2> QED
    BY <1>3, <2>1 DEF n
<1> HIDE DEF n
<1>5. (<<r>> \o rs)[1] = r /\ \A i \in 2 .. n + 1 : (<<r>> \o rs)[i] = rs[i - 1]
  <2>1. 1 \in 1 .. 1 + n /\ \A i \in 2 .. n + 1 : i \in 1 .. 1 + n /\ ~(i <= 1)
    BY <1>1
  <2> QED
    BY <1>3, <1>4, <2>1
<1> QED
  BY <1>1, <1>2, <1>4, <1>5 DEF n

(* ... and to the destination of the only one.                             *)
LEMMA AddInPlace ==
  ASSUME NEW S, NEW rs \in Seq(S), NEW r \in S, Len(rs) = 1, rs[1].dest = r.dest
  PROVE  DHCP!Add(rs, r) \in Seq(S) /\ Len(DHCP!Add(rs, r)) = 1 /\ DHCP!Add(rs, r)[1] = r
<1> DEFINE put == [i \in 1 .. 1 |-> IF rs[i].dest = r.dest THEN r ELSE rs[i]]
<1>1. DHCP!Add(rs, r) = put
  BY DEF DHCP!Add
<1>2. put \in [1 .. 1 -> S] /\ put[1] = r
  BY SMT
<1> HIDE DEF put
<1>3. put \in Seq(S) /\ Len(put) = 1
  BY <1>2, SequenceOf
<1> QED
  BY <1>1, <1>2, <1>3

(* What DelAll leaves of a short table is at most a route to a network.    *)
LEMMA Cleared ==
  ASSUME Table(routes)
  PROVE  /\ DHCP!DelAll(routes) \in Seq(RoutesOfLeases) /\ Len(DHCP!DelAll(routes)) \in {0, 1}
         /\ Len(DHCP!DelAll(routes)) = 1 =>
              \E s \in Servers : DHCP!DelAll(routes)[1] = Direct(s) /\ Direct(s).dest # 0
<1> DEFINE d == DHCP!DelAll(routes)
<1>1. /\ d \in Seq(RoutesOfLeases) /\ Len(d) = IF Len(routes) >= 2 THEN 1 ELSE 0
      /\ Len(routes) >= 2 => d[1] = routes[2]
  BY Zenon, DelAllFacts DEF Table
<1>2. Len(d) \in {0, 1} /\ (Len(d) = 1 => Len(routes) >= 2)
  BY <1>1
<1>3. ASSUME Len(routes) >= 2 PROVE \E s \in Servers : routes[2] = Direct(s) /\ Direct(s).dest # 0
  <2>1. routes[2] \in RoutesOfLeases /\ routes[2].dest # 0
    <3>1. \A i \in 1 .. Len(routes) : routes[i] \in RoutesOfLeases
      BY Zenon, ElementOfSeq DEF Table
    <3>2. 2 \in 1 .. Len(routes) /\ 2 \in 2 .. Len(routes)
      <4>1. Len(routes) \in Nat
        BY LenProperties DEF Table
      <4> HIDE DEF d
      <4> QED
        BY <1>3, <4>1
    <3> QED
      BY <3>1, <3>2 DEF Table
  <2> QED
    BY <2>1 DEF RoutesOfLeases, Direct, Gateway, DHCP!AllRoute
<1> QED
  BY <1>1, <1>2, <1>3

(* A route to everywhere goes in front of routes to networks.              *)
LEMMA DefaultInFront ==
  ASSUME NEW rs \in Seq(RoutesOfLeases), Len(rs) <= 2,
         \A i \in 1 .. Len(rs) : rs[i].dest # 0,
         NEW r \in RoutesOfLeases, r.dest = 0, NEW all, all = DHCP!Add(rs, r)
  PROVE  Table(all) /\ Len(all) > 0 /\ all[1] = r /\ RangeOf(all) = RangeOf(rs) \union {r}
<1> DEFINE n == Len(rs)
<1>1. n \in Nat /\ n <= 2
  BY LenProperties
<1>2. /\ all \in Seq(RoutesOfLeases) /\ Len(all) = n + 1 /\ all[1] = r
      /\ \A i \in 2 .. n + 1 : all[i] = rs[i - 1]
  <2>0. rs \in Seq(RoutesOfLeases) /\ r \in RoutesOfLeases
    OBVIOUS
  <2>1. \A i \in 1 .. Len(rs) : rs[i].dest # r.dest
    OBVIOUS
  <2>2. /\ DHCP!Add(rs, r) \in Seq(RoutesOfLeases)
        /\ Len(DHCP!Add(rs, r)) = Len(rs) + 1 /\ DHCP!Add(rs, r)[1] = r
        /\ \A i \in 2 .. Len(rs) + 1 : DHCP!Add(rs, r)[i] = rs[i - 1]
    BY ONLY <2>0, <2>1, AddInFront
  <2> QED
    BY Zenon, <2>2
<1>3. \A i \in 2 .. n + 1 : all[i].dest # 0
  <2>1. \A i \in 2 .. n + 1 : i - 1 \in 1 .. n
    BY <1>1
  <2> QED
    BY <1>2, <2>1
<1>4. RangeOf(all) = RangeOf(rs) \union {r}
  <2> HIDE DEF n
  <2>1. ASSUME NEW x \in RangeOf(all) PROVE x \in RangeOf(rs) \union {r}
    <3>1. PICK i \in 1 .. n + 1 : x = all[i]
      BY <1>2, <2>1 DEF RangeOf
    <3>2. CASE i = 1
      BY <1>2, <3>1, <3>2
    <3>3. CASE i # 1
      <4>1. i \in 2 .. n + 1 /\ i - 1 \in 1 .. n
        BY <1>1, <3>1, <3>3
      <4> QED
        BY <1>2, <3>1, <4>1 DEF RangeOf, n
    <3> QED
      BY <3>2, <3>3
  <2>2. ASSUME NEW x \in RangeOf(rs) \union {r} PROVE x \in RangeOf(all)
    <3>1. CASE x = r
      <4>1. 1 \in 1 .. n + 1
        BY <1>1
      <4> QED
        BY <1>2, <3>1, <4>1 DEF RangeOf
    <3>2. CASE x \in RangeOf(rs)
      <4>1. PICK i \in 1 .. n : x = rs[i]
        BY <3>2 DEF RangeOf, n
      <4>2. i + 1 \in 2 .. n + 1 /\ i + 1 \in 1 .. n + 1 /\ (i + 1) - 1 = i
        BY <1>1, <4>1
      <4>3. all[i + 1] = x
        BY <1>2, <4>1, <4>2
      <4> QED
        BY <1>2, <4>2, <4>3 DEF RangeOf
    <3> QED
      BY <2>2, <3>1, <3>2
  <2> QED
    BY Zenon, <2>1, <2>2
<1>5. Len(all) <= 3 /\ Len(all) > 0
  BY <1>1, <1>2
<1> QED
  BY <1>2, <1>3, <1>4, <1>5 DEF Table

(* The places of a table of none, one or two.                              *)
LEMMA SmallRanges ==
  /\ \A n : n = 0 => 1 .. n = {} /\ n <= 2
  /\ \A n : n = 1 => 1 .. n = {1} /\ n <= 2
  /\ \A n : n = 2 => 1 .. n = {1, 2} /\ n <= 2
OBVIOUS

(* The lease is put into the tables.                                       *)
LEMMA LeaseRoutes ==
  ASSUME Table(routes), NEW s \in Servers,
         NEW cleared, cleared = DHCP!DelAll(routes),
         NEW own, own = IF Lease[s].net # 0 THEN DHCP!Add(cleared, Direct(s)) ELSE cleared,
         NEW all, all = IF Lease[s].router # 0 THEN DHCP!Add(own, Gateway(s)) ELSE own
  PROVE  /\ Table(all)
         /\ \E old \in Servers : /\ OfLease(s) \subseteq RangeOf(all)
                                 /\ RangeOf(all) \subseteq OfLease(s) \union {Direct(old)}
<1> DEFINE net_routes == IF Lease[s].net # 0 THEN {Direct(s)} ELSE {}
<1>1. /\ cleared \in Seq(RoutesOfLeases) /\ Len(cleared) \in {0, 1}
      /\ Len(cleared) = 1 => \E t \in Servers : cleared[1] = Direct(t) /\ Direct(t).dest # 0
  BY Zenon, Cleared
<1>2. /\ Direct(s) \in RoutesOfLeases /\ Direct(s).dest = Lease[s].net
      /\ Gateway(s) \in RoutesOfLeases /\ Gateway(s).dest = 0
  BY DEF Direct, Gateway, RoutesOfLeases
<1>3. PICK old \in Servers : Len(cleared) = 1 => cleared[1] = Direct(old) /\ Direct(old).dest # 0
  BY <1>1
<1>4. /\ own \in Seq(RoutesOfLeases) /\ Len(own) <= 2
      /\ \A i \in 1 .. Len(own) : own[i].dest # 0
      /\ net_routes \subseteq RangeOf(own) /\ RangeOf(own) \subseteq net_routes \union {Direct(old)}
  <2>1. CASE Lease[s].net = 0
    <3>0. own = cleared /\ net_routes = {}
      BY Zenon, <2>1
    <3>1. own = cleared /\ net_routes = {} /\ Len(own) <= 2
      BY <3>0, <1>1, SmallRanges
    <3> HIDE DEF net_routes
    <3>2. \A i \in 1 .. Len(own) : i = 1 /\ Len(own) = 1
      <4>1. Len(own) = 0 \/ Len(own) = 1
        BY Zenon, <1>1, <3>0
      <4>2. 1 .. Len(own) = {} \/ (Len(own) = 1 /\ 1 .. Len(own) = {1})
        BY Zenon, <4>1, SmallRanges
      <4> QED
        BY Zenon, <4>2
    <3>3. RangeOf(own) \subseteq {Direct(old)} /\ \A i \in 1 .. Len(own) : own[i].dest # 0
      BY <1>3, <3>1, <3>2 DEF RangeOf
    <3> QED
      BY <1>1, <3>1, <3>3
  <2>2. CASE Lease[s].net # 0 /\ (Len(cleared) = 0 \/ (Len(cleared) = 1 /\ cleared[1].dest # Lease[s].net))
    <3> DEFINE d == Direct(s)
    <3>0. cleared \in Seq(RoutesOfLeases) /\ d \in RoutesOfLeases
      BY <1>1, <1>2
    <3>1. \A i \in 1 .. Len(cleared) : i = 1 /\ Len(cleared) = 1 /\ cleared[i].dest # d.dest
      <4>1. 1 .. Len(cleared) = {} \/ (Len(cleared) = 1 /\ 1 .. Len(cleared) = {1})
        BY Zenon, <2>2, SmallRanges
      <4>2. Len(cleared) = 1 => cleared[1].dest # d.dest
        BY <1>2, <2>2
      <4> QED
        BY Zenon, <4>1, <4>2
    <3>2. own = DHCP!Add(cleared, d) /\ d.dest # 0 /\ net_routes = {d}
      BY <1>2, <2>2
    <3> HIDE DEF d, net_routes
    <3>3. /\ DHCP!Add(cleared, d) \in Seq(RoutesOfLeases)
          /\ Len(DHCP!Add(cleared, d)) = Len(cleared) + 1 /\ DHCP!Add(cleared, d)[1] = d
          /\ \A i \in 2 .. Len(cleared) + 1 : DHCP!Add(cleared, d)[i] = cleared[i - 1]
      <4>1. \A i \in 1 .. Len(cleared) : cleared[i].dest # d.dest
        BY <3>1
      <4> QED
        BY ONLY <3>0, <4>1, AddInFront
    <3>4. Len(own) \in {1, 2} /\ own[1] = d /\ (Len(own) = 2 => Len(cleared) = 1 /\ own[2] = cleared[1])
      <4>1. Len(own) = Len(cleared) + 1 /\ own[1] = d
        BY <3>2, <3>3
      <4>2. CASE Len(cleared) = 0
        BY <4>1, <4>2
      <4>3. CASE Len(cleared) = 1
        <5>1. 2 \in 2 .. Len(cleared) + 1 /\ 2 - 1 = 1
          BY <4>3
        <5>2. own[2] = cleared[1]
          BY <3>2, <3>3, <5>1
        <5> QED
          BY <4>1, <4>3, <5>2
      <4> QED
        BY <1>1, <4>2, <4>3
    <3>5. \A i \in 1 .. Len(own) : i = 1 \/ (i = 2 /\ Len(own) = 2)
      BY ONLY <3>4, SmallRanges
    <3>6. \A i \in 1 .. Len(own) : own[i] = d \/ own[i] = Direct(old)
      BY <1>3, <3>4, <3>5
    <3>7. \A i \in 1 .. Len(own) : own[i].dest # 0
      BY <1>3, <3>2, <3>4, <3>5
    <3>8. 1 \in 1 .. Len(own) /\ Len(own) <= 2
      BY ONLY <3>4, SmallRanges
    <3> QED
      BY <3>2, <3>3, <3>4, <3>6, <3>7, <3>8 DEF RangeOf
  <2>3. CASE Lease[s].net # 0 /\ Len(cleared) = 1 /\ cleared[1].dest = Lease[s].net
    <3> DEFINE d == Direct(s)
    <3>0. cleared \in Seq(RoutesOfLeases) /\ d \in RoutesOfLeases /\ Len(cleared) = 1
          /\ cleared[1].dest = d.dest
      BY <1>1, <1>2, <2>3
    <3>1. own = DHCP!Add(cleared, d) /\ d.dest # 0 /\ net_routes = {d}
      BY <1>2, <2>3
    <3> HIDE DEF d, net_routes
    <3>2. own \in Seq(RoutesOfLeases) /\ Len(own) = 1 /\ own[1] = d
      <4>1. /\ DHCP!Add(cleared, d) \in Seq(RoutesOfLeases)
            /\ Len(DHCP!Add(cleared, d)) = 1 /\ DHCP!Add(cleared, d)[1] = d
        BY ONLY <3>0, AddInPlace
      <4> QED
        BY <3>1, <4>1
    <3>3. 1 \in 1 .. Len(own) /\ \A i \in 1 .. Len(own) : i = 1
      BY ONLY <3>2, SmallRanges
    <3>4. Len(own) <= 2
      BY ONLY <3>2
    <3> QED
      BY <3>1, <3>2, <3>3, <3>4 DEF RangeOf
  <2> QED
    BY <1>1, <2>1, <2>2, <2>3
<1>5. OfLease(s) = net_routes \union (IF Lease[s].router # 0 THEN {Gateway(s)} ELSE {})
  BY DEF OfLease
<1> HIDE DEF net_routes
<1>6. CASE Lease[s].router # 0
  <2> DEFINE g == Gateway(s)
  <2>1. /\ own \in Seq(RoutesOfLeases) /\ Len(own) <= 2
        /\ \A i \in 1 .. Len(own) : own[i].dest # 0
        /\ g \in RoutesOfLeases /\ g.dest = 0 /\ all = DHCP!Add(own, g)
    BY <1>2, <1>4, <1>6
  <2> HIDE DEF g
  <2>2. Table(all) /\ Len(all) > 0 /\ all[1] = g /\ RangeOf(all) = RangeOf(own) \union {g}
    BY ONLY <2>1, DefaultInFront
  <2>3. OfLease(s) = net_routes \union {g}
    BY <1>5, <1>6 DEF g
  <2>4. OfLease(s) \subseteq RangeOf(all) /\ RangeOf(all) \subseteq OfLease(s) \union {Direct(old)}
    BY Zenon, <1>4, <2>2, <2>3
  <2> QED
    BY <2>2, <2>4
<1>7. CASE Lease[s].router = 0
  <2>1. all = own /\ OfLease(s) = net_routes
    BY <1>5, <1>7
  <2>2. Table(all)
    <3>1. \A i \in 2 .. Len(own) : i \in 1 .. Len(own)
      BY LenProperties, <1>4
    <3>2. Len(own) <= 3
      BY LenProperties, <1>4
    <3> QED
      BY <1>4, <2>1, <3>1, <3>2 DEF Table
  <2>3. OfLease(s) \subseteq RangeOf(all) /\ RangeOf(all) \subseteq OfLease(s) \union {Direct(old)}
    BY <1>4, <2>1
  <2> QED
    BY <2>2, <2>3
<1> QED
  BY <1>6, <1>7

-----------------------------------------------------------------------------
(* What a server or the client can have sent until now: of this run, only  *)
(* the server that was asked for its address answers the request, and it   *)
(* has granted what it acknowledges.                                       *)
Answer == [kind : {"discover", "request", "offer", "untyped", "ack", "nak", "foreign"},
           from : Servers \union {DHCP!Nobody}, server : Servers \union {DHCP!Nobody}, run : Nat]

OfRun(at, chosen, grants, now) == {m \in Answer :
  /\ m.kind \in {"offer", "untyped"} => m.from \in Servers
  /\ m.run <= now
  /\ m.run = now =>
       /\ m.kind \in {"request", "ack", "nak"} => at # "wait offer"
       /\ m.kind = "request" => m.server = chosen
       /\ m.kind = "ack" => m.from \in grants /\ m.from = chosen}

PacketsInv ==
  /\ net \subseteq OfRun(pc, offer, granted, runs)
  /\ inqueue \in Seq(OfRun(pc, offer, granted, runs))

AddressInv ==
  /\ pc \in {"exited", "wait offer", "wait ack", "done"} /\ runs \in Nat
  /\ pc = "wait ack" => offer \in Servers
  /\ pc \in {"wait offer", "wait ack"} => my_ip = 0
  /\ my_ip # 0 => /\ offer \in granted \/ strayed
                  /\ my_ip = Lease[offer].addr /\ OwnRoutes

LeaseInv == PacketsInv /\ AddressInv /\ ShortTable

(* A step that leaves the tables and the choice alone, with the packets of *)
(* before and perhaps one more.                                            *)
LEMMA PacketsKeep ==
  ASSUME LeaseInv, UNCHANGED <<my_ip, routes, offer, runs, strayed>>, granted \subseteq granted',
         pc' = pc \/ pc' = "exited",
         NEW X, X \subseteq OfRun(pc', offer', granted', runs'), net' \subseteq net \union X,
         \/ inqueue' = inqueue
         \/ inqueue # <<>> /\ inqueue' = Tail(inqueue)
         \/ \E m \in X \union net : inqueue' = Append(inqueue, m)
  PROVE  LeaseInv'
<1> DEFINE A == OfRun(pc, offer, granted, runs)
           B == OfRun(pc', offer', granted', runs')
<1>1. A \subseteq B
  BY DEF OfRun
<1>2. net \subseteq A /\ inqueue \in Seq(A) /\ X \subseteq B
  BY DEF LeaseInv, PacketsInv
<1>3. PacketsInv'
  <2> HIDE DEF A, B
  <2>1. net' \subseteq B /\ inqueue \in Seq(B)
    BY <1>1, <1>2, SequencesGrow
  <2>2. inqueue' \in Seq(B)
    <3>1. CASE inqueue' = inqueue
      BY <2>1, <3>1
    <3>2. CASE inqueue # <<>> /\ inqueue' = Tail(inqueue)
      BY <2>1, <3>2, HeadTailProperties
    <3>3. ASSUME NEW m \in X \union net, inqueue' = Append(inqueue, m)
          PROVE  inqueue' \in Seq(B)
      <4>1. m \in B
        BY <1>1, <1>2, <3>3
      <4> QED
        BY <2>1, <3>3, <4>1, AppendProperties
    <3> QED
      BY <3>1, <3>2, <3>3
  <2> QED
    BY <2>1, <2>2 DEF PacketsInv, B
<1>4. ShortTable' /\ (OwnRoutes => OwnRoutes')
  <2>1. RoutesOfLeases' = RoutesOfLeases /\ DHCP!AllRoute' = DHCP!AllRoute
    BY DEF RoutesOfLeases, Direct, Gateway, DHCP!AllRoute
  <2>2. ShortTable'
    BY <2>1 DEF LeaseInv, ShortTable, Table
  <2>3. RangeOf(routes)' = RangeOf(routes) /\ OfLease(offer)' = OfLease(offer)
    BY DEF RangeOf, OfLease, Direct, Gateway
  <2>4. OwnRoutes => OwnRoutes'
    BY <2>3 DEF OwnRoutes, Direct
  <2> QED
    BY <2>2, <2>4
<1> QED
  BY <1>3, <1>4 DEF LeaseInv, AddressInv

(* The network and the servers.                                            *)
LEMMA ServersKeep ==
  ASSUME LeaseInv,
         DHCP!Arrive \/ DHCP!ArriveForeign \/ DHCP!Lose
         \/ \E s \in Servers : DHCP!ServerOffers(s) \/ DHCP!ServerDecides(s)
  PROVE  LeaseInv'
<1>0. net \subseteq OfRun(pc, offer, granted, runs) /\ runs \in Nat
  BY DEF LeaseInv, PacketsInv, AddressInv
<1>1. CASE DHCP!Arrive
  <2>1. PICK m \in net : /\ inqueue' = Append(inqueue, m) /\ net' \in {net, net \ {m}}
                         /\ UNCHANGED <<pc, my_ip, routes, default_dns, offer, granted, runs, strayed>>
    BY <1>1 DEF DHCP!Arrive
  <2>2. net' \subseteq net \union {} /\ {} \subseteq OfRun(pc', offer', granted', runs')
        /\ granted \subseteq granted' /\ m \in {} \union net
    BY <2>1
  <2> QED
    BY <2>1, <2>2, PacketsKeep
<1>2. CASE DHCP!ArriveForeign
  <2>1. PICK s \in Servers : /\ inqueue' = Append(inqueue, DHCP!Packet("foreign", s, s, runs))
                             /\ UNCHANGED <<pc, my_ip, routes, default_dns, offer, net, granted, runs, strayed>>
    BY <1>2 DEF DHCP!ArriveForeign
  <2> DEFINE m == DHCP!Packet("foreign", s, s, runs)
             X == {m}
  <2>2. m \in OfRun(pc', offer', granted', runs')
    <3>1. m \in Answer /\ m.kind = "foreign" /\ m.run <= runs
      BY <1>0 DEF Answer, DHCP!Packet
    <3> HIDE DEF m
    <3> QED
      BY <1>0, <2>1, <3>1 DEF OfRun
  <2> HIDE DEF m
  <2>3. X \subseteq OfRun(pc', offer', granted', runs') /\ inqueue' = Append(inqueue, m)
        /\ net' \subseteq net \union X /\ granted \subseteq granted' /\ m \in X \union net
    BY <2>1, <2>2 DEF m
  <2> HIDE DEF X
  <2> QED
    BY <2>1, <2>3, PacketsKeep
<1>3. CASE DHCP!Lose
  <2>1. net' \subseteq net \union {} /\ {} \subseteq OfRun(pc', offer', granted', runs')
        /\ granted \subseteq granted'
        /\ UNCHANGED <<pc, my_ip, routes, default_dns, offer, inqueue, granted, runs, strayed>>
    BY <1>3 DEF DHCP!Lose
  <2> QED
    BY <2>1, PacketsKeep
<1>4. ASSUME NEW s \in Servers, DHCP!ServerOffers(s) PROVE LeaseInv'
  <2>1. PICK d \in net : net' = net \union {DHCP!Packet(IF s \in Bootp THEN "untyped" ELSE "offer", s, s, d.run)}
    BY <1>4 DEF DHCP!ServerOffers
  <2>2. UNCHANGED <<pc, my_ip, routes, default_dns, offer, inqueue, granted, runs, strayed>>
    BY <1>4 DEF DHCP!ServerOffers
  <2> DEFINE m == DHCP!Packet(IF s \in Bootp THEN "untyped" ELSE "offer", s, s, d.run)
             X == {m}
  <2>3. m \in OfRun(pc', offer', granted', runs')
    <3>1. d.run \in Nat /\ d.run <= runs
      BY <1>0, <2>1 DEF OfRun, Answer
    <3>2. m \in Answer /\ m.kind \in {"offer", "untyped"} /\ m.from = s /\ m.run = d.run
      BY <3>1 DEF Answer, DHCP!Packet
    <3> HIDE DEF m
    <3> QED
      BY <2>2, <3>1, <3>2 DEF OfRun
  <2>4. X \subseteq OfRun(pc', offer', granted', runs') /\ net' \subseteq net \union X
        /\ granted \subseteq granted'
    BY <2>1, <2>2, <2>3
  <2> HIDE DEF X
  <2> QED
    BY <2>2, <2>4, PacketsKeep
<1>5. ASSUME NEW s \in Servers, DHCP!ServerDecides(s) PROVE LeaseInv'
  <2>1. PICK r \in net, ok \in BOOLEAN :
          /\ r.kind = "request" /\ r.server = s
          /\ net' = (net \ {r}) \union {DHCP!Packet(IF ok THEN "ack" ELSE "nak", s, s, r.run)}
          /\ granted' = IF ok /\ r.run = runs THEN granted \union {s} ELSE granted
          /\ UNCHANGED <<pc, my_ip, routes, default_dns, offer, inqueue, runs, strayed>>
    BY <1>5 DEF DHCP!ServerDecides
  <2> DEFINE m == DHCP!Packet(IF ok THEN "ack" ELSE "nak", s, s, r.run)
             X == {m}
  <2>2. /\ r.run \in Nat /\ r.run <= runs
        /\ r.run = runs => offer = s /\ pc # "wait offer"
    BY <1>0, <2>1 DEF OfRun, Answer
  <2>3. /\ m \in Answer /\ m.from = s /\ m.kind \in {"ack", "nak"} /\ (m.kind = "ack" => ok)
        /\ m.run = r.run
    BY <2>2 DEF Answer, DHCP!Packet
  <2>4. net' \subseteq net \union X
    BY <2>1
  <2> HIDE DEF m
  <2>5. granted \subseteq granted' /\ m \in OfRun(pc', offer', granted', runs')
    BY <2>1, <2>2, <2>3 DEF OfRun
  <2>6. X \subseteq OfRun(pc', offer', granted', runs')
    BY <2>5
  <2> HIDE DEF X
  <2> QED
    BY <2>1, <2>4, <2>5, <2>6, PacketsKeep
<1> QED
  BY <1>1, <1>2, <1>3, <1>4, <1>5

-----------------------------------------------------------------------------
(* The client starts again: the packets of before are of an earlier run.   *)
LEMMA StartClient ==
  ASSUME LeaseInv, DHCP!Start
  PROVE  LeaseInv'
<1> DEFINE first == DHCP!Packet("discover", DHCP!Nobody, DHCP!Nobody, runs + 1)
           B == OfRun(pc', offer', granted', runs')
<1>1. /\ my_ip' = 0 /\ routes' = DHCP!Add(DHCP!DelAll(routes), DHCP!AllRoute)
      /\ inqueue' = <<>> /\ granted' = {} /\ offer' = DHCP!Nobody /\ pc' = "wait offer"
      /\ net' = net \union {first} /\ runs' = runs + 1
  BY DEF DHCP!Start
<1>2. runs \in Nat /\ net \subseteq OfRun(pc, offer, granted, runs) /\ Table(routes)
  BY DEF LeaseInv, AddressInv, PacketsInv, ShortTable
<1>0. runs + 1 \in Nat /\ runs' \in Nat /\ runs + 1 <= runs'
  <2>1. runs \in Nat /\ runs' = runs + 1
    BY Zenon, <1>1, <1>2
  <2> QED
    BY ONLY <2>1
<1>3. PacketsInv'
  <2>1. first \in B
    <3>1. first \in Answer /\ first.kind = "discover" /\ first.run <= runs'
      BY ONLY <1>0 DEF Answer, DHCP!Packet, DHCP!Nobody
    <3> HIDE DEF first
    <3> QED
      BY <3>1 DEF OfRun
  <2>2. net \subseteq B
    <3> SUFFICES ASSUME NEW m \in net PROVE m \in B
      OBVIOUS
    <3>1. /\ m \in Answer /\ m.run \in Nat /\ m.run <= runs
          /\ m.kind \in {"offer", "untyped"} => m.from \in Servers
      BY <1>2 DEF OfRun, Answer
    <3>2. m.run <= runs + 1 /\ m.run # runs + 1
      BY <1>2, <3>1
    <3> QED
      BY <1>1, <3>1, <3>2 DEF OfRun
  <2> HIDE DEF first, B
  <2>3. <<>> \in Seq(B)
    OBVIOUS
  <2> QED
    BY <1>1, <2>1, <2>2, <2>3 DEF PacketsInv, B
<1>4. AddressInv'
  <2>1. my_ip' = 0 /\ pc' = "wait offer" /\ runs' \in Nat
    BY Zenon, <1>0, <1>1
  <2> QED
    BY ONLY <2>1 DEF AddressInv
<1>5. ShortTable'
  <2> DEFINE d == DHCP!DelAll(routes)
             all == DHCP!AllRoute
  <2>1. /\ d \in Seq(RoutesOfLeases) /\ Len(d) \in {0, 1}
        /\ Len(d) = 1 => \E s \in Servers : d[1] = Direct(s) /\ Direct(s).dest # 0
    BY Zenon, <1>2, Cleared
  <2>2. all \in RoutesOfLeases /\ all.dest = 0
    BY DEF RoutesOfLeases, DHCP!AllRoute
  <2>3. routes' = DHCP!Add(d, all)
    BY <1>1
  <2>4. RoutesOfLeases' = RoutesOfLeases /\ DHCP!AllRoute' = all
    BY DEF RoutesOfLeases, Direct, Gateway, DHCP!AllRoute
  <2> HIDE DEF d, all
  <2>5. \A i \in 1 .. Len(d) : i = 1 /\ Len(d) = 1
    <3>1. Len(d) = 0 \/ Len(d) = 1
      BY Zenon, <2>1
    <3>2. 1 .. Len(d) = {} \/ (Len(d) = 1 /\ 1 .. Len(d) = {1})
      BY Zenon, <3>1, SmallRanges
    <3> QED
      BY ONLY <3>2
  <2>6. Len(d) <= 2 /\ \A i \in 1 .. Len(d) : d[i].dest # 0
    <3>1. Len(d) <= 2
      BY <2>1, SmallRanges
    <3> QED
      BY Zenon, <2>1, <2>5, <3>1
  <2>7. Table(routes') /\ Len(routes') > 0 /\ routes'[1] = all
    BY ONLY <2>1, <2>2, <2>3, <2>6, DefaultInFront
  <2> QED
    BY <2>4, <2>7 DEF ShortTable, Table
<1> QED
  BY <1>3, <1>4, <1>5 DEF LeaseInv

(* The first answer is an offer, or may be one, and its server is asked.   *)
LEMMA OfferTaken ==
  ASSUME LeaseInv, DHCP!TakeOffer
  PROVE  LeaseInv'
<1> DEFINE a == Head(inqueue)
<1>1. pc = "wait offer" /\ inqueue # <<>> /\ inqueue' = Tail(inqueue)
  BY DEF DHCP!TakeOffer
<1>2. CASE DHCP!Refused(a, "offer")
  <2>1. DHCP!Exit
    BY <1>2 DEF DHCP!TakeOffer
  <2>2. /\ pc' = "exited" /\ UNCHANGED <<my_ip, routes, offer, runs, strayed>>
        /\ granted \subseteq granted' /\ net' \subseteq net \union {}
        /\ {} \subseteq OfRun(pc', offer', granted', runs')
    BY <2>1 DEF DHCP!Exit
  <2> QED
    BY <1>1, <2>2, PacketsKeep
<1>3. CASE ~ DHCP!Refused(a, "offer")
  <2> DEFINE s == a.from
             A == OfRun(pc, offer, granted, runs)
             B == OfRun(pc', offer', granted', runs')
             q == DHCP!Packet("request", DHCP!Nobody, s, runs)
  <2>1. /\ offer' = s /\ net' = net \union {q} /\ pc' = "wait ack"
        /\ UNCHANGED <<my_ip, routes, granted, runs, strayed>>
    BY <1>3 DEF DHCP!TakeOffer, DHCP!Request
  <2>2. net \subseteq A /\ inqueue \in Seq(A) /\ runs \in Nat
    BY DEF LeaseInv, PacketsInv, AddressInv
  <2>3. a \in A /\ Tail(inqueue) \in Seq(A)
    <3> HIDE DEF A
    <3> QED
      BY <1>1, <2>2, HeadTailProperties
  <2>4. s \in Servers
    BY <1>3, <2>3 DEF OfRun, DHCP!Refused
  <2>5. q \in B
    <3>0. runs \in Nat /\ runs <= runs'
      <4>1. runs \in Nat /\ runs' = runs
        BY <2>1, <2>2
      <4> QED
        BY ONLY <4>1
    <3>1. q \in Answer /\ q.kind = "request" /\ q.server = s /\ q.run <= runs'
      BY ONLY <3>0, <2>4 DEF Answer, DHCP!Packet
    <3>2. pc' = "wait ack" /\ offer' = s
      BY <2>1
    <3> HIDE DEF q, s
    <3> QED
      BY <3>1, <3>2 DEF OfRun
  <2>6. A \subseteq B
    BY <1>1, <2>1 DEF OfRun
  <2>7. my_ip = 0 /\ ShortTable
    BY <1>1 DEF LeaseInv, AddressInv
  <2>8. PacketsInv'
    <3>1. Tail(inqueue) \in Seq(B)
      <4> HIDE DEF A, B
      <4> QED
        BY <2>3, <2>6, SequencesGrow
    <3> HIDE DEF A, q
    <3> QED
      BY <1>1, <2>1, <2>2, <2>5, <2>6, <3>1 DEF PacketsInv
  <2> HIDE DEF q, A, B, s
  <2>9. AddressInv'
    BY <2>1, <2>2, <2>4, <2>7 DEF AddressInv
  <2>10. ShortTable'
    <3>1. RoutesOfLeases' = RoutesOfLeases /\ DHCP!AllRoute' = DHCP!AllRoute
      BY DEF RoutesOfLeases, Direct, Gateway, DHCP!AllRoute
    <3> QED
      BY <1>1, <2>1, <2>7, <3>1 DEF ShortTable, Table
  <2> QED
    BY <2>8, <2>9, <2>10 DEF LeaseInv
<1> QED
  BY <1>2, <1>3

(* The acknowledgement of this run is of the server that was asked; any    *)
(* other that is taken for it is remembered.                               *)
LEMMA AckTaken ==
  ASSUME LeaseInv, DHCP!TakeAck
  PROVE  LeaseInv'
<1> DEFINE a == Head(inqueue)
<1>1. pc = "wait ack" /\ inqueue # <<>> /\ inqueue' = Tail(inqueue)
  BY DEF DHCP!TakeAck
<1>2. CASE DHCP!Refused(a, "ack")
  <2>1. DHCP!Exit
    BY <1>2 DEF DHCP!TakeAck
  <2>2. /\ pc' = "exited" /\ UNCHANGED <<my_ip, routes, offer, runs, strayed>>
        /\ granted \subseteq granted' /\ net' \subseteq net \union {}
        /\ {} \subseteq OfRun(pc', offer', granted', runs')
    BY <2>1 DEF DHCP!Exit
  <2> QED
    BY <1>1, <2>2, PacketsKeep
<1>3. CASE ~ DHCP!Refused(a, "ack")
  <2> DEFINE A == OfRun(pc, offer, granted, runs)
             B == OfRun(pc', offer', granted', runs')
             cleared == DHCP!DelAll(routes)
             own == IF Lease[offer].net # 0 THEN DHCP!Add(cleared, Direct(offer)) ELSE cleared
             all == IF Lease[offer].router # 0 THEN DHCP!Add(own, Gateway(offer)) ELSE own
  <2>1. /\ my_ip' = Lease[offer].addr /\ routes' = all /\ pc' = "done"
        /\ UNCHANGED <<offer, net, granted, runs>>
        /\ strayed' = (a.run # runs \/ a.kind = "untyped")
    BY <1>3 DEF DHCP!TakeAck, DHCP!Up, Direct, Gateway
  <2>2. /\ net \subseteq A /\ inqueue \in Seq(A) /\ runs \in Nat /\ offer \in Servers
        /\ Table(routes)
    BY <1>1 DEF LeaseInv, PacketsInv, AddressInv, ShortTable
  <2>3. a \in A /\ Tail(inqueue) \in Seq(A)
    <3> HIDE DEF A
    <3> QED
      BY <1>1, <2>2, HeadTailProperties
  <2>4. A \subseteq B
    BY <1>1, <2>1 DEF OfRun
  <2>5. offer \in granted \/ strayed'
    <3>1. a.kind = "ack" \/ a.kind = "untyped"
      BY <1>3 DEF DHCP!Refused
    <3>2. a.kind = "ack" /\ a.run = runs => offer \in granted
      BY <2>3 DEF OfRun
    <3> HIDE DEF a
    <3> QED
      BY <2>1, <3>1, <3>2
  <2>6. PacketsInv'
    <3>1. Tail(inqueue) \in Seq(B)
      <4> HIDE DEF A, B
      <4> QED
        BY <2>3, <2>4, SequencesGrow
    <3> HIDE DEF A
    <3> QED
      BY <1>1, <2>1, <2>2, <2>4, <3>1 DEF PacketsInv
  <2> HIDE DEF A, B, cleared, own, all
  <2>7. /\ Table(routes')
        /\ \E old \in Servers : /\ OfLease(offer) \subseteq RangeOf(routes')
                                /\ RangeOf(routes') \subseteq OfLease(offer) \union {Direct(old)}
    <3>1. /\ Table(routes) /\ offer \in Servers /\ routes' = all /\ cleared = DHCP!DelAll(routes)
          /\ own = IF Lease[offer].net # 0 THEN DHCP!Add(cleared, Direct(offer)) ELSE cleared
          /\ all = IF Lease[offer].router # 0 THEN DHCP!Add(own, Gateway(offer)) ELSE own
      BY <2>1, <2>2 DEF cleared, own, all
    <3>2. /\ Table(all)
          /\ \E old \in Servers : /\ OfLease(offer) \subseteq RangeOf(all)
                                  /\ RangeOf(all) \subseteq OfLease(offer) \union {Direct(old)}
      BY ONLY <3>1, LeaseRoutes
    <3> QED
      BY Zenon, <3>1, <3>2
  <2>8. RoutesOfLeases' = RoutesOfLeases /\ DHCP!AllRoute' = DHCP!AllRoute
    BY DEF RoutesOfLeases, Direct, Gateway, DHCP!AllRoute
  <2>9. ShortTable'
    BY <2>1, <2>7, <2>8 DEF ShortTable, Table
  <2>10. OwnRoutes'
    <3>1. OfLease(offer)' = OfLease(offer) /\ RangeOf(routes)' = RangeOf(routes')
      BY <2>1 DEF OfLease, Direct, Gateway, RangeOf
    <3> QED
      BY <2>7, <3>1 DEF OwnRoutes, Direct
  <2>11. AddressInv'
    BY <2>1, <2>2, <2>5, <2>10 DEF AddressInv
  <2> QED
    BY <2>6, <2>9, <2>11 DEF LeaseInv
<1> QED
  BY <1>2, <1>3

(* Whatever is lost, doubled, late or of another client, and whatever      *)
(* servers there are, a host that took an address was acknowledged it by   *)
(* the server that offered it, in this run of the client, unless a packet  *)
(* of an earlier run or without a message type was taken for the           *)
(* acknowledgement; and its routes are those of that lease and at most one *)
(* direct route of another lease (dhclient.c, del_route and add_route).    *)
THEOREM AddressesAreGranted == DHCP!Spec => []DHCP!Correct
<1>1. DHCP!Init => LeaseInv
  <2> SUFFICES ASSUME DHCP!Init PROVE LeaseInv
    OBVIOUS
  <2>1. PacketsInv
    BY DEF DHCP!Init, PacketsInv
  <2>2. AddressInv
    BY DEF DHCP!Init, AddressInv
  <2>3. ShortTable
    BY DEF DHCP!Init, ShortTable, Table
  <2> QED
    BY <2>1, <2>2, <2>3 DEF LeaseInv
<1>2. LeaseInv /\ [DHCP!Next]_(DHCP!vars) => LeaseInv'
  <2> SUFFICES ASSUME LeaseInv, [DHCP!Next]_(DHCP!vars) PROVE LeaseInv'
    OBVIOUS
  <2>1. CASE DHCP!Return \/ UNCHANGED DHCP!vars
    <3>1. /\ UNCHANGED <<my_ip, routes, offer, runs, strayed>> /\ granted \subseteq granted'
          /\ pc' = pc \/ pc' = "exited"
          /\ {} \subseteq OfRun(pc', offer', granted', runs') /\ net' \subseteq net \union {}
          /\ inqueue' = inqueue
      BY <2>1 DEF DHCP!Return, DHCP!vars
    <3> QED
      BY <3>1, PacketsKeep
  <2> QED
    BY <2>1, StartClient, OfferTaken, AckTaken, ServersKeep DEF DHCP!Next
<1>3. LeaseInv => DHCP!Correct
  <2> SUFFICES ASSUME LeaseInv PROVE DHCP!Correct
    OBVIOUS
  <2>1. DHCP!AddressGranted
    BY DEF LeaseInv, AddressInv, DHCP!AddressGranted
  <2>2. my_ip # 0 => OwnRoutes
    BY DEF LeaseInv, AddressInv
  <2>3. pc \in {"wait offer", "wait ack"} => DHCP!AllRoute \in RangeOf(routes)
    <3> SUFFICES ASSUME pc \in {"wait offer", "wait ack"} PROVE DHCP!AllRoute \in RangeOf(routes)
      OBVIOUS
    <3> DEFINE n == Len(routes)
    <3>1. n > 0 /\ routes[1] = DHCP!AllRoute /\ n \in Nat
      BY LenProperties DEF LeaseInv, ShortTable, Table
    <3> HIDE DEF n
    <3>2. 1 \in 1 .. n
      BY ONLY <3>1
    <3> QED
      BY <3>1, <3>2 DEF n, RangeOf
  <2> QED
    BY <2>1, <2>2, <2>3 DEF DHCP!Correct, DHCP!RoutesFit, OwnRoutes, RangeOf, OfLease, Direct, Gateway
<1> QED
  BY <1>1, <1>2, <1>3, PTL DEF DHCP!Spec

=============================================================================
