-------------------------------- MODULE Eth --------------------------------
(***************************************************************************)
(* The Ethernet server (progs/common/eth) and the CDI glue of the network  *)
(* card drivers that call it (lib/common/cdi/net.c).  A driver registers   *)
(* its card; for every frame it opens a pipe of its own, names the card,   *)
(* sends without waiting and closes the pipe.  Each of these calls is a    *)
(* popup of the server, and the last two are not waited for.  Clients open *)
(* a card, become listeners of it and get a copy of every frame.           *)
(*                                                                         *)
(* Calm says that the popup of a frame has looked up its card before the   *)
(* one that closes the pipe runs, and that no frame is handled while a     *)
(* pipe is being duplicated.  The code ensures neither.                    *)
(***************************************************************************)
EXTENDS Naturals, Sequences, SequencesExt, FiniteSets

CONSTANTS
    Files,              \* addresses of struct vfs_file
    Popups,             \* threads that carry out eth_receive
    Cards,              \* cards, each with its driver; also their MAC addresses
    Frames,             \* frames on the network: [dest, src, long]
    MaxQueue,           \* bound: packets in a queue
    Calm

Nobody == "nobody"
NoCard == "NULL"
AllMacs == "ff:ff:ff:ff:ff:ff"
Types == {"TYPE_REGISTER", "TYPE_RECEIVE", "TYPE_DIR", "TYPE_CARD"}

VARIABLES
    file,               \* struct vfs_file, with the call it is busy with
    cards,              \* the list of registered cards, newest first
    card,               \* struct network_card: what follows from its driver's calls
    driver,             \* the driver of each card, in cdi/net.c
    pending,            \* the frame a driver has sent that has no popup yet
    popup,              \* the threads in eth_receive
    owed,               \* files whose last packet was not signalled
    out                 \* the frame a card was last told to send

vars == <<file, cards, card, driver, pending, popup, owed, out>>

NoFile == [at |-> "free", type |-> "TYPE_DIR", card |-> NoCard, dest |-> AllMacs,
           inqueue |-> <<>>, readers |-> {}, signal |-> FALSE, data |-> <<>>]
Idle == [at |-> "idle", card |-> NoCard, frame |-> <<>>, rest |-> <<>>]

Init ==
    /\ file = [f \in Files |-> NoFile]
    /\ cards = <<>>
    /\ card = [c \in Cards |-> [listeners |-> <<>>, readers |-> {}]]
    /\ driver = [c \in Cards |-> [at |-> "init", fd |-> Nobody, frame |-> <<>>]]
    /\ pending = [c \in Cards |-> <<>>]
    /\ popup = [t \in Popups |-> Idle]
    /\ owed = {}
    /\ out = [c \in Cards |-> <<>>]

Server == <<pending, popup, owed, out>>
Set(f, r) == file' = [file EXCEPT ![f] = r]

----------------------------------------------------------------------------
(* service_create_pipe with no path: the names of the cards, as they are   *)
(* now.                                                                    *)
OpenDir(f) ==
    /\ file[f].at = "free"
    /\ Set(f, [NoFile EXCEPT !.at = "open", !.data = cards])
    /\ UNCHANGED <<cards, card, driver, Server>>

(* With the name of a card, and with a destination behind it.              *)
OpenCard(f) ==
    /\ file[f].at = "free"
    /\ \E c \in Range(cards), dest \in Cards \cup {Nobody} :
          /\ card[c].readers = {}
          /\ Set(f, [NoFile EXCEPT !.at = "open", !.type = "TYPE_CARD", !.card = c,
                                   !.dest = dest])
          /\ card' = [card EXCEPT ![c].listeners = <<f>> \o @]
    /\ UNCHANGED <<cards, driver, Server>>

(* service_duplicate_pipe: the copy still has the queue and the lock of    *)
(* the original when it becomes a listener ...                             *)
service_duplicate_pipe(f, nf) ==
    /\ file[f].at = "open" /\ file[nf].at = "free"
    /\ IF file[f].type = "TYPE_CARD"
       THEN /\ card[file[f].card].readers = {}
            /\ Set(nf, [file[f] EXCEPT !.at = "copying", !.inqueue = <<>>, !.data = <<f>>])
            /\ card' = [card EXCEPT ![file[f].card].listeners = <<nf>> \o @]
       ELSE /\ file[f].type = "TYPE_DIR"
            /\ Set(nf, file[f]) /\ UNCHANGED card
    /\ UNCHANGED <<cards, driver, Server>>

(* ... and gets its own afterwards, whatever has been put there meanwhile. *)
DuplicateQueue(nf) ==
    /\ file[nf].at = "copying"
    /\ LET f == Head(file[nf].data)
       IN Set(nf, [file[nf] EXCEPT !.at = "open", !.data = <<>>, !.inqueue = file[f].inqueue])
    /\ owed' = IF Head(file[nf].data) \in owed THEN owed \cup {nf} ELSE owed \ {nf}
    /\ UNCHANGED <<cards, card, driver, pending, popup, out>>

Copied == {Head(file[nf].data) : nf \in {g \in Files : file[g].at = "copying"}}

(* service_destroy_pipe: a card's file leaves the list under its lock ...  *)
Unlink(f) == [card EXCEPT ![file[f].card].listeners = RemoveFirst(@, f)]

service_destroy_pipe(f) ==
    /\ file[f].at = "open" /\ file[f].type = "TYPE_CARD" /\ f \notin Copied
    /\ card[file[f].card].readers = {}
    /\ card' = Unlink(f)
    /\ file' = [file EXCEPT ![f].at = "unlinked"]
    /\ UNCHANGED <<cards, driver, Server>>

(* ... and is freed with its packets; the others are freed at once.        *)
Free(f) ==
    /\ \/ file[f].at = "unlinked"
       \/ file[f].at = "open" /\ file[f].type = "TYPE_DIR"
    /\ Set(f, NoFile)
    /\ owed' = owed \ {f}
    /\ UNCHANGED <<cards, card, driver, pending, popup, out>>

----------------------------------------------------------------------------
(* What a file says about itself and about the first packet in its queue.  *)
service_pipe_get_flag(f, flag) ==
    CASE flag = "F_READABLE"   -> IF file[f].type = "TYPE_DIR" THEN file[f].data # <<>>
                                  ELSE file[f].type = "TYPE_CARD" /\ file[f].inqueue # <<>>
      [] flag = "F_WRITABLE"   -> file[f].type # "TYPE_DIR"
      [] flag = "F_DEST_MAC"   -> file[f].dest
      [] flag = "F_MY_MAC"     -> file[f].card
      [] flag = "F_SRC_MAC"    -> IF file[f].inqueue # <<>> THEN Head(file[f].inqueue) ELSE Nobody
      [] flag = "F_IPC_SIGNAL" -> file[f].type = "TYPE_CARD" /\ file[f].signal

(* send_packet of the driver's process                                     *)
send_packet(c, dest, length) == out' = [out EXCEPT ![c] = <<dest, length>>]

(* service_stream_send on a card: what is too long is refused, what is too *)
(* short is padded, and the driver (send_packet) gets the frame.           *)
SendFrame(f, size) ==
    /\ file[f].at = "open" /\ file[f].type = "TYPE_CARD"
    /\ service_pipe_get_flag(f, "F_WRITABLE") /\ size <= 1500
    /\ send_packet(file[f].card, file[f].dest, IF size < 46 THEN 46 ELSE size)
    /\ UNCHANGED <<file, cards, card, driver, pending, popup, owed>>

(* service_stream_recv: the first packet, or the next part of the list of  *)
(* names.  F_FLUSH takes the packet as well.                               *)
service_stream_recv(f) ==
    /\ file[f].at = "open" /\ service_pipe_get_flag(f, "F_READABLE")
    /\ file[f].readers = {}
    /\ file' = IF file[f].type = "TYPE_DIR" THEN [file EXCEPT ![f].data = Tail(@)]
                                            ELSE [file EXCEPT ![f].inqueue = Tail(@)]
    /\ UNCHANGED <<cards, card, driver, Server>>

(* F_DEST_MAC and F_IPC_SIGNAL; the latter promises nothing about packets  *)
(* that are in the queue already.                                          *)
service_pipe_set_flag(f) ==
    /\ file[f].at = "open" /\ file[f].type = "TYPE_CARD"
    /\ \/ \E c \in Cards : file' = [file EXCEPT ![f].dest = c] /\ UNCHANGED owed
       \/ /\ file' = [file EXCEPT ![f].signal = TRUE]
          /\ owed' = IF service_pipe_get_flag(f, "F_IPC_SIGNAL") THEN owed ELSE owed \ {f}
    /\ UNCHANGED <<cards, card, driver, pending, popup, out>>

----------------------------------------------------------------------------
(* The message through a register pipe puts its card into the list.        *)
Register(c) == cards' = <<c>> \o cards

(* A pipe for frames has no card yet; F_DEVICE_ID looks for the one of     *)
(* this driver with the given number.                                      *)
ReceiveFile == [NoFile EXCEPT !.at = "open", !.type = "TYPE_RECEIVE"]
HasDevice(c) == c \in Range(cards)

(* cdi_net_device_init: the register pipe creates the card, and the first  *)
(* message through it puts the card into the list.                         *)
cdi_net_device_init(c) ==
    /\ driver[c].at = "init"
    /\ driver' = [driver EXCEPT ![c].at = "ready"]
    /\ Register(c)
    /\ UNCHANGED <<file, card, Server>>

(* cdi_net_receive opens a pipe, ...                                       *)
cdi_net_receive(c, f, frame) ==
    /\ driver[c].at \in {"init", "ready"} /\ driver[c].fd = Nobody
    /\ pending[c] = <<>>
    /\ file[f].at = "free"
    /\ Set(f, ReceiveFile)
    /\ driver' = [driver EXCEPT ![c].fd = f, ![c].frame = frame]
    /\ UNCHANGED <<cards, card, Server>>

(* ... sets F_DEVICE_ID, which fails for a card that is not in the list,   *)
(* sends the frame without waiting ...                                     *)
ReceiveSend(c) ==
    /\ driver[c].fd # Nobody /\ file[driver[c].fd].card = NoCard /\ pending[c] = <<>>
    /\ driver[c].frame # <<>>
    /\ IF HasDevice(c)
       THEN /\ file' = [file EXCEPT ![driver[c].fd].card = c]
            /\ pending' = [pending EXCEPT ![c] = <<driver[c].fd, driver[c].frame>>]
       ELSE UNCHANGED <<file, pending>>     \* the frame is refused: ENXIO
    /\ driver' = [driver EXCEPT ![c].frame = <<>>]
    /\ UNCHANGED <<cards, card, popup, owed, out>>

(* ... and closes the pipe, not waiting either.                            *)
ReceiveDestroy(c) ==
    /\ driver[c].fd # Nobody /\ driver[c].frame = <<>>
    /\ Calm => pending[c] = <<>>
    /\ Set(driver[c].fd, NoFile)
    /\ driver' = [driver EXCEPT ![c].fd = Nobody]
    /\ UNCHANGED <<cards, card, Server>>

(* What eth_receive looks at: long enough, and for this card or everyone.  *)
Accepts(c, frame) == frame.long /\ frame.dest \in {AllMacs, c}

(* eth_receive: a frame gets its popup, which holds the lock of the        *)
(* listeners until it is through.                                          *)
eth_receive(t, c) ==
    /\ popup[t].at = "idle" /\ pending[c] # <<>>
    /\ Calm => \A f \in Files : file[f].at # "copying"
    /\ pending' = [pending EXCEPT ![c] = <<>>]
    /\ IF Accepts(c, pending[c][2])
       THEN /\ popup' = [popup EXCEPT ![t] = [at |-> "walk", card |-> c,
                            frame |-> pending[c][2], rest |-> card[c].listeners]]
            /\ card' = [card EXCEPT ![c].readers = @ \cup {t}]
       ELSE UNCHANGED <<popup, card>>
    /\ UNCHANGED <<file, cards, driver, owed, out>>

Listener(t) == Head(popup[t].rest)

(* It looks for the end of the listener's queue as a reader ...            *)
FindEnd(t) ==
    /\ popup[t].at = "walk" /\ popup[t].rest # <<>>
    /\ Len(file[Listener(t)].inqueue) < MaxQueue
    /\ file' = [file EXCEPT ![Listener(t)].readers = @ \cup {t}]
    /\ popup' = [popup EXCEPT ![t].at = "append"]
    /\ UNCHANGED <<cards, card, driver, pending, owed, out>>

(* ... and appends as the only one (rwl_require_w): two popups that have   *)
(* both looked for the end wait for each other for ever.                   *)
AppendPacket(t) ==
    /\ popup[t].at = "append" /\ file[Listener(t)].readers = {t}
    /\ file' = [file EXCEPT ![Listener(t)].inqueue = Append(@, popup[t].frame.src),
                            ![Listener(t)].readers = {}]
    /\ owed' = IF file[Listener(t)].signal THEN owed \cup {Listener(t)} ELSE owed
    /\ popup' = [popup EXCEPT ![t].at = "signal"]
    /\ UNCHANGED <<cards, card, driver, pending, out>>

(* Faulty: a listener with packets left in its queue is not signalled.     *)
SignalFirstOnly(t) ==
    /\ popup[t].at = "signal"
    /\ owed' = IF Len(file[Listener(t)].inqueue) = 1 THEN owed \ {Listener(t)} ELSE owed
    /\ popup' = [popup EXCEPT ![t].at = "walk", ![t].rest = Tail(@)]
    /\ UNCHANGED <<file, cards, card, driver, pending, out>>

(* The listener's process gets its signal.                                 *)
Signal(t) ==
    /\ popup[t].at = "signal"
    /\ owed' = owed \ {Listener(t)}
    /\ popup' = [popup EXCEPT ![t].at = "walk", ![t].rest = Tail(@)]
    /\ UNCHANGED <<file, cards, card, driver, pending, out>>

WalkEnd(t) ==
    /\ popup[t].at = "walk" /\ popup[t].rest = <<>>
    /\ card' = [card EXCEPT ![popup[t].card].readers = @ \ {t}]
    /\ popup' = [popup EXCEPT ![t] = Idle]
    /\ UNCHANGED <<file, cards, driver, pending, owed, out>>

Next ==
    \/ \E f \in Files :
          \/ OpenDir(f) \/ OpenCard(f) \/ service_destroy_pipe(f) \/ Free(f)
          \/ DuplicateQueue(f) \/ service_stream_recv(f) \/ service_pipe_set_flag(f)
          \/ \E nf \in Files : service_duplicate_pipe(f, nf)
          \/ \E size \in {1, 1500, 1501} : SendFrame(f, size)
    \/ \E c \in Cards :
          \/ cdi_net_device_init(c) \/ ReceiveSend(c) \/ ReceiveDestroy(c)
          \/ \E f \in Files, frame \in Frames : cdi_net_receive(c, f, frame)
          \/ \E t \in Popups : eth_receive(t, c)
    \/ \E t \in Popups : FindEnd(t) \/ AppendPacket(t) \/ Signal(t) \/ WalkEnd(t)

Spec == Init /\ [][Next]_vars

----------------------------------------------------------------------------
(* A popup that walks the listeners of a card meets only files that are    *)
(* still open, however many are closed and reused meanwhile.               *)
WalkMeetsOpen == \A t \in Popups : \A i \in DOMAIN popup[t].rest :
    LET f == popup[t].rest[i]
    IN file[f].at \in {"open", "copying"} /\ file[f].card = popup[t].card

(* A packet that a listener asked to be told of is signalled after it is   *)
(* in the queue, or a popup is about to.                                   *)
NoLostWakeup == \A f \in owed :
    \E t \in Popups : popup[t].at = "signal" /\ Listener(t) = f

(* The list and the files agree: who listens is open, who is open listens. *)
ListenersAreOpen == \A c \in Cards :
    Range(card[c].listeners) = {f \in Files : /\ file[f].at \in {"open", "copying"}
                                              /\ file[f].type = "TYPE_CARD"
                                              /\ file[f].card = c}

(* EthCorrect (eth.c: eth_receive, service_destroy_pipe): popups walk over *)
(* open files only, whoever has a packet queued is signalled for it, and   *)
(* the listeners of a card are the files that have it open.                *)
EthCorrect == WalkMeetsOpen /\ NoLostWakeup /\ ListenersAreOpen
=============================================================================
