----------------------------- MODULE NicBuffers -----------------------------
(***************************************************************************)
(* The drivers rtl8139 and ne2k: one buffer to send from, a list of frames *)
(* that wait for it, and a ring in which the card (external) stores what   *)
(* it receives.  The popups of the Ethernet server send, the interrupt     *)
(* handler (one thread) receives, notes that the buffer is free and sends  *)
(* what waits.                                                             *)
(*                                                                         *)
(* The ring of the rtl8139 is made of bytes: a header of four, the data,   *)
(* the checksum, and the next frame at a multiple of four.  That of the    *)
(* ne2k is made of pages, and the header names the page of the next frame. *)
(* Frames that are shorter than an Ethernet header do not come: the ne2k   *)
(* would look at the same one for ever.                                    *)
(***************************************************************************)
EXTENDS Naturals, Sequences, FiniteSets

CONSTANTS
    Drivers,            \* the drivers to look at
    Senders,            \* popups that send
    Frames,             \* frames to be sent
    Size,               \* RX_BUFFER_SIZE of the rtl8139
    Pages,              \* PAGE_STOP - PAGE_RX of the ne2k
    Lengths             \* lengths of received frames: data and checksum in
                        \* bytes, or pages

Header == 4
Crc    == 4
Handler == "handler"
None   == "none"
Numbers == 0 .. 2       \* received frames are numbered in a circle

VARIABLES
    nic,        \* the driver
    used,       \* buffer_used or tx_in_progress
    buffer,     \* the frame in the transmit buffer
    flying,     \* the frame the card was told to send
    pending,    \* pending_sends
    thread,     \* the senders and the handler: where they are, their frame
    accepted,   \* frames handed over and not yet sent
    rok, tok,   \* bits of the interrupt status: received, sent
    isr,        \* the bits the handler has read
    rx,         \* the ring: the content of a byte, or of a page
    wpos, rpos, \* where the card writes, where the driver reads
    boundary,   \* CAPR + 16, or BNDRY: what the card must not overwrite
    stored,     \* frames in the ring
    number,     \* of the next frame to be received
    wrong       \* was a frame delivered that is not the next one, whole?

txvars == <<used, buffer, flying, pending, thread, accepted, tok, isr>>
vars == <<nic, txvars, rok, rx, wpos, rpos, boundary, stored, number, wrong>>

Ring == IF nic = "rtl8139" THEN Size ELSE Pages
Idle == [at |-> "idle", frame |-> None]

(* rtl8139_init_device reads from the beginning of its buffer, ...         *)
rtl8139_init_device == wpos = 0 /\ rpos = 0 /\ boundary = 0

(* ... ne2k_init_device from the page behind the first one.                *)
ne2k_init_device == wpos = 1 /\ rpos = 1 /\ boundary = 0

Init ==
    /\ nic \in Drivers
    /\ used = FALSE /\ buffer = None /\ flying = None /\ pending = <<>>
    /\ thread = [t \in Senders \cup {Handler} |-> Idle]
    /\ accepted = {}
    /\ rok = FALSE /\ tok = FALSE /\ isr = {}
    /\ rx = [i \in 0 .. Ring - 1 |-> <<>>]
    /\ IF nic = "rtl8139" THEN rtl8139_init_device ELSE ne2k_init_device
    /\ stored = <<>> /\ number = 0 /\ wrong = FALSE

Unchanged == UNCHANGED <<nic, rok, rx, wpos, rpos, boundary, stored, number, wrong>>

----------------------------------------------------------------------------
(* rtl8139_send_packet and ne2k_send_packet: the buffer is taken if it is  *)
(* free, and otherwise the frame will wait.                                *)
TestAndSet(t, f) ==
    /\ used' = TRUE
    /\ thread' = [thread EXCEPT ![t] = [at |-> IF used THEN "queue" ELSE "fill", frame |-> f]]

rtl8139_send_packet(t) ==
    /\ nic = "rtl8139" /\ thread[t].at = "idle"
    /\ \E f \in Frames \ accepted : TestAndSet(t, f) /\ accepted' = accepted \cup {f}
    /\ UNCHANGED <<buffer, flying, pending, tok, isr>> /\ Unchanged

ne2k_send_packet(t) ==
    /\ nic = "ne2k" /\ thread[t].at = "idle"
    /\ \E f \in Frames \ accepted : TestAndSet(t, f) /\ accepted' = accepted \cup {f}
    /\ UNCHANGED <<buffer, flying, pending, tok, isr>> /\ Unchanged

Return(t) == thread' = [thread EXCEPT ![t] = Idle]

(* cdi_list_insert at the end                                              *)
Queue(t) ==
    /\ thread[t].at = "queue"
    /\ pending' = Append(pending, thread[t].frame)
    /\ Return(t)
    /\ UNCHANGED <<used, buffer, flying, accepted, tok, isr>> /\ Unchanged

(* The frame is copied into the buffer, and the card is started.           *)
rtl8139_Fill(t) ==
    /\ nic = "rtl8139" /\ thread[t].at = "fill"
    /\ buffer' = thread[t].frame
    /\ thread' = [thread EXCEPT ![t].at = "start"]
    /\ UNCHANGED <<used, flying, pending, accepted, tok, isr>> /\ Unchanged

(* The ne2k is written through one port, word by word.                     *)
ne2k_Fill(t) ==
    /\ nic = "ne2k" /\ thread[t].at = "fill"
    /\ buffer' = thread[t].frame
    /\ thread' = [thread EXCEPT ![t].at = "start"]
    /\ UNCHANGED <<used, flying, pending, accepted, tok, isr>> /\ Unchanged

StartCard(t) ==
    /\ thread[t].at = "start"
    /\ flying' = thread[t].frame
    /\ Return(t)
    /\ UNCHANGED <<used, buffer, pending, accepted, tok, isr>> /\ Unchanged

(* The card has sent what is in the buffer.                                *)
Sent ==
    /\ flying # None
    /\ flying' = None /\ tok' = TRUE
    /\ accepted' = accepted \ {buffer}
    /\ UNCHANGED <<used, buffer, pending, thread, isr>> /\ Unchanged

----------------------------------------------------------------------------
(* What a frame looks like in the ring: its header at pos, with what the   *)
(* driver needs to find the next one, and then its bytes or pages.         *)
Total(len) == IF nic = "rtl8139" THEN ((Header + len + 3) \div 4) * 4 ELSE len
Place(n, len) == [i \in 0 .. Ring - 1 |->
    LET k == (i + Ring - wpos) % Ring
    IN CASE k = 0 -> <<n, len, (wpos + Total(len)) % Ring>>
         [] k > 0 /\ k < (IF nic = "rtl8139" THEN Header + len ELSE len) -> <<n, k>>
         [] OTHER -> rx[i]]
FreeSpace == (boundary + Ring - wpos - (IF nic = "rtl8139" THEN 1 ELSE 0)) % Ring

(* The card stores a frame if there is room, or loses it.                  *)
Receive(len) ==
    /\ Total(len) <= FreeSpace
    /\ Len(stored) < Cardinality(Numbers) - 1
    /\ rx' = Place(number, len)
    /\ wpos' = (wpos + Total(len)) % Ring
    /\ stored' = Append(stored, <<number, len>>)
    /\ number' = (number + 1) % Cardinality(Numbers)
    /\ rok' = TRUE
    /\ UNCHANGED <<nic, rpos, boundary, wrong>> /\ UNCHANGED txvars

(* rtl8139_handle_interrupt and ne2k_handle_interrupt read the status; the *)
(* ne2k clears the receive bit at once.                                    *)
HandlerStart ==
    /\ thread[Handler].at = "idle" /\ (rok \/ tok)
    /\ isr' = (IF rok THEN {"rok"} ELSE {}) \cup (IF tok THEN {"tok"} ELSE {})
    /\ thread' = [thread EXCEPT ![Handler].at = "rx"]
    /\ rok' = (rok /\ nic = "rtl8139")
    /\ UNCHANGED <<nic, used, buffer, flying, pending, accepted, tok>>
    /\ UNCHANGED <<rx, wpos, rpos, boundary, stored, number, wrong>>

Delivered(ok) ==
    /\ wrong' = (wrong \/ stored = <<>> \/ ~ok)
    /\ stored' = IF stored = <<>> THEN <<>> ELSE Tail(stored)

(* receive_ok_handler of the rtl8139: the data behind the header, in two   *)
(* parts when they reach the end of the buffer.                            *)
Copy(len) ==
    LET offset == rpos + Header
        first  == Size - offset
    IN [k \in 1 .. len - Crc |->
          IF offset + len - Crc >= Size /\ k > first THEN rx[k - first - 1]
                                                     ELSE rx[offset + k - 1]]

rtl8139_receive_ok_handler ==
    /\ nic = "rtl8139" /\ thread[Handler].at = "rx" /\ "rok" \in isr
    /\ rpos # wpos                                  \* CR_BUFFER_IS_EMPTY
    /\ LET len == rx[rpos][2]
       IN /\ Delivered(stored # <<>> /\ Copy(len) =
                [k \in 1 .. len - Crc |-> <<Head(stored)[1], k + Header - 1>>])
          /\ rpos' = (((rpos + Header + len + 3) \div 4) * 4) % Size
          /\ boundary' = rpos'
    /\ UNCHANGED <<nic, txvars, rok, rx, wpos, number>>

(* receive_ok_handler of the ne2k: the header names the next frame, and    *)
(* the page before it is the one the card must not reach.                  *)
ne2k_receive_ok_handler ==
    /\ nic = "ne2k" /\ thread[Handler].at = "rx" /\ "rok" \in isr
    /\ rpos # wpos
    /\ Delivered(stored # <<>> /\ rx[rpos][1] = Head(stored)[1] /\
          \A k \in 1 .. rx[rpos][2] - 1 :
              rx[(rpos + k) % Pages] = <<Head(stored)[1], k>>)
    /\ rpos' = rx[rpos][3]
    /\ boundary' = IF rpos' = 0 THEN Pages - 1 ELSE rpos' - 1
    /\ UNCHANGED <<nic, txvars, rok, rx, wpos, number>>

(* transmit_ok_handler, when nothing is left to receive                    *)
transmit_ok_handler ==
    /\ thread[Handler].at = "rx" /\ ("rok" \in isr => rpos = wpos)
    /\ used' = (used /\ "tok" \notin isr)
    /\ thread' = [thread EXCEPT ![Handler].at = "clear"]
    /\ UNCHANGED <<buffer, flying, pending, accepted, tok, isr>> /\ Unchanged

(* The bits that were read are cleared, whatever has happened since.       *)
ClearStatus ==
    /\ thread[Handler].at = "clear"
    /\ tok' = (tok /\ "tok" \notin isr)
    /\ rok' = IF nic = "rtl8139" THEN rok /\ "rok" \notin isr ELSE rok
    /\ isr' = {}
    /\ thread' = [thread EXCEPT ![Handler].at = "pop"]
    /\ UNCHANGED <<nic, used, buffer, flying, pending, accepted>>
    /\ UNCHANGED <<rx, wpos, rpos, boundary, stored, number, wrong>>

(* At the end of both handlers: the first frame that waits is sent, or     *)
(* queued again, behind the others.                                        *)
SendPending ==
    /\ thread[Handler].at = "pop"
    /\ IF pending = <<>> THEN Return(Handler) /\ UNCHANGED <<used, pending>>
       ELSE TestAndSet(Handler, Head(pending)) /\ pending' = Tail(pending)
    /\ UNCHANGED <<buffer, flying, accepted, tok, isr>> /\ Unchanged

Next ==
    \/ \E t \in Senders : rtl8139_send_packet(t) \/ ne2k_send_packet(t)
    \/ \E t \in Senders \cup {Handler} :
          Queue(t) \/ rtl8139_Fill(t) \/ ne2k_Fill(t) \/ StartCard(t)
    \/ Sent
    \/ \E len \in Lengths : Receive(len)
    \/ HandlerStart \/ rtl8139_receive_ok_handler \/ ne2k_receive_ok_handler
    \/ transmit_ok_handler \/ ClearStatus \/ SendPending

----------------------------------------------------------------------------
(* The card sends the frame it was told to send: nobody fills the buffer   *)
(* before it is done.                                                      *)
BufferStays == flying # None => buffer = flying

(* A frame that was handed over is in one place, and only there: with a    *)
(* thread that carries it, in the list, or with the card.                  *)
Places(f) == Cardinality({t \in DOMAIN thread : thread[t].frame = f})
    + Cardinality({i \in DOMAIN pending : pending[i] = f})
    + (IF flying = f THEN 1 ELSE 0)
InOnePlace == \A f \in Frames : Places(f) = (IF f \in accepted THEN 1 ELSE 0)

(* Every frame in the ring is delivered once, in order and whole, wherever *)
(* the ring wraps around.                                                  *)
Received == ~wrong

Correct == BufferStays /\ InOnePlace /\ Received
=============================================================================
