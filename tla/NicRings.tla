------------------------------ MODULE NicRings ------------------------------
(***************************************************************************)
(* The drivers of the network cards that share rings of descriptors with   *)
(* their card: e1000, rtl8168b, pcnet and sis900.  The card (external)     *)
(* works at its own place in each ring, the driver follows it; a bit of    *)
(* the descriptor, or for the e1000 a head and a tail register, says who   *)
(* may use a descriptor.  Frames are numbered in the order in which they   *)
(* come; a number returns when nobody can know it any more.                *)
(*                                                                         *)
(* The interrupt handler is one thread (Irq), and the clients of the       *)
(* Ethernet server send one frame after the other.  A frame may be sent    *)
(* while every descriptor is in use.  Only the sis900 never comes there;   *)
(* the e1000 and the rtl8168b drop the frame but take the descriptor, and  *)
(* the pcnet does not look.  From then on the driver is no longer where    *)
(* the card expects it: overrun, a history variable, tells these states    *)
(* apart, and the frames are numbered no more.                             *)
(***************************************************************************)
EXTENDS Naturals, Sequences

CONSTANTS
    Drivers,            \* the drivers to look at
    Num                 \* RX_BUFFER_NUM and TX_BUFFER_NUM, the size of a ring

Slots  == 0 .. Num - 1
Empty  == 0
After(i)  == (i + 1) % Num
NextOf(f) == (f % (2 * Num + 1)) + 1

VARIABLES
    nic,        \* the driver
    up,         \* how far its initialisation has come
    rx,         \* the receive ring: frames the driver owns, or Empty
    hw,         \* the card: pos and tail in the receive ring, idle, and the
                \* interrupt it asks for (the receive bit of its status)
    isr,        \* the handler: where it is, rx_cur_buffer, what it has read
    tx,         \* the transmit ring: frames the card owns, or Empty
    txhw,       \* the card: pos and tail in the transmit ring
    snd,        \* the sender: where it is, tx_cur_buffer, the frame
    stored,     \* frames the card has stored and the driver not yet delivered
    queued,     \* frames the driver has accepted and the card not yet sent
    lastrx, lasttx, \* the last numbers used
    wrong,      \* has a frame been delivered out of turn?
    missent,    \* has a frame been sent out of turn, before an overrun?
    overrun,    \* has a frame been sent while every descriptor was in use?
    overwritten \* has a frame been put where one was still to be sent?

rxvars == <<rx, hw, isr, stored, lastrx, wrong>>
txvars == <<tx, txhw, snd, queued, lasttx, missent, overrun, overwritten>>
vars == <<nic, up, rxvars, txvars>>

Init ==
    /\ nic \in Drivers
    /\ up = "off"
    /\ rx = [i \in Slots |-> Empty] /\ tx = [i \in Slots |-> Empty]
    /\ hw = [pos |-> 0, tail |-> 0, idle |-> FALSE, irq |-> FALSE, ready |-> FALSE]
    /\ isr = [at |-> "idle", cur |-> 0, head |-> 0, idle |-> FALSE]
    /\ txhw = [pos |-> 0, tail |-> 0]
    /\ snd = [at |-> "idle", cur |-> 0, slot |-> 0]
    /\ stored = <<>> /\ queued = <<>>
    /\ lastrx = 1 /\ lasttx = 1
    /\ wrong = FALSE /\ missent = FALSE
    /\ overrun = FALSE /\ overwritten = FALSE

(* reset_nic of the e1000: the card may use all descriptors but one.       *)
e1000_reset_nic ==
    /\ nic = "e1000"
    /\ hw' = [hw EXCEPT !.tail = Num - 1, !.ready = TRUE]

(* The rings of the others: every receive descriptor belongs to the card.  *)
rtl8168b_rings == nic = "rtl8168b" /\ hw' = [hw EXCEPT !.ready = TRUE]
pcnet_dev_init == nic = "pcnet"    /\ hw' = [hw EXCEPT !.ready = TRUE]
sis900_reset_nic == nic = "sis900" /\ hw' = [hw EXCEPT !.ready = TRUE]

(* xxx_init_device: the handler is registered, the card reset and started, *)
Start ==
    /\ up = "off" /\ up' = "started"
    /\ e1000_reset_nic \/ rtl8168b_rings \/ pcnet_dev_init \/ sis900_reset_nic
    /\ UNCHANGED <<nic, rx, isr, stored, lastrx, wrong, txvars>>

(* and then the Ethernet server is told (cdi_net_device_init).  The e1000  *)
(* enables its interrupts only now, the others have done so before.        *)
e1000_init_device    == nic = "e1000"    /\ up' = "registered"
rtl8168b_init_device == nic = "rtl8168b" /\ up' = "registered"
pcnet_init_device    == nic = "pcnet"    /\ up' = "registered"
sis900_init_device   == nic = "sis900"   /\ up' = "registered"

Register ==
    /\ up = "started"
    /\ e1000_init_device \/ rtl8168b_init_device \/ pcnet_init_device \/ sis900_init_device
    /\ UNCHANGED <<nic, rxvars, txvars>>

Interruptible == up = "registered" \/ (up = "started" /\ nic # "e1000")

----------------------------------------------------------------------------
(* The card stores a frame where it stands, if it may, and asks for an     *)
(* interrupt; if it may not it loses the frame, and the sis900 stops.      *)
MayStore == IF nic = "e1000" THEN hw.pos # hw.tail ELSE rx[hw.pos] = Empty

StoreFrame ==
    /\ hw.ready /\ MayStore /\ ~hw.idle
    /\ rx' = [rx EXCEPT ![hw.pos] = NextOf(lastrx)]
    /\ lastrx' = NextOf(lastrx)
    /\ stored' = Append(stored, NextOf(lastrx))
    /\ hw' = [hw EXCEPT !.pos = After(@), !.irq = TRUE]
    /\ UNCHANGED <<nic, up, isr, wrong, txvars>>

LoseFrame ==
    /\ hw.ready /\ ~MayStore /\ ~hw.idle
    /\ hw' = [hw EXCEPT !.idle = (nic = "sis900"), !.irq = @ \/ nic = "sis900"]
    /\ UNCHANGED <<nic, up, rx, isr, stored, lastrx, wrong, txvars>>

(* cdi_net_receive: the frame in a buffer goes to the Ethernet server.     *)
Deliver(i) ==
    /\ wrong' = (wrong \/ stored = <<>> \/ rx[i] # Head(stored))
    /\ stored' = IF stored = <<>> THEN <<>> ELSE Tail(stored)

(* The beginning of each handler: reading the cause clears it, except on   *)
(* the pcnet, where it is cleared at the end.                              *)
HandlerStart ==
    /\ Interruptible /\ hw.irq /\ isr.at = "idle"
    /\ isr' = [isr EXCEPT !.at = IF nic = "e1000" THEN "head" ELSE "loop",
                          !.idle = hw.idle]
    /\ hw' = [hw EXCEPT !.irq = (nic = "pcnet")]
    /\ UNCHANGED <<nic, up, rx, stored, lastrx, wrong, txvars>>

(* e1000_handle_interrupt reads the head and delivers up to there, ...     *)
e1000_ReadHead ==
    /\ nic = "e1000" /\ isr.at = "head"
    /\ isr' = [isr EXCEPT !.at = "loop", !.head = hw.pos]
    /\ UNCHANGED <<nic, up, rx, hw, stored, lastrx, wrong, txvars>>

e1000_Receive ==
    /\ nic = "e1000" /\ isr.at = "loop" /\ isr.cur # isr.head
    /\ Deliver(isr.cur)
    /\ isr' = [isr EXCEPT !.cur = After(@)]
    /\ UNCHANGED <<nic, up, rx, hw, lastrx, txvars>>

(* Faulty: the tail becomes the descriptor that is read next.              *)
TailAtHead == isr.head

(* ... then lets the card have all of the ring but the last descriptor     *)
(* that was read.  The status of a descriptor is not cleared: from the     *)
(* second round on the test of Descriptor Done tests nothing.              *)
NewTail == (isr.head + Num - 1) % Num

e1000_WriteTail ==
    /\ nic = "e1000" /\ isr.at = "loop" /\ isr.cur = isr.head
    /\ hw' = [hw EXCEPT !.tail = NewTail]
    /\ isr' = [isr EXCEPT !.at = "idle", !.head = 0]
    /\ UNCHANGED <<nic, up, rx, stored, lastrx, wrong, txvars>>

(* rtl8168b_handle_receive_ok: one frame for an interrupt.                 *)
rtl8168b_handle_receive_ok ==
    /\ nic = "rtl8168b" /\ isr.at = "loop"
    /\ IF rx[isr.cur] = Empty /\ rx[0] = Empty
       THEN isr' = [isr EXCEPT !.at = "idle"] /\ UNCHANGED <<rx, stored, wrong>>
       ELSE LET i == IF rx[isr.cur] = Empty THEN 0 ELSE isr.cur
            IN /\ Deliver(i)
               /\ rx' = [rx EXCEPT ![i] = Empty]        \* rtl8168b_unown_rx_desc
               /\ isr' = [isr EXCEPT !.at = "idle", !.cur = After(i)]
    /\ UNCHANGED <<nic, up, hw, lastrx, txvars>>

(* pcnet_handle_interrupt delivers all it finds ...                        *)
pcnet_Receive ==
    /\ nic = "pcnet" /\ isr.at = "loop" /\ rx[isr.cur] # Empty
    /\ Deliver(isr.cur)
    /\ rx' = [rx EXCEPT ![isr.cur] = Empty]
    /\ isr' = [isr EXCEPT !.cur = After(@)]
    /\ UNCHANGED <<nic, up, hw, lastrx, txvars>>

pcnet_LoopEnd ==
    /\ nic = "pcnet" /\ isr.at = "loop" /\ rx[isr.cur] = Empty
    /\ isr' = [isr EXCEPT !.at = "clear"]
    /\ UNCHANGED <<nic, up, rx, hw, stored, lastrx, wrong, txvars>>

(* An error the card reports stops it, and nobody starts it again.         *)
pcnet_stop ==
    /\ nic = "pcnet" /\ isr.at = "loop" /\ hw.ready
    /\ hw' = [hw EXCEPT !.ready = FALSE]
    /\ UNCHANGED <<nic, up, rx, isr, stored, lastrx, wrong, txvars>>

(* ... and clears the request, that of a later frame included.             *)
pcnet_Clear ==
    /\ nic = "pcnet" /\ isr.at = "clear"
    /\ hw' = [hw EXCEPT !.irq = FALSE]
    /\ isr' = [isr EXCEPT !.at = "idle"]
    /\ UNCHANGED <<nic, up, rx, stored, lastrx, wrong, txvars>>

(* sis900_handle_interrupt delivers all it finds, ...                      *)
sis900_Receive ==
    /\ nic = "sis900" /\ isr.at = "loop" /\ rx[isr.cur] # Empty
    /\ Deliver(isr.cur)
    /\ rx' = [rx EXCEPT ![isr.cur] = Empty]
    /\ isr' = [isr EXCEPT !.cur = After(@)]
    /\ UNCHANGED <<nic, up, hw, lastrx, txvars>>

(* ... sends a card that had stopped to the next descriptor and starts it. *)
Restarted == [hw EXCEPT !.idle = FALSE, !.pos = IF isr.idle THEN isr.cur ELSE @]

sis900_Restart ==
    /\ nic = "sis900" /\ isr.at = "loop" /\ rx[isr.cur] = Empty
    /\ hw' = Restarted
    /\ isr' = [isr EXCEPT !.at = "idle", !.idle = FALSE]
    /\ UNCHANGED <<nic, up, rx, stored, lastrx, wrong, txvars>>

----------------------------------------------------------------------------
(* A descriptor is taken for the next frame, ...                           *)
Accept(slot, at, full) ==
    /\ snd' = [at |-> at, cur |-> After(snd.cur), slot |-> slot]
    /\ overrun' = (overrun \/ full)
    /\ lasttx' = IF overrun' THEN 1 ELSE NextOf(lasttx)
    /\ queued' = IF overrun' THEN <<>> ELSE Append(queued, lasttx')

(* ... or the frame is dropped, but the descriptor stays taken.            *)
GiveUp ==
    /\ snd' = [snd EXCEPT !.cur = After(@)]
    /\ overrun' = TRUE /\ lasttx' = 1 /\ queued' = <<>>

(* The frame comes into the buffer of a descriptor.                        *)
Put(slot, f) ==
    /\ overwritten' = (overwritten \/ tx[slot] # Empty)
    /\ tx' = [tx EXCEPT ![slot] = f]

(* e1000_send_packet reads how far the card is; if the descriptor it took  *)
(* was the last one it gives up.                                           *)
e1000_send_packet ==
    /\ nic = "e1000" /\ up = "registered" /\ snd.at = "idle"
    /\ IF After(snd.cur) = txhw.pos THEN GiveUp ELSE Accept(snd.cur, "fill", FALSE)
    /\ UNCHANGED <<nic, up, rxvars, tx, txhw, missent, overwritten>>

(* It copies the frame, sets the descriptor and then the tail.             *)
e1000_Fill ==
    /\ nic = "e1000" /\ snd.at = "fill"
    /\ Put(snd.slot, lasttx)
    /\ snd' = [snd EXCEPT !.at = "tail", !.slot = 0]
    /\ UNCHANGED <<nic, up, rxvars, txhw, queued, lasttx, missent, overrun>>

e1000_SetTail ==
    /\ nic = "e1000" /\ snd.at = "tail"
    /\ txhw' = [txhw EXCEPT !.tail = snd.cur]
    /\ snd' = [snd EXCEPT !.at = "idle"]
    /\ UNCHANGED <<nic, up, rxvars, tx, queued, lasttx, missent, overrun, overwritten>>

(* rtl8168b_send_packet takes the next descriptor too, and drops the frame *)
(* if the card has not finished with it.                                   *)
rtl8168b_send_packet ==
    /\ nic = "rtl8168b" /\ up = "registered" /\ snd.at = "idle"
    /\ IF tx[snd.cur] # Empty THEN GiveUp ELSE Accept(snd.cur, "own", FALSE)
    /\ UNCHANGED <<nic, up, rxvars, tx, txhw, missent, overwritten>>

(* The card may take the descriptor once it is marked.                     *)
rtl8168b_Own ==
    /\ nic = "rtl8168b" /\ snd.at = "own"
    /\ Put(snd.slot, lasttx)
    /\ snd' = [snd EXCEPT !.at = "idle", !.slot = 0]
    /\ UNCHANGED <<nic, up, rxvars, txhw, queued, lasttx, missent, overrun>>

(* pcnet_send_packet does not look whether the descriptor is free.         *)
pcnet_send_packet ==
    /\ nic = "pcnet" /\ up = "registered"
    /\ Accept(0, "idle", tx[snd.cur] # Empty)
    /\ Put(snd.cur, lasttx')
    /\ UNCHANGED <<nic, up, rxvars, txhw, missent>>

(* sis900_send_packet points the card to the descriptor and waits until    *)
(* the frame has been sent.                                                *)
sis900_send_packet ==
    /\ nic = "sis900" /\ up = "registered" /\ snd.at = "idle"
    /\ Accept(snd.cur, "wait", tx[snd.cur] # Empty)
    /\ Put(snd.cur, lasttx')
    /\ txhw' = [txhw EXCEPT !.pos = snd.cur]
    /\ UNCHANGED <<nic, up, rxvars, missent>>

sis900_Sent ==
    /\ nic = "sis900" /\ snd.at = "wait" /\ tx[snd.slot] = Empty
    /\ snd' = [snd EXCEPT !.at = "idle", !.slot = 0]
    /\ UNCHANGED <<nic, up, rxvars, tx, txhw, queued, lasttx, missent, overrun, overwritten>>

(* The card sends the frame where it stands, and gives the descriptor back.*)
Transmit ==
    /\ IF nic = "e1000" THEN txhw.pos # txhw.tail ELSE tx[txhw.pos] # Empty
    /\ missent' = (missent \/ (~overrun /\ (queued = <<>> \/ tx[txhw.pos] # Head(queued))))
    /\ queued' = IF queued = <<>> THEN <<>> ELSE Tail(queued)
    /\ tx' = [tx EXCEPT ![txhw.pos] = Empty]
    /\ txhw' = [txhw EXCEPT !.pos = After(@)]
    /\ UNCHANGED <<nic, up, rxvars, snd, lasttx, overrun, overwritten>>

Next ==
    \/ Start \/ Register
    \/ StoreFrame \/ LoseFrame \/ HandlerStart
    \/ e1000_ReadHead \/ e1000_Receive \/ e1000_WriteTail
    \/ rtl8168b_handle_receive_ok
    \/ pcnet_Receive \/ pcnet_LoopEnd \/ pcnet_stop \/ pcnet_Clear
    \/ sis900_Receive \/ sis900_Restart
    \/ e1000_send_packet \/ e1000_Fill \/ e1000_SetTail
    \/ rtl8168b_send_packet \/ rtl8168b_Own
    \/ pcnet_send_packet \/ sis900_send_packet \/ sis900_Sent
    \/ Transmit

Spec == Init /\ [][Next]_vars

----------------------------------------------------------------------------
(* Every frame the card has stored is delivered once, whole and in order,  *)
(* although the card goes on storing while the handler runs and the ring   *)
(* overflows.                                                              *)
ReceivedInOrder == ~wrong

(* Every frame that was accepted is sent once and in order, until a frame  *)
(* meets a full ring; the sis900, which waits for the card, never does.    *)
SentInOrder == ~missent /\ (overrun => nic # "sis900")

(* A frame that is still to be sent is overwritten only after that, and    *)
(* only by the drivers that do not look at the descriptor: the e1000,      *)
(* whose place is then before that of the card, and the pcnet.             *)
OverwrittenOnlyBy == overwritten => overrun /\ nic \in {"e1000", "pcnet"}

(* The drivers e1000 and sis900 leave no frame lying: an interrupt is      *)
(* pending, or the handler has not looked for the last time.  (The pcnet   *)
(* clears the request after it has looked, and the rtl8168b looks once     *)
(* for several frames: there a frame may wait for the next one.)           *)
NoFrameWaits == nic \in {"e1000", "sis900"} /\ stored # <<>> =>
    \/ hw.irq \/ isr.at = "head" \/ (isr.at = "loop" /\ nic = "sis900")
    \/ isr.at = "loop" /\ isr.cur # isr.head

Correct == ReceivedInOrder /\ NoFrameWaits /\ SentInOrder /\ OverwrittenOnlyBy
=============================================================================
