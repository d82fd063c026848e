-------------------------------- MODULE Ata ---------------------------------
(* The ATA driver (progs/common/ata): ata_drv_rw_sectors cuts a request into *)
(* commands, ata_request carries out one command over PIO (polling) or over  *)
(* DMA (waiting for the interrupt), and a command that fails is tried again. *)
(* The drive and its bus master are external: they answer when they like,    *)
(* refuse commands and raise late interrupts.  One request is in the driver  *)
(* at a time: the code has no lock for the controller.  A DMA transfer that  *)
(* the drive reports as failed (the driver does not look) is left out.       *)
EXTENDS Integers, Sequences, FiniteSets, FiniteSetsExt, SequencesExt

CONSTANTS
  Sectors,     \* number of sectors
  PioMax,      \* sectors of a PIO command; the count register is modulo this
  DmaMax,      \* sectors of a DMA command; the length of the table likewise
  Counts,      \* lengths of requests
  Again,       \* how often a command is tried again: 2 in the code
  MaxFaults    \* bound on refused commands and timeouts

VARIABLES
  bus,         \* what is on the bus: drive -> "absent", "chs", "pio" or "dma"
  known,       \* drives that are registered, with the protocol they get
  pc,          \* where the driver is
  req,         \* the request and the command that is carried out
  disk,        \* sector -> the version of its contents
  dev,         \* the drive: [st, cmd, lba, left]
  bm,          \* the bus master: [on, len, buf], one buffer of the controller
  irq,         \* the interrupt: "no", "coming" or "seen" (irqs_occured)
  faults,      \* faults so far
  wrong        \* a request succeeded with the wrong data

vars == <<bus, known, pc, req, disk, dev, bm, irq, faults, wrong>>

Versions == {0, 1}
Content(s, v) == 10 * s + v
NoReq == [dir |-> "read", dma |-> FALSE, start |-> 0, count |-> 0, v |-> 0,
          lba |-> 0, left |-> 0, cur |-> 0, done |-> 0, again |-> 0, buf |-> <<>>]
Idle  == [st |-> "idle", cmd |-> "none", lba |-> 0, left |-> 0]

Init ==
  /\ bus \in [{0, 1} -> {"absent", "chs", "pio", "dma"}]
  /\ known = {}
  /\ pc = "off"
  /\ req = NoReq
  /\ disk = [s \in 0 .. Sectors - 1 |-> Content(s, 0)]
  /\ dev = Idle
  /\ bm = [on |-> FALSE, len |-> 0, buf |-> <<>>]
  /\ irq = "no"
  /\ faults = 0
  /\ wrong = FALSE

Min2(a, b) == IF a < b THEN a ELSE b
Fault == faults < MaxFaults /\ faults' = faults + 1

------------------------------------------------------------------------------
(* Finding the drives *)

(* ata_bus_floating: nobody drives the bus; ata_bus_responsive_drv: some     *)
(* drive keeps what is written to its registers.                             *)
Floating   == \A d \in {0, 1} : bus[d] = "absent"
Responsive == \E d \in {0, 1} : bus[d] # "absent"

(* ata_drv_identify: a drive that answers and has a mode with linear         *)
(* addresses.                                                                *)
Identified(d) == bus[d] \in {"pio", "dma"}

(* ata_init_controller: a drive gets DMA when it and the controller have it. *)
InitController(busmaster) ==
  /\ pc = "off"
  /\ known' = IF Floating \/ ~Responsive THEN {}
              ELSE {[drive |-> d, dma |-> busmaster /\ bus[d] = "dma"] :
                     d \in {e \in {0, 1} : Identified(e)}}
  /\ pc' = "free"
  /\ UNCHANGED <<bus, req, disk, dev, bm, irq, faults, wrong>>

------------------------------------------------------------------------------
(* ata_drv_rw_sectors *)

(* What the caller's buffer holds for the sectors of a write. *)
Given(r, from, n) == [k \in 1 .. n |-> Content(from + k - 1, r.v)]

Start(dir, dma, start, count, v) ==
  /\ pc = "free"
  /\ \E k \in known : k.dma = dma
  /\ start + count <= Sectors
  /\ req' = [NoReq EXCEPT !.dir = dir, !.dma = dma, !.start = start,
                          !.count = count, !.v = v, !.lba = start,
                          !.left = count, !.again = Again]
  /\ pc' = "loop"
  /\ UNCHANGED <<bus, known, disk, dev, bm, irq, faults, wrong>>

(* The size of the next command. *)
Current(r) == Min2(r.left, IF r.dma THEN DmaMax ELSE PioMax)

Loop ==
  /\ pc = "loop" /\ req.left > 0
  /\ req' = [req EXCEPT !.cur = Current(req), !.done = 0,
                        !.buf = IF req.dir = "read"
                                THEN SubSeq(@, 1, req.count - req.left) ELSE @]
  /\ pc' = IF req.dma THEN "dma_init" ELSE "command"
  /\ UNCHANGED <<bus, known, disk, dev, bm, irq, faults, wrong>>

(* Everything is transferred: the request has succeeded. *)
Return ==
  /\ pc = "loop" /\ req.left = 0
  /\ wrong' = \/ wrong
              \/ LET want == [k \in 1 .. req.count |-> disk[req.start + k - 1]]
                 IN  IF req.dir = "read" THEN req.buf # want
                     ELSE Given(req, req.start, req.count) # want
  /\ pc' = "free" /\ req' = NoReq
  /\ UNCHANGED <<bus, known, disk, dev, bm, irq, faults>>

(* A command has succeeded: buffer, rest and address move on. *)
Advanced(r, got) ==
  [r EXCEPT !.buf = @ \o got, !.left = @ - r.cur, !.lba = @ + r.cur,
            !.again = Again]

(* A command has failed: tried again, in the end the request fails. *)
Failed ==
  /\ pc' = IF req.again > 0 THEN "loop" ELSE "free"
  /\ req' = IF req.again > 0 THEN [req EXCEPT !.again = @ - 1] ELSE NoReq

------------------------------------------------------------------------------
(* ata_request *)

(* ata_request_dma_init: stops the bus master, sets the length (0 is the     *)
(* whole buffer) and copies what is to be written.                           *)
DmaInit ==
  /\ pc = "dma_init"
  /\ bm' = [on |-> FALSE, len |-> req.cur % DmaMax,
            buf |-> IF req.dir = "write" THEN Given(req, req.lba, req.cur) ELSE bm.buf]
  /\ pc' = "command"
  /\ UNCHANGED <<bus, known, req, disk, dev, irq, faults, wrong>>

(* ata_request_command: forgets an interrupt, then waits for the drive.      *)
Command ==
  /\ pc = "command"
  /\ irq' = IF irq = "seen" THEN "no" ELSE irq
  /\ pc' = "ready"
  /\ UNCHANGED <<bus, known, req, disk, dev, bm, faults, wrong>>

(* ata_request: the protocol that follows the command. *)
Protocol(r) == IF r.dma THEN "irq" ELSE "check"

CountRegister(n) == n % PioMax

(* The registers and the command, once the drive is not busy; the DMA        *)
(* protocol starts the bus master behind it.                                 *)
Issue ==
  /\ pc = "ready" /\ dev.st # "busy"
  /\ dev' = [st |-> "busy", cmd |-> req.dir, lba |-> req.lba,
             left |-> IF CountRegister(req.cur) = 0 THEN PioMax ELSE CountRegister(req.cur)]
  /\ bm' = IF req.dma THEN [bm EXCEPT !.on = TRUE] ELSE bm
  /\ pc' = Protocol(req)
  /\ UNCHANGED <<bus, known, req, disk, irq, faults, wrong>>

(* ATA_READY_TIMEOUT *)
ReadyTimeout ==
  /\ pc = "ready" /\ dev.st = "busy" /\ Fault
  /\ Failed
  /\ UNCHANGED <<bus, known, disk, dev, bm, irq, wrong>>

(* ata_protocol_pio_in and ata_protocol_pio_out: CHECK_STATUS.               *)
CheckPio ==
  /\ pc = "check" /\ ~req.dma
  /\ IF req.dir = "write" /\ req.done = req.cur
     THEN /\ req' = Advanced(req, <<>>) /\ pc' = "loop"
     ELSE IF dev.st = "busy" THEN UNCHANGED <<pc, req>>
     ELSE IF dev.st = "drq" THEN pc' = "transfer" /\ UNCHANGED req
     ELSE Failed
  /\ UNCHANGED <<bus, known, disk, dev, bm, irq, faults, wrong>>

(* TRANSFER_DATA: one sector through the data register; a read whose sectors *)
(* have all come is over, the rest checks the status again.                  *)
Transfer ==
  /\ pc = "transfer"
  /\ LET s == dev.lba
         r == [req EXCEPT !.done = @ + 1]
     IN  /\ dev' = IF dev.left = 1 THEN Idle
                   ELSE [dev EXCEPT !.lba = @ + 1, !.left = @ - 1, !.st = "busy"]
         /\ IF req.dir = "read"
            THEN /\ UNCHANGED disk
                 /\ IF r.done >= r.cur
                    THEN /\ req' = Advanced([r EXCEPT !.buf = Append(@, disk[s])], <<>>)
                         /\ pc' = "loop"
                    ELSE /\ req' = [r EXCEPT !.buf = Append(@, disk[s])]
                         /\ pc' = "check"
            ELSE /\ disk' = [disk EXCEPT ![s] = Content(req.lba + req.done, req.v)]
                 /\ req' = r /\ pc' = "check"
  /\ UNCHANGED <<bus, known, bm, irq, faults, wrong>>

(* ata_protocol_dma: IRQ_WAIT, then CHECK_STATUS until the drive is done.    *)
IrqSeen ==
  /\ pc = "irq" /\ irq = "seen"
  /\ pc' = "check"
  /\ UNCHANGED <<bus, known, req, disk, dev, bm, irq, faults, wrong>>

(* ATA_IRQ_TIMEOUT *)
IrqTimeout ==
  /\ pc = "irq" /\ irq # "seen" /\ Fault
  /\ Failed
  /\ UNCHANGED <<bus, known, disk, dev, bm, irq, wrong>>

CheckDma ==
  /\ pc = "check" /\ req.dma
  /\ dev.st = "idle"
  /\ req' = Advanced(req, IF req.dir = "read" THEN SubSeq(bm.buf, 1, req.cur) ELSE <<>>)
  /\ bm' = [bm EXCEPT !.on = FALSE]
  /\ pc' = "loop"
  /\ UNCHANGED <<bus, known, disk, dev, irq, faults, wrong>>

------------------------------------------------------------------------------
(* The drive (external) *)

(* A PIO command is ready for its next sector, or is refused. *)
DevReady ==
  /\ dev.st = "busy" /\ ~bm.on
  /\ dev' = [dev EXCEPT !.st = "drq"]
  /\ ~req.dma
  /\ UNCHANGED <<bus, known, pc, req, disk, bm, irq, faults, wrong>>

DevRefuses ==
  /\ dev.st = "busy" /\ ~req.dma /\ Fault
  /\ dev' = Idle
  /\ UNCHANGED <<bus, known, pc, req, disk, bm, irq, wrong>>

(* A DMA command transfers all its sectors and raises the interrupt; one     *)
(* whose bus master has been stopped ends without a transfer.                *)
DevDma ==
  /\ dev.st = "busy" /\ req.dma
  /\ LET len == Min2(dev.left, IF bm.len = 0 THEN DmaMax ELSE bm.len)
     IN  IF ~bm.on THEN UNCHANGED <<disk, bm>>
         ELSE IF dev.cmd = "read"
         THEN /\ bm' = [bm EXCEPT !.buf = [k \in 1 .. len |-> disk[dev.lba + k - 1]]]
              /\ UNCHANGED disk
         ELSE /\ disk' = [s \in DOMAIN disk |->
                           IF s \in dev.lba .. dev.lba + len - 1
                           THEN bm.buf[s - dev.lba + 1] ELSE disk[s]]
              /\ UNCHANGED bm
  /\ dev' = Idle
  /\ irq' = "coming"
  /\ UNCHANGED <<bus, known, pc, req, faults, wrong>>

(* cdi_irq_handler notes the interrupt. *)
IrqArrives ==
  /\ irq = "coming"
  /\ irq' = "seen"
  /\ UNCHANGED <<bus, known, pc, req, disk, dev, bm, faults, wrong>>

Next ==
  \/ \E busmaster \in BOOLEAN : InitController(busmaster)
  \/ \E dir \in {"read", "write"}, dma \in BOOLEAN, start \in 0 .. Sectors - 1,
        count \in Counts, v \in Versions : Start(dir, dma, start, count, v)
  \/ Loop \/ Return \/ DmaInit \/ Command \/ Issue \/ ReadyTimeout
  \/ CheckPio \/ Transfer \/ IrqSeen \/ IrqTimeout \/ CheckDma
  \/ DevReady \/ DevRefuses \/ DevDma \/ IrqArrives

Spec == Init /\ [][Next]_vars

------------------------------------------------------------------------------
(* A read or write that ata_drv_rw_sectors reports as done has moved exactly *)
(* the sectors it was asked for, whatever was refused, timed out and tried   *)
(* again on the way, no sector holds another one's contents, and only drives *)
(* that were identified are used (progs/common/ata, ata.c, request.c,        *)
(* device.c).                                                                *)
AtaCorrect ==
  /\ ~wrong
  /\ \A s \in DOMAIN disk : disk[s] \in {Content(s, v) : v \in Versions}
  /\ \A k \in known : Identified(k.drive) /\ (k.dma => bus[k.drive] = "dma")
==============================================================================
