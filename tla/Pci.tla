--------------------------------- MODULE Pci --------------------------------
(* The PCI server (progs/platform/pc/pci/pci.c), which finds the functions   *)
(* on the buses and makes their configuration registers files, and the       *)
(* drivers that walk these files to find their devices and the sizes of      *)
(* their resources (lib/common/cdi/pci.c).  A register is reached by writing *)
(* its address and then accessing its data, with nothing that keeps two      *)
(* threads of the server apart; and a driver learns the size of a resource   *)
(* by writing ones to its register, in which another driver may read them as *)
(* its address.  Left out by the constant Serial: a driver that starts       *)
(* before the one before it has its devices.                                 *)
EXTENDS Integers, Sequences, SequencesExt, FiniteSets

CONSTANTS
  Topology,   \* <<bus, dev, fnc>> -> [kind, secondary, multi, bars]
  Buses, MaxDev, MaxFnc,
  Drivers,
  Serial

VARIABLES
  found,      \* functions that the server has a file for
  address,    \* the address register: <<function, register>>
  config,     \* function -> register -> its contents
  drv,        \* per driver: where it is in its walk
  res         \* per driver: the resources it has recorded

vars == <<found, address, config, drv, res>>

Functions == {f \in DOMAIN Topology : Topology[f].kind = "device"}
Regs(f)   == DOMAIN Topology[f].bars
NoAddress == <<>>
Unknown   == {<<>>}
Ones      == -1

Idle == [pc |-> "idle", data |-> FALSE, todo |-> {}, f |-> NoAddress, bar |-> 1, k |-> 1,
         conf |-> <<>>, size |-> 0]

Init ==
  /\ found = Unknown
  /\ address = NoAddress
  /\ config = [f \in Functions |-> [r \in Regs(f) |-> Topology[f].bars[r].base]]
  /\ drv = [d \in Drivers |-> Idle]
  /\ res = [d \in Drivers |-> {}]

------------------------------------------------------------------------------
(* The server: enumerate_bus *)

Present(b, d, f) == <<b, d, f>> \in DOMAIN Topology

(* Faulty: the search of a device ends at the first gap.                     *)
LookedAtNoGap(b, d, f) ==
  /\ Present(b, d, 0)
  /\ f > 0 => Topology[<<b, d, 0>>].multi
  /\ \A g \in 0 .. f : Present(b, d, g)

(* A function is looked at unless the first one of the device is missing or  *)
(* has only itself.                                                          *)
LookedAt(b, d, f) ==
  /\ Present(b, d, f) /\ Present(b, d, 0)
  /\ f > 0 => Topology[<<b, d, 0>>].multi

OnBus(b) == {p \in {b} \X (0 .. MaxDev) \X (0 .. MaxFnc) : LookedAt(p[1], p[2], p[3])}

(* The devices on a bus and on the buses behind its bridges. *)
enumerate_bus(bus) ==
  LET behind[n \in 0 .. Cardinality(Buses), b \in Buses] ==
        LET on == OnBus(b)
        IN  {p \in on : Topology[p].kind = "device"}
            \cup (IF n = 0 THEN {}
                  ELSE UNION {behind[n - 1, Topology[p].secondary] :
                                p \in {q \in on : Topology[q].kind = "bridge"}})
  IN  behind[Cardinality(Buses), bus]

Enumerate ==
  /\ found = Unknown
  /\ found' = enumerate_bus(0)
  /\ UNCHANGED <<address, config, drv, res>>

------------------------------------------------------------------------------
(* A driver *)

Set(d, r) == drv' = [drv EXCEPT ![d] = r]
Go(d, pc) == Set(d, [drv[d] EXCEPT !.pc = pc, !.k = 1, !.data = FALSE])

(* cdi_osdep_pci_collect: the listings of the buses, devices and functions.  *)
Collect(d) ==
  /\ found # Unknown
  /\ drv[d].pc = "idle"
  /\ Serial => \A e \in Drivers : drv[e].pc \in {"idle", "done"}
  /\ Set(d, [Idle EXCEPT !.pc = "next", !.todo = found])
  /\ UNCHANGED <<found, address, config, res>>

(* enum_something: the file of the next function. *)
NextFunction(d) ==
  /\ drv[d].pc = "next"
  /\ IF drv[d].todo = {} THEN Set(d, [Idle EXCEPT !.pc = "done"])
     ELSE \E f \in drv[d].todo :
            Set(d, [Idle EXCEPT !.pc = "conf", !.f = f, !.todo = drv[d].todo \ {f}])
  /\ UNCHANGED <<found, address, config, res>>

(* The registers of the resource at a base address register: two when it is  *)
(* 64 bits wide.                                                             *)
Pair(f, bar) == IF Topology[f].bars[bar].kind = "mem64" THEN <<bar, bar + 1>> ELSE <<bar>>

(* What a register contains: after ones were written, its size. *)
ValueOf(f, r) ==
  IF config[f][r] # Ones THEN config[f][r]
  ELSE IF Topology[f].bars[r].kind = "high" THEN -1 ELSE -Topology[f].bars[r].size

(* pci_in, pci_out: the first of the two accesses is the same. *)
Address(d, r) ==
  /\ ~drv[d].data
  /\ address' = <<drv[d].f, r>>
  /\ Set(d, [drv[d] EXCEPT !.data = TRUE])
  /\ UNCHANGED <<found, config, res>>

Read == ValueOf(address[1], address[2])
Write(v) == config' = [config EXCEPT ![address[1]][address[2]] = v]

(* enum_something reads the registers of a function. *)
ReadConf(d) ==
  LET s == drv[d]
  IN  /\ s.pc = "conf"
      /\ \/ Address(d, Len(s.conf) + 1)
         \/ /\ s.data
            /\ LET conf == Append(s.conf, Read)
               IN  Set(d, [s EXCEPT !.conf = conf, !.data = FALSE,
                                    !.pc = IF Len(conf) = Len(Topology[s.f].bars) THEN "bar" ELSE @])
            /\ UNCHANGED <<found, address, config, res>>

(* serve_device: the next base address register that is in use. *)
NextBar(d) ==
  LET s == drv[d]
  IN  /\ s.pc = "bar"
      /\ IF s.bar > Len(s.conf) THEN Set(d, [Idle EXCEPT !.pc = "next", !.todo = s.todo])
         ELSE IF s.conf[s.bar] = 0 THEN Set(d, [s EXCEPT !.bar = @ + 1])
         ELSE Go(d, "mask")
      /\ UNCHANGED <<found, address, config, res>>

(* One access to the registers of a resource: to register k of the pair. *)
Access(d, pc, then, act) ==
  LET s    == drv[d]
      regs == Pair(s.f, s.bar)
  IN  /\ s.pc = pc
      /\ \/ Address(d, regs[s.k])
         \/ /\ s.data /\ act
            /\ IF s.k < Len(regs) THEN Set(d, [s EXCEPT !.k = @ + 1, !.data = FALSE])
               ELSE Go(d, then)
            /\ UNCHANGED <<found, address, res>>

(* Ones are written to the resource's registers... *)
WriteMask(d) == Access(d, "mask", "size", Write(Ones))

(* ... its size is read ... *)
ReadSize(d) ==
  LET s    == drv[d]
      regs == Pair(s.f, s.bar)
  IN  /\ s.pc = "size"
      /\ \/ Address(d, regs[s.k])
         \/ /\ s.data
            /\ LET t == [s EXCEPT !.size = IF s.k = 1 THEN -Read ELSE @, !.data = FALSE]
               IN  Set(d, IF s.k < Len(regs) THEN [t EXCEPT !.k = @ + 1]
                          ELSE [t EXCEPT !.pc = "restore", !.k = 1])
            /\ UNCHANGED <<found, address, config, res>>

(* ... and its address is written back, as it was read before. *)
Restore(d) ==
  Access(d, "restore", "record", Write(drv[d].conf[Pair(drv[d].f, drv[d].bar)[drv[d].k]]))

Record(d) ==
  LET s == drv[d]
  IN  /\ s.pc = "record"
      /\ res' = [res EXCEPT ![d] = @ \cup {[f |-> s.f, bar |-> s.bar, start |-> s.conf[s.bar],
                                            length |-> s.size]}]
      /\ Set(d, [s EXCEPT !.pc = "bar", !.k = 1, !.size = 0,
                          !.bar = @ + Len(Pair(s.f, s.bar))])
      /\ UNCHANGED <<found, address, config>>

Next ==
  \/ Enumerate
  \/ \E d \in Drivers :
       \/ Collect(d) \/ NextFunction(d) \/ ReadConf(d) \/ NextBar(d)
       \/ WriteMask(d) \/ ReadSize(d) \/ Restore(d) \/ Record(d)

Spec == Init /\ [][Next]_vars

------------------------------------------------------------------------------
(* Resources that a function really has. *)
Resources(f) ==
  {[f |-> f, bar |-> r, start |-> Topology[f].bars[r].base, length |-> Topology[f].bars[r].size] :
     r \in {i \in Regs(f) : Topology[f].bars[i].kind \in {"io", "mem", "mem64"}}}

(* Every device on every bus is found; a driver that is through knows the    *)
(* place and the size of all their resources, and no driver leaves a device  *)
(* at another address than it had (enumerate_bus, serve_device).             *)
PciCorrect ==
  /\ found # Unknown => found = Functions
  /\ \A d \in Drivers :
       drv[d].pc = "done" => res[d] = UNION {Resources(f) : f \in Functions}
  /\ (\A d \in Drivers : drv[d].pc \in {"idle", "done"}) =>
       \A f \in Functions : \A r \in Regs(f) : config[f][r] = Topology[f].bars[r].base
==============================================================================
