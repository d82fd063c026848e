-------------------------------- MODULE Vm86 --------------------------------
(* BIOS calls in virtual 8086 mode (kernel/arch/i386/tasking/vm86.c): the    *)
(* kernel copies the low memory, lets a thread run the interrupt's code in   *)
(* the copy, and emulates in the protection fault handler what the processor *)
(* refuses.  Each emulated instruction is compared with what the processor   *)
(* would have done (ref).  Two things the code gets wrong are kept out by    *)
(* the programs that are run: an interrupt returns to the byte behind its    *)
(* opcode, so only one whose number is a harmless opcode works, and a rep    *)
(* prefix is looked for in front of the instruction although the processor   *)
(* reports the prefix as its first byte.  A third, that ins stores 32 bits   *)
(* whatever its width, only shows where the memory behind is not zero; the   *)
(* areas of the runs stay clear of it.  Calm keeps others from allocating  *)
(* between kfree of the copy and its last use.                               *)
EXTENDS Integers, Sequences, SequencesExt

CONSTANTS
  Programs,    \* [code: sequence of bytes, ivt: number -> index, start]
  Areas,       \* [vm, size, in, out, kernel]
  RamEnd, MemEnd,  \* 0xa0000 and 0x100000
  Stack,       \* words of stack segment, the first sp is Stack \div 2
  Calm

VARIABLES
  pc, prog, area,
  caller,      \* the caller's memory for the area
  copy,        \* first_mb_copy below RamEnd, the hardware's memory above
  owned,       \* the copy is still allocated
  cpu,         \* registers, stack and port accesses of the thread
  ref, refmem, \* the same for a processor in real mode
  regs,        \* the registers the caller gets back: <<>> none yet
  errno, wrong

vars == <<pc, prog, area, caller, copy, owned, cpu, ref, refmem, regs, errno, wrong>>

Cells == 0 .. MemEnd - 1
First(a) == IF a < RamEnd THEN 0 ELSE 1  \* what is in the first megabyte
CallerHas == 2
NoArea == [vm |-> 0, size |-> 0, in |-> FALSE, out |-> FALSE, kernel |-> FALSE]
Blank == [a \in Cells |-> First(a)]
Start(p) == [ip |-> p.start, sp |-> Stack \div 2, ax |-> 0, di |-> 0, si |-> 0, cx |-> 2,
             carry |-> FALSE, stack |-> [k \in 0 .. Stack - 1 |-> 0], io |-> <<>>]
AnyProg == CHOOSE p \in Programs : TRUE

Init ==
  /\ pc = "idle" /\ prog = AnyProg /\ area = NoArea
  /\ caller = [a \in Cells |-> CallerHas] /\ copy = Blank /\ owned = FALSE
  /\ cpu = Start(AnyProg) /\ ref = Start(AnyProg) /\ refmem = Blank
  /\ regs = <<>> /\ errno = "" /\ wrong = FALSE

------------------------------------------------------------------------------
(* The areas are checked before anything else happens.                       *)
BadArea(m) ==
  \/ m.in /\ (m.vm >= RamEnd \/ m.vm + m.size > RamEnd \/ m.size > RamEnd \/ m.kernel)
  \/ m.out /\ (m.vm >= MemEnd \/ m.vm + m.size > MemEnd \/ m.size > MemEnd \/ m.kernel)

In(m, a) == a >= m.vm /\ a < m.vm + m.size

vm86_interrupt == \E m \in Areas, p \in Programs, badIntr \in BOOLEAN :
  /\ pc = "idle"
  /\ IF badIntr \/ BadArea(m)
     THEN /\ errno' = IF badIntr THEN "EINVAL" ELSE "EFAULT"
          /\ UNCHANGED <<pc, prog, area, copy, owned, cpu, ref, refmem, regs>>
     ELSE LET mem == [a \in Cells |-> IF m.in /\ In(m, a) THEN CallerHas ELSE First(a)] IN
          /\ copy' = mem /\ refmem' = mem /\ owned' = TRUE
          /\ cpu' = Start(p) /\ ref' = Start(p)
          /\ pc' = "runs" /\ prog' = p /\ area' = m /\ regs' = <<>> /\ errno' = ""
  /\ caller' = [a \in Cells |-> CallerHas]
  /\ UNCHANGED wrong

------------------------------------------------------------------------------
(* The emulator.  A byte is a string, a number behind one that needs it.     *)
Byte(k) == prog.code[k]
Io(dir, width, how) == [dir |-> dir, width |-> width, how |-> how]
Ops ==
  [insb |-> Io("in", 1, "str"), insw |-> Io("in", 2, "str"),
   outsb |-> Io("out", 1, "str"), outsw |-> Io("out", 2, "str"),
   in8i |-> Io("in", 1, "imm"), in16i |-> Io("in", 2, "imm"),
   out8i |-> Io("out", 1, "imm"), out16i |-> Io("out", 2, "imm"),
   in8d |-> Io("in", 1, "dx"), in16d |-> Io("in", 2, "dx"),
   out8d |-> Io("out", 1, "dx"), out16d |-> Io("out", 2, "dx")]

FromPort == 3                  \* what every port delivers
Log(s, op) == [s EXCEPT !.io = Append(@, <<op.dir, op.width, op.how>>)]

(* insX stores 32 bits whatever its width, the upper ones zero.              *)
Stored(mem, at, width) ==
  [a \in Cells |-> IF (a - at) \in 0 .. 3
                   THEN (IF a - at < width THEN FromPort ELSE 0) ELSE mem[a]]

(* Faulty: the operand of in and out is not passed over.                     *)
OperandNever(op) == 0

(* The byte behind in and out with a number: the code's code_add(1).         *)
Operand(op) == IF op.how = "imm" THEN 1 ELSE 0

(* One in or out of the emulator: the machine and its memory afterwards.     *)
EmulIo(s, mem, op, extra) ==
  LET t == [Log(s, op) EXCEPT !.ip = s.ip + 1 + extra + Operand(op)] IN
  IF op.how # "str"
  THEN <<IF op.dir = "in" THEN [t EXCEPT !.ax = FromPort] ELSE t, mem>>
  ELSE IF op.dir = "in"
  THEN <<[t EXCEPT !.di = (s.di + op.width) % MemEnd], Stored(mem, s.di, op.width)>>
  ELSE <<[t EXCEPT !.si = (s.si + op.width) % MemEnd], mem>>

Push(s, k) == (s.sp + Stack - k) % Stack
Pop(s, k) == (s.sp + k) % Stack

Emulate(s, mem) ==
  LET b == Byte(s.ip)
      next == [s EXCEPT !.ip = s.ip + 1] IN
  CASE b \in DOMAIN Ops -> EmulIo(s, mem, Ops[b], 0)
    [] b = "66" -> EmulIo(s, mem, [Ops[Byte(s.ip + 1)] EXCEPT !.width = 4], 1)
    [] b = "pushf" -> <<[next EXCEPT !.sp = Push(s, 1), !.stack[Push(s, 1)] = s.carry], mem>>
    [] b = "popf" -> <<[next EXCEPT !.carry = s.stack[s.sp], !.sp = Pop(s, 1)], mem>>
    [] b = "int" -> <<[s EXCEPT !.sp = Push(s, 2), !.ip = prog.ivt[Byte(s.ip + 1)],
                       !.stack = [@ EXCEPT ![Push(s, 1)] = s.carry, ![Push(s, 2)] = s.ip]], mem>>
    [] b = "iret" -> <<[s EXCEPT !.ip = s.stack[s.sp] + 1, !.sp = Pop(s, 2),
                        !.carry = s.stack[Pop(s, 1)]], mem>>
    [] OTHER -> <<next, mem>>      \* cli, sti

(* What the handler can do; everything else it leaves to the fault.          *)
Emulated(k) ==
  \/ Byte(k) \in DOMAIN Ops \union {"pushf", "popf", "int", "iret", "cli", "sti"}
  \/ Byte(k) = "66" /\ Byte(k + 1) \in DOMAIN Ops /\ Ops[Byte(k + 1)].width = 2

(* The processor: the length of an instruction and its effect.               *)
RefIo(s, mem, op, length) ==
  <<[Log(s, op) EXCEPT !.ip = s.ip + length,
       !.ax = IF op.dir = "in" /\ op.how # "str" THEN FromPort ELSE @,
       !.di = IF op.dir = "in" /\ op.how = "str" THEN (@ + op.width) % MemEnd ELSE @,
       !.si = IF op.dir = "out" /\ op.how = "str" THEN (@ + op.width) % MemEnd ELSE @],
    [a \in Cells |-> IF op.dir = "in" /\ op.how = "str" /\ a \in s.di .. s.di + op.width - 1
                     THEN FromPort ELSE mem[a]]>>

RefLength(k) ==
  LET prefix == IF Byte(k) = "66" THEN 1 ELSE 0
      b == Byte(k + prefix) IN
  prefix + (IF b \in {"int", "in8i", "in16i", "out8i", "out16i"} THEN 2 ELSE 1)

Native(s, mem) ==
  <<[s EXCEPT !.ip = s.ip + 1,
       !.carry = (Byte(s.ip) = "stc") \/ (@ /\ Byte(s.ip) # "clc")], mem>>

Execute(s, mem) ==
  LET b == Byte(s.ip)
      next == [s EXCEPT !.ip = s.ip + RefLength(s.ip)] IN
  CASE b \in DOMAIN Ops -> RefIo(s, mem, Ops[b], RefLength(s.ip))
    [] b = "66" -> RefIo(s, mem, [Ops[Byte(s.ip + 1)] EXCEPT !.width = 4], RefLength(s.ip))
    [] b = "pushf" -> <<[next EXCEPT !.sp = Push(s, 1), !.stack[Push(s, 1)] = s.carry], mem>>
    [] b = "popf" -> <<[next EXCEPT !.carry = s.stack[s.sp], !.sp = Pop(s, 1)], mem>>
    [] b = "int" -> <<[s EXCEPT !.sp = Push(s, 2), !.ip = prog.ivt[Byte(s.ip + 1)],
                       !.stack = [@ EXCEPT ![Push(s, 1)] = s.carry, ![Push(s, 2)] = next.ip]], mem>>
    [] b = "iret" -> <<[s EXCEPT !.ip = s.stack[s.sp], !.sp = Pop(s, 2),
                        !.carry = s.stack[Pop(s, 1)]], mem>>
    [] OTHER -> <<next, mem>>

(* The instruction behind an interrupt is one byte further than the code     *)
(* returns: a processor that runs the harmless byte catches up.              *)
NativeOps == {"nop", "stc", "clc"}
Behind == cpu.ip # ref.ip /\ cpu.ip + 1 = ref.ip /\ Byte(cpu.ip) = "nop"

------------------------------------------------------------------------------
FinalIret(s) == Byte(s.ip) = "iret" /\ s.sp = Stack \div 2

handle_vm86_gpf ==
  /\ pc = "runs" /\ Byte(cpu.ip) \notin NativeOps /\ Emulated(cpu.ip) /\ ~FinalIret(cpu)
  /\ LET e == Emulate(cpu, copy)
         r == Execute(ref, refmem) IN
     cpu' = e[1] /\ copy' = e[2] /\ ref' = r[1] /\ refmem' = r[2]
  /\ UNCHANGED <<pc, prog, area, caller, owned, regs, errno, wrong>>

RunNative ==
  /\ pc = "runs" /\ Byte(cpu.ip) \in NativeOps
  /\ cpu' = Native(cpu, copy)[1]
  /\ ref' = IF Behind THEN ref ELSE Native(ref, refmem)[1]
  /\ UNCHANGED <<pc, prog, area, caller, copy, owned, refmem, regs, errno, wrong>>

(* The last iret hands the registers over; any other fault kills the thread. *)
LastIret ==
  /\ pc = "runs" /\ Byte(cpu.ip) \notin NativeOps /\ FinalIret(cpu)
  /\ regs' = <<cpu.ax, cpu.di, cpu.si, cpu.cx>>
  /\ pc' = "waited"
  /\ UNCHANGED <<prog, area, caller, copy, owned, cpu, ref, refmem, errno, wrong>>

Killed ==
  /\ pc = "runs" /\ Byte(cpu.ip) \notin NativeOps /\ ~Emulated(cpu.ip)
  /\ pc' = "waited"
  /\ UNCHANGED <<prog, area, caller, copy, owned, cpu, ref, refmem, regs, errno, wrong>>

(* raw_waitpid has returned: kfree.                                          *)
Free ==
  /\ pc = "waited"
  /\ owned' = FALSE /\ pc' = "freed"
  /\ UNCHANGED <<prog, area, caller, copy, cpu, ref, refmem, regs, errno, wrong>>

(* Another process gets the frames and uses them.                            *)
OtherAllocates ==
  /\ ~owned
  /\ Calm => pc # "freed"
  /\ copy' = [a \in Cells |-> IF a < RamEnd THEN 0 ELSE copy[a]]
  /\ UNCHANGED <<pc, prog, area, caller, owned, cpu, ref, refmem, regs, errno, wrong>>

CopyOut ==
  /\ pc = "freed"
  /\ LET got == [a \in Cells |-> IF area.out /\ In(area, a) THEN copy[a] ELSE caller[a]]
         due == [a \in Cells |-> IF area.out /\ In(area, a) THEN refmem[a] ELSE caller[a]] IN
     caller' = got /\ wrong' = (wrong \/ got # due)
  /\ pc' = "idle"
  /\ prog' = AnyProg /\ area' = NoArea /\ cpu' = Start(AnyProg) /\ ref' = Start(AnyProg)
  /\ UNCHANGED <<copy, owned, refmem, regs, errno>>

Next ==
  \/ vm86_interrupt \/ handle_vm86_gpf \/ RunNative \/ LastIret \/ Killed
  \/ Free \/ OtherAllocates \/ CopyOut

------------------------------------------------------------------------------
(* The thread does what a processor in real mode would do, instruction by    *)
(* instruction, up to the return address of an interrupt: registers, flags,  *)
(* stack depth, memory and the order of port accesses.  The caller gets the  *)
(* memory and, unless the thread was killed, the registers of that run.      *)
Vm86Correct ==
  /\ ~wrong
  /\ pc \in {"runs", "waited"} =>
       /\ [cpu EXCEPT !.ip = 0, !.stack = 0] = [ref EXCEPT !.ip = 0, !.stack = 0]
       /\ cpu.ip = ref.ip \/ Behind
       /\ copy = refmem
  /\ pc = "waited" /\ regs # <<>> => regs = <<ref.ax, ref.di, ref.si, ref.cx>>
==============================================================================
