-------------------------------- MODULE Irq --------------------------------
(***************************************************************************)
(* Interrupts served by user processes: common_irq_handler and             *)
(* register_user_isr (src/kernel/common/intr/isrs.c), the PIC and          *)
(* irq_settled (src/kernel/arch/i386/intr/int.c), the ways a handling      *)
(* process goes back to sleep (daemonize_process,                          *)
(* daemonize_from_irq_handler, destroy_process in                          *)
(* src/kernel/common/tasking/management.c) and the reaper thread that      *)
(* re-enables the line (src/kernel/common/tasking/idle.c).                 *)
(*                                                                         *)
(* One CPU.  The timer preempts user code only (timer.c), so kernel code   *)
(* of the current process runs on until it yields; but a system call       *)
(* enters through a trap gate with interrupts on, so a device interrupt    *)
(* may come between any two of its steps.  The interrupt path itself runs  *)
(* with interrupts off and is one step.                                    *)
(***************************************************************************)
EXTENDS Integers, Sequences, FiniteSets, TLC

CONSTANTS
    Procs,     \* the processes that register an interrupt handler
    Irqs,
    Irq,       \* [Procs -> Irqs]: the line each of them registers for
    Pic,       \* [Irqs -> {0, 1}]: master or slave, irq >> 3
    Exiting,   \* processes that may call exit
    Reaper     \* the kernel thread, not in Procs

ASSUME IrqAssumption ==
    /\ IsFiniteSet(Procs) /\ Reaper \notin Procs
    /\ Irq \in [Procs -> Irqs]
    /\ Pic \in [Irqs -> {0, 1}]
    /\ Exiting \subseteq Procs

VARIABLES
    cur,           \* current_process
    pc,            \* per process: where it is, or where its saved state resumes
    status, handled_irq, handling_irq, fresh_irq, settle_count,
    daemons,       \* the list, newest first, as following next from its head
    unsettled_procs,
    disabled_status,   \* the set of lines whose bit is set in the static array
    mask,          \* the lines masked in the PICs
    reg,           \* enable_irq's value between its load, its store and its out
    rp,            \* the part of daemons the reaper's pass has yet to visit
    raced,         \* has a line fired while enable_irq changed the mask of its PIC?
    overtaken      \* processes woken while they were about to yield

procVars == <<status, handled_irq, handling_irq, fresh_irq, settle_count>>
picVars  == <<unsettled_procs, disabled_status, mask, reg>>
past     == <<raced, overtaken>>
vars     == <<cur, pc, procVars, daemons, picVars, rp, past>>

Actors == Procs \cup {Reaper}

(***************************************************************************)
(* Labels of a process.  User code: "setup", "main" (registered, not yet a *)
(* daemon), "handler".  daemonize_process: "d_list", "d_status".           *)
(* daemonize_from_irq_handler: "x_flag", "x_count", "x_status".            *)
(* destroy_process: "s_dec", "s_load", "s_store", "s_out" (irq_settled and *)
(* enable_irq), "e_unreg", "e_zombie".  "sleep" is for (;;) yield().       *)
(* The reaper is at "yield", at "scan", the head of its loop, in           *)
(* irq_settled, or at "s_count", the decrement of settle_count.            *)
(***************************************************************************)
UserLabels   == {"setup", "main", "handler"}
EnableLabels == {"s_load", "s_store", "s_out"}
ProcLabels   == UserLabels \cup EnableLabels \cup
                {"sleep", "d_list", "d_status", "x_flag", "x_count", "x_status",
                 "s_dec", "e_unreg", "e_zombie"}
ReaperLabels == EnableLabels \cup {"yield", "scan", "s_dec", "s_count"}

Init ==
    /\ cur = Reaper
    /\ pc = [a \in Actors |-> IF a = Reaper THEN "yield" ELSE "setup"]
    /\ status = [p \in Procs |-> "ACTIVE"]
    /\ handled_irq = [p \in Procs |-> FALSE]
    /\ handling_irq = [p \in Procs |-> FALSE]
    /\ fresh_irq = [p \in Procs |-> FALSE]
    /\ settle_count = [p \in Procs |-> 0]
    /\ daemons = <<>>
    /\ unsettled_procs = [i \in Irqs |-> 0]
    /\ disabled_status = {}
    /\ mask = {}
    /\ reg = {}
    /\ rp = <<>>
    /\ raced = FALSE
    /\ overtaken = {}

-----------------------------------------------------------------------------
(* out8 to the mask register of the PIC of line i.                         *)
OutMask(i, set) ==
    {j \in mask : Pic[j] # Pic[i]} \cup {j \in set : Pic[j] = Pic[i]}

(* The handlers of line i that common_irq_handler finds asleep.            *)
Sleepers(i) ==
    {p \in Procs : handled_irq[p] /\ Irq[p] = i /\ status[p] = "DAEMON"}

(* The line the current process, or the reaper, is about to open, and     *)
(* whether it has loaded the byte of that line's PIC.                      *)
Line == IF cur = Reaper THEN Irq[Head(rp)] ELSE Irq[cur]
Opens(i) == pc[cur] \in {"s_store", "s_out"} /\ Line # i /\ Pic[Line] = Pic[i]

(* make_process_entry for the woken processes, but for the one that runs.  *)
(* Mutant: they keep their old state.                                      *)
EntryForgotten(woken) == pc

Entry(woken) == [a \in Actors |-> IF a \in woken \ {cur} THEN "handler" ELSE pc[a]]

(***************************************************************************)
(* i386_common_isr for a device line: kassert(!unsettled_procs[irq]), wake *)
(* every sleeping handler with a fresh cpu_state at its handler, mask the  *)
(* line.  The cpu_state of the current process is not what it runs: the    *)
(* next dispatch saves over it (dispatch.c:33).  An interrupt that wakes   *)
(* nobody changes nothing and is left out.                                 *)
(***************************************************************************)
Interrupt(i) ==
    LET woken == Sleepers(i) IN
    /\ i \notin mask
    /\ unsettled_procs[i] = 0
    /\ woken # {}
    /\ status' = [p \in Procs |-> IF p \in woken THEN "ACTIVE" ELSE status[p]]
    /\ handling_irq' = [p \in Procs |-> p \in woken \/ handling_irq[p]]
    /\ fresh_irq' = [p \in Procs |-> p \in woken \/ fresh_irq[p]]
    /\ pc' = Entry(woken)
    /\ unsettled_procs' = [unsettled_procs EXCEPT ![i] = Cardinality(woken)]
    /\ disabled_status' = disabled_status \cup {i}
    /\ mask' = OutMask(i, disabled_status')
    /\ raced' = (raced \/ Opens(i))
    /\ overtaken' = overtaken \cup (woken \cap {cur})
    /\ UNCHANGED <<cur, handled_irq, settle_count, daemons, reg, rp>>

(* schedule(): an active process, one with a fresh interrupt first.  It is *)
(* called from the timer in user code, and by whoever yields.              *)
Fresh == {p \in Procs : status[p] = "ACTIVE" /\ handling_irq[p] /\ fresh_irq[p]}
Runnable == {Reaper} \cup {p \in Procs : status[p] = "ACTIVE"}

Dispatch(a) ==
    /\ pc[cur] \in UserLabels \cup {"sleep", "yield"}
    /\ a \in IF Fresh # {} THEN Fresh ELSE Runnable
    /\ cur' = a
    /\ fresh_irq' = IF a \in Fresh THEN [fresh_irq EXCEPT ![a] = FALSE] ELSE fresh_irq
    /\ UNCHANGED <<pc, status, handled_irq, handling_irq, settle_count, daemons,
                   picVars, rp, past>>

Jump(a, from, to) ==
    /\ cur = a
    /\ pc[a] = from
    /\ pc' = [pc EXCEPT ![a] = to]
    /\ UNCHANGED <<cur, past>>

(* SYS_HANDLE_IRQ: the isr is linked in, then handled_irq set.             *)
register_user_isr(p) ==
    /\ Jump(p, "setup", "main")
    /\ handled_irq' = [handled_irq EXCEPT ![p] = TRUE]
    /\ UNCHANGED <<status, handling_irq, fresh_irq, settle_count, daemons, picVars, rp>>

(* q_register_process(&daemons, p).                                        *)
q_register_process(p) == <<p>> \o daemons

daemonize_process(p) ==
    \/ /\ Jump(p, "main", "d_list")
       /\ UNCHANGED <<procVars, daemons, picVars, rp>>
    \/ /\ Jump(p, "d_list", "d_status")
       /\ daemons' = q_register_process(p)
       /\ UNCHANGED <<procVars, picVars, rp>>
    \/ /\ Jump(p, "d_status", "sleep")
       /\ status' = [status EXCEPT ![p] = "DAEMON"]
       /\ UNCHANGED <<handled_irq, handling_irq, fresh_irq, settle_count, daemons,
                      picVars, rp>>

(* SYS_IRQ_HANDLER_EXIT, called at the end of every handler.  Mutant:      *)
(* handling_irq stays set.                                                 *)
NotHandlingForgotten(p) == handling_irq

NotHandling(p) == [handling_irq EXCEPT ![p] = FALSE]

daemonize_from_irq_handler(p) ==
    \/ /\ Jump(p, "handler", "x_flag")
       /\ UNCHANGED <<procVars, daemons, picVars, rp>>
    \/ /\ Jump(p, "x_flag", "x_count")
       /\ handling_irq' = NotHandling(p)
       /\ UNCHANGED <<status, handled_irq, fresh_irq, settle_count, daemons, picVars, rp>>
    \/ /\ Jump(p, "x_count", "x_status")
       /\ settle_count' = [settle_count EXCEPT ![p] = @ + 1]
       /\ UNCHANGED <<status, handled_irq, handling_irq, fresh_irq, daemons, picVars, rp>>
    \/ /\ Jump(p, "x_status", "sleep")
       /\ status' = [status EXCEPT ![p] = "DAEMON"]
       /\ UNCHANGED <<handled_irq, handling_irq, fresh_irq, settle_count, daemons,
                      picVars, rp>>

(* Mutant: the test sees the value before the decrement.                   *)
DecrementTestsOld(a, i, done) ==
    /\ Jump(a, "s_dec", IF unsettled_procs[i] = 0 THEN "s_load" ELSE done)
    /\ unsettled_procs' = [unsettled_procs EXCEPT ![i] = @ - 1]
    /\ UNCHANGED <<procVars, daemons, disabled_status, mask, reg, rp>>

(***************************************************************************)
(* irq_settled(i), and enable_irq(i, true) when the count drops to 0: load *)
(* of the static byte, store, out.  done is where the caller goes on.      *)
(***************************************************************************)
Decrement(a, i, done) ==
    /\ Jump(a, "s_dec", IF unsettled_procs[i] = 1 THEN "s_load" ELSE done)
    /\ unsettled_procs' = [unsettled_procs EXCEPT ![i] = @ - 1]
    /\ UNCHANGED <<procVars, daemons, disabled_status, mask, reg, rp>>

Load(a, i) ==
    /\ Jump(a, "s_load", "s_store")
    /\ reg' = disabled_status \ {i}
    /\ UNCHANGED <<procVars, daemons, unsettled_procs, disabled_status, mask, rp>>

Store(a, i) ==
    /\ Jump(a, "s_store", "s_out")
    /\ disabled_status' = {j \in disabled_status : Pic[j] # Pic[i]}
                            \cup {j \in reg : Pic[j] = Pic[i]}
    /\ UNCHANGED <<procVars, daemons, unsettled_procs, mask, reg, rp>>

Out(a, i, done) ==
    /\ Jump(a, "s_out", done)
    /\ mask' = OutMask(i, reg)
    /\ reg' = {}
    /\ UNCHANGED <<procVars, daemons, unsettled_procs, disabled_status, rp>>

irq_settled(a, i, done) ==
    Decrement(a, i, done) \/ Load(a, i) \/ Store(a, i) \/ Out(a, i, done)

(* The reaper's pass over the daemons.  It does not yield on the way, so   *)
(* nobody changes the list meanwhile.                                      *)
NeedsSettling(p) == handled_irq[p] /\ settle_count[p] > 0 /\ status[p] = "DAEMON"

StartPass ==
    /\ Jump(Reaper, "yield", "scan")
    /\ rp' = daemons
    /\ UNCHANGED <<procVars, daemons, picVars>>

Visit ==
    /\ IF rp = <<>> THEN Jump(Reaper, "scan", "yield") /\ UNCHANGED rp
       ELSE IF NeedsSettling(Head(rp)) THEN Jump(Reaper, "scan", "s_dec") /\ UNCHANGED rp
       ELSE Jump(Reaper, "scan", "scan") /\ rp' = Tail(rp)
    /\ UNCHANGED <<procVars, daemons, picVars>>

(* What __sync_sub_and_fetch(&p->settle_count, 1) leaves.                  *)
SettlesLeft(p) == settle_count[p] - 1

CountDown ==
    LET more == SettlesLeft(Head(rp)) # 0 IN
    /\ Jump(Reaper, "s_count", IF more THEN "s_dec" ELSE "scan")
    /\ settle_count' = [settle_count EXCEPT ![Head(rp)] = SettlesLeft(Head(rp))]
    /\ rp' = IF more THEN rp ELSE Tail(rp)
    /\ UNCHANGED <<status, handled_irq, handling_irq, fresh_irq, daemons, picVars>>

reaper ==
    \/ StartPass
    \/ Visit
    \/ rp # <<>> /\ irq_settled(Reaper, Irq[Head(rp)], "s_count")
    \/ CountDown

(***************************************************************************)
(* destroy_process(current_process): settle an interrupt being handled,    *)
(* unlink the isr, become a zombie.  q_register_process(&zombies, p)       *)
(* overwrites p->next, the link of the daemons list as well: what came     *)
(* after p can no longer be reached from the head.                         *)
(***************************************************************************)
Before(p) ==
    {n \in DOMAIN daemons : \A m \in 1 .. n : daemons[m] # p}

(* A process that exits in its handler settles its line itself.            *)
MustSettle(p) == status[p] = "ACTIVE" /\ handling_irq[p]

destroy_process(p) ==
    \/ /\ p \in Exiting
       /\ \/ Jump(p, "handler", IF MustSettle(p) THEN "s_dec" ELSE "e_unreg")
          \/ Jump(p, "main", "e_unreg")
       /\ UNCHANGED <<procVars, daemons, picVars, rp>>
    \/ irq_settled(p, Irq[p], "e_unreg")
    \/ /\ Jump(p, "e_unreg", "e_zombie")
       /\ handled_irq' = [handled_irq EXCEPT ![p] = FALSE]
       /\ UNCHANGED <<status, handling_irq, fresh_irq, settle_count, daemons, picVars, rp>>
    \/ /\ Jump(p, "e_zombie", "sleep")
       /\ status' = [status EXCEPT ![p] = "ZOMBIE"]
       /\ daemons' = SubSeq(daemons, 1, Cardinality(Before(p)))
       /\ UNCHANGED <<handled_irq, handling_irq, fresh_irq, settle_count, picVars, rp>>

Kernel(p) == daemonize_process(p) \/ daemonize_from_irq_handler(p) \/ destroy_process(p)

Next ==
    \/ \E i \in Irqs : Interrupt(i)
    \/ \E a \in Actors : Dispatch(a)
    \/ \E p \in Procs : register_user_isr(p) \/ Kernel(p)
    \/ reaper

(***************************************************************************)
(* The current process takes its steps; the scheduler, which prefers the   *)
(* process that has waited longest (module Scheduler), gives every process *)
(* that stays runnable the CPU; a driver's handler comes to its end.       *)
(* Devices owe nothing.                                                    *)
(***************************************************************************)
Fairness ==
    /\ \A p \in Procs : /\ WF_vars(register_user_isr(p))
                        /\ SF_vars(Kernel(p))
    /\ SF_vars(reaper)
    /\ \A a \in Actors : SF_vars(Dispatch(a))

Spec == Init /\ [][Next]_vars /\ Fairness

-----------------------------------------------------------------------------
TypeOK ==
    /\ cur \in Actors
    /\ pc \in [Actors -> ProcLabels \cup ReaperLabels]
    /\ pc[Reaper] \in ReaperLabels
    /\ status \in [Procs -> {"ACTIVE", "DAEMON", "ZOMBIE"}]
    /\ handled_irq \in [Procs -> BOOLEAN]
    /\ handling_irq \in [Procs -> BOOLEAN]
    /\ fresh_irq \in [Procs -> BOOLEAN]
    /\ settle_count \in [Procs -> {0, 1}]
    /\ daemons \in Seq(Procs)
    /\ unsettled_procs \in [Irqs -> 0 .. Cardinality(Procs)]
    /\ disabled_status \subseteq Irqs
    /\ mask \subseteq Irqs
    /\ reg \subseteq Irqs
    /\ rp \in Seq(Procs)
    /\ raced \in BOOLEAN
    /\ overtaken \subseteq Procs

(* p has been woken for its line and its share of unsettled_procs is not   *)
(* yet taken back by the reaper or by its own exit.                        *)
Owes(p) ==
    /\ handled_irq[p]
    /\ \/ handling_irq[p] /\ pc[p] \notin EnableLabels \cup {"e_unreg"}
       \/ pc[p] = "x_count"
       \/ settle_count[p] > 0
            /\ ~(rp # <<>> /\ Head(rp) = p /\ pc[Reaper] \in EnableLabels \cup {"s_count"})

(* unsettled_procs[irq] is the number of woken handlers that have not yet  *)
(* settled, through every interleaving of interrupts, handler exits,       *)
(* process exits and the reaper.                                           *)
Accounting ==
    \A i \in Irqs :
        unsettled_procs[i] = Cardinality({p \in Procs : Irq[p] = i /\ Owes(p)})

(* kassert(!unsettled_procs[irq]) of the ISR (int.c:243), at every moment   *)
(* the line may fire.                                                      *)
DeliverableSettled == \A i \in Irqs : i \notin mask => unsettled_procs[i] = 0

(* A line is masked only while somebody still has to settle it or is just  *)
(* enabling it: no line is left masked with nobody to open it again.       *)
Settling(i) ==
    \/ pc[Reaper] \in EnableLabels /\ rp # <<>> /\ Irq[Head(rp)] = i
    \/ \E p \in Procs : pc[p] \in EnableLabels /\ Irq[p] = i

NoOrphanedMask ==
    \A i \in mask : unsettled_procs[i] > 0 \/ Settling(i)

(* kassert(unsettled_procs) of irq_settled (int.c:261) and                 *)
(* kassert(handling_irq) of daemonize_from_irq_handler (management.c:778). *)
SettlerAssertions ==
    /\ pc[Reaper] = "s_dec" => unsettled_procs[Irq[Head(rp)]] > 0
    /\ \A p \in Procs :
          /\ pc[p] = "s_dec" => unsettled_procs[Irq[p]] > 0
          /\ pc[p] = "x_flag" => handling_irq[p]

(* common_irq_handler's promise (isrs.c:143-145): a process woken for an   *)
(* interrupt runs its handler and nothing else; but one that was about to  *)
(* yield for the first time, and only such a one, stays there for good.    *)
WokenRunsHandler ==
    \A p \in Procs :
        /\ handling_irq[p] /\ handled_irq[p] /\ p \notin overtaken
              => pc[p] \in {"handler", "x_flag", "s_dec", "e_unreg"} \cup EnableLabels
        /\ p \in overtaken => pc[p] = "sleep" /\ status[p] = "ACTIVE" /\ handling_irq[p]

(* A sleeping handler the reaper can no longer find stands behind a        *)
(* process that exited: nothing else takes entries off the daemons list.   *)
LostOnlyByExit ==
    \A p \in Procs :
        \/ status[p] # "DAEMON"
        \/ \E n \in DOMAIN daemons : daemons[n] = p
        \/ \E q \in Procs : status[q] = "ZOMBIE"

(* Every masked line is opened again, unless a process has exited, which   *)
(* may have cut others off the daemons list, or one of its handlers was    *)
(* woken too early, or a line fired into an enable_irq of its PIC.         *)
LineReenabled ==
    \A i \in Irqs : (i \in mask) ~>
        \/ i \notin mask
        \/ \E p \in Procs : status[p] = "ZOMBIE" \/ (p \in overtaken /\ Irq[p] = i)
        \/ raced

(* A process woken for an interrupt gets through its handler, or exits,    *)
(* unless it was woken too early.                                          *)
HandlerFinishes ==
    \A p \in Procs : handling_irq[p] ~> (~handling_irq[p] \/ status[p] = "ZOMBIE" \/ p \in overtaken)

(* SettledOnce: every wake-up for an interrupt is settled exactly once and *)
(* the kernel's assertions hold; a line that may fire is settled and one   *)
(* that is masked will be opened, as long as no line has fired into an     *)
(* enable_irq of another line of its PIC.                                  *)
SettledOnce ==
    /\ TypeOK /\ Accounting /\ SettlerAssertions
    /\ raced \/ (DeliverableSettled /\ NoOrphanedMask)

(* HandlersKept: a process woken for an interrupt is in its handler unless *)
(* it had not yet slept, and one that sleeps can be woken again unless an  *)
(* exit cut it off.                                                        *)
HandlersKept == WokenRunsHandler /\ LostOnlyByExit

(* LinesServed: handlers finish, and masked lines are opened again.        *)
LinesServed == LineReenabled /\ HandlerFinishes

(* Values for TLC: two handlers share line 1, a third process has line 2,  *)
(* and the two lines are on different PICs or on the same one.             *)
MCProcs == {"p", "q", "r"}
MCLines == "p" :> 1 @@ "q" :> 1 @@ "r" :> 2
TwoPics == 1 :> 0 @@ 2 :> 1
OnePic  == 1 :> 0 @@ 2 :> 0
=============================================================================
