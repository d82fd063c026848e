----------------------------- MODULE Scheduler ------------------------------
(* The dispatcher and the scheduler (kernel/common/tasking/dispatch.c and    *)
(* scheduler.c).  A process is chosen for its age, because somebody yields   *)
(* to it, or for a fresh interrupt.  The code keeps in each process the tick *)
(* at which it last ran and compares differences of an unsigned counter;     *)
(* only these differences, modulo Width, are kept here.                      *)
EXTENDS Integers, Sequences, FiniteSets, SequencesExt

CONSTANTS
  Procs,       \* numbers, the pids
  IrqProcs,    \* those that handle an interrupt
  Threshold,   \* the age from which yielding to another is overruled, 42
  Width,       \* values of the counter, 2^32
  Counters,    \* values of the counter at the start of a process
  MaxStorm     \* interrupts between two choices by age

VARIABLES
  runqueue,    \* newest first
  status,
  age,         \* (schedule_tick - p->schedule_tick) modulo Width
  fresh_irq,   \* handling_irq /\ fresh_irq
  current_process,
  schedule_lock,   \* held by the current process, in daemonize
  waited,      \* how often others were chosen while the process was ready
  storm        \* interrupts since the last choice by age

vars == <<runqueue, status, age, fresh_irq, current_process, schedule_lock, waited, storm>>

Idle == 0
None == -1
Bound == Threshold + 2 * Cardinality(Procs)

Init ==
  /\ runqueue = <<>>
  /\ status = [p \in Procs |-> "new"]
  /\ age = [p \in Procs |-> 0]
  /\ fresh_irq = [p \in Procs |-> FALSE]
  /\ current_process = Idle
  /\ schedule_lock = FALSE
  /\ waited = [p \in Procs |-> 0]
  /\ storm = 0

(* run_process: kcalloc has cleared the tick, so the age is the counter's    *)
(* value at that time.  Each process is created once: an endless row of *)
(* new processes would keep the old ones waiting.                            *)
run_process(p) == \E counter \in Counters :
  /\ status[p] = "new"
  /\ status' = [status EXCEPT ![p] = "active"]
  /\ runqueue' = <<p>> \o runqueue
  /\ age' = [age EXCEPT ![p] = counter]
  /\ UNCHANGED <<fresh_irq, current_process, schedule_lock, waited, storm>>

Running == current_process \in Procs /\ status[current_process] = "active" /\ ~schedule_lock

(* The current process waits for something; somebody wakes a process.        *)
Block ==
  /\ Running /\ current_process \notin IrqProcs
  /\ status' = [status EXCEPT ![current_process] = "coma"]
  /\ UNCHANGED <<runqueue, age, fresh_irq, current_process, schedule_lock, waited, storm>>

Wake(p) ==
  /\ status[p] = "coma"
  /\ status' = [status EXCEPT ![p] = "active"]
  /\ UNCHANGED <<runqueue, age, fresh_irq, current_process, schedule_lock, waited, storm>>

(* A handler is finished: daemonize_from_irq_handler.                        *)
DaemonizeFromIrq ==
  /\ Running /\ current_process \in IrqProcs
  /\ status' = [status EXCEPT ![current_process] = "daemon"]
  /\ fresh_irq' = [fresh_irq EXCEPT ![current_process] = FALSE]
  /\ UNCHANGED <<runqueue, age, current_process, schedule_lock, waited, storm>>

common_irq_handler(p) ==
  /\ p \in IrqProcs /\ status[p] = "daemon" /\ storm < MaxStorm
  /\ status' = [status EXCEPT ![p] = "active"]
  /\ fresh_irq' = [fresh_irq EXCEPT ![p] = TRUE]
  /\ storm' = storm + 1
  /\ UNCHANGED <<runqueue, age, current_process, schedule_lock, waited>>

(* A process becomes a daemon: while it holds schedule_lock it keeps the     *)
(* processor; a handler of interrupts stays in the run queue.                *)
LockSchedule ==
  /\ Running
  /\ schedule_lock' = TRUE
  /\ UNCHANGED <<runqueue, status, age, fresh_irq, current_process, waited, storm>>

daemonize_process ==
  /\ schedule_lock
  /\ schedule_lock' = FALSE
  /\ status' = [status EXCEPT ![current_process] = "daemon"]
  /\ runqueue' = IF current_process \in IrqProcs THEN runqueue
                 ELSE RemoveFirst(runqueue, current_process)
  /\ UNCHANGED <<age, fresh_irq, current_process, waited, storm>>

(* A process that is not the current one leaves the run queue.               *)
Leave(p) ==
  /\ status[p] \notin {"new", "gone"} /\ p # current_process
  /\ status' = [status EXCEPT ![p] = "gone"]
  /\ runqueue' = RemoveFirst(runqueue, p)
  /\ age' = [age EXCEPT ![p] = 0]
  /\ fresh_irq' = [fresh_irq EXCEPT ![p] = FALSE]
  /\ waited' = [waited EXCEPT ![p] = 0]
  /\ UNCHANGED <<current_process, schedule_lock, storm>>

------------------------------------------------------------------------------
Ready == {i \in 1 .. Len(runqueue) : status[runqueue[i]] = "active"}

(* Faulty: yielding to another is never overruled.                           *)
YieldsToAlways(target, eldest) == target

(* The one that is yielded to, unless somebody else has waited too long.     *)
YieldsTo(target, eldest) == target /\ eldest < Threshold

(* The loop over the run queue: the first of the eldest, then the target of  *)
(* a yield, then the last one with a fresh interrupt.                        *)
Choice(ages, switch_to) ==
  LET Of(i) == ages[runqueue[i]]
      Aged == {i \in Ready : Of(i) > 0}
      Fresh == {i \in Ready : fresh_irq[runqueue[i]]}
      target == \E i \in Ready : runqueue[i] = switch_to
      first == CHOOSE i \in Aged : \A j \in Aged : Of(i) > Of(j) \/ (Of(i) = Of(j) /\ i <= j) IN
  IF Aged = {} THEN [to |-> Idle, irq |-> FALSE]
  ELSE IF Fresh # {}
  THEN [to |-> runqueue[CHOOSE i \in Fresh : \A j \in Fresh : j <= i], irq |-> TRUE]
  ELSE [to |-> IF YieldsTo(target, Of(first)) THEN switch_to ELSE runqueue[first],
        irq |-> FALSE]

(* schedule: the process that ran gets the tick, the tick grows, the choice. *)
schedule(switch_to) ==
  LET ages == [p \in Procs |->
        IF p = current_process THEN 1
        ELSE IF status[p] \in {"new", "gone"} THEN 0 ELSE (age[p] + 1) % Width]
      c == Choice(ages, switch_to) IN
  /\ age' = ages
  /\ current_process' = c.to
  /\ fresh_irq' = IF c.irq THEN [fresh_irq EXCEPT ![c.to] = FALSE] ELSE fresh_irq
  /\ waited' = [p \in Procs |->
       IF p = c.to \/ status[p] # "active" THEN 0
       ELSE IF c.irq \/ waited[p] > Bound THEN waited[p] ELSE waited[p] + 1]
  /\ storm' = IF c.irq THEN storm ELSE 0
  /\ UNCHANGED <<runqueue, status, schedule_lock>>

(* dispatch: with schedule_lock held, schedule returns the current process.  *)
dispatch(switch_to) ==
  \/ ~schedule_lock /\ schedule(switch_to)
  \/ schedule_lock /\ UNCHANGED vars

Next ==
  \/ Block \/ DaemonizeFromIrq \/ LockSchedule \/ daemonize_process
  \/ \E p \in Procs : run_process(p) \/ Wake(p) \/ common_irq_handler(p) \/ Leave(p)
  \/ \E t \in Procs \union {None} : dispatch(t)

Spec == Init /\ [][Next]_vars

------------------------------------------------------------------------------
(* No ready process is passed over more than Threshold times and twice for   *)
(* each process, however the others yield to each other: while it is old, by *)
(* those that are older, and by all of them again once the counter has       *)
(* wrapped and it is the youngest (schedule); handlers of interrupts that    *)
(* have just come do not count.                                              *)
Correct == \A p \in Procs : waited[p] <= Bound
==============================================================================
