------------------------------ MODULE Process ------------------------------
(***************************************************************************)
(* Processes, threads and popups: src/kernel/common/tasking/management.c   *)
(* and the system calls of src/kernel/common/interface/syscall.c that lead *)
(* there.  A message between processes is a popup: a new thread in the     *)
(* receiver, on one of the receiver's popup stacks, for which a synchronous*)
(* caller waits as for a child.                                            *)
(*                                                                         *)
(* Kernel code gives up the CPU only in yield, so a system call is one     *)
(* step up to the point where it waits.  A process is on the list its      *)
(* status names: ACTIVE in runqueue, DAEMON in daemons, ZOMBIE in zombies, *)
(* DESTRUCT in dead (processes with an interrupt handler are module Irq's).*)
(* Of the thread-local storage only errno is kept, of errno only whether   *)
(* it is 0, and it only for popups: no other process's errno is ever read  *)
(* by the kernel.  vm86 is left out.                                       *)
(***************************************************************************)
EXTENDS Integers, FiniteSets, FiniteSetsExt

CONSTANTS
    MaxPid,          \* pids are 1 .. MaxPid (MAX_PID_COUNT)
    Stacks,          \* popup stacks of a group (POPUP_STACKS)
    LeaderMayLeave,  \* may a group's leader exit while others of it run?
    Forkers,         \* the pids under which programs fork,
    Threaders,       \* create threads
    Waiters,         \* wait for children
    Callers          \* and send messages

ASSUME ProcessAssumption ==
    /\ MaxPid \in Nat \ {0} /\ Stacks \in Nat \ {0}
    /\ LeaderMayLeave \in BOOLEAN
    /\ Forkers \cup Threaders \cup Waiters \cup Callers \subseteq 1 .. MaxPid

VARIABLES
    proc,      \* the process_t of each pid
    users,     \* vmm contexts: number of users, 0 for a freed one
    masks,     \* popup_stack_mask_t: refcount and stacks in use
    answers    \* number of popup_return_memory_t allocated

vars == <<proc, users, masks, answers>>

Pids  == 1 .. MaxPid
Stack == 0 .. Stacks - 1

(***************************************************************************)
(* sync is popup_zombify, psi popup_stack_index, entry whether popup_entry *)
(* is set; mask and vmmc are indices into masks and users, 0 for none.     *)
(* tls is the address of the thread-local storage in its address space,    *)
(* errno what a popup's holds.  ans is popup_return, as the pid that may read it; *)
(* held the same for the answer a caller has been handed.  wfor and wait   *)
(* are what the process waits for inside raw_waitpid.                      *)
(***************************************************************************)
NoProc == [status |-> "FREE", pgid |-> 0, ppid |-> 0, psi |-> -1, sync |-> FALSE,
           entry |-> FALSE, mask |-> 0, vmmc |-> 0, tls |-> 0, errno |-> 0,
           ans |-> 0, held |-> 0, wfor |-> "none", wait |-> 0]

(* Not on a popup stack.                                                   *)
MainTls == Stacks

Init ==
    /\ proc = [p \in Pids |->
                 IF p = 1 THEN [NoProc EXCEPT !.status = "ACTIVE", !.pgid = 1,
                                              !.entry = TRUE, !.mask = 1,
                                              !.vmmc = 1, !.tls = MainTls]
                 ELSE NoProc]
    /\ users = [v \in Pids |-> IF v = 1 THEN 1 ELSE 0]
    /\ masks = [m \in Pids |-> [ref |-> IF m = 1 THEN 1 ELSE 0, bits |-> {}]]
    /\ answers = 0

-----------------------------------------------------------------------------
Is(p, S)   == proc[p].status \in S
IsFree(p)  == Is(p, {"FREE"})
is_popup(p) == proc[p].psi >= 0
Leader(p)  == ~IsFree(p) /\ proc[p].pgid = p /\ ~is_popup(p)
Running(p) == Is(p, {"ACTIVE"}) /\ proc[p].wfor = "none" /\ proc[p].held = 0

(* find_process: the runqueue, then the daemons.                           *)
find_process(p) == p \in Pids /\ Is(p, {"ACTIVE", "DAEMON"})

(* The lowest pid whose bit is clear.  Exhaustion is an assertion failure  *)
(* in get_new_pid; MaxPid is a bound of the model.                         *)
FreePids    == {p \in Pids : IsFree(p)}
get_new_pid == Min(FreePids)

(* What kmalloc returns for a new context or mask, preferably the number   *)
(* of the process it is for.                                               *)
Fresh(p, free) == IF p \in free THEN p ELSE Min(free)
FreshVmmc(p)   == Fresh(p, {v \in Pids : users[v] = 0})
FreshMask(p)   == Fresh(p, {m \in Pids : masks[m].ref = 0})

(* A store to errno in the thread-local storage of the popup p is seen by  *)
(* whoever has its storage at that address of that address space.          *)
(* Mutant: the store goes to that address of any address space.            *)
SameTlsAnywhere(P, p, q) == P[p].psi >= 0 /\ P[q].psi >= 0 /\ P[q].tls = P[p].tls

SameTls(P, p, q) == /\ P[p].psi >= 0 /\ P[q].psi >= 0
                    /\ P[q].vmmc = P[p].vmmc /\ P[q].tls = P[p].tls

SetErrno(P, p, e) ==
    [q \in Pids |-> IF SameTls(P, p, q) THEN [P[q] EXCEPT !.errno = e] ELSE P[q]]

(* destroy_process_struct for the processes in D.                          *)
UsersAfter(D) ==
    [v \in Pids |-> users[v] - Cardinality({p \in D : proc[p].vmmc = v})]

MasksAfter(D) ==
    [m \in Pids |->
        LET left == masks[m].ref - Cardinality({p \in D : proc[p].mask = m})
        IN  IF left = 0 THEN [ref |-> 0, bits |-> {}]
            ELSE [masks[m] EXCEPT !.ref = left]]

destroy_process_struct(P, D) ==
    /\ users' = UsersAfter(D)
    /\ masks' = MasksAfter(D)
    /\ proc' = [p \in Pids |-> IF p \in D THEN NoProc ELSE P[p]]

-----------------------------------------------------------------------------
Alone(p) == \A q \in Pids \ {p} : ~(Is(q, {"ACTIVE"}) /\ proc[q].pgid = p)

(* SYS_EXEC: the user part of the address space is emptied, the new        *)
(* program starts on the main stack with new thread-local storage there.   *)
(* A stale popup entry stays.  Programs exec when nothing else runs in     *)
(* their group, since a fork has a group of its own.                       *)
exec(p) ==
    /\ Running(p) /\ Leader(p) /\ Alone(p)
    /\ proc' = [proc EXCEPT ![p].tls = MainTls]
    /\ UNCHANGED <<users, masks, answers>>

(* SYS_POPUP_ENTRY, the first thing _start does in a new program, which is *)
(* on its main stack.                                                      *)
set_process_popup_entry(p) ==
    /\ Running(p) /\ Leader(p) /\ ~proc[p].entry /\ proc[p].tls = MainTls
    /\ IF proc[p].mask = 0
       THEN /\ proc' = [proc EXCEPT ![p].entry = TRUE, ![p].mask = FreshMask(p)]
            /\ masks' = [masks EXCEPT ![FreshMask(p)] = [ref |-> 1, bits |-> {}]]
       ELSE proc' = [proc EXCEPT ![p].entry = TRUE] /\ UNCHANGED masks
    /\ UNCHANGED <<users, answers>>

(* A clone of the caller in an address space and a group of its own.  It   *)
(* gets a popup stack mask of its own if the caller has a popup entry.     *)
fork(p) ==
    LET c     == get_new_pid
        entry == proc[p].entry
    IN
    /\ p \in Forkers /\ Running(p) /\ FreePids # {}
    /\ proc' = [proc EXCEPT ![c] =
         [NoProc EXCEPT !.status = "ACTIVE", !.pgid = c, !.ppid = p,
                        !.entry = entry, !.mask = IF entry THEN FreshMask(c) ELSE 0,
                        !.vmmc = FreshVmmc(c), !.tls = proc[p].tls]]
    /\ users' = [users EXCEPT ![FreshVmmc(c)] = 1]
    /\ masks' = IF entry THEN [masks EXCEPT ![FreshMask(c)] = [ref |-> 1, bits |-> {}]]
                ELSE masks
    /\ UNCHANGED answers

(* create_user_thread and run_process: a thread is a child of its group's  *)
(* leader and shares its creator's address space and popup stack mask.     *)
create_user_thread(p) ==
    LET c == get_new_pid
        m == proc[p].mask
    IN
    /\ p \in Threaders /\ Running(p) /\ FreePids # {}
    /\ proc' = [proc EXCEPT ![c] =
         [NoProc EXCEPT !.status = "ACTIVE", !.pgid = proc[p].pgid,
                        !.ppid = proc[p].pgid, !.mask = m, !.vmmc = proc[p].vmmc,
                        !.tls = MainTls]]
    /\ users' = [users EXCEPT ![proc[p].vmmc] = @ + 1]
    /\ masks' = IF m = 0 THEN masks ELSE [masks EXCEPT ![m].ref = @ + 1]
    /\ UNCHANGED answers

daemonize_process(p) ==
    /\ Running(p) /\ Leader(p) /\ proc[p].entry /\ p # 1
    /\ proc' = [proc EXCEPT ![p].status = "DAEMON"]
    /\ UNCHANGED <<users, masks, answers>>

(* User code of a popup fails in some way.                                 *)
UserErrno(p) ==
    /\ Running(p) /\ is_popup(p) /\ proc[p].errno = 0
    /\ proc' = SetErrno(proc, p, 1)
    /\ UNCHANGED <<users, masks, answers>>

-----------------------------------------------------------------------------
(* SYS_IPC_POPUP to the leader of a group, the error returns first: no     *)
(* such process, no popup entry yet, no stack left.                        *)
FreeStacks(t) == Stack \ masks[proc[t].mask].bits

IpcFails(p, t) ==
    /\ p \in Callers /\ Running(p) /\ t # p
    /\ \/ ~find_process(t)
       \/ Leader(t) /\ proc[t].mask = 0
       \/ Leader(t) /\ proc[t].mask # 0 /\ FreeStacks(t) = {}
    /\ proc' = SetErrno(proc, p, 1)
    /\ UNCHANGED <<users, masks, answers>>

(* Mutant: the stack is not marked as taken.                               *)
TakeStackForgotten(m, s) == masks

TakeStack(m, s) == [masks EXCEPT ![m].bits = @ \cup {s}]

(* Mutant: popup_zombify is never set.                                     *)
NewPopupNeverZombie(p, t, s, sync) ==
    [NoProc EXCEPT !.status = "ACTIVE", !.pgid = proc[t].pgid, !.ppid = p,
                   !.psi = s, !.vmmc = proc[t].vmmc, !.tls = s]

NewPopup(p, t, s, sync) ==
    [NoProc EXCEPT !.status = "ACTIVE", !.pgid = proc[t].pgid, !.ppid = p,
                   !.psi = s, !.sync = sync, !.vmmc = proc[t].vmmc, !.tls = s]

(* A popup counts as a user of its address space.                          *)
use_vmm_context(v) == [users EXCEPT ![v] = @ + 1]

(* popup, and for a synchronous message the start of raw_waitpid.          *)
popup(p, t, sync) ==
    LET s == Min(FreeStacks(t))
        c == get_new_pid
        P == [proc EXCEPT ![c] = NewPopup(p, t, s, sync)]
    IN
    /\ p \in Callers /\ Running(p) /\ find_process(t) /\ Leader(t)
    /\ FreePids # {}
    /\ proc[t].mask # 0 /\ FreeStacks(t) # {}
    /\ masks' = TakeStack(proc[t].mask, s)
    /\ proc' = [SetErrno(P, c, 0) EXCEPT ![p].wfor = IF sync THEN "ipc" ELSE "none",
                                         ![p].wait = IF sync THEN c ELSE 0]
    /\ users' = use_vmm_context(proc[t].vmmc)
    /\ UNCHANGED answers

(* SYS_POPUP_SET_ANSWER: the new answer replaces an older one.             *)
popup_set_answer(p) ==
    /\ Running(p) /\ is_popup(p)
    /\ proc' = [proc EXCEPT ![p].ans = proc[p].ppid]
    /\ answers' = IF proc[p].ans = 0 THEN answers + 1 ELSE answers
    /\ UNCHANGED <<users, masks>>

(* SYS_POPUP_GET_ANSWER, which the library calls for every answer it is    *)
(* handed (ipc.c).  Only the process the answer was made for may read it.  *)
popup_get_answer(p) ==
    /\ Is(p, {"ACTIVE"}) /\ proc[p].held # 0
    /\ IF proc[p].held = p
       THEN /\ proc' = [proc EXCEPT ![p].held = 0]
            /\ answers' = answers - 1
       ELSE /\ proc' = [SetErrno(proc, p, 1) EXCEPT ![p].held = 0]
            /\ UNCHANGED answers
    /\ UNCHANGED <<users, masks>>

-----------------------------------------------------------------------------
(* adopt_orphans: the children of p go to p's parent.  Mutant: those that  *)
(* are zombies are passed over.                                            *)
Orphans(p) ==
    {c \in Pids : Is(c, {"ACTIVE", "DAEMON", "ZOMBIE"}) /\ proc[c].ppid = p}

adopt_orphans_Living(p) ==
    [c \in Pids |-> IF c \in Orphans(p) /\ Is(c, {"ACTIVE", "DAEMON"})
                    THEN [proc[c] EXCEPT !.ppid = proc[p].ppid] ELSE proc[c]]

adopt_orphans(p) ==
    [c \in Pids |-> IF c \in Orphans(p)
                    THEN [proc[c] EXCEPT !.ppid = proc[p].ppid] ELSE proc[c]]

(* What is still read of a process that has exited, by its waiter or by    *)
(* the reaper.                                                             *)
Corpse(p, status) ==
    LET o == proc[p] IN
    [NoProc EXCEPT !.status = status, !.mask = o.mask, !.vmmc = o.vmmc,
                   !.ppid = IF status = "ZOMBIE" THEN o.ppid ELSE 0,
                   !.psi = IF status = "ZOMBIE" THEN o.psi ELSE -1,
                   !.sync = status = "ZOMBIE" /\ o.sync,
                   !.tls = IF status = "ZOMBIE" /\ o.sync THEN o.tls ELSE 0,
                   !.errno = IF status = "ZOMBIE" THEN o.errno ELSE 0,
                   !.ans = IF status = "ZOMBIE" THEN o.ans ELSE 0]

(* SYS_EXIT of a leader or a thread; pid 1 is init, which never exits.     *)
destroy_process(p) ==
    /\ Running(p) /\ ~is_popup(p) /\ p # 1
    /\ LeaderMayLeave \/ ~Leader(p) \/ Alone(p)
    /\ proc' = [adopt_orphans(p) EXCEPT ![p] = Corpse(p, "ZOMBIE")]
    /\ UNCHANGED <<users, masks, answers>>

(* Mutant: the bit of another stack is cleared.                            *)
FreeStackOff(m, s) == [masks EXCEPT ![m].bits = @ \ {s - 1}]

FreeStack(m, s) == [masks EXCEPT ![m].bits = @ \ {s}]

(* Mutant: the answer of a popup nobody waits for is not freed.            *)
AnswersFreedNever(p) == 0

AnswersFreed(p) == IF ~proc[p].sync /\ proc[p].ans # 0 THEN 1 ELSE 0

(* The popup's stack goes back to the group's leader, kassert(pg != NULL). *)
(* A synchronous popup becomes a zombie for its caller, another one is     *)
(* left to the reaper.                                                     *)
destroy_this_popup_thread(p) ==
    LET pg == proc[p].pgid IN
    /\ Running(p) /\ is_popup(p)
    /\ find_process(pg) /\ proc[pg].mask # 0
    /\ masks' = FreeStack(proc[pg].mask, proc[p].psi)
    /\ answers' = answers - AnswersFreed(p)
    /\ proc' = [adopt_orphans(p) EXCEPT
                  ![p] = Corpse(p, IF proc[p].sync THEN "ZOMBIE" ELSE "DESTRUCT")]
    /\ UNCHANGED users

(* SYS_WAIT: for a child, or with pid -1 for any.  Programs wait for their *)
(* own children only; raw_waitpid does not check.                          *)
StartWait(p) ==
    /\ p \in Waiters /\ Running(p)
    /\ \/ \E c \in Pids : /\ Is(c, {"ACTIVE", "DAEMON", "ZOMBIE"}) /\ proc[c].ppid = p
                          /\ ~is_popup(c)
                          /\ proc' = [proc EXCEPT ![p].wfor = "child", ![p].wait = c]
       \/ proc' = [proc EXCEPT ![p].wfor = "any"]
    /\ UNCHANGED <<users, masks, answers>>

(* The end of raw_waitpid for p and the zombie z.  After a synchronous     *)
(* message the caller takes over z's errno, if set, and its answer.        *)
raw_waitpid(p, z) ==
    LET ipc  == proc[p].wfor = "ipc"
        P    == IF ipc /\ proc[z].errno # 0 THEN SetErrno(proc, p, 1) ELSE proc
    IN
    /\ Is(z, {"ZOMBIE"})
    /\ \/ proc[p].wfor \in {"ipc", "child"} /\ proc[p].wait = z
       \/ proc[p].wfor = "any" /\ proc[z].ppid = p
    /\ destroy_process_struct(
         [P EXCEPT ![p].wfor = "none", ![p].wait = 0,
                   ![p].held = IF ipc THEN proc[z].ans ELSE 0], {z})
    /\ UNCHANGED answers

(* Mutant: the loop stops one short.                                       *)
sweep_AllButOne ==
    LET dead == {p \in Pids : Is(p, {"DESTRUCT"})} IN
    /\ Cardinality(dead) > 1
    /\ destroy_process_struct(proc, dead \ {Min(dead)})
    /\ UNCHANGED answers

(* The reaper frees everything on the list of the dead.                    *)
sweep_dead_processes ==
    LET dead == {p \in Pids : Is(p, {"DESTRUCT"})} IN
    /\ dead # {}
    /\ destroy_process_struct(proc, dead)
    /\ UNCHANGED answers

-----------------------------------------------------------------------------
Exit(p)   == destroy_process(p) \/ destroy_this_popup_thread(p)
Finish(p) == popup_get_answer(p) \/ \E z \in Pids : raw_waitpid(p, z)

Next ==
    \/ \E p \in Pids :
          \/ exec(p) \/ set_process_popup_entry(p) \/ fork(p) \/ create_user_thread(p)
          \/ daemonize_process(p) \/ popup_set_answer(p) \/ StartWait(p)
          \/ UserErrno(p)
          \/ \E t \in Pids : IpcFails(p, t) \/ \E sync \in BOOLEAN : popup(p, t, sync)
          \/ Exit(p) \/ Finish(p)
    \/ sweep_dead_processes

(* The scheduler gives every runnable process the CPU, and a handler comes *)
(* to its end: a popup that is not waiting exits at last, however many     *)
(* calls it makes before.  Nobody else is expected to do anything.         *)
Fairness ==
    /\ WF_vars(sweep_dead_processes)
    /\ \A p \in Pids : WF_vars(Finish(p)) /\ SF_vars(destroy_this_popup_thread(p))

Spec == Init /\ [][Next]_vars /\ Fairness

-----------------------------------------------------------------------------
TypeOK ==
    /\ proc \in [Pids -> [status : {"FREE", "ACTIVE", "DAEMON", "ZOMBIE", "DESTRUCT"},
                          pgid : 0 .. MaxPid, ppid : 0 .. MaxPid,
                          psi : Stack \cup {-1}, sync : BOOLEAN, entry : BOOLEAN,
                          mask : 0 .. MaxPid, vmmc : 0 .. MaxPid,
                          tls : 0 .. Stacks, errno : {0, 1},
                          ans : 0 .. MaxPid, held : 0 .. MaxPid,
                          wfor : {"none", "ipc", "child", "any"}, wait : 0 .. MaxPid]]
    /\ users \in [Pids -> 0 .. MaxPid]
    /\ masks \in [Pids -> [ref : 0 .. MaxPid, bits : SUBSET Stack]]
    /\ answers \in 0 .. 2 * MaxPid

(* Two popups that run in one address space have different stacks, and a   *)
(* stack is marked taken exactly as long as a popup runs on it.            *)
RunningPopups(v) == {p \in Pids : Is(p, {"ACTIVE"}) /\ is_popup(p) /\ proc[p].vmmc = v}

StacksExclusive ==
    \A t \in Pids :
        Leader(t) /\ Is(t, {"ACTIVE", "DAEMON"}) /\ proc[t].mask # 0 =>
          /\ \A p, q \in RunningPopups(proc[t].vmmc) :
                p # q => proc[p].psi # proc[q].psi
          /\ masks[proc[t].mask].bits = {proc[p].psi : p \in RunningPopups(proc[t].vmmc)}

(* Reference counts: an address space and a popup stack mask live exactly  *)
(* as long as some process_t points to them, through every order of exits, *)
(* waits and sweeps.                                                       *)
CountsExact ==
    \A i \in Pids :
        /\ users[i] = Cardinality({p \in Pids : proc[p].vmmc = i})
        /\ masks[i].ref = Cardinality({p \in Pids : proc[p].mask = i})

(* A waiter never holds a pointer to a freed process_t, and a zombie has   *)
(* one waiter at most (the FIXME of raw_waitpid, management.c:692).        *)
NoDanglingWait ==
    \A p \in Pids :
        proc[p].wfor \in {"ipc", "child"} =>
          /\ proc[p].wait \in Pids /\ Is(proc[p].wait, {"ACTIVE", "DAEMON", "ZOMBIE"})
          /\ proc[proc[p].wait].ppid = p
          /\ proc[p].wfor = "ipc" => proc[proc[p].wait].sync

(* kassert(pg != NULL) in destroy_this_popup_thread: a popup that runs     *)
(* finds the leader of its group, and that leader owns its address space.  *)
LeaderFound ==
    \A p \in Pids : Is(p, {"ACTIVE"}) /\ is_popup(p) =>
        /\ find_process(proc[p].pgid)
        /\ proc[proc[p].pgid].vmmc = proc[p].vmmc

(* No zombie is left behind: whoever is alive or waits to be reaped has a  *)
(* parent that runs, or none since the boot.                               *)
ParentRuns ==
    \A p \in Pids : Is(p, {"ACTIVE", "DAEMON", "ZOMBIE"}) =>
        proc[p].ppid = 0 \/ find_process(proc[p].ppid)

(* Every answer that is allocated is in the hands of a popup, of a zombie  *)
(* that is waited for or of the caller it was made for, who may read it.   *)
AnswersAccounted ==
    /\ answers = Cardinality({p \in Pids : proc[p].ans # 0})
                   + Cardinality({p \in Pids : proc[p].held # 0})
    /\ \A p \in Pids : proc[p].held \in {0, p}

(* Between the exit of a popup and the end of its caller's wait, the errno *)
(* it left behind changes only by a popup that was given the same stack.   *)
ErrnoLostOnlyByReuse ==
    [][\A z \in Pids :
          Is(z, {"ZOMBIE"}) /\ is_popup(z) /\ proc'[z].status = "ZOMBIE"
            /\ proc'[z].errno # proc[z].errno
          => \E q \in Pids \ {z} : /\ proc'[q].status = "ACTIVE"
                                   /\ proc'[q].psi = proc[z].psi
                                   /\ proc'[q].vmmc = proc[z].vmmc]_vars

(* StacksCounted: popups have stacks of their own, and what processes      *)
(* share is counted exactly.                                               *)
StacksCounted == TypeOK /\ StacksExclusive /\ CountsExact

(* FamilyKept: waiters, popups and zombies find the process they belong    *)
(* to.                                                                     *)
FamilyKept == NoDanglingWait /\ LeaderFound /\ ParentRuns

(* A synchronous message returns to its caller.                            *)
CallReturns == \A p \in Pids : (proc[p].wfor = "ipc") ~> (proc[p].wfor = "none")

(* What an asynchronous popup used is given back: the reaper frees it.     *)
DeadFreed == \A p \in Pids : Is(p, {"DESTRUCT"}) ~> IsFree(p)
=============================================================================
