------------------------------- MODULE RWLock -------------------------------
(***************************************************************************)
(* The user-space readers-writer lock of the system library:               *)
(* src/lib/common/system/rwl_lock.c, on top of the compare-and-swap spin   *)
(* lock of src/lib/common/system/lock.c.  User space is preempted by the   *)
(* timer at every instruction, so every access to the shared rw_lock_t is  *)
(* a step of its own; the values a thread computes between two accesses    *)
(* are kept in tmp.                                                        *)
(*                                                                         *)
(* A spin iteration that finds the lock taken changes nothing; it is the   *)
(* stuttering of a thread that is not enabled.                             *)
(***************************************************************************)
EXTENDS Integers, FiniteSets

CONSTANTS
    Threads,    \* the pids of the threads that share the lock
    Upgraders,  \* those that call rwl_require_w (routing.c, arp.c, eth.c, ...)
    Droppers    \* those that call rwl_drop_w (routing.c, del_route)

ASSUME ThreadsAssumption ==
    /\ Threads \subseteq Nat \ {0}
    /\ IsFiniteSet(Threads)
    /\ Upgraders \subseteq Threads
    /\ Droppers \subseteq Threads

VARIABLES
    write_lock,    \* 0 free, a pid, or -1: held by readers, the taker has left
    lock_lock,     \* 0 free, or the pid that may change reader_count
    reader_count,
    pc,            \* where each thread is
    tmp            \* its copy of reader_count, read and not yet written back

vars == <<write_lock, lock_lock, reader_count, pc, tmp>>

(* Labels.  "idle", "reading" and "writing" are the caller's own code.     *)
LabelsLockR   == {"r_lock", "r_read", "r_write", "r_wl", "r_unlock"}
LabelsUnlockR == {"u_lock", "u_read", "u_write", "u_rel", "u_own", "u_anon",
                  "u_unlock"}
LabelsRequire == {"q_count", "q_try", "q_check", "q_back", "q_zero", "q_unlock"}
Labels        == {"idle", "reading", "writing", "w_lock"}
                    \cup LabelsLockR \cup LabelsUnlockR \cup LabelsRequire

Init ==
    /\ write_lock = 0
    /\ lock_lock = 0
    /\ reader_count = 0
    /\ pc = [t \in Threads |-> "idle"]
    /\ tmp = [t \in Threads |-> 0]

Jump(t, from, to) ==
    /\ pc[t] = from
    /\ pc' = [pc EXCEPT ![t] = to]

(* The calls: what the programs do with a lock they hold or do not hold.   *)
Call(t) ==
    /\ \/ Jump(t, "idle", "r_lock")
       \/ Jump(t, "idle", "w_lock")
       \/ Jump(t, "reading", "u_lock")
       \/ t \in Upgraders /\ Jump(t, "reading", "q_count")
    /\ UNCHANGED <<write_lock, lock_lock, reader_count, tmp>>

(***************************************************************************)
(* lock(&rwl->lock_lock) at the head of rwl_lock_r and rwl_unlock_r, and   *)
(* the unlock at their ends: a successful compare-and-swap, a store of 0.  *)
(***************************************************************************)
TakeLockLock(t, from, to) ==
    /\ Jump(t, from, to)
    /\ lock_lock = 0
    /\ lock_lock' = t
    /\ UNCHANGED <<write_lock, reader_count, tmp>>

FreeLockLock(t, from, to) ==
    /\ Jump(t, from, to)
    /\ lock_lock' = 0
    /\ UNCHANGED <<write_lock, reader_count, tmp>>

ReadCount(t, from, to) ==
    /\ Jump(t, from, to)
    /\ tmp' = [tmp EXCEPT ![t] = reader_count]
    /\ UNCHANGED <<write_lock, lock_lock, reader_count>>

(* rwl_lock_r: if (!rwl->reader_count++) lock(&rwl->write_lock);           *)
IncCount(t) ==
    /\ Jump(t, "r_write", IF tmp[t] = 0 THEN "r_wl" ELSE "r_unlock")
    /\ reader_count' = tmp[t] + 1
    /\ UNCHANGED <<write_lock, lock_lock, tmp>>

TakeWriteLock(t, from, to) ==
    /\ Jump(t, from, to)
    /\ write_lock = 0
    /\ write_lock' = t
    /\ UNCHANGED <<lock_lock, reader_count, tmp>>

lock_r(t) ==
    \/ TakeLockLock(t, "r_lock", "r_read")
    \/ ReadCount(t, "r_read", "r_write")
    \/ IncCount(t)
    \/ TakeWriteLock(t, "r_wl", "r_unlock")
    \/ FreeLockLock(t, "r_unlock", "reading")

(* Mutant: the last reader never takes the branch that unlocks write_lock. *)
DecCountNeverLast(t) ==
    /\ Jump(t, "u_write", "u_own")
    /\ reader_count' = tmp[t] - 1
    /\ UNCHANGED <<write_lock, lock_lock, tmp>>

(* rwl_unlock_r: if (!--rwl->reader_count) unlock(&rwl->write_lock);       *)
(* else if (rwl->write_lock == getpid()) rwl->write_lock = -1;             *)
DecCount(t) ==
    /\ Jump(t, "u_write", IF tmp[t] = 1 THEN "u_rel" ELSE "u_own")
    /\ reader_count' = tmp[t] - 1
    /\ UNCHANGED <<write_lock, lock_lock, tmp>>

StoreWriteLock(t, from, to, value) ==
    /\ Jump(t, from, to)
    /\ write_lock' = value
    /\ UNCHANGED <<lock_lock, reader_count, tmp>>

(* Mutant: a leaving first reader leaves its pid in write_lock.            *)
TestOwnerNever(t) ==
    /\ Jump(t, "u_own", "u_unlock")
    /\ UNCHANGED <<write_lock, lock_lock, reader_count, tmp>>

TestOwner(t) ==
    /\ Jump(t, "u_own", IF write_lock = t THEN "u_anon" ELSE "u_unlock")
    /\ UNCHANGED <<write_lock, lock_lock, reader_count, tmp>>

unlock_r(t) ==
    \/ TakeLockLock(t, "u_lock", "u_read")
    \/ ReadCount(t, "u_read", "u_write")
    \/ DecCount(t)
    \/ StoreWriteLock(t, "u_rel", "u_unlock", 0)
    \/ TestOwner(t)
    \/ StoreWriteLock(t, "u_anon", "u_unlock", -1)
    \/ FreeLockLock(t, "u_unlock", "idle")

lock_w(t) == TakeWriteLock(t, "w_lock", "writing")

unlock_w(t) == StoreWriteLock(t, "writing", "idle", 0)

(***************************************************************************)
(* rwl_require_w: a reader waits until it is the only one, then takes the  *)
(* count away while it keeps write_lock.  q_count and q_try are the two    *)
(* operands of the || of the inner loop, q_check the test under lock_lock. *)
(***************************************************************************)
SeeFewReaders(t) ==
    /\ Jump(t, "q_count", "q_try")
    /\ ~(reader_count > 1)
    /\ UNCHANGED <<write_lock, lock_lock, reader_count, tmp>>

TryFails(t) ==
    /\ Jump(t, "q_try", "q_count")
    /\ lock_lock # 0
    /\ UNCHANGED <<write_lock, lock_lock, reader_count, tmp>>

(* Mutants: no second look at the count under lock_lock; the count of the  *)
(* upgraded reader is not taken away; lock_lock is kept for another round. *)
CheckCountBlindly(t) ==
    /\ Jump(t, "q_check", "q_zero")
    /\ UNCHANGED <<write_lock, lock_lock, reader_count, tmp>>

ZeroCountForgotten(t) ==
    /\ Jump(t, "q_zero", "q_unlock")
    /\ UNCHANGED <<write_lock, lock_lock, reader_count, tmp>>

CheckCount(t) ==
    /\ Jump(t, "q_check", IF reader_count = 1 THEN "q_zero" ELSE "q_back")
    /\ UNCHANGED <<write_lock, lock_lock, reader_count, tmp>>

ZeroCount(t) ==
    /\ Jump(t, "q_zero", "q_unlock")
    /\ reader_count' = 0
    /\ UNCHANGED <<write_lock, lock_lock, tmp>>

require_w_KeepsLockLock(t) ==
    \/ SeeFewReaders(t)
    \/ TakeLockLock(t, "q_try", "q_check")
    \/ TryFails(t)
    \/ CheckCount(t)
    \/ Jump(t, "q_back", "q_count")
          /\ UNCHANGED <<write_lock, lock_lock, reader_count, tmp>>
    \/ ZeroCount(t)
    \/ FreeLockLock(t, "q_unlock", "writing")

require_w(t) ==
    \/ SeeFewReaders(t)
    \/ TakeLockLock(t, "q_try", "q_check")
    \/ TryFails(t)
    \/ CheckCount(t)
    \/ FreeLockLock(t, "q_back", "q_count")
    \/ ZeroCount(t)
    \/ FreeLockLock(t, "q_unlock", "writing")

(* rwl_drop_w: one store to reader_count, without lock_lock.               *)
drop_w(t) ==
    /\ t \in Droppers
    /\ Jump(t, "writing", "reading")
    /\ reader_count' = 1
    /\ UNCHANGED <<write_lock, lock_lock, tmp>>

Step(t) == lock_r(t) \/ unlock_r(t) \/ lock_w(t) \/ unlock_w(t)
             \/ require_w(t) \/ drop_w(t)

Next == \E t \in Threads : Call(t) \/ Step(t)

(***************************************************************************)
(* The timer preempts every user thread and the scheduler is round robin:  *)
(* a thread that can take a step takes it.  A thread that holds the lock   *)
(* gives it back, unless it is only reading and never comes round.  Which  *)
(* waiter wins a compare-and-swap is left open.                            *)
(***************************************************************************)
Fairness ==
    \A t \in Threads :
        /\ WF_vars(Step(t))
        /\ WF_vars(pc[t] = "reading" /\ Call(t))

Spec == Init /\ [][Next]_vars /\ Fairness

-----------------------------------------------------------------------------
(* Who is inside.  A reader counts from the moment it may proceed to       *)
(* "reading" (its increment found other readers, or it has write_lock) to  *)
(* its decrement; a writer from the compare-and-swap, or from the store of *)
(* 0 in rwl_require_w.                                                     *)
ReaderLabels == {"r_unlock", "reading", "u_lock", "u_read", "u_write",
                 "q_count", "q_try", "q_check", "q_back", "q_zero"}
WriterLabels == {"q_unlock", "writing"}

Readers == {t \in Threads : pc[t] \in ReaderLabels}
Writers == {t \in Threads : pc[t] \in WriterLabels}

TypeOK ==
    /\ write_lock \in Threads \cup {-1, 0}
    /\ lock_lock \in Threads \cup {0}
    /\ reader_count \in 0 .. Cardinality(Threads)
    /\ pc \in [Threads -> Labels]
    /\ tmp \in [Threads -> 0 .. Cardinality(Threads)]

(* Readers and writers exclude each other and there is one writer at most, *)
(* through every interleaving of lock, unlock, upgrade and downgrade.      *)
Exclusion ==
    /\ \A t, u \in Writers : t = u
    /\ Writers # {} => Readers = {}

(* assert(owner != mypid) of lock() (lock.c:34) never fires: no thread     *)
(* spins on a lock word that holds its own pid.  write_lock can outlive    *)
(* the reader that took it, which is what rwl_unlock_r's -1 is for.        *)
NoSelfWait ==
    \A t \in Threads :
        /\ pc[t] \in {"r_lock", "u_lock"} => lock_lock # t
        /\ pc[t] \in {"w_lock", "r_wl"} => write_lock # t

(* When nobody is in, on the way in or on the way out, the lock is free    *)
(* again: no history of upgrades, downgrades and departures in any order   *)
(* leaves the word taken or the count off.                                 *)
FreeWhenUnused ==
    (\A t \in Threads : pc[t] \in {"idle", "r_lock", "w_lock"})
        => write_lock = 0 /\ lock_lock = 0 /\ reader_count = 0

(* The lock implements the abstract one: each step of the code is one of   *)
(* its operations or changes nobody's standing.                            *)
Abstract == INSTANCE ReadersWriters WITH readers <- Readers, writers <- Writers
RefinesReadersWriters == Abstract!Spec

(* A thread can never go on: every thread that is not in the caller's code *)
(* outside the lock waits for something only another waiting thread could  *)
(* change.                                                                 *)
Waiting(t) ==
    \/ pc[t] \in {"r_lock", "u_lock"} /\ lock_lock # 0
    \/ pc[t] \in {"r_wl", "w_lock"} /\ write_lock # 0
    \/ pc[t] = "q_count" /\ reader_count > 1
    \/ pc[t] \in {"q_count", "q_try"} /\ lock_lock # 0

Stuck ==
    /\ \E t \in Threads : Waiting(t)
    /\ \A t \in Threads : pc[t] = "idle" \/ Waiting(t)

(* The only ways to a deadlock: two readers that both wait in              *)
(* rwl_require_w for the other to leave, or a reader that waits for        *)
(* write_lock with lock_lock held while somebody is already reading, which *)
(* only rwl_drop_w's store without lock_lock can bring about.              *)
ByUpgradeOrDrop ==
    \/ \E t, u \in Threads :
          /\ t # u
          /\ pc[t] \in {"q_count", "q_try"}
          /\ pc[u] \in {"q_count", "q_try"}
    \/ /\ Droppers # {}
       /\ \E t \in Threads : pc[t] = "r_wl" /\ Readers # {}

(* StuckOnlyByUpgradeOrDrop: no other deadlock is reached.                 *)
StuckOnlyByUpgradeOrDrop == Stuck => ByUpgradeOrDrop

CallerLabels == {"idle", "reading", "writing"}

Completes == \E t \in Threads : pc[t] \notin CallerLabels
                                  /\ pc'[t] \in CallerLabels

(* Progress: unless the threads end in such a deadlock, operations keep    *)
(* completing: the threads are in the callers' code again and again, or    *)
(* some thread gets or gives back the lock again and again.                *)
Progress ==
    \/ []<>(\A t \in Threads : pc[t] \in CallerLabels)
    \/ []<><<Completes>>_vars
    \/ <>[](Stuck /\ ByUpgradeOrDrop)
=============================================================================
