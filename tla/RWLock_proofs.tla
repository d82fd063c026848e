--------------------------- MODULE RWLock_proofs ---------------------------
(***************************************************************************)
(* Proofs about RWLock for every finite set of threads and every choice of *)
(* upgrading and downgrading threads.                                      *)
(***************************************************************************)
EXTENDS RWLock, TLAPS, FiniteSetTheorems

(* The labels at which a thread holds lock_lock, and those at which it may *)
(* be the pid in write_lock.                                               *)
HoldLabels == {"r_read", "r_write", "r_wl", "r_unlock", "u_read", "u_write",
               "u_rel", "u_own", "u_anon", "u_unlock", "q_check", "q_back",
               "q_zero", "q_unlock"}
OwnerLabels == ReaderLabels \cup WriterLabels \cup {"u_rel", "u_own", "u_anon"}

LockInv == \A t \in Threads : lock_lock = t <=> pc[t] \in HoldLabels

CountInv ==
    /\ (\A t \in Threads : pc[t] # "r_wl") => reader_count = Cardinality(Readers)
    /\ \A t \in Threads :
          pc[t] = "r_wl" => reader_count = 1 /\ Cardinality(Readers) <= 1

TmpInv ==
    \A t \in Threads :
        /\ pc[t] = "r_write" => \/ tmp[t] = reader_count
                                \/ tmp[t] = 0 /\ reader_count = 1
        /\ pc[t] = "u_write" => tmp[t] = reader_count
        /\ pc[t] = "q_zero" => reader_count = 1

ReleaseInv ==
    \A t \in Threads :
        /\ pc[t] = "u_rel" => Readers = {} /\ Writers = {} /\ write_lock # 0
        /\ pc[t] \in {"u_own", "u_anon"} => Readers # {}

FreeInv == write_lock = 0 => Readers = {} /\ Writers = {}

HeldInv == write_lock # 0 => \E t \in Threads : pc[t] \in OwnerLabels \ {"u_own", "u_anon"}

OwnerInv == \A t \in Threads : write_lock = t => pc[t] \in OwnerLabels

IInv == /\ TypeOK /\ Exclusion /\ LockInv /\ CountInv /\ TmpInv
        /\ ReleaseInv /\ FreeInv /\ HeldInv /\ OwnerInv

(* What a step of thread t means to the abstract lock.                     *)
Same == Readers' = Readers /\ Writers' = Writers

AbsStep(t) ==
    \/ Same
    \/ Abstract!AcquireR(t) \/ Abstract!ReleaseR(t)
    \/ Abstract!AcquireW(t) \/ Abstract!ReleaseW(t)
    \/ Abstract!Upgrade(t)  \/ Abstract!Downgrade(t)

-----------------------------------------------------------------------------
(* What a jump does to the sets of readers and writers and to their size.  *)
JumpFacts(t, from, to) ==
    /\ pc[t] = from /\ pc'[t] = to
    /\ \A u \in Threads \ {t} : pc'[u] = pc[u]
    /\ pc' \in [Threads -> Labels]
    /\ t \in Readers <=> from \in ReaderLabels
    /\ t \in Writers <=> from \in WriterLabels
    /\ to \in ReaderLabels => Readers' = Readers \cup {t}
    /\ to \notin ReaderLabels => Readers' = Readers \ {t}
    /\ to \in WriterLabels => Writers' = Writers \cup {t}
    /\ to \notin WriterLabels => Writers' = Writers \ {t}
    /\ (from \in ReaderLabels <=> to \in ReaderLabels) => Readers' = Readers
    /\ (from \in WriterLabels <=> to \in WriterLabels) => Writers' = Writers
    /\ Cardinality(Readers) \in 0 .. Cardinality(Threads)
    /\ Cardinality(Readers') \in 0 .. Cardinality(Threads)
    /\ to \in ReaderLabels /\ from \notin ReaderLabels
          => Cardinality(Readers') = Cardinality(Readers) + 1
    /\ from \in ReaderLabels /\ to \notin ReaderLabels
          => Cardinality(Readers') = Cardinality(Readers) - 1
    /\ Cardinality(Readers) = 0 <=> Readers = {}
    /\ Cardinality(Readers') = 0 <=> Readers' = {}
    /\ Cardinality(Threads) \in Nat \ {0}

(* What a change of one thread's program counter does to the sets of       *)
(* readers and writers.                                                    *)
LEMMA JumpSets ==
    ASSUME TypeOK, NEW t \in Threads, NEW from \in Labels, NEW to \in Labels,
           Jump(t, from, to)
    PROVE  JumpFacts(t, from, to)
<1>1. /\ pc[t] = from
      /\ pc' = [pc EXCEPT ![t] = to]
      /\ pc' \in [Threads -> Labels]
      /\ pc'[t] = to /\ \A u \in Threads \ {t} : pc'[u] = pc[u]
  BY DEF TypeOK, Jump
<1>2. /\ to \in ReaderLabels => Readers' = Readers \cup {t}
      /\ to \notin ReaderLabels => Readers' = Readers \ {t}
      /\ (from \in ReaderLabels <=> to \in ReaderLabels) => Readers' = Readers
  BY <1>1 DEF Readers, TypeOK
<1>3. /\ to \in WriterLabels => Writers' = Writers \cup {t}
      /\ to \notin WriterLabels => Writers' = Writers \ {t}
      /\ (from \in WriterLabels <=> to \in WriterLabels) => Writers' = Writers
  BY <1>1 DEF Writers, TypeOK
<1>4. /\ IsFiniteSet(Threads)
      /\ Readers \in SUBSET Threads
      /\ Readers' \in SUBSET Threads
      /\ t \in Readers <=> from \in ReaderLabels
      /\ t \in Writers <=> from \in WriterLabels
  BY <1>1, ThreadsAssumption DEF Readers, Writers
<1>5. /\ Cardinality(Threads) \in Nat
      /\ IsFiniteSet(Readers) /\ IsFiniteSet(Readers')
      /\ Cardinality(Readers) <= Cardinality(Threads)
      /\ Cardinality(Readers') <= Cardinality(Threads)
  BY <1>4, FS_CardinalityType, FS_Subset
<1>6. /\ Cardinality(Readers) \in Nat /\ Cardinality(Readers') \in Nat
  BY <1>5, FS_CardinalityType
<1>7. /\ Cardinality(Readers) = 0 <=> Readers = {}
      /\ Cardinality(Readers') = 0 <=> Readers' = {}
      /\ Cardinality(Threads) # 0
  BY <1>4, <1>5, FS_EmptySet
<1>8. /\ to \in ReaderLabels /\ from \notin ReaderLabels
            => Cardinality(Readers') = Cardinality(Readers) + 1
      /\ from \in ReaderLabels /\ to \notin ReaderLabels
            => Cardinality(Readers') = Cardinality(Readers) - 1
  BY <1>2, <1>4, <1>5, FS_AddElement, FS_RemoveElement
<1> QED
  BY <1>1, <1>2, <1>3, <1>4, <1>5, <1>6, <1>7, <1>8 DEF JumpFacts

(* Nobody holds anything at first.                                         *)
LEMMA InitIInv == Init => IInv
<1> SUFFICES ASSUME Init PROVE IInv
  OBVIOUS
<1>1. Readers = {} /\ Writers = {}
  BY DEF Init, Readers, Writers, ReaderLabels, WriterLabels
<1>2. Cardinality(Readers) = 0 /\ Cardinality(Threads) \in Nat
  BY <1>1, FS_EmptySet, FS_CardinalityType, ThreadsAssumption
<1> QED
  BY <1>1, <1>2, ThreadsAssumption
  DEF Init, IInv, TypeOK, Exclusion, LockInv, CountInv, TmpInv, ReleaseInv,
      FreeInv, HeldInv, OwnerInv, Labels, HoldLabels
-----------------------------------------------------------------------------
(* lock_lock follows the labels.                                           *)
LEMMA LockKept ==
    ASSUME IInv, NEW t \in Threads, NEW from, NEW to, JumpFacts(t, from, to),
           \/ lock_lock' = lock_lock /\ (from \in HoldLabels <=> to \in HoldLabels)
           \/ lock_lock = 0 /\ lock_lock' = t /\ to \in HoldLabels
           \/ lock_lock' = 0 /\ from \in HoldLabels /\ to \notin HoldLabels
    PROVE  LockInv' /\ lock_lock' \in Threads \cup {0}
<1>1. /\ pc[t] = from /\ pc'[t] = to
      /\ \A u \in Threads \ {t} : pc'[u] = pc[u]
  BY DEF JumpFacts
<1>2. LockInv /\ lock_lock \in Threads \cup {0} /\ \A u \in Threads : u # 0
  BY ThreadsAssumption DEF IInv, TypeOK
<1> QED
  BY <1>1, <1>2 DEF LockInv

(* Only one thread at a time is past the lock of lock_lock.                *)
LEMMA OneHolder ==
    ASSUME IInv, NEW t \in Threads, pc[t] \in HoldLabels
    PROVE  \A u \in Threads \ {t} : pc[u] \notin HoldLabels
BY DEF IInv, LockInv

(* The steps that several operations share.  Marked are the labels of      *)
(* which the invariant says more than who holds which lock word.           *)
Marked == {"r_write", "r_wl", "u_write", "q_zero", "u_rel", "u_own", "u_anon"}

(* A step that changes no counter and makes nobody a reader or a writer: it*)
(* moves between two labels and at most takes or frees lock_lock.          *)
LEMMA PlainStep ==
    ASSUME IInv, NEW t \in Threads, NEW from \in Labels \ Marked,
           NEW to \in Labels \ Marked, Jump(t, from, to),
           UNCHANGED <<write_lock, reader_count, tmp>>,
           from \in ReaderLabels <=> to \in ReaderLabels,
           from \in WriterLabels <=> to \in WriterLabels,
           \/ lock_lock' = lock_lock /\ (from \in HoldLabels <=> to \in HoldLabels)
           \/ lock_lock = 0 /\ lock_lock' = t /\ to \in HoldLabels
           \/ lock_lock' = 0 /\ from \in HoldLabels /\ to \notin HoldLabels
    PROVE  IInv' /\ Same
<1>1. write_lock' = write_lock /\ reader_count' = reader_count /\ tmp' = tmp
  OBVIOUS
<1>2. JumpFacts(t, from, to)
  BY JumpSets DEF IInv
<1>3. /\ pc[t] = from /\ pc'[t] = to
      /\ \A u \in Threads \ {t} : pc'[u] = pc[u]
      /\ pc' \in [Threads -> Labels]
      /\ Readers' = Readers /\ Writers' = Writers
  BY <1>2 DEF JumpFacts
<1>4. LockInv' /\ lock_lock' \in Threads \cup {0}
  BY <1>2, LockKept
<1>5. TypeOK' /\ Exclusion'
  BY <1>1, <1>3, <1>4 DEF IInv, TypeOK, Exclusion
<1>6. CountInv' /\ TmpInv' /\ ReleaseInv'
  BY <1>1, <1>3 DEF IInv, CountInv, TmpInv, ReleaseInv, Marked
<1>7. FreeInv' /\ HeldInv' /\ OwnerInv'
  BY <1>1, <1>3 DEF IInv, FreeInv, HeldInv, OwnerInv, OwnerLabels, Marked
<1> QED
  BY <1>3, <1>4, <1>5, <1>6, <1>7 DEF IInv, Same

(* lock(&rwl->lock_lock), at the three places where it is taken.           *)
LEMMA TakeStep ==
    ASSUME IInv, NEW t \in Threads,
           \/ TakeLockLock(t, "r_lock", "r_read")
           \/ TakeLockLock(t, "u_lock", "u_read")
           \/ TakeLockLock(t, "q_try", "q_check")
    PROVE  IInv' /\ Same
BY PlainStep
DEF TakeLockLock, Marked, Labels, LabelsLockR, LabelsUnlockR, LabelsRequire,
    HoldLabels, ReaderLabels, WriterLabels

(* unlock(&rwl->lock_lock), at the four places where it is freed.          *)
LEMMA FreeStep ==
    ASSUME IInv, NEW t \in Threads,
           \/ FreeLockLock(t, "r_unlock", "reading")
           \/ FreeLockLock(t, "u_unlock", "idle")
           \/ FreeLockLock(t, "q_back", "q_count")
           \/ FreeLockLock(t, "q_unlock", "writing")
    PROVE  IInv' /\ Same
BY PlainStep
DEF FreeLockLock, Marked, Labels, LabelsLockR, LabelsUnlockR, LabelsRequire,
    HoldLabels, ReaderLabels, WriterLabels

(* Entering a function, and the tests of rwl_require_w that change nothing. *)
LEMMA QuietStep ==
    ASSUME IInv, NEW t \in Threads, Call(t) \/ SeeFewReaders(t) \/ TryFails(t)
    PROVE  IInv' /\ Same
BY PlainStep
DEF Call, SeeFewReaders, TryFails, Marked, Labels, LabelsLockR, LabelsUnlockR,
    LabelsRequire, HoldLabels, ReaderLabels, WriterLabels

(* The load half of ++ and --: the thread remembers the count, under       *)
(* lock_lock.                                                              *)
LEMMA ReadStep ==
    ASSUME IInv, NEW t \in Threads,
           NEW from \in {"r_read", "u_read"}, NEW to \in {"r_write", "u_write"},
           from = "r_read" <=> to = "r_write",
           ReadCount(t, from, to)
    PROVE  IInv' /\ Same
<1>1. /\ write_lock' = write_lock /\ lock_lock' = lock_lock
      /\ reader_count' = reader_count
      /\ tmp' = [tmp EXCEPT ![t] = reader_count]
  BY DEF ReadCount
<1>2. JumpFacts(t, from, to)
  BY JumpSets
  DEF ReadCount, IInv, Labels, LabelsLockR, LabelsUnlockR
<1>3. /\ pc[t] = from /\ pc'[t] = to
      /\ \A u \in Threads \ {t} : pc'[u] = pc[u]
      /\ pc' \in [Threads -> Labels]
      /\ Readers' = Readers /\ Writers' = Writers
  BY <1>2 DEF JumpFacts, ReaderLabels, WriterLabels
<1>4. LockInv' /\ lock_lock' \in Threads \cup {0}
  BY <1>1, <1>2, LockKept DEF HoldLabels
<1>5. TypeOK' /\ Exclusion'
  BY <1>1, <1>3, <1>4 DEF IInv, TypeOK, Exclusion
<1>6. CountInv' /\ ReleaseInv' /\ FreeInv' /\ HeldInv' /\ OwnerInv'
  BY <1>1, <1>3
  DEF IInv, CountInv, ReleaseInv, FreeInv, HeldInv, OwnerInv, OwnerLabels,
      ReaderLabels, WriterLabels
<1>7. TmpInv'
  BY <1>1, <1>3 DEF IInv, TmpInv, TypeOK
<1> QED
  BY <1>3, <1>4, <1>5, <1>6, <1>7 DEF IInv, Same
(* rwl_lock_r: the increment.  A first reader becomes a reader only once it *)
(* has write_lock; a downgrade between read and write back is harmless      *)
(* here because the thread that reads 0 goes on to wait for write_lock.     *)
LEMMA IncStep ==
    ASSUME IInv, NEW t \in Threads, IncCount(t)
    PROVE  IInv' /\ AbsStep(t)
<1> DEFINE to == IF tmp[t] = 0 THEN "r_wl" ELSE "r_unlock"
<1>1. /\ write_lock' = write_lock /\ lock_lock' = lock_lock /\ tmp' = tmp
      /\ reader_count' = tmp[t] + 1
  BY DEF IncCount
<1>2. JumpFacts(t, "r_write", to)
  BY JumpSets DEF IncCount, IInv, Labels, LabelsLockR
<1>3. /\ pc[t] = "r_write" /\ pc'[t] = to
      /\ \A u \in Threads \ {t} : pc'[u] = pc[u]
      /\ pc' \in [Threads -> Labels]
      /\ Writers' = Writers
      /\ Cardinality(Readers) \in Nat
      /\ Cardinality(Threads) \in Nat \ {0}
      /\ Cardinality(Readers') \in 0 .. Cardinality(Threads)
      /\ Cardinality(Readers) = 0 <=> Readers = {}
  BY <1>2 DEF JumpFacts, WriterLabels
<1>4. /\ tmp[t] = 0 => Readers' = Readers
      /\ tmp[t] # 0 => /\ Readers' = Readers \cup {t}
                       /\ Cardinality(Readers') = Cardinality(Readers) + 1
  BY <1>2 DEF JumpFacts, ReaderLabels
<1>5. \A u \in Threads \ {t} : pc[u] \notin HoldLabels
  BY <1>3, OneHolder DEF HoldLabels
<1>6. /\ reader_count = Cardinality(Readers)
      /\ tmp[t] \in Nat
      /\ tmp[t] # 0 => tmp[t] = Cardinality(Readers)
      /\ tmp[t] = 0 => Cardinality(Readers) <= 1
  BY <1>3, <1>5 DEF IInv, CountInv, TmpInv, TypeOK, HoldLabels
<1>7. LockInv' /\ lock_lock' \in Threads \cup {0}
  BY <1>1, <1>2, LockKept DEF HoldLabels
<1>8. TypeOK'
  BY <1>1, <1>3, <1>4, <1>6, <1>7 DEF IInv, TypeOK
<1>9. Exclusion'
  BY <1>3, <1>4, <1>6 DEF IInv, Exclusion
<1>10. CountInv'
  BY <1>1, <1>3, <1>4, <1>5, <1>6 DEF CountInv, HoldLabels
<1>11. TmpInv' /\ ReleaseInv'
  BY <1>3, <1>5 DEF TmpInv, ReleaseInv, HoldLabels
<1>12. FreeInv' /\ HeldInv' /\ OwnerInv'
  BY <1>1, <1>3, <1>4, <1>6
  DEF IInv, FreeInv, HeldInv, OwnerInv, OwnerLabels, ReaderLabels, WriterLabels
<1>13. AbsStep(t)
  <2>1. CASE tmp[t] = 0
    BY <1>3, <1>4, <2>1 DEF AbsStep, Same
  <2>2. CASE tmp[t] # 0
    <3>1. t \notin Readers /\ Writers = {}
      BY <1>2, <1>3, <1>6, <2>2 DEF JumpFacts, ReaderLabels, IInv, Exclusion
    <3> QED
      BY <1>3, <1>4, <2>2, <3>1 DEF AbsStep, Abstract!AcquireR
  <2> QED BY <2>1, <2>2
<1> QED
  BY <1>7, <1>8, <1>9, <1>10, <1>11, <1>12, <1>13 DEF IInv

(* The first reader, or a writer, gets write_lock: nobody is inside.        *)
LEMMA TakeWriteStep ==
    ASSUME IInv, NEW t \in Threads,
           NEW from \in {"r_wl", "w_lock"}, NEW to \in {"r_unlock", "writing"},
           from = "r_wl" <=> to = "r_unlock",
           TakeWriteLock(t, from, to)
    PROVE  IInv' /\ AbsStep(t)
<1>1. /\ write_lock = 0 /\ write_lock' = t /\ lock_lock' = lock_lock
      /\ reader_count' = reader_count /\ tmp' = tmp
  BY DEF TakeWriteLock
<1>2. JumpFacts(t, from, to)
  BY JumpSets DEF TakeWriteLock, IInv, Labels, LabelsLockR
<1>3. /\ pc[t] = from /\ pc'[t] = to
      /\ \A u \in Threads \ {t} : pc'[u] = pc[u]
      /\ pc' \in [Threads -> Labels]
  BY <1>2 DEF JumpFacts
<1>4. /\ Readers = {} /\ Writers = {}
      /\ \A u \in Threads : pc[u] \notin {"u_rel", "u_own", "u_anon"}
  BY <1>1 DEF IInv, FreeInv, ReleaseInv
<1>5. /\ from = "r_wl" => Readers' = {t} /\ Writers' = {} /\ Cardinality(Readers') = 1
      /\ from = "w_lock" => Readers' = {} /\ Writers' = {t} /\ Cardinality(Readers') = 0
      /\ Cardinality(Readers) = 0
  BY <1>2, <1>4 DEF JumpFacts, ReaderLabels, WriterLabels
<1>6. from = "r_wl" => \A u \in Threads \ {t} : pc[u] \notin HoldLabels
  BY <1>3, OneHolder DEF HoldLabels
<1>7. LockInv' /\ lock_lock' \in Threads \cup {0}
  BY <1>1, <1>2, LockKept DEF HoldLabels
<1>8. TypeOK' /\ Exclusion'
  BY <1>1, <1>3, <1>5, <1>7 DEF IInv, TypeOK, Exclusion
<1>9. CountInv'
  BY <1>1, <1>3, <1>5, <1>6 DEF IInv, CountInv, HoldLabels
<1>10. TmpInv' /\ ReleaseInv'
  BY <1>1, <1>3, <1>4 DEF IInv, TmpInv, ReleaseInv
<1>11. FreeInv' /\ HeldInv' /\ OwnerInv'
  BY <1>1, <1>3, ThreadsAssumption
  DEF FreeInv, HeldInv, OwnerInv, OwnerLabels, ReaderLabels, WriterLabels
<1>12. AbsStep(t)
  BY <1>4, <1>5 DEF AbsStep, Abstract!AcquireR, Abstract!AcquireW
<1> QED
  BY <1>7, <1>8, <1>9, <1>10, <1>11, <1>12 DEF IInv

(* rwl_unlock_r: the decrement.  Unless the count drops to 0 another reader *)
(* remains.                                                                 *)
LEMMA DecStep ==
    ASSUME IInv, NEW t \in Threads, DecCount(t)
    PROVE  IInv' /\ AbsStep(t)
<1> DEFINE to == IF tmp[t] = 1 THEN "u_rel" ELSE "u_own"
<1>1. /\ write_lock' = write_lock /\ lock_lock' = lock_lock /\ tmp' = tmp
      /\ reader_count' = tmp[t] - 1
  BY DEF DecCount
<1>2. JumpFacts(t, "u_write", to)
  BY JumpSets DEF DecCount, IInv, Labels, LabelsUnlockR
<1>3. /\ pc[t] = "u_write" /\ pc'[t] = to
      /\ \A u \in Threads \ {t} : pc'[u] = pc[u]
      /\ pc' \in [Threads -> Labels]
      /\ Readers' = Readers \ {t} /\ Writers' = Writers /\ t \in Readers
      /\ Cardinality(Readers') = Cardinality(Readers) - 1
      /\ Cardinality(Readers) \in 0 .. Cardinality(Threads)
      /\ Cardinality(Readers') \in 0 .. Cardinality(Threads)
      /\ Cardinality(Threads) \in Nat
      /\ Cardinality(Readers') = 0 <=> Readers' = {}
  BY <1>2 DEF JumpFacts, WriterLabels, ReaderLabels
<1>4. \A u \in Threads \ {t} : pc[u] \notin HoldLabels
  BY <1>3, OneHolder DEF HoldLabels
<1>5. /\ reader_count = Cardinality(Readers)
      /\ tmp[t] = Cardinality(Readers)
      /\ write_lock # 0 /\ Writers = {}
  BY <1>3, <1>4 DEF IInv, CountInv, TmpInv, FreeInv, HoldLabels, Exclusion
<1>6. LockInv' /\ lock_lock' \in Threads \cup {0}
  BY <1>1, <1>2, LockKept DEF HoldLabels
<1>7. TypeOK' /\ Exclusion'
  BY <1>1, <1>3, <1>5, <1>6 DEF IInv, TypeOK, Exclusion
<1>8. CountInv'
  BY <1>1, <1>3, <1>4, <1>5 DEF CountInv, HoldLabels
<1>9. TmpInv' /\ ReleaseInv'
  BY <1>1, <1>3, <1>4, <1>5 DEF TmpInv, ReleaseInv, HoldLabels
<1>10. FreeInv' /\ OwnerInv'
  BY <1>1, <1>3, <1>5 DEF IInv, FreeInv, OwnerInv, OwnerLabels
<1>11. HeldInv'
  <2>1. CASE tmp[t] = 1
    BY <1>3, <2>1 DEF HeldInv, OwnerLabels
  <2>2. CASE tmp[t] # 1
    <3>1. PICK u \in Readers' : TRUE
      BY <1>3, <1>5, <2>2
    <3>2. u \in Threads /\ pc'[u] \in ReaderLabels
      BY <3>1 DEF Readers
    <3> QED
      BY <3>2 DEF HeldInv, OwnerLabels, ReaderLabels
  <2> QED BY <2>1, <2>2
<1>12. AbsStep(t)
  BY <1>3 DEF AbsStep, Abstract!ReleaseR
<1> QED
  BY <1>6, <1>7, <1>8, <1>9, <1>10, <1>11, <1>12 DEF IInv

(* The last reader, or the writer, gives write_lock back.                   *)
LEMMA ReleaseStep ==
    ASSUME IInv, NEW t \in Threads,
           NEW from \in {"u_rel", "writing"}, NEW to \in {"u_unlock", "idle"},
           from = "u_rel" <=> to = "u_unlock",
           StoreWriteLock(t, from, to, 0)
    PROVE  IInv' /\ AbsStep(t)
<1>1. /\ write_lock' = 0 /\ lock_lock' = lock_lock
      /\ reader_count' = reader_count /\ tmp' = tmp
  BY DEF StoreWriteLock
<1>2. JumpFacts(t, from, to)
  BY JumpSets DEF StoreWriteLock, IInv, Labels, LabelsUnlockR
<1>3. /\ pc[t] = from /\ pc'[t] = to
      /\ \A u \in Threads \ {t} : pc'[u] = pc[u]
      /\ pc' \in [Threads -> Labels]
      /\ Readers' = Readers /\ Writers' = Writers \ {t}
      /\ t \in Writers <=> from = "writing"
  BY <1>2 DEF JumpFacts, ReaderLabels, WriterLabels
<1>4. Readers' = {} /\ Writers' = {}
  BY <1>3 DEF IInv, Exclusion, ReleaseInv
<1>5. \A u \in Threads \ {t} : pc[u] \notin {"u_rel", "u_own", "u_anon"}
  <2>1. CASE from = "u_rel"
    BY <1>3, <2>1, OneHolder DEF HoldLabels
  <2>2. CASE from = "writing"
    BY <1>3, <1>4, <2>2 DEF IInv, ReleaseInv
  <2> QED BY <2>1, <2>2
<1>6. LockInv' /\ lock_lock' \in Threads \cup {0}
  BY <1>1, <1>2, LockKept DEF HoldLabels
<1>7. TypeOK' /\ Exclusion'
  BY <1>1, <1>3, <1>4, <1>6 DEF IInv, TypeOK, Exclusion
<1>8. CountInv'
  BY <1>1, <1>3 DEF IInv, CountInv
<1>9. TmpInv' /\ ReleaseInv'
  BY <1>1, <1>3, <1>5 DEF IInv, TmpInv, ReleaseInv
<1>10. FreeInv' /\ HeldInv' /\ OwnerInv'
  BY <1>1, <1>4, ThreadsAssumption DEF FreeInv, HeldInv, OwnerInv
<1>11. AbsStep(t)
  <2>1. CASE from = "u_rel"
    BY <1>3, <1>4, <2>1 DEF AbsStep, Same, IInv, ReleaseInv
  <2>2. CASE from = "writing"
    <3>1. Writers = {t}
      BY <1>3, <2>2 DEF IInv, Exclusion
    <3> QED
      BY <1>3, <1>4, <3>1 DEF AbsStep, Abstract!ReleaseW
  <2> QED BY <2>1, <2>2
<1> QED
  BY <1>6, <1>7, <1>8, <1>9, <1>10, <1>11 DEF IInv

(* rwl_unlock_r of the reader that took write_lock while others stay: the   *)
(* test of the owner and the store of -1.                                   *)
LEMMA OwnStep ==
    ASSUME IInv, NEW t \in Threads,
           TestOwner(t) \/ StoreWriteLock(t, "u_anon", "u_unlock", -1)
    PROVE  IInv' /\ Same
<1>1. PICK from \in {"u_own", "u_anon"}, to \in {"u_anon", "u_unlock"} :
        /\ Jump(t, from, to)
        /\ from = "u_own" => write_lock' = write_lock
        /\ from = "u_own" /\ to = "u_unlock" => write_lock # t
        /\ from = "u_anon" => write_lock' = -1 /\ to = "u_unlock"
        /\ lock_lock' = lock_lock /\ reader_count' = reader_count /\ tmp' = tmp
  BY DEF TestOwner, StoreWriteLock
<1>2. JumpFacts(t, from, to)
  BY <1>1, JumpSets DEF IInv, Labels, LabelsUnlockR
<1>3. /\ pc[t] = from /\ pc'[t] = to
      /\ \A u \in Threads \ {t} : pc'[u] = pc[u]
      /\ pc' \in [Threads -> Labels]
      /\ Readers' = Readers /\ Writers' = Writers
  BY <1>2 DEF JumpFacts, ReaderLabels, WriterLabels
<1>4. \A u \in Threads \ {t} : pc[u] \notin HoldLabels
  BY <1>3, OneHolder DEF HoldLabels
<1>5. LockInv' /\ lock_lock' \in Threads \cup {0}
  BY <1>1, <1>2, LockKept DEF HoldLabels
<1>6. TypeOK' /\ Exclusion'
  BY <1>1, <1>3, <1>5 DEF IInv, TypeOK, Exclusion
<1>7. CountInv' /\ TmpInv' /\ ReleaseInv'
  BY <1>1, <1>3, <1>4 DEF IInv, CountInv, TmpInv, ReleaseInv, HoldLabels
<1>8. OwnerInv'
  BY <1>1, <1>3, ThreadsAssumption DEF IInv, OwnerInv, OwnerLabels, TypeOK
<1>9. FreeInv' /\ HeldInv'
  <2>1. CASE from = "u_own"
    BY <1>1, <1>3, <2>1
    DEF IInv, FreeInv, HeldInv, OwnerLabels, ReaderLabels, WriterLabels
  <2>2. CASE from = "u_anon"
    <3>1. PICK u \in Readers : u \in Threads /\ pc[u] \in ReaderLabels
      BY <1>3, <2>2 DEF IInv, ReleaseInv, Readers
    <3>2. u # t
      BY <1>3, <2>2, <3>1 DEF ReaderLabels
    <3> QED
      BY <1>1, <1>3, <2>2, <3>1, <3>2
      DEF FreeInv, HeldInv, OwnerLabels, ReaderLabels
  <2> QED BY <2>1, <2>2
<1> QED
  BY <1>3, <1>5, <1>6, <1>7, <1>8, <1>9 DEF IInv, Same

(* rwl_require_w under lock_lock: the sole reader becomes the writer.       *)
LEMMA CheckStep ==
    ASSUME IInv, NEW t \in Threads, CheckCount(t)
    PROVE  IInv' /\ Same
<1> DEFINE to == IF reader_count = 1 THEN "q_zero" ELSE "q_back"
<1>1. /\ write_lock' = write_lock /\ lock_lock' = lock_lock
      /\ reader_count' = reader_count /\ tmp' = tmp
  BY DEF CheckCount
<1>2. JumpFacts(t, "q_check", to)
  BY JumpSets DEF CheckCount, IInv, Labels, LabelsRequire
<1>3. /\ pc[t] = "q_check" /\ pc'[t] = to
      /\ \A u \in Threads \ {t} : pc'[u] = pc[u]
      /\ pc' \in [Threads -> Labels]
      /\ Readers' = Readers /\ Writers' = Writers
  BY <1>2 DEF JumpFacts, ReaderLabels, WriterLabels
<1>4. LockInv' /\ lock_lock' \in Threads \cup {0}
  BY <1>1, <1>2, LockKept DEF HoldLabels
<1>5. TypeOK' /\ Exclusion'
  BY <1>1, <1>3, <1>4 DEF IInv, TypeOK, Exclusion
<1>6. CountInv' /\ TmpInv' /\ ReleaseInv'
  BY <1>1, <1>3 DEF IInv, CountInv, TmpInv, ReleaseInv
<1>7. FreeInv' /\ HeldInv' /\ OwnerInv'
  BY <1>1, <1>3
  DEF IInv, FreeInv, HeldInv, OwnerInv, OwnerLabels, ReaderLabels, WriterLabels
<1> QED
  BY <1>3, <1>4, <1>5, <1>6, <1>7 DEF IInv, Same

(* rwl_require_w's reader_count = 0: the upgrading reader was the only one. *)
LEMMA ZeroStep ==
    ASSUME IInv, NEW t \in Threads, ZeroCount(t)
    PROVE  IInv' /\ AbsStep(t)
<1>1. /\ write_lock' = write_lock /\ lock_lock' = lock_lock
      /\ reader_count' = 0 /\ tmp' = tmp
  BY DEF ZeroCount
<1>2. JumpFacts(t, "q_zero", "q_unlock")
  BY JumpSets DEF ZeroCount, IInv, Labels, LabelsRequire
<1>3. /\ pc[t] = "q_zero" /\ pc'[t] = "q_unlock"
      /\ \A u \in Threads \ {t} : pc'[u] = pc[u]
      /\ pc' \in [Threads -> Labels]
      /\ Readers' = Readers \ {t} /\ Writers' = Writers \cup {t} /\ t \in Readers
      /\ Cardinality(Readers') = Cardinality(Readers) - 1
      /\ Cardinality(Readers) \in Nat /\ Cardinality(Threads) \in Nat
      /\ Cardinality(Readers') = 0 <=> Readers' = {}
  BY <1>2 DEF JumpFacts, WriterLabels, ReaderLabels
<1>4. \A u \in Threads \ {t} : pc[u] \notin HoldLabels
  BY <1>3, OneHolder DEF HoldLabels
<1>5. /\ reader_count = Cardinality(Readers) /\ reader_count = 1
      /\ write_lock # 0 /\ Writers = {}
  BY <1>3, <1>4 DEF IInv, CountInv, TmpInv, FreeInv, HoldLabels, Exclusion
<1>6. Readers' = {} /\ Writers' = {t} /\ Readers = {t}
  BY <1>3, <1>5
<1>7. LockInv' /\ lock_lock' \in Threads \cup {0}
  BY <1>1, <1>2, LockKept DEF HoldLabels
<1>8. TypeOK' /\ Exclusion'
  BY <1>1, <1>3, <1>6, <1>7 DEF IInv, TypeOK, Exclusion
<1>9. CountInv'
  BY <1>1, <1>3, <1>4, <1>6 DEF CountInv, HoldLabels
<1>10. TmpInv' /\ ReleaseInv'
  BY <1>3, <1>4 DEF TmpInv, ReleaseInv, HoldLabels
<1>11. FreeInv' /\ HeldInv' /\ OwnerInv'
  BY <1>1, <1>3, <1>5
  DEF IInv, FreeInv, HeldInv, OwnerInv, OwnerLabels, ReaderLabels, WriterLabels
<1>12. AbsStep(t)
  BY <1>5, <1>6 DEF AbsStep, Abstract!Upgrade
<1> QED
  BY <1>5, <1>6, <1>7, <1>8, <1>9, <1>10, <1>11, <1>12 DEF IInv

(* rwl_drop_w: the store of 1 without lock_lock.                            *)
LEMMA DropStep ==
    ASSUME IInv, NEW t \in Threads, drop_w(t)
    PROVE  IInv' /\ AbsStep(t)
<1>1. /\ write_lock' = write_lock /\ lock_lock' = lock_lock
      /\ reader_count' = 1 /\ tmp' = tmp
  BY DEF drop_w
<1>2. JumpFacts(t, "writing", "reading")
  BY JumpSets DEF drop_w, IInv, Labels
<1>3. /\ pc[t] = "writing" /\ pc'[t] = "reading"
      /\ \A u \in Threads \ {t} : pc'[u] = pc[u]
      /\ pc' \in [Threads -> Labels]
      /\ Readers' = Readers \cup {t} /\ Writers' = Writers \ {t} /\ t \in Writers
      /\ Cardinality(Readers') = Cardinality(Readers) + 1
      /\ Cardinality(Readers) = 0 <=> Readers = {}
      /\ Cardinality(Threads) \in Nat \ {0}
  BY <1>2 DEF JumpFacts, WriterLabels, ReaderLabels
<1>4. Writers = {t} /\ Readers = {} /\ Readers' = {t} /\ Writers' = {}
  BY <1>3 DEF IInv, Exclusion
<1>5. /\ write_lock # 0
      /\ \A u \in Threads : pc[u] \notin {"u_write", "q_zero", "u_rel", "u_own", "u_anon"}
  BY <1>4 DEF IInv, FreeInv, ReleaseInv, Readers, ReaderLabels
<1>6. \A u \in Threads : pc[u] = "r_write" => tmp[u] = 0
  <2> SUFFICES ASSUME NEW u \in Threads, pc[u] = "r_write" PROVE tmp[u] = 0
    OBVIOUS
  <2>1. \A v \in Threads : pc[v] # "r_wl"
    BY OneHolder DEF HoldLabels
  <2> QED
    BY <2>1, <1>3, <1>4 DEF IInv, CountInv, TmpInv
<1>7. LockInv' /\ lock_lock' \in Threads \cup {0}
  BY <1>1, <1>2, LockKept DEF HoldLabels
<1>8. TypeOK' /\ Exclusion'
  BY <1>1, <1>3, <1>4, <1>7 DEF IInv, TypeOK, Exclusion
<1>9. CountInv'
  <2>1. Cardinality(Readers') = 1
    BY <1>3, <1>4
  <2> QED
    BY <1>1, <2>1 DEF CountInv
<1>10. TmpInv' /\ ReleaseInv'
  BY <1>1, <1>3, <1>5, <1>6 DEF TmpInv, ReleaseInv
<1>11. FreeInv' /\ HeldInv' /\ OwnerInv'
  BY <1>1, <1>3, <1>5
  DEF IInv, FreeInv, HeldInv, OwnerInv, OwnerLabels, ReaderLabels, WriterLabels
<1>12. AbsStep(t)
  BY <1>4 DEF AbsStep, Abstract!Downgrade
<1> QED
  BY <1>4, <1>7, <1>8, <1>9, <1>10, <1>11, <1>12 DEF IInv

(* The induction step, one case per operation, and what the step is to the *)
(* abstract lock.                                                          *)
LEMMA NextStep ==
    ASSUME IInv, NEW t \in Threads, Call(t) \/ Step(t)
    PROVE  IInv' /\ AbsStep(t)
<1>1. CASE Call(t)
  BY <1>1, QuietStep DEF AbsStep
<1>2. CASE lock_r(t)
  BY <1>2, TakeStep, ReadStep, IncStep, TakeWriteStep, FreeStep DEF lock_r, AbsStep
<1>3. CASE unlock_r(t)
  BY <1>3, TakeStep, ReadStep, DecStep, ReleaseStep, OwnStep, FreeStep
  DEF unlock_r, AbsStep
<1>4. CASE lock_w(t)
  BY <1>4, TakeWriteStep DEF lock_w
<1>5. CASE unlock_w(t)
  BY <1>5, ReleaseStep DEF unlock_w
<1>6. CASE require_w(t)
  BY <1>6, QuietStep, TakeStep, CheckStep, FreeStep, ZeroStep DEF require_w, AbsStep
<1>7. CASE drop_w(t)
  BY <1>7, DropStep
<1> QED
  BY <1>1, <1>2, <1>3, <1>4, <1>5, <1>6, <1>7 DEF Step

(* Every step of every thread keeps the inductive invariant.               *)
LEMMA NextIInv == IInv /\ [Next]_vars => IInv'
<1> SUFFICES ASSUME IInv, [Next]_vars PROVE IInv'
  OBVIOUS
<1>1. CASE UNCHANGED vars
  <2>1. /\ UNCHANGED <<write_lock, lock_lock, reader_count, pc, tmp>>
        /\ Readers' = Readers /\ Writers' = Writers
    BY <1>1 DEF vars, Readers, Writers
  <2> QED
    BY <2>1 DEF IInv, TypeOK, Exclusion, LockInv, CountInv, TmpInv, ReleaseInv,
                FreeInv, HeldInv, OwnerInv
<1>2. CASE Next
  BY <1>2, NextStep DEF Next
<1> QED
  BY <1>1, <1>2

(* The inductive invariant holds in every reachable state.                 *)
LEMMA Invariance == Spec => []IInv
BY InitIInv, NextIInv, PTL DEF Spec

-----------------------------------------------------------------------------
(* Type correctness; in particular reader_count, which rwl_drop_w sets     *)
(* without lock_lock, never exceeds the number of threads or drops below 0.*)
THEOREM TypeCorrect == Spec => []TypeOK
<1>1. IInv => TypeOK
  BY DEF IInv
<1> QED
  BY <1>1, Invariance, PTL

(* rwl_lock_r/w, rwl_require_w and rwl_drop_w keep readers and a writer     *)
(* apart whatever the interleaving and however many threads there are.      *)
THEOREM MutualExclusion == Spec => []Exclusion
<1>1. IInv => Exclusion
  BY DEF IInv
<1> QED
  BY <1>1, Invariance, PTL

(* assert(owner != mypid) in lock() never fires on either word of the lock. *)
THEOREM AssertionHolds == Spec => []NoSelfWait
<1>1. IInv => NoSelfWait
  BY DEF IInv, NoSelfWait, LockInv, HoldLabels, OwnerInv, OwnerLabels,
         ReaderLabels, WriterLabels
<1> QED
  BY <1>1, Invariance, PTL

(* A lock nobody uses is free: no sequence of calls leaks the word or the   *)
(* count.                                                                   *)
THEOREM NothingLeaks == Spec => []FreeWhenUnused
<1>1. IInv => FreeWhenUnused
  <2> SUFFICES ASSUME IInv, \A t \in Threads : pc[t] \in {"idle", "r_lock", "w_lock"}
               PROVE  write_lock = 0 /\ lock_lock = 0 /\ reader_count = 0
    BY DEF FreeWhenUnused
  <2>1. write_lock = 0
    BY DEF IInv, HeldInv, OwnerLabels, ReaderLabels, WriterLabels
  <2>2. lock_lock = 0
    BY DEF IInv, TypeOK, LockInv, HoldLabels
  <2>3. reader_count = 0
    <3>1. Readers = {}
      BY DEF Readers, ReaderLabels
    <3> QED
      BY <3>1, FS_EmptySet DEF IInv, CountInv
  <2> QED
    BY <2>1, <2>2, <2>3
<1> QED
  BY <1>1, Invariance, PTL

(* The code implements the abstract readers-writer lock: a first reader    *)
(* enters with the compare-and-swap on write_lock, a further one with its  *)
(* increment, and rwl_require_w succeeds with its store of 0.              *)
THEOREM Refinement == Spec => RefinesReadersWriters
<1>1. Init => Abstract!Init
  BY DEF Init, Abstract!Init, Readers, Writers, ReaderLabels, WriterLabels
<1>2. IInv /\ [Next]_vars => [Abstract!Next]_(Abstract!vars)
  <2> SUFFICES ASSUME IInv, [Next]_vars PROVE [Abstract!Next]_(Abstract!vars)
    OBVIOUS
  <2>1. CASE UNCHANGED vars
    BY <2>1 DEF vars, Abstract!vars, Readers, Writers
  <2>2. CASE Next
    BY <2>2, NextStep DEF Next, AbsStep, Same, Abstract!Next, Abstract!vars
  <2> QED
    BY <2>1, <2>2
<1> QED
  BY <1>1, <1>2, Invariance, PTL DEF Spec, RefinesReadersWriters, Abstract!Spec
-----------------------------------------------------------------------------
(* Without rwl_drop_w nobody writes reader_count unless he holds lock_lock:*)
(* what a thread has loaded stays current, and the first reader waits for  *)
(* write_lock alone.                                                       *)
NoDropInv ==
    Droppers = {} =>
        \A t \in Threads : /\ pc[t] = "r_write" => tmp[t] = reader_count
                           /\ pc[t] = "r_wl" => Readers = {}

(* What a thread does without lock_lock changes neither the count nor what *)
(* others have loaded, and makes nobody a reader, unless it is rwl_drop_w. *)
LEMMA StepWithoutLock ==
    ASSUME Droppers = {}, TypeOK, NEW t \in Threads, Call(t) \/ Step(t),
           pc[t] \notin HoldLabels
    PROVE  reader_count' = reader_count /\ tmp' = tmp /\ Readers' \subseteq Readers
<1>1. PICK from \in Labels, to \in Labels :
          /\ Jump(t, from, to) /\ reader_count' = reader_count /\ tmp' = tmp
          /\ to \in ReaderLabels => from \in ReaderLabels
  <2>1. CASE Call(t)
    BY <2>1 DEF Call, Labels, LabelsLockR, LabelsUnlockR, LabelsRequire, ReaderLabels
  <2>2. CASE lock_r(t)
    BY <2>2 DEF lock_r, TakeLockLock, ReadCount, IncCount, TakeWriteLock, FreeLockLock,
                Jump, HoldLabels, Labels, LabelsLockR, ReaderLabels
  <2>3. CASE unlock_r(t)
    BY <2>3 DEF unlock_r, TakeLockLock, ReadCount, DecCount, StoreWriteLock, TestOwner,
                FreeLockLock, Jump, HoldLabels, Labels, LabelsUnlockR, ReaderLabels
  <2>4. CASE lock_w(t) \/ unlock_w(t)
    BY <2>4 DEF lock_w, unlock_w, TakeWriteLock, StoreWriteLock, Labels, ReaderLabels
  <2>5. CASE require_w(t)
    BY <2>5 DEF require_w, SeeFewReaders, TakeLockLock, TryFails, CheckCount, FreeLockLock,
                ZeroCount, Jump, HoldLabels, Labels, LabelsRequire, ReaderLabels
  <2>6. CASE drop_w(t)
    BY <2>6 DEF drop_w
  <2> QED
    BY <2>1, <2>2, <2>3, <2>4, <2>5, <2>6 DEF Step
<1> QED
  BY <1>1 DEF Jump, Readers, TypeOK

(* The step that takes a thread to the load's or the increment's label.    *)
LEMMA StepToMark ==
    ASSUME IInv, NoDropInv, Droppers = {}, NEW t \in Threads, Call(t) \/ Step(t)
    PROVE  /\ pc'[t] = "r_write" => tmp'[t] = reader_count'
           /\ pc'[t] = "r_wl" => Readers' = {}
<1>1. CASE ReadCount(t, "r_read", "r_write")
  BY <1>1 DEF ReadCount, Jump, IInv, TypeOK
<1>2. CASE IncCount(t)
  <2>1. pc[t] = "r_write" /\ tmp[t] = reader_count
    BY <1>2 DEF IncCount, Jump, NoDropInv
  <2>2. \A u \in Threads : pc[u] # "r_wl"
    BY <2>1, OneHolder DEF HoldLabels
  <2>3. tmp[t] = 0 => Readers = {}
    <3>1. Readers \in SUBSET Threads /\ IsFiniteSet(Readers)
      BY ThreadsAssumption, FS_Subset DEF Readers
    <3> QED
      BY <2>1, <2>2, <3>1, FS_EmptySet DEF IInv, CountInv
  <2>4. /\ pc'[t] # "r_write"
        /\ pc'[t] = "r_wl" => tmp[t] = 0 /\ Readers' = Readers
    BY <1>2 DEF IncCount, Jump, IInv, TypeOK, Readers, ReaderLabels
  <2> QED
    BY <2>3, <2>4
<1>3. CASE ~ReadCount(t, "r_read", "r_write") /\ ~IncCount(t)
  <2>1. pc'[t] \notin {"r_write", "r_wl"}
    <3>1. CASE Call(t)
      BY <3>1 DEF Call, Jump, IInv, TypeOK
    <3>2. CASE lock_r(t)
      BY <1>3, <3>2 DEF lock_r, TakeLockLock, TakeWriteLock, FreeLockLock, Jump, IInv, TypeOK
    <3>3. CASE unlock_r(t)
      BY <3>3 DEF unlock_r, TakeLockLock, ReadCount, DecCount, StoreWriteLock, TestOwner,
                  FreeLockLock, Jump, IInv, TypeOK
    <3>4. CASE lock_w(t) \/ unlock_w(t) \/ drop_w(t)
      BY <3>4 DEF lock_w, unlock_w, drop_w, TakeWriteLock, StoreWriteLock, Jump, IInv, TypeOK
    <3>5. CASE require_w(t)
      BY <3>5 DEF require_w, SeeFewReaders, TakeLockLock, TryFails, CheckCount,
                  FreeLockLock, ZeroCount, Jump, IInv, TypeOK
    <3> QED
      BY <3>1, <3>2, <3>3, <3>4, <3>5 DEF Step
  <2> QED
    BY <2>1
<1> QED
  BY <1>1, <1>2, <1>3

(* A step moves one thread only.                                           *)
LEMMA OtherStays ==
    ASSUME TypeOK, NEW t \in Threads, Call(t) \/ Step(t), NEW u \in Threads \ {t}
    PROVE  pc'[u] = pc[u]
BY DEF TypeOK, Call, Step, lock_r, unlock_r, lock_w, unlock_w, require_w, drop_w,
       TakeLockLock, ReadCount, IncCount, TakeWriteLock, FreeLockLock, DecCount,
       StoreWriteLock, TestOwner, SeeFewReaders, TryFails, CheckCount, ZeroCount, Jump

(* NoDropInv is kept.                                                      *)
LEMMA NoDropStep == IInv /\ NoDropInv /\ [Next]_vars => NoDropInv'
<1> SUFFICES ASSUME IInv, NoDropInv, [Next]_vars, Droppers = {}, NEW u \in Threads
             PROVE  /\ pc'[u] = "r_write" => tmp'[u] = reader_count'
                    /\ pc'[u] = "r_wl" => Readers' = {}
  BY DEF NoDropInv
<1>1. CASE UNCHANGED vars
  BY <1>1 DEF vars, NoDropInv, Readers
<1>2. CASE Next
  <2>1. PICK t \in Threads : Call(t) \/ Step(t)
    BY <1>2 DEF Next
  <2>2. CASE t = u
    BY <2>1, <2>2, StepToMark
  <2>3. CASE t # u /\ pc'[u] \in {"r_write", "r_wl"}
    <3>1. pc'[u] = pc[u]
      BY <2>1, <2>3, OtherStays DEF IInv
    <3>2. pc[t] \notin HoldLabels
      BY <2>3, <3>1, OneHolder DEF HoldLabels
    <3>3. reader_count' = reader_count /\ tmp' = tmp /\ Readers' \subseteq Readers
      BY <2>1, <3>2, StepWithoutLock DEF IInv
    <3> QED
      BY <3>1, <3>3 DEF NoDropInv
  <2> QED
    BY <2>2, <2>3
<1> QED
  BY <1>1, <1>2

(* The argument of StuckOnlyByUpgradeOrDrop in one state.  If lock_lock is *)
(* taken, its owner waits for write_lock, which others hold, and who is    *)
(* stuck is no writer: they are readers.  If it is free, somebody waits in *)
(* rwl_require_w, and the reader that he waits for does so too.            *)
LEMMA StuckHow == IInv /\ NoDropInv => StuckOnlyByUpgradeOrDrop
<1> SUFFICES ASSUME IInv, NoDropInv, Stuck PROVE ByUpgradeOrDrop
  BY DEF StuckOnlyByUpgradeOrDrop
<1>1. \A t \in Threads : pc[t] = "idle" \/ Waiting(t)
  BY DEF Stuck
<1>2. PICK w \in Threads : Waiting(w)
  BY DEF Stuck
<1>3. Writers = {}
  BY <1>1 DEF Waiting, Writers, WriterLabels
<1>4. write_lock # 0 => Readers # {}
  <2> SUFFICES ASSUME write_lock # 0 PROVE Readers # {}
    OBVIOUS
  <2>1. PICK h \in Threads : pc[h] \in OwnerLabels \ {"u_own", "u_anon"}
    BY DEF IInv, HeldInv
  <2>2. pc[h] # "u_rel" /\ h \notin Writers
    BY <1>1, <1>3 DEF Waiting
  <2> QED
    BY <2>1, <2>2 DEF OwnerLabels, Readers, Writers
<1>5. CASE lock_lock # 0
  <2>1. PICK o \in Threads : lock_lock = o /\ pc[o] \in HoldLabels
    BY <1>5 DEF IInv, TypeOK, LockInv
  <2>2. pc[o] = "r_wl" /\ write_lock # 0
    BY <1>1, <2>1 DEF Waiting, HoldLabels
  <2>3. Readers # {}
    BY <1>4, <2>2
  <2>4. Droppers # {}
    BY <2>2, <2>3 DEF NoDropInv
  <2> QED
    BY <2>2, <2>3, <2>4 DEF ByUpgradeOrDrop
<1>6. CASE lock_lock = 0
  <2>1. \A t \in Threads : pc[t] \notin HoldLabels
    BY <1>6, ThreadsAssumption DEF IInv, LockInv
  <2>2. \A t \in Readers : pc[t] = "q_count" /\ reader_count > 1
    BY <1>1, <1>6, <2>1 DEF Waiting, Readers, ReaderLabels, HoldLabels
  <2>3. PICK t \in Readers : TRUE
    <3>1. CASE pc[w] = "q_count"
      BY <3>1 DEF Readers, ReaderLabels
    <3>2. CASE pc[w] # "q_count"
      BY <1>2, <1>4, <1>6, <2>1, <3>2 DEF Waiting, HoldLabels
    <3> QED
      BY <3>1, <3>2
  <2>4. reader_count = Cardinality(Readers)
    BY <2>1 DEF IInv, CountInv, HoldLabels
  <2>5. PICK u \in Readers : u # t
    <3> SUFFICES ASSUME Readers = {t} PROVE FALSE
      BY <2>3
    <3>1. Cardinality(Readers) = 1
      BY FS_Singleton
    <3> QED
      BY <2>2, <2>3, <2>4, <3>1
  <2> QED
    BY <2>2, <2>3, <2>5 DEF ByUpgradeOrDrop, Readers
<1> QED
  BY <1>5, <1>6

(* The deadlocks of rwl_lock.c are the two that its callers can make: two  *)
(* readers that upgrade at once, or a downgrade beside a first reader.     *)
(* There is no third one, for any number of threads.                       *)
THEOREM DeadlocksAreTheCallers == Spec => []StuckOnlyByUpgradeOrDrop
<1>1. Init => NoDropInv
  BY DEF Init, NoDropInv
<1>2. IInv /\ NoDropInv => StuckOnlyByUpgradeOrDrop
  BY StuckHow
<1> QED
  BY <1>1, <1>2, NoDropStep, Invariance, PTL DEF Spec
=============================================================================
