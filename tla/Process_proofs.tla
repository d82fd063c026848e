--------------------------- MODULE Process_proofs ---------------------------
(***************************************************************************)
(* Proofs about Process for any number of pids and popup stacks and any    *)
(* behaviour of the programs, as long as the leader of a group is the last *)
(* of it to exit.  Without that a popup can end when another process has   *)
(* the pid of its leader, and gives its stack back to the wrong one.  Then *)
(* about Scheduler, for any number of processes.                           *)
(***************************************************************************)
EXTENDS Process, TLAPS, FiniteSetTheorems, SequenceTheorems, WellFoundedInduction

(***************************************************************************)
(* The inductive invariant.  What the record of a process can be at all,   *)
(* by its status.                                                          *)
(***************************************************************************)
Alive(p) == Is(p, {"ACTIVE", "DAEMON"})
Known(p) == Is(p, {"ACTIVE", "DAEMON", "ZOMBIE"})

RecordOK(p, r) ==
    /\ r.status = "FREE" => r = NoProc
    /\ r.status # "FREE" => r.vmmc # 0
    /\ r.status # "ACTIVE" => r.wfor = "none" /\ r.held = 0
    /\ r.wfor # "none" => r.held = 0
    /\ r.status \notin {"ACTIVE", "DAEMON"} => r.pgid = 0
    /\ r.status \notin {"ACTIVE", "DAEMON", "ZOMBIE"} => r.ppid = 0 /\ r.psi = -1
    /\ r.status = "DAEMON" => r.pgid = p /\ ~(r.psi >= 0)
    /\ r.psi >= 0 => r.tls = r.psi
    /\ r.psi >= 0 /\ r.status = "ZOMBIE" => r.sync
    /\ ~(r.psi >= 0) => ~r.sync /\ r.ans = 0

RecordInv == \A p \in Pids : RecordOK(p, proc[p])

(* Whoever runs has the leader of its group, in whose address space it is; *)
(* leaders share neither address space nor popup stacks.                   *)
GroupInv ==
    /\ \A p \in Pids : Alive(p) =>
          LET g == proc[p].pgid IN
          g \in Pids /\ Alive(g) /\ Leader(g) /\ proc[g].vmmc = proc[p].vmmc
    /\ \A p, q \in Pids : Leader(p) /\ Leader(q) /\ p # q =>
          /\ proc[p].vmmc # proc[q].vmmc
          /\ proc[p].mask # 0 => proc[p].mask # proc[q].mask

MaskInv ==
    /\ \A m \in Pids : masks[m].ref = 0 => masks[m].bits = {}
    /\ \A t \in Pids : Leader(t) /\ proc[t].mask = 0 => RunningPopups(proc[t].vmmc) = {}

(* Everybody but init has a parent that runs, and there is no circle.      *)
ParentInv ==
    /\ Is(1, {"ACTIVE"}) /\ ~is_popup(1) /\ proc[1].ppid = 0
    /\ \A p \in Pids \ {1} : Known(p) => proc[p].ppid \in Pids /\ Alive(proc[p].ppid)

NoCircle ==
    \A S \in SUBSET Pids : S # {} => \E p \in S : proc[p].ppid \notin S

WaitInv ==
    /\ NoDanglingWait
    /\ \A p \in Pids : proc[p].wfor = "child" => ~is_popup(proc[p].wait)

(* A synchronous popup has its caller waiting for it, and nobody else.     *)
SyncInv ==
    \A z \in Pids : proc[z].sync =>
        LET p == proc[z].ppid IN
        /\ p \in Pids /\ proc[p].wfor = "ipc" /\ proc[p].wait = z
        /\ proc[z].ans \in {0, p}

IInv ==
    /\ TypeOK /\ RecordInv /\ GroupInv /\ MaskInv /\ StacksExclusive /\ CountsExact
    /\ ParentInv /\ NoCircle /\ WaitInv /\ SyncInv /\ AnswersAccounted

-----------------------------------------------------------------------------
(* A set of natural numbers has a least element, which Min chooses.        *)
LEMMA MinIsMember ==
    ASSUME NEW S \in SUBSET Nat, S # {}
    PROVE  Min(S) \in S
<1> DEFINE R == OpToRel(<, Nat)
<1>1. IsWellFoundedOn(R, Nat)
  BY NatLessThanWellFounded
<1>2. R = {ss \in Nat \X Nat : ss[1] < ss[2]}
  BY Zenon DEF OpToRel
<1> HIDE DEF R
<1>3. PICK m \in S : \A x \in S : ~(<<x, m>> \in R)
  BY <1>1, WFMin
<1>4. \A x \in S : m <= x
  <2>1. ASSUME NEW x \in S, x < m PROVE FALSE
    <3>1. <<x, m>> \in {ss \in Nat \X Nat : ss[1] < ss[2]}
      BY <2>1
    <3> QED
      BY <1>2, <1>3, <3>1
  <2> QED
    BY <2>1
<1> QED
  BY <1>4 DEF Min

(* Sets of pids are finite; adding and taking pids away.                   *)
LEMMA PidSets ==
    /\ IsFiniteSet(Pids) /\ Cardinality(Pids) = MaxPid
    /\ \A S \in SUBSET Pids : IsFiniteSet(S) /\ Cardinality(S) \in 0 .. MaxPid
<1>1. IsFiniteSet(Pids) /\ Cardinality(Pids) = MaxPid
  BY FS_Interval, ProcessAssumption DEF Pids
<1>2. ASSUME NEW S \in SUBSET Pids
      PROVE  IsFiniteSet(S) /\ Cardinality(S) \in 0 .. MaxPid
  BY <1>1, FS_Subset, FS_CardinalityType, ProcessAssumption
<1> QED
  BY <1>1, <1>2

Rec == [status : {"FREE", "ACTIVE", "DAEMON", "ZOMBIE", "DESTRUCT"},
        pgid : 0 .. MaxPid, ppid : 0 .. MaxPid,
        psi : Stack \cup {-1}, sync : BOOLEAN, entry : BOOLEAN,
        mask : 0 .. MaxPid, vmmc : 0 .. MaxPid,
        tls : 0 .. Stacks, errno : {0, 1},
        ans : 0 .. MaxPid, held : 0 .. MaxPid,
        wfor : {"none", "ipc", "child", "any"}, wait : 0 .. MaxPid]

(* What the invariant says of the variables alone.                         *)
Loose ==
    /\ proc \in [Pids -> Rec] /\ users \in [Pids -> Int]
    /\ masks \in [Pids -> [ref : Int, bits : SUBSET Stack]]

(* The bounds of the counters follow from what they count.                 *)
LEMMA TypeFromCounts ==
    Loose /\ CountsExact /\ AnswersAccounted => TypeOK
<1> SUFFICES ASSUME Loose, CountsExact, AnswersAccounted PROVE TypeOK
  OBVIOUS
<1>1. users \in [Pids -> 0 .. MaxPid]
  <2>1. \A i \in Pids : users[i] \in 0 .. MaxPid
    BY PidSets DEF Loose, CountsExact
  <2> QED
    BY <2>1 DEF Loose
<1>2. masks \in [Pids -> [ref : 0 .. MaxPid, bits : SUBSET Stack]]
  <2>1. \A i \in Pids : masks[i].ref \in 0 .. MaxPid
    BY PidSets DEF Loose, CountsExact
  <2> QED
    BY <2>1 DEF Loose
<1>3. answers \in 0 .. 2 * MaxPid
  <2>1. /\ Cardinality({p \in Pids : proc[p].ans # 0}) \in 0 .. MaxPid
        /\ Cardinality({p \in Pids : proc[p].held # 0}) \in 0 .. MaxPid
    BY PidSets
  <2> QED
    BY <2>1, ProcessAssumption DEF AnswersAccounted
<1> QED
  BY <1>1, <1>2, <1>3 DEF TypeOK, Rec, Loose

(* The same after a step.                                                  *)
LEMMA TypeNext == Loose' /\ CountsExact' /\ AnswersAccounted' => TypeOK'
<1>1. (Loose /\ CountsExact /\ AnswersAccounted => TypeOK)'
  BY TypeFromCounts, PTL
<1> QED
  BY <1>1

(* The type invariant gives the bounds that the lemmas about single steps  *)
(* use.                                                                    *)
LEMMA TypesLoose == TypeOK => Loose
BY DEF TypeOK, Loose, Rec

-----------------------------------------------------------------------------
(* All but errno.                                                          *)
Alike(r, s) ==
    /\ r.status = s.status /\ r.pgid = s.pgid /\ r.ppid = s.ppid /\ r.psi = s.psi
    /\ r.sync = s.sync /\ r.entry = s.entry /\ r.mask = s.mask /\ r.vmmc = s.vmmc
    /\ r.tls = s.tls /\ r.ans = s.ans /\ r.held = s.held /\ r.wfor = s.wfor
    /\ r.wait = s.wait

(* SetErrno touches nothing else, and only popups that share the storage.  *)
LEMMA SetErrnoFacts ==
    ASSUME NEW P \in [Pids -> Rec], NEW p \in Pids, NEW e \in {0, 1}
    PROVE  /\ SetErrno(P, p, e) \in [Pids -> Rec]
           /\ \A q \in Pids :
                 /\ Alike(SetErrno(P, p, e)[q], P[q])
                 /\ ~SameTls(P, p, q) => SetErrno(P, p, e)[q] = P[q]
                 /\ P[q].psi < 0 => SetErrno(P, p, e)[q] = P[q]
<1> DEFINE Q == SetErrno(P, p, e)
<1>1. \A q \in Pids : Q[q] = IF SameTls(P, p, q) THEN [P[q] EXCEPT !.errno = e] ELSE P[q]
  BY DEF SetErrno
<1>2. ASSUME NEW q \in Pids
      PROVE  /\ Q[q] \in Rec /\ Alike(Q[q], P[q])
             /\ ~SameTls(P, p, q) => Q[q] = P[q]
             /\ P[q].psi < 0 => Q[q] = P[q]
  <2> HIDE DEF Q
  <2>1. P[q] \in Rec
    OBVIOUS
  <2>2. CASE SameTls(P, p, q)
    <3>1. Q[q] = [P[q] EXCEPT !.errno = e]
      BY <1>1, <2>2
    <3>2. P[q].psi >= 0
      BY <2>2 DEF SameTls
    <3>3. ~(P[q].psi < 0)
      BY <2>1, <3>2 DEF Rec, Stack
    <3>4. Q[q] \in Rec /\ Alike(Q[q], P[q])
      BY <2>1, <3>1 DEF Rec, Alike
    <3> QED
      BY <2>2, <3>3, <3>4
  <2>3. CASE ~SameTls(P, p, q)
    BY <1>1, <2>1, <2>3 DEF Alike
  <2> QED
    BY <2>2, <2>3
<1>3. Q \in [Pids -> Rec]
  <2>1. Q = [q \in Pids |-> Q[q]]
    BY DEF SetErrno
  <2> HIDE DEF Q
  <2> QED
    BY <1>2, <2>1
<1> QED
  BY <1>2, <1>3

-----------------------------------------------------------------------------
(* A step in which everybody stays where he is, at most as a daemon.       *)
KeepPlace ==
    \A q \in Pids :
        /\ proc'[q].pgid = proc[q].pgid /\ proc'[q].psi = proc[q].psi
        /\ proc'[q].vmmc = proc[q].vmmc /\ proc'[q].ppid = proc[q].ppid
        /\ proc'[q].sync = proc[q].sync
        /\ \/ proc'[q].status = proc[q].status
           \/ /\ proc[q].status = "ACTIVE" /\ proc'[q].status = "DAEMON"
              /\ Leader(q) /\ q # 1

(* In such a step families and groups stay as they are.                    *)
LEMMA PlaceKept ==
    ASSUME IInv, KeepPlace
    PROVE  /\ ParentInv' /\ NoCircle'
           /\ \A p \in Pids : (Alive(p)' <=> Alive(p)) /\ (Leader(p)' <=> Leader(p))
           /\ \A v : RunningPopups(v)' = RunningPopups(v)
<1>1. \A p \in Pids : /\ proc'[p].status \in {"ACTIVE", "DAEMON"} <=> Alive(p)
                      /\ proc'[p].status \in {"ACTIVE", "DAEMON", "ZOMBIE"} <=> Known(p)
                      /\ proc'[p].status = "FREE" <=> IsFree(p)
  BY DEF KeepPlace, Alive, Known, Is, IsFree
<1>2. ParentInv'
  <2>1. 1 \in Pids
    BY ProcessAssumption DEF Pids
  <2>2. proc'[1].status \in {"ACTIVE"} /\ ~(proc'[1].psi >= 0) /\ proc'[1].ppid = 0
    BY <2>1 DEF KeepPlace, IInv, ParentInv, Is, is_popup
  <2>3. ASSUME NEW p \in Pids \ {1}, proc'[p].status \in {"ACTIVE", "DAEMON", "ZOMBIE"}
        PROVE  /\ proc'[p].ppid \in Pids
               /\ proc'[proc'[p].ppid].status \in {"ACTIVE", "DAEMON"}
    BY <1>1, <2>3 DEF KeepPlace, IInv, ParentInv
  <2> QED
    BY <2>2, <2>3 DEF ParentInv, Alive, Known, Is, is_popup
<1>3. NoCircle'
  <2>1. ASSUME NEW S \in SUBSET Pids, S # {}
        PROVE  \E p \in S : proc'[p].ppid \notin S
    <3>1. PICK p \in S : proc[p].ppid \notin S
      BY <2>1 DEF IInv, NoCircle
    <3> QED
      BY <3>1 DEF KeepPlace
  <2> QED
    BY <2>1 DEF NoCircle
<1>4. \A p \in Pids : (Alive(p)' <=> Alive(p)) /\ (Leader(p)' <=> Leader(p))
  BY <1>1 DEF KeepPlace, Alive, Leader, Is, IsFree, is_popup
<1>5. ASSUME NEW v
      PROVE  {p \in Pids : proc'[p].status \in {"ACTIVE"} /\ proc'[p].psi >= 0 /\ proc'[p].vmmc = v}
             = {p \in Pids : proc[p].status \in {"ACTIVE"} /\ proc[p].psi >= 0 /\ proc[p].vmmc = v}
  BY DEF KeepPlace, Leader, is_popup
<1>6. \A v : RunningPopups(v)' = RunningPopups(v)
  BY <1>5 DEF RunningPopups, Is, is_popup
<1> QED
  BY <1>2, <1>3, <1>4, <1>6

(* If the counters stay too, what they count is still right.               *)
LEMMA PlaceInv ==
    ASSUME IInv, KeepPlace, UNCHANGED <<users, masks>>,
           \A p \in Pids : proc'[p].mask = proc[p].mask
    PROVE  GroupInv' /\ MaskInv' /\ StacksExclusive' /\ CountsExact'
<1>1. /\ \A p \in Pids : (Alive(p)' <=> Alive(p)) /\ (Leader(p)' <=> Leader(p))
      /\ \A v : RunningPopups(v)' = RunningPopups(v)
  BY PlaceKept
<1>2. \A p \in Pids : /\ proc'[p].pgid = proc[p].pgid /\ proc'[p].vmmc = proc[p].vmmc
                      /\ proc'[p].mask = proc[p].mask /\ proc'[p].psi = proc[p].psi
  BY DEF KeepPlace
<1>3. GroupInv'
  BY <1>1, <1>2 DEF IInv, GroupInv
<1>4. \A t \in Pids : {p \in Pids : proc'[p].status \in {"ACTIVE"} /\ proc'[p].psi >= 0
                                      /\ proc'[p].vmmc = proc'[t].vmmc}
                       = RunningPopups(proc[t].vmmc)
  BY <1>1, <1>2 DEF RunningPopups, Is, is_popup
<1>5. MaskInv'
  BY <1>1, <1>2, <1>4 DEF IInv, MaskInv, RunningPopups, Is, is_popup
<1>6. StacksExclusive'
  <2>1. ASSUME NEW t \in Pids
        PROVE  {proc'[p].psi : p \in RunningPopups(proc[t].vmmc)} = {proc[p].psi : p \in RunningPopups(proc[t].vmmc)}
    BY <1>2 DEF RunningPopups
  <2> QED
    BY <1>1, <1>2, <1>4, <2>1 DEF IInv, StacksExclusive, RunningPopups, Is, is_popup, Alive
<1>7. CountsExact'
  <2>1. ASSUME NEW i \in Pids
        PROVE  /\ {p \in Pids : proc'[p].vmmc = i} = {p \in Pids : proc[p].vmmc = i}
               /\ {p \in Pids : proc'[p].mask = i} = {p \in Pids : proc[p].mask = i}
    BY <1>2
  <2> QED
    BY <2>1 DEF IInv, CountsExact
<1> QED
  BY <1>3, <1>5, <1>6, <1>7

(* A step in which nobody starts or ends to wait or takes an answer.       *)
KeepTalk ==
    /\ answers' = answers
    /\ \A q \in Pids :
          /\ proc'[q].wfor = proc[q].wfor /\ proc'[q].wait = proc[q].wait
          /\ proc'[q].ans = proc[q].ans /\ proc'[q].held = proc[q].held

(* A step that changes neither places in the groups nor waits, tokens and  *)
(* answers (memory, masks, errno: most system calls) keeps the invariants  *)
(* about them.                                                             *)
LEMMA TalkInv ==
    ASSUME IInv, KeepPlace, KeepTalk
    PROVE  WaitInv' /\ SyncInv' /\ AnswersAccounted'
<1>1. WaitInv'
  BY DEF KeepPlace, KeepTalk, IInv, WaitInv, NoDanglingWait, Is, is_popup
<1>2. SyncInv'
  BY DEF KeepPlace, KeepTalk, IInv, SyncInv
<1>3. AnswersAccounted'
  <2>1. /\ {p \in Pids : proc'[p].ans # 0} = {p \in Pids : proc[p].ans # 0}
        /\ {p \in Pids : proc'[p].held # 0} = {p \in Pids : proc[p].held # 0}
    BY DEF KeepTalk
  <2> QED
    BY <2>1 DEF KeepTalk, IInv, AnswersAccounted
<1> QED
  BY <1>1, <1>2, <1>3

(* What is left to show of a step that changes neither place nor counters. *)
LEMMA KeptStep ==
    ASSUME IInv, KeepPlace, UNCHANGED <<users, masks>>,
           \A p \in Pids : proc'[p].mask = proc[p].mask,
           proc' \in [Pids -> Rec],
           RecordInv', WaitInv', SyncInv', AnswersAccounted'
    PROVE  IInv'
<1>1. GroupInv' /\ MaskInv' /\ StacksExclusive' /\ CountsExact'
  BY PlaceInv
<1>2. ParentInv' /\ NoCircle'
  BY PlaceKept
<1>3. Loose
  BY TypesLoose DEF IInv
<1>4. TypeOK'
  <2>1. /\ users' \in [Pids -> Int]
        /\ masks' \in [Pids -> [ref : Int, bits : SUBSET Stack]]
    BY <1>3 DEF Loose
  <2> QED
    BY <1>1, <2>1, TypeNext DEF Loose
<1> QED
  BY <1>1, <1>2, <1>4 DEF IInv

-----------------------------------------------------------------------------
(* A step that touches nothing but tls, entry and errno, and tls not of a  *)
(* popup.                                                                  *)
LEMMA QuietStep ==
    ASSUME IInv, UNCHANGED <<users, masks, answers>>, proc' \in [Pids -> Rec],
           \A q \in Pids :
              \/ Alike(proc'[q], proc[q]) /\ (IsFree(q) => proc'[q] = proc[q])
              \/ /\ ~IsFree(q) /\ ~is_popup(q)
                 /\ \E x, y : Alike(proc'[q], [proc[q] EXCEPT !.tls = x, !.entry = y])
    PROVE  IInv'
<1>1. ASSUME NEW q \in Pids
      PROVE  /\ proc'[q].status = proc[q].status /\ proc'[q].pgid = proc[q].pgid
             /\ proc'[q].ppid = proc[q].ppid /\ proc'[q].psi = proc[q].psi
             /\ proc'[q].sync = proc[q].sync /\ proc'[q].mask = proc[q].mask
             /\ proc'[q].vmmc = proc[q].vmmc /\ proc'[q].ans = proc[q].ans
             /\ proc'[q].held = proc[q].held /\ proc'[q].wfor = proc[q].wfor
             /\ proc'[q].wait = proc[q].wait
             /\ is_popup(q) => proc'[q].tls = proc[q].tls
             /\ IsFree(q) => proc'[q] = proc[q]
  <2>1. proc[q] \in Rec
    BY TypesLoose DEF IInv, Loose
  <2>2. CASE Alike(proc'[q], proc[q]) /\ (IsFree(q) => proc'[q] = proc[q])
    BY <2>2 DEF Alike
  <2>3. CASE ~IsFree(q) /\ ~is_popup(q) /\ \E x, y : Alike(proc'[q], [proc[q] EXCEPT !.tls = x, !.entry = y])
    <3>1. PICK x, y : Alike(proc'[q], [proc[q] EXCEPT !.tls = x, !.entry = y])
      BY <2>3
    <3> QED
      BY <2>1, <2>3, <3>1 DEF Alike, Rec
  <2> QED
    BY <2>2, <2>3
<1>2. KeepPlace /\ KeepTalk
  BY <1>1 DEF KeepPlace, KeepTalk
<1>3. WaitInv' /\ SyncInv' /\ AnswersAccounted'
  BY <1>2, TalkInv
<1>4. RecordInv'
  <2>1. ASSUME NEW q \in Pids PROVE RecordOK(q, proc'[q])
    <3>1. RecordOK(q, proc[q])
      BY DEF IInv, RecordInv
    <3>2. CASE IsFree(q)
      BY <1>1, <3>1, <3>2
    <3>3. CASE ~IsFree(q)
      BY <1>1, <3>1, <3>3 DEF RecordOK, IsFree, Is, is_popup
    <3> QED
      BY <3>2, <3>3
  <2> QED
    BY <2>1 DEF RecordInv
<1> QED
  BY <1>1, <1>2, <1>3, <1>4, KeptStep

(* The three system calls that do no more.                                 *)
LEMMA execInv ==
    ASSUME IInv, NEW p \in Pids, exec(p)
    PROVE  IInv'
<1>1. proc \in [Pids -> Rec]
  BY TypesLoose DEF IInv, Loose
<1>2. proc' \in [Pids -> Rec] /\ UNCHANGED <<users, masks, answers>>
  BY <1>1, ProcessAssumption DEF exec, Rec, MainTls
<1>3. ~IsFree(p) /\ ~is_popup(p)
  BY DEF exec, Leader
<1>4. ASSUME NEW q \in Pids
      PROVE  \/ Alike(proc'[q], proc[q]) /\ (IsFree(q) => proc'[q] = proc[q])
             \/ /\ ~IsFree(q) /\ ~is_popup(q)
                /\ \E x, y : Alike(proc'[q], [proc[q] EXCEPT !.tls = x, !.entry = y])
  <2>1. CASE q = p
    <3>1. proc'[q] = [proc[q] EXCEPT !.tls = MainTls]
      BY <1>1, <2>1 DEF exec
    <3>2. Alike(proc'[q], [proc[q] EXCEPT !.tls = MainTls, !.entry = proc[q].entry])
      BY <1>1, <3>1 DEF Alike, Rec
    <3> QED
      BY <1>3, <2>1, <3>2
  <2>2. CASE q # p
    BY <1>1, <2>2 DEF exec, Alike
  <2> QED
    BY <2>1, <2>2
<1> QED
  BY <1>2, <1>4, QuietStep

(* __tls()->errno = E of a running process breaks nothing.                 *)
LEMMA ErrnoOnly ==
    ASSUME IInv, NEW p \in Pids, proc' = SetErrno(proc, p, 1),
           UNCHANGED <<users, masks, answers>>
    PROVE  IInv'
<1>1. proc \in [Pids -> Rec]
  BY TypesLoose DEF IInv, Loose
<1>2. /\ proc' \in [Pids -> Rec]
      /\ \A q \in Pids : /\ Alike(proc'[q], proc[q])
                         /\ proc[q].psi < 0 => proc'[q] = proc[q]
  BY <1>1, SetErrnoFacts
<1>3. \A q \in Pids : IsFree(q) => proc[q].psi < 0
  BY DEF IInv, RecordInv, RecordOK, IsFree, Is, NoProc
<1> QED
  BY <1>2, <1>3, QuietStep

(* daemonize_process only changes the status, and of a process that may not*)
(* be a popup.                                                             *)
LEMMA daemonizeInv ==
    ASSUME IInv, NEW p \in Pids, daemonize_process(p)
    PROVE  IInv'
<1>1. proc \in [Pids -> Rec]
  BY TypesLoose DEF IInv, Loose
<1>2. /\ \A q \in Pids \ {p} : proc'[q] = proc[q]
      /\ proc'[p] = [proc[p] EXCEPT !.status = "DAEMON"]
      /\ UNCHANGED <<users, masks, answers>> /\ proc' \in [Pids -> Rec]
  BY <1>1 DEF daemonize_process, Rec
<1>3. /\ proc[p].status = "ACTIVE" /\ proc[p].wfor = "none" /\ proc[p].held = 0
      /\ Leader(p) /\ p # 1
  BY DEF daemonize_process, Running, Is
<1>4. ASSUME NEW q \in Pids
      PROVE  /\ proc'[q].pgid = proc[q].pgid /\ proc'[q].ppid = proc[q].ppid
             /\ proc'[q].psi = proc[q].psi /\ proc'[q].sync = proc[q].sync
             /\ proc'[q].mask = proc[q].mask /\ proc'[q].vmmc = proc[q].vmmc
             /\ proc'[q].ans = proc[q].ans /\ proc'[q].held = proc[q].held
             /\ proc'[q].wfor = proc[q].wfor /\ proc'[q].wait = proc[q].wait
             /\ proc'[q].tls = proc[q].tls
             /\ q # p => proc'[q] = proc[q]
  <2>1. proc[q] \in Rec
    BY <1>1
  <2> QED
    BY <1>2, <2>1 DEF Rec
<1>5. proc'[p].status = "DAEMON"
  BY <1>1, <1>2 DEF Rec
<1>6. KeepPlace
  BY <1>2, <1>3, <1>4, <1>5 DEF KeepPlace
<1>7. KeepTalk
  BY <1>2, <1>4 DEF KeepTalk
<1>8. RecordInv'
  <2>1. ASSUME NEW q \in Pids
        PROVE  RecordOK(q, proc'[q])
    <3>1. CASE q = p
      BY <1>3, <1>4, <1>5, <3>1 DEF IInv, RecordInv, RecordOK, Is, IsFree, Alive, Known, Leader, is_popup
    <3>2. CASE q # p
      BY <1>4, <3>2 DEF IInv, RecordInv, RecordOK, Is, IsFree, Alive, Known, Leader, is_popup
    <3> QED
      BY <3>1, <3>2
  <2> QED
    BY <2>1 DEF RecordInv, RecordOK
<1> QED
  BY <1>2, <1>4, <1>6, <1>7, <1>8, TalkInv, KeptStep

(* The steps that change who waits or who has an answer, and nothing else. *)
LEMMA setAnswerInv ==
    ASSUME IInv, NEW p \in Pids, popup_set_answer(p)
    PROVE  IInv'
<1>1. proc \in [Pids -> Rec]
  BY TypesLoose DEF IInv, Loose
<1>2. Is(p, {"ACTIVE"}) /\ is_popup(p)
  BY DEF popup_set_answer, Running
<1>3. proc[p].ppid \in Pids /\ proc[p].ppid # 0
  BY <1>2, ProcessAssumption DEF IInv, ParentInv, Known, Is, Pids
<1>4. /\ \A q \in Pids \ {p} : proc'[q] = proc[q]
      /\ proc'[p] = [proc[p] EXCEPT !.ans = proc[p].ppid]
      /\ UNCHANGED <<users, masks>> /\ proc' \in [Pids -> Rec]
      /\ answers' = IF proc[p].ans = 0 THEN answers + 1 ELSE answers
  <2>1. proc[p].ppid \in 0 .. MaxPid
    BY <1>1 DEF Rec
  <2> QED
    BY <1>1, <2>1 DEF popup_set_answer, Rec
<1>5. ASSUME NEW q \in Pids
      PROVE  /\ proc'[q].status = proc[q].status
             /\ proc'[q].pgid = proc[q].pgid /\ proc'[q].ppid = proc[q].ppid
             /\ proc'[q].psi = proc[q].psi /\ proc'[q].sync = proc[q].sync
             /\ proc'[q].mask = proc[q].mask /\ proc'[q].vmmc = proc[q].vmmc
             /\ proc'[q].held = proc[q].held
             /\ proc'[q].wfor = proc[q].wfor /\ proc'[q].wait = proc[q].wait
             /\ proc'[q].tls = proc[q].tls
             /\ q # p => proc'[q] = proc[q]
  <2>1. proc[q] \in Rec
    BY <1>1
  <2> QED
    BY <1>4, <2>1 DEF Rec
<1>6. proc'[p].ans = proc[p].ppid
  BY <1>1, <1>4 DEF Rec
<1>7. KeepPlace
  BY <1>5 DEF KeepPlace
<1>8. RecordInv'
  BY <1>2, <1>5 DEF IInv, RecordInv, RecordOK, Is, IsFree, Alive, Known, Leader, is_popup
<1>9. WaitInv'
  BY <1>5 DEF IInv, WaitInv, NoDanglingWait, Is, is_popup
<1>10. SyncInv'
  BY <1>5, <1>6 DEF IInv, SyncInv
<1>11. AnswersAccounted'
  <2> DEFINE A == {q \in Pids : proc[q].ans # 0}
  <2>1. {q \in Pids : proc'[q].held # 0} = {q \in Pids : proc[q].held # 0}
    BY <1>5
  <2>2. {q \in Pids : proc'[q].ans # 0} = A \cup {p}
    BY <1>3, <1>5, <1>6
  <2>3. IsFiniteSet(A)
    BY PidSets
  <2>4. Cardinality(A \cup {p}) = IF p \in A THEN Cardinality(A) ELSE Cardinality(A) + 1
    BY <2>3, FS_AddElement
  <2>5. /\ Cardinality(A) \in Int /\ Cardinality({q \in Pids : proc[q].held # 0}) \in Int
    BY PidSets
  <2>6. answers = Cardinality(A) + Cardinality({q \in Pids : proc[q].held # 0})
    BY DEF IInv, AnswersAccounted
  <2>7. p \in A <=> proc[p].ans # 0
    OBVIOUS
  <2> HIDE DEF A
  <2>8. answers' = Cardinality(A \cup {p}) + Cardinality({q \in Pids : proc[q].held # 0})
    BY <1>4, <2>4, <2>5, <2>6, <2>7
  <2>9. \A q \in Pids : proc'[q].held \in {0, q}
    BY <1>5 DEF IInv, AnswersAccounted
  <2> QED
    BY <2>1, <2>2, <2>8, <2>9 DEF AnswersAccounted
<1> QED
  BY <1>4, <1>5, <1>7, <1>8, <1>9, <1>10, <1>11, KeptStep

(* raw_waitpid: the caller begins to wait for a child it has, or for any.  *)
LEMMA StartWaitInv ==
    ASSUME IInv, NEW p \in Pids, StartWait(p)
    PROVE  IInv'
<1>1. proc \in [Pids -> Rec]
  BY TypesLoose DEF IInv, Loose
<1>2. Is(p, {"ACTIVE"}) /\ proc[p].held = 0 /\ proc[p].wfor = "none"
  BY DEF StartWait, Running
<1>3. PICK k \in {"child", "any"}, c \in 0 .. MaxPid :
        /\ proc' = [proc EXCEPT ![p] = [@ EXCEPT !.wfor = k, !.wait = c]]
        /\ k = "child" => /\ c \in Pids /\ Known(c) /\ proc[c].ppid = p /\ ~is_popup(c)
  <2>1. CASE \E c \in Pids : /\ Is(c, {"ACTIVE", "DAEMON", "ZOMBIE"}) /\ proc[c].ppid = p
                             /\ ~is_popup(c)
                             /\ proc' = [proc EXCEPT ![p].wfor = "child", ![p].wait = c]
    <3>1. PICK c \in Pids : /\ Is(c, {"ACTIVE", "DAEMON", "ZOMBIE"}) /\ proc[c].ppid = p
                             /\ ~is_popup(c)
                             /\ proc' = [proc EXCEPT ![p].wfor = "child", ![p].wait = c]
      BY <2>1
    <3>2. proc' = [proc EXCEPT ![p] = [@ EXCEPT !.wfor = "child", !.wait = c]]
      BY <1>1, <3>1
    <3>3. c \in 0 .. MaxPid
      BY DEF Pids
    <3> QED
      BY <3>1, <3>2, <3>3 DEF Known
  <2>2. CASE proc' = [proc EXCEPT ![p].wfor = "any"]
    <3>1. proc[p].wait \in 0 .. MaxPid /\ proc[p] \in Rec
      BY <1>1 DEF Rec
    <3>2. proc' = [proc EXCEPT ![p] = [@ EXCEPT !.wfor = "any", !.wait = proc[p].wait]]
      BY <1>1, <2>2, <3>1 DEF Rec
    <3> QED
      BY <3>1, <3>2
  <2> QED
    BY <2>1, <2>2 DEF StartWait
<1>4. /\ \A q \in Pids \ {p} : proc'[q] = proc[q]
      /\ proc'[p] = [proc[p] EXCEPT !.wfor = k, !.wait = c]
      /\ UNCHANGED <<users, masks, answers>> /\ proc' \in [Pids -> Rec]
  <2>1. UNCHANGED <<users, masks, answers>>
    BY DEF StartWait
  <2>2. /\ \A q \in Pids \ {p} : proc'[q] = proc[q]
        /\ proc'[p] = [proc[p] EXCEPT !.wfor = k, !.wait = c]
    BY <1>1, <1>3
  <2>3. proc[p] \in Rec /\ k \in {"none", "ipc", "child", "any"}
    BY <1>1
  <2>4. [proc[p] EXCEPT !.wfor = k, !.wait = c] \in Rec
    BY <2>3 DEF Rec
  <2>5. proc' \in [Pids -> Rec]
    BY <1>1, <1>3, <2>4
  <2> QED
    BY <2>1, <2>2, <2>5
<1>5. ASSUME NEW q \in Pids
      PROVE  /\ proc'[q].status = proc[q].status
             /\ proc'[q].pgid = proc[q].pgid /\ proc'[q].ppid = proc[q].ppid
             /\ proc'[q].psi = proc[q].psi /\ proc'[q].sync = proc[q].sync
             /\ proc'[q].mask = proc[q].mask /\ proc'[q].vmmc = proc[q].vmmc
             /\ proc'[q].ans = proc[q].ans /\ proc'[q].held = proc[q].held
             /\ proc'[q].tls = proc[q].tls
             /\ q # p => proc'[q] = proc[q]
  <2>1. proc[q] \in Rec
    BY <1>1
  <2>2. q # p => proc'[q] = proc[q]
    BY <1>4
  <2>3. q = p => proc'[q] = [proc[q] EXCEPT !.wfor = k, !.wait = c]
    BY <1>4
  <2> QED
    BY <2>1, <2>2, <2>3 DEF Rec
<1>6. proc'[p].wfor = k /\ proc'[p].wait = c
  BY <1>1, <1>4 DEF Rec
<1>7. KeepPlace
  BY <1>5 DEF KeepPlace
<1>8. RecordInv'
  BY <1>2, <1>5, <1>6 DEF IInv, RecordInv, RecordOK, Is, IsFree, Alive, Known, Leader, is_popup
<1>9. WaitInv'
  <2>1. ASSUME NEW q \in Pids, proc'[q].wfor \in {"ipc", "child"}
        PROVE  /\ proc'[q].wait \in Pids
               /\ proc'[proc'[q].wait].status \in {"ACTIVE", "DAEMON", "ZOMBIE"}
               /\ proc'[proc'[q].wait].ppid = q
               /\ proc'[q].wfor = "ipc" => proc'[proc'[q].wait].sync
               /\ proc'[q].wfor = "child" => ~(proc'[proc'[q].wait].psi >= 0)
    <3>1. CASE q = p
      BY <1>3, <1>5, <1>6, <2>1, <3>1 DEF Known, Is, is_popup
    <3>2. CASE q # p
      BY <1>5, <2>1, <3>2 DEF IInv, WaitInv, NoDanglingWait, Is, is_popup
    <3> QED
      BY <3>1, <3>2
  <2> QED
    BY <2>1 DEF WaitInv, NoDanglingWait, Is, is_popup
<1>10. SyncInv'
  BY <1>2, <1>5 DEF IInv, SyncInv
<1>11. AnswersAccounted'
  <2>1. /\ {q \in Pids : proc'[q].ans # 0} = {q \in Pids : proc[q].ans # 0}
        /\ {q \in Pids : proc'[q].held # 0} = {q \in Pids : proc[q].held # 0}
    BY <1>5
  <2> QED
    BY <1>4, <1>5, <2>1 DEF IInv, AnswersAccounted
<1> QED
  BY <1>4, <1>5, <1>7, <1>8, <1>9, <1>10, <1>11, KeptStep

(* The answer that was handed out is given up; nobody else's is read.      *)
LEMMA getAnswerInv ==
    ASSUME IInv, NEW p \in Pids, popup_get_answer(p)
    PROVE  IInv'
<1>1. proc \in [Pids -> Rec]
  BY TypesLoose DEF IInv, Loose
<1>2. Is(p, {"ACTIVE"}) /\ proc[p].held = p /\ proc[p].held # 0
  BY DEF popup_get_answer, IInv, AnswersAccounted
<1>3. /\ proc' = [proc EXCEPT ![p].held = 0]
      /\ answers' = answers - 1 /\ UNCHANGED <<users, masks>>
  BY <1>2 DEF popup_get_answer
<1>4. /\ \A q \in Pids \ {p} : proc'[q] = proc[q]
      /\ proc'[p] = [proc[p] EXCEPT !.held = 0]
      /\ proc' \in [Pids -> Rec]
  BY <1>1, <1>3, ProcessAssumption DEF Rec
<1>5. ASSUME NEW q \in Pids
      PROVE  /\ proc'[q].status = proc[q].status
             /\ proc'[q].pgid = proc[q].pgid /\ proc'[q].ppid = proc[q].ppid
             /\ proc'[q].psi = proc[q].psi /\ proc'[q].sync = proc[q].sync
             /\ proc'[q].mask = proc[q].mask /\ proc'[q].vmmc = proc[q].vmmc
             /\ proc'[q].ans = proc[q].ans
             /\ proc'[q].wfor = proc[q].wfor /\ proc'[q].wait = proc[q].wait
             /\ proc'[q].tls = proc[q].tls
             /\ q # p => proc'[q] = proc[q]
  <2>1. proc[q] \in Rec
    BY <1>1
  <2> QED
    BY <1>4, <2>1 DEF Rec
<1>6. proc'[p].held = 0
  BY <1>1, <1>4 DEF Rec
<1>7. KeepPlace
  BY <1>5 DEF KeepPlace
<1>8. RecordInv'
  BY <1>2, <1>5, <1>6 DEF IInv, RecordInv, RecordOK, Is
<1>9. WaitInv'
  BY <1>5 DEF IInv, WaitInv, NoDanglingWait, Is, is_popup
<1>10. SyncInv'
  BY <1>5 DEF IInv, SyncInv
<1>11. AnswersAccounted'
  <2> DEFINE H == {q \in Pids : proc[q].held # 0}
             A == {q \in Pids : proc[q].ans # 0}
  <2>1. {q \in Pids : proc'[q].ans # 0} = A
    BY <1>5
  <2>2. {q \in Pids : proc'[q].held # 0} = H \ {p} /\ p \in H
    BY <1>2, <1>5, <1>6
  <2>3. IsFiniteSet(H) /\ Cardinality(H) \in Int /\ Cardinality(A) \in Int
    BY PidSets
  <2>4. answers = Cardinality(A) + Cardinality(H)
    BY DEF IInv, AnswersAccounted
  <2>5. \A q \in Pids : proc'[q].held \in {0, q}
    BY <1>5, <1>6 DEF IInv, AnswersAccounted
  <2> HIDE DEF H, A
  <2>6. Cardinality(H \ {p}) = Cardinality(H) - 1
    BY <2>2, <2>3, FS_RemoveElement
  <2>7. answers' = Cardinality(A) + Cardinality(H \ {p})
    BY <1>3, <2>3, <2>4, <2>6
  <2> QED
    BY <2>1, <2>2, <2>5, <2>7 DEF AnswersAccounted
<1> QED
  BY <1>3, <1>4, <1>5, <1>7, <1>8, <1>9, <1>10, <1>11, KeptStep

-----------------------------------------------------------------------------
(* If one of the pids has none, some address space or mask has no user.    *)
LEMMA SomeUnused ==
    ASSUME NEW F \in [Pids -> 0 .. MaxPid], NEW c \in Pids, F[c] = 0
    PROVE  \E v \in Pids : \A p \in Pids : F[p] # v
<1> SUFFICES ASSUME \A v \in Pids : \E p \in Pids : F[p] = v PROVE FALSE
  OBVIOUS
<1> DEFINE S == {p \in Pids : F[p] # 0}
           G == [p \in S |-> F[p]]
<1>1. IsFiniteSet(S) /\ IsFiniteSet(Pids \ {c})
  BY PidSets
<1>2. S \subseteq Pids \ {c}
  OBVIOUS
<1>3. Cardinality(S) <= Cardinality(Pids \ {c})
  BY <1>1, <1>2, FS_Subset
<1>4. Cardinality(Pids \ {c}) = MaxPid - 1
  BY PidSets, FS_RemoveElement
<1>5. G \in Surjection(S, Pids)
  <2>1. G \in [S -> Pids]
    BY DEF Pids
  <2>2. \A v \in Pids : \E p \in S : G[p] = v
    <3>1. ASSUME NEW v \in Pids PROVE \E p \in S : G[p] = v
      <4>1. PICK p \in Pids : F[p] = v
        OBVIOUS
      <4>2. v # 0
        BY DEF Pids
      <4> QED
        BY <4>1, <4>2
    <3> QED
      BY <3>1
  <2> QED
    BY <2>1, <2>2 DEF Surjection
<1>6. Cardinality(Pids) <= Cardinality(S)
  BY <1>1, <1>5, FS_Surjection
<1> QED
  BY <1>1, <1>3, <1>4, <1>6, PidSets, ProcessAssumption

(* What kmalloc returns is not in use.                                     *)
LEMMA FreshIsFree ==
    ASSUME NEW p, NEW free \in SUBSET Pids, free # {}
    PROVE  Fresh(p, free) \in free
<1>1. free \in SUBSET Nat
  BY DEF Pids
<1> QED
  BY <1>1, MinIsMember DEF Fresh

(* A number with count zero is used by nobody.                             *)
LEMMA CountZero ==
    ASSUME NEW F \in [Pids -> 0 .. MaxPid], NEW v \in Pids,
           Cardinality({q \in Pids : F[q] = v}) = 0
    PROVE  \A q \in Pids : F[q] # v
<1>1. IsFiniteSet({q \in Pids : F[q] = v})
  BY PidSets
<1> QED
  BY <1>1, FS_EmptySet

(* A free record leaves a context number over, and the one that a new      *)
(* process is given is used by nobody.                                     *)
LEMMA FreshVmmcFacts ==
    ASSUME IInv, NEW c \in Pids, IsFree(c), NEW p
    PROVE  FreshVmmc(p) \in Pids /\ \A q \in Pids : proc[q].vmmc # FreshVmmc(p)
<1> DEFINE F == [q \in Pids |-> proc[q].vmmc]
           free == {v \in Pids : users[v] = 0}
<1>1. F \in [Pids -> 0 .. MaxPid]
  BY TypesLoose DEF IInv, Loose, Rec
<1>2. proc[c].vmmc = 0
  BY DEF IInv, RecordInv, RecordOK, IsFree, Is, NoProc
<1>3. \A v \in Pids : users[v] = Cardinality({q \in Pids : F[q] = v})
  BY DEF IInv, CountsExact
<1>4. PICK v \in Pids : \A q \in Pids : F[q] # v
  <2>1. F[c] = 0
    BY <1>2
  <2> HIDE DEF F
  <2> QED
    BY <1>1, <2>1, SomeUnused
<1>5. v \in free
  <2>1. {q \in Pids : F[q] = v} = {}
    BY <1>4
  <2> QED
    BY <1>3, <2>1, FS_EmptySet
<1>6. FreshVmmc(p) \in free
  BY <1>5, FreshIsFree DEF FreshVmmc
<1>7. \A w \in free : \A q \in Pids : F[q] # w
  <2> HIDE DEF F
  <2> QED
    BY <1>1, <1>3, CountZero
<1> QED
  BY <1>6, <1>7

(* The stack mask that a new group is given is used by nobody.             *)
LEMMA FreshMaskFacts ==
    ASSUME IInv, NEW c \in Pids, proc[c].mask = 0, NEW p
    PROVE  FreshMask(p) \in Pids /\ \A q \in Pids : proc[q].mask # FreshMask(p)
<1> DEFINE F == [q \in Pids |-> proc[q].mask]
           free == {v \in Pids : masks[v].ref = 0}
<1>1. F \in [Pids -> 0 .. MaxPid]
  BY TypesLoose DEF IInv, Loose, Rec
<1>3. \A v \in Pids : masks[v].ref = Cardinality({q \in Pids : F[q] = v})
  BY DEF IInv, CountsExact
<1>4. PICK v \in Pids : \A q \in Pids : F[q] # v
  <2>1. F[c] = 0
    OBVIOUS
  <2> HIDE DEF F
  <2> QED
    BY <1>1, <2>1, SomeUnused
<1>5. v \in free
  <2>1. {q \in Pids : F[q] = v} = {}
    BY <1>4
  <2> QED
    BY <1>3, <2>1, FS_EmptySet
<1>6. FreshMask(p) \in free
  BY <1>5, FreshIsFree DEF FreshMask
<1>7. \A w \in free : \A q \in Pids : F[q] # w
  <2> HIDE DEF F
  <2> QED
    BY <1>1, <1>3, CountZero
<1> QED
  BY <1>6, <1>7

(* A group gets its popup stack mask with its popup entry.                 *)
LEMMA popupEntryInv ==
    ASSUME IInv, NEW p \in Pids, set_process_popup_entry(p)
    PROVE  IInv'
<1>1. Loose /\ proc \in [Pids -> Rec] /\ proc[p] \in Rec
  BY TypesLoose DEF IInv, Loose
<1>2. ~IsFree(p) /\ ~is_popup(p) /\ Leader(p) /\ UNCHANGED <<users, answers>>
  BY DEF set_process_popup_entry, Leader
<1>3. CASE proc[p].mask # 0
  <2>1. proc' = [proc EXCEPT ![p].entry = TRUE] /\ UNCHANGED masks
    BY <1>3 DEF set_process_popup_entry
  <2>2. proc' \in [Pids -> Rec]
    BY <1>1, <2>1 DEF Rec
  <2>3. ASSUME NEW q \in Pids
        PROVE  \/ Alike(proc'[q], proc[q]) /\ (IsFree(q) => proc'[q] = proc[q])
               \/ /\ ~IsFree(q) /\ ~is_popup(q)
                  /\ \E x, y : Alike(proc'[q], [proc[q] EXCEPT !.tls = x, !.entry = y])
    <3>1. CASE q = p
      <4>1. proc'[q] = [proc[q] EXCEPT !.entry = TRUE]
        BY <1>1, <2>1, <3>1
      <4>2. Alike(proc'[q], [proc[q] EXCEPT !.tls = proc[q].tls, !.entry = TRUE])
        BY <1>1, <3>1, <4>1 DEF Alike, Rec
      <4> QED
        BY <1>2, <3>1, <4>2
    <3>2. CASE q # p
      BY <1>1, <2>1, <3>2 DEF Alike
    <3> QED
      BY <3>1, <3>2
  <2> QED
    BY <1>2, <2>1, <2>2, <2>3, QuietStep
<1>4. CASE proc[p].mask = 0
  <2> DEFINE m == FreshMask(p)
  <2>1. m \in Pids /\ \A q \in Pids : proc[q].mask # m
    BY <1>4, FreshMaskFacts
  <2>2. /\ proc' = [proc EXCEPT ![p].entry = TRUE, ![p].mask = m]
        /\ masks' = [masks EXCEPT ![m] = [ref |-> 1, bits |-> {}]]
    BY <1>4 DEF set_process_popup_entry
  <2> HIDE DEF m
  <2>3. m \in 0 .. MaxPid
    BY <2>1 DEF Pids
  <2>4. /\ \A q \in Pids \ {p} : proc'[q] = proc[q]
        /\ proc'[p] = [proc[p] EXCEPT !.entry = TRUE, !.mask = m]
        /\ proc' \in [Pids -> Rec]
    BY <1>1, <2>2, <2>3 DEF Rec
  <2>5. ASSUME NEW q \in Pids
        PROVE  /\ proc'[q].status = proc[q].status
               /\ proc'[q].pgid = proc[q].pgid /\ proc'[q].ppid = proc[q].ppid
               /\ proc'[q].psi = proc[q].psi /\ proc'[q].sync = proc[q].sync
               /\ proc'[q].vmmc = proc[q].vmmc /\ proc'[q].ans = proc[q].ans
               /\ proc'[q].held = proc[q].held
               /\ proc'[q].wfor = proc[q].wfor /\ proc'[q].wait = proc[q].wait
               /\ proc'[q].tls = proc[q].tls
               /\ q # p => proc'[q] = proc[q]
    <3>1. proc[q] \in Rec
      BY <1>1
    <3>2. q # p => proc'[q] = proc[q]
      BY <2>4
    <3>3. q = p => proc'[q] = [proc[q] EXCEPT !.entry = TRUE, !.mask = m]
      BY <2>4
    <3> QED
      BY <3>1, <3>2, <3>3 DEF Rec
  <2>6. proc'[p].mask = m
    BY <1>1, <2>4 DEF Rec
  <2>7. \A q \in Pids : proc'[q].mask = IF q = p THEN m ELSE proc[q].mask
    BY <2>4, <2>6
  <2>8. /\ masks'[m] = [ref |-> 1, bits |-> {}]
        /\ \A x \in Pids \ {m} : masks'[x] = masks[x]
        /\ masks' \in [Pids -> [ref : Int, bits : SUBSET Stack]]
    BY <1>1, <2>1, <2>2 DEF Loose
  <2>9. KeepPlace /\ KeepTalk
    BY <1>2, <2>5 DEF KeepPlace, KeepTalk
  <2>10. /\ ParentInv' /\ NoCircle' /\ WaitInv' /\ SyncInv' /\ AnswersAccounted'
         /\ \A q \in Pids : (Alive(q)' <=> Alive(q)) /\ (Leader(q)' <=> Leader(q))
         /\ \A v : RunningPopups(v)' = RunningPopups(v)
    BY <2>9, PlaceKept, TalkInv
  <2>11. RecordInv'
    BY <1>2, <2>5 DEF IInv, RecordInv, RecordOK, IsFree, Is
  <2>12. GroupInv'
    <3>1. \A q \in Pids : Alive(q)' => LET g == proc[q].pgid IN
             g \in Pids /\ Alive(g)' /\ Leader(g)' /\ proc'[g].vmmc = proc'[q].vmmc
      BY <2>5, <2>10 DEF IInv, GroupInv
    <3>2. \A q, r \in Pids : Leader(q)' /\ Leader(r)' /\ q # r =>
            /\ proc'[q].vmmc # proc'[r].vmmc
            /\ proc'[q].mask # 0 => proc'[q].mask # proc'[r].mask
      BY <2>1, <2>5, <2>7, <2>10 DEF IInv, GroupInv
    <3> QED
      BY <2>5, <3>1, <3>2 DEF GroupInv
  <2>13. \A t \in Pids : {q \in Pids : proc'[q].status \in {"ACTIVE"} /\ proc'[q].psi >= 0
                                      /\ proc'[q].vmmc = proc'[t].vmmc}
                       = RunningPopups(proc[t].vmmc)
    BY <2>5 DEF RunningPopups, Is, is_popup
  <2>14. MaskInv'
    <3>1. \A x \in Pids : masks'[x].ref = 0 => masks'[x].bits = {}
      BY <2>8 DEF IInv, MaskInv
    <3>2. \A t \in Pids : Leader(t)' /\ proc'[t].mask = 0 => RunningPopups(proc[t].vmmc) = {}
      BY <2>1, <2>3, <2>7, <2>10, ProcessAssumption DEF IInv, MaskInv, Pids
    <3> QED
      BY <2>13, <3>1, <3>2 DEF MaskInv, RunningPopups, Is, is_popup
  <2>15. StacksExclusive'
    <3>1. ASSUME NEW t \in Pids, Leader(t)', Alive(t)', proc'[t].mask # 0
          PROVE  /\ \A q, r \in RunningPopups(proc[t].vmmc) :
                       q # r => proc'[q].psi # proc'[r].psi
                 /\ masks'[proc'[t].mask].bits = {proc'[q].psi : q \in RunningPopups(proc[t].vmmc)}
      <4>1. {proc'[q].psi : q \in RunningPopups(proc[t].vmmc)}
              = {proc[q].psi : q \in RunningPopups(proc[t].vmmc)}
        BY <2>5 DEF RunningPopups
      <4>2. CASE t = p
        <5>1. RunningPopups(proc[t].vmmc) = {}
          BY <1>2, <1>4, <4>2 DEF IInv, MaskInv
        <5> QED
          BY <2>6, <2>8, <4>2, <5>1
      <4>3. CASE t # p
        <5>1. proc[t].mask # 0 /\ Leader(t) /\ Alive(t)
          BY <2>7, <2>10, <3>1, <4>3
        <5>2. proc[t].mask \in Pids /\ proc[t].mask # m
          <6>1. proc[t] \in Rec
            BY <1>1
          <6> QED
            BY <2>1, <5>1, <6>1, ProcessAssumption DEF Rec, Pids
        <5>3. /\ \A q, r \in RunningPopups(proc[t].vmmc) : q # r => proc[q].psi # proc[r].psi
              /\ masks[proc[t].mask].bits = {proc[q].psi : q \in RunningPopups(proc[t].vmmc)}
          BY <5>1 DEF IInv, StacksExclusive, Alive
        <5>4. masks'[proc'[t].mask] = masks[proc[t].mask]
          BY <2>7, <2>8, <4>3, <5>2
        <5>5. \A q \in RunningPopups(proc[t].vmmc) : proc'[q].psi = proc[q].psi
          BY <2>5 DEF RunningPopups
        <5> QED
          BY <4>1, <5>3, <5>4, <5>5
      <4> QED
        BY <4>2, <4>3
    <3>2. \A t \in Pids : RunningPopups(proc[t].vmmc) = RunningPopups(proc[t].vmmc)'
      BY <2>13 DEF RunningPopups, Is, is_popup
    <3> QED
      BY <3>1, <3>2 DEF StacksExclusive, Alive
  <2>16. CountsExact'
    <3>1. ASSUME NEW i \in Pids
          PROVE  /\ users'[i] = Cardinality({q \in Pids : proc'[q].vmmc = i})
                 /\ masks'[i].ref = Cardinality({q \in Pids : proc'[q].mask = i})
      <4>1. {q \in Pids : proc'[q].vmmc = i} = {q \in Pids : proc[q].vmmc = i}
        BY <2>5
      <4>2. CASE i = m
        <5>1. {q \in Pids : proc'[q].mask = i} = {p}
          BY <2>1, <2>7, <4>2
        <5>2. masks'[i].ref = Cardinality({p})
          BY <2>8, <4>2, FS_Singleton
        <5> QED
          BY <1>2, <4>1, <5>1, <5>2 DEF IInv, CountsExact
      <4>3. CASE i # m
        <5>1. i # 0
          BY DEF Pids
        <5>2. {q \in Pids : proc'[q].mask = i} = {q \in Pids : proc[q].mask = i}
          BY <1>4, <2>7, <4>3, <5>1
        <5> QED
          BY <1>2, <2>8, <4>1, <4>3, <5>2 DEF IInv, CountsExact
      <4> QED
        BY <4>2, <4>3
    <3> QED
      BY <3>1 DEF CountsExact
  <2>17. TypeOK'
    BY <1>1, <1>2, <2>4, <2>8, <2>10, <2>16, TypeNext DEF Loose
  <2> QED
    BY <2>10, <2>11, <2>12, <2>14, <2>15, <2>16, <2>17 DEF IInv
<1> QED
  BY <1>3, <1>4

-----------------------------------------------------------------------------
(* A step in which c begins to run as a child of p.                        *)
SameBut(q) ==
    /\ proc'[q].status = proc[q].status /\ proc'[q].pgid = proc[q].pgid
    /\ proc'[q].ppid = proc[q].ppid /\ proc'[q].psi = proc[q].psi
    /\ proc'[q].sync = proc[q].sync /\ proc'[q].mask = proc[q].mask
    /\ proc'[q].vmmc = proc[q].vmmc /\ proc'[q].tls = proc[q].tls
    /\ proc'[q].ans = proc[q].ans /\ proc'[q].held = proc[q].held
    /\ IsFree(q) => proc'[q] = proc[q]

Birth(c, p) ==
    /\ c \in Pids /\ p \in Pids /\ IsFree(c) /\ Alive(p)
    /\ \A q \in Pids \ {c} : SameBut(q)
    /\ proc'[c].status = "ACTIVE" /\ proc'[c].ppid = p
    /\ proc'[c].ans = 0 /\ proc'[c].held = 0 /\ proc'[c].wfor = "none"
    /\ answers' = answers /\ proc' \in [Pids -> Rec]

(* The pid of a new process is free, and nobody remembers a free pid.      *)
LEMMA NewPid ==
    ASSUME FreePids # {}
    PROVE  get_new_pid \in Pids /\ IsFree(get_new_pid)
<1>1. FreePids \in SUBSET Nat
  BY DEF FreePids, Pids
<1>2. get_new_pid \in FreePids
  BY <1>1, MinIsMember DEF get_new_pid
<1> QED
  BY <1>2 DEF FreePids

(* A pid that is given out again is named by no living record: neither as a*)
(* parent, nor as a group, nor as the process somebody waits for.          *)
LEMMA FreeForgotten ==
    ASSUME IInv, NEW c \in Pids, IsFree(c)
    PROVE  /\ proc[c] = NoProc
           /\ \A q \in Pids : /\ proc[q].ppid # c /\ proc[q].pgid # c
                              /\ proc[q].wfor \in {"ipc", "child"} => proc[q].wait # c
<1>1. proc[c] = NoProc
  BY DEF IInv, RecordInv, RecordOK, IsFree, Is
<1>2. ~Alive(c) /\ ~Known(c) /\ c # 0
  BY DEF IsFree, Is, Alive, Known, Pids
<1>3. ASSUME NEW q \in Pids PROVE proc[q].ppid # c
  <2>1. CASE Known(q)
    BY <1>2, <2>1, ProcessAssumption DEF IInv, ParentInv
  <2>2. CASE ~Known(q)
    BY <1>2, <2>2 DEF IInv, RecordInv, RecordOK, Known, Is
  <2> QED
    BY <2>1, <2>2
<1>4. ASSUME NEW q \in Pids PROVE proc[q].pgid # c
  <2>1. CASE Alive(q)
    BY <1>2, <2>1 DEF IInv, GroupInv
  <2>2. CASE ~Alive(q)
    BY <1>2, <2>2 DEF IInv, RecordInv, RecordOK, Alive, Is
  <2> QED
    BY <2>1, <2>2
<1>5. \A q \in Pids : proc[q].wfor \in {"ipc", "child"} => proc[q].wait # c
  BY <1>2 DEF IInv, WaitInv, NoDanglingWait, Known
<1> QED
  BY <1>1, <1>3, <1>4, <1>5

(* A new process joins the family as a childless child of a living process,*)
(* so parents exist and there is still no circle.                          *)
LEMMA BirthFamily ==
    ASSUME IInv, NEW c, NEW p, Birth(c, p)
    PROVE  ParentInv' /\ NoCircle' /\ AnswersAccounted' /\ c # 1 /\ c # p
<1>1. /\ c \in Pids /\ p \in Pids /\ IsFree(c) /\ Alive(p) /\ c # p /\ c # 1
      /\ proc[c] = NoProc /\ \A q \in Pids : proc[q].ppid # c
  BY FreeForgotten DEF Birth, Alive, IsFree, Is, IInv, ParentInv
<1>2. \A q \in Pids \ {c} : proc'[q].status = proc[q].status /\ proc'[q].ppid = proc[q].ppid
                            /\ proc'[q].psi = proc[q].psi
  BY DEF Birth, SameBut
<1>3. proc'[c].status = "ACTIVE" /\ proc'[c].ppid = p
  BY DEF Birth
<1>4. ParentInv'
  <2>1. 1 \in Pids
    BY ProcessAssumption DEF Pids
  <2>2. proc'[1].status \in {"ACTIVE"} /\ ~(proc'[1].psi >= 0) /\ proc'[1].ppid = 0
    BY <1>1, <1>2, <2>1 DEF IInv, ParentInv, Is, is_popup
  <2>3. ASSUME NEW q \in Pids \ {1}, proc'[q].status \in {"ACTIVE", "DAEMON", "ZOMBIE"}
        PROVE  /\ proc'[q].ppid \in Pids
               /\ proc'[proc'[q].ppid].status \in {"ACTIVE", "DAEMON"}
    <3>1. CASE q = c
      BY <1>1, <1>2, <1>3, <3>1 DEF Alive, Is
    <3>2. CASE q # c
      <4>1. proc[q].ppid \in Pids /\ Alive(proc[q].ppid)
        BY <1>2, <2>3, <3>2 DEF IInv, ParentInv, Known, Is
      <4> QED
        BY <1>1, <1>2, <3>2, <4>1 DEF Alive, Is
    <3> QED
      BY <3>1, <3>2
  <2> QED
    BY <2>2, <2>3 DEF ParentInv, Alive, Known, Is, is_popup
<1>5. NoCircle'
  <2>1. ASSUME NEW S \in SUBSET Pids, S # {}
        PROVE  \E q \in S : proc'[q].ppid \notin S
    <3>1. CASE S = {c}
      BY <1>1, <1>3, <3>1
    <3>2. CASE S # {c}
      <4>1. S \ {c} # {} /\ S \ {c} \in SUBSET Pids
        BY <2>1, <3>2
      <4>2. PICK q \in S \ {c} : proc[q].ppid \notin S \ {c}
        BY <4>1 DEF IInv, NoCircle
      <4> QED
        BY <1>1, <1>2, <4>2
    <3> QED
      BY <3>1, <3>2
  <2> QED
    BY <2>1 DEF NoCircle
<1>6. AnswersAccounted'
  <2>1. \A q \in Pids : proc'[q].ans = proc[q].ans /\ proc'[q].held = proc[q].held
    BY <1>1 DEF Birth, SameBut, NoProc
  <2>2. /\ {q \in Pids : proc'[q].ans # 0} = {q \in Pids : proc[q].ans # 0}
        /\ {q \in Pids : proc'[q].held # 0} = {q \in Pids : proc[q].held # 0}
    BY <2>1
  <2> QED
    BY <2>1, <2>2 DEF Birth, IInv, AnswersAccounted
<1> QED
  BY <1>1, <1>4, <1>5, <1>6

(* One process more that points to v.                                      *)
LEMMA CountPlus ==
    ASSUME NEW F \in [Pids -> 0 .. MaxPid], NEW G \in [Pids -> 0 .. MaxPid],
           NEW c \in Pids, F[c] = 0, \A q \in Pids \ {c} : G[q] = F[q],
           NEW i \in Pids
    PROVE  Cardinality({q \in Pids : G[q] = i})
             = Cardinality({q \in Pids : F[q] = i}) + (IF G[c] = i THEN 1 ELSE 0)
<1> DEFINE S == {q \in Pids : F[q] = i}
<1>1. IsFiniteSet(S) /\ Cardinality(S) \in Int /\ i # 0
  BY PidSets DEF Pids
<1>2. CASE G[c] = i
  <2>1. {q \in Pids : G[q] = i} = S \cup {c} /\ c \notin S
    BY <1>1, <1>2
  <2>2. Cardinality(S \cup {c}) = Cardinality(S) + 1
    BY <1>1, <2>1, FS_AddElement
  <2> QED
    BY <1>2, <2>1, <2>2
<1>3. CASE G[c] # i
  <2>1. {q \in Pids : G[q] = i} = S
    BY <1>1, <1>3
  <2>2. Cardinality({q \in Pids : G[q] = i}) = Cardinality(S)
    BY <2>1
  <2> HIDE DEF S
  <2> QED
    BY <1>1, <1>3, <2>2
<1> QED
  BY <1>2, <1>3

(* What is counted after a birth, if the counters followed.                *)
LEMMA BirthCounts ==
    ASSUME IInv, NEW c, NEW p, Birth(c, p),
           \A i \in Pids :
              /\ users'[i] = users[i] + (IF proc'[c].vmmc = i THEN 1 ELSE 0)
              /\ masks'[i].ref = masks[i].ref + (IF proc'[c].mask = i THEN 1 ELSE 0)
    PROVE  CountsExact'
<1> DEFINE F == [q \in Pids |-> proc[q].vmmc]
           FN == [q \in Pids |-> proc'[q].vmmc]
           G == [q \in Pids |-> proc[q].mask]
           GN == [q \in Pids |-> proc'[q].mask]
<1>1. c \in Pids /\ proc[c] = NoProc
  BY FreeForgotten DEF Birth
<1>2. /\ F \in [Pids -> 0 .. MaxPid] /\ FN \in [Pids -> 0 .. MaxPid]
      /\ G \in [Pids -> 0 .. MaxPid] /\ GN \in [Pids -> 0 .. MaxPid]
  BY TypesLoose DEF IInv, Loose, Rec, Birth
<1>3. \A q \in Pids \ {c} : FN[q] = F[q] /\ GN[q] = G[q]
  BY DEF Birth, SameBut
<1>4. F[c] = 0 /\ G[c] = 0 /\ FN[c] = proc'[c].vmmc /\ GN[c] = proc'[c].mask
  BY <1>1 DEF NoProc
<1>5. ASSUME NEW i \in Pids
      PROVE  /\ users'[i] = Cardinality({q \in Pids : proc'[q].vmmc = i})
             /\ masks'[i].ref = Cardinality({q \in Pids : proc'[q].mask = i})
  <2>1. /\ users[i] = Cardinality({q \in Pids : F[q] = i})
        /\ masks[i].ref = Cardinality({q \in Pids : G[q] = i})
    <3>1. /\ {q \in Pids : proc[q].vmmc = i} = {q \in Pids : F[q] = i}
          /\ {q \in Pids : proc[q].mask = i} = {q \in Pids : G[q] = i}
      OBVIOUS
    <3>2. /\ users[i] = Cardinality({q \in Pids : proc[q].vmmc = i})
          /\ masks[i].ref = Cardinality({q \in Pids : proc[q].mask = i})
      BY DEF IInv, CountsExact
    <3> QED
      BY <3>1, <3>2
  <2>2. /\ {q \in Pids : proc'[q].vmmc = i} = {q \in Pids : FN[q] = i}
        /\ {q \in Pids : proc'[q].mask = i} = {q \in Pids : GN[q] = i}
    OBVIOUS
  <2> HIDE DEF F, FN, G, GN
  <2>3. Cardinality({q \in Pids : FN[q] = i})
          = Cardinality({q \in Pids : F[q] = i}) + (IF FN[c] = i THEN 1 ELSE 0)
    BY <1>1, <1>2, <1>3, <1>4, CountPlus
  <2>4. Cardinality({q \in Pids : GN[q] = i})
          = Cardinality({q \in Pids : G[q] = i}) + (IF GN[c] = i THEN 1 ELSE 0)
    BY <1>1, <1>2, <1>3, <1>4, CountPlus
  <2> QED
    BY <1>4, <2>1, <2>2, <2>3, <2>4
<1> QED
  BY <1>5 DEF CountsExact

-----------------------------------------------------------------------------
(* The invariants on groups, stacks and waiters as predicates of a table P *)
(* of processes, so that they can be stated of the table after a step.     *)
LiveR(r)      == r.status \in {"ACTIVE", "DAEMON"}
KnownR(r)     == r.status \in {"ACTIVE", "DAEMON", "ZOMBIE"}
LeaderR(p, r) == r.status # "FREE" /\ r.pgid = p /\ ~(r.psi >= 0)
PopupsOf(P, v) ==
    {p \in Pids : P[p].status = "ACTIVE" /\ P[p].psi >= 0 /\ P[p].vmmc = v}

LedOf(P) ==
    \A p \in Pids : LiveR(P[p]) =>
        /\ P[p].pgid \in Pids /\ P[P[p].pgid].vmmc = P[p].vmmc
        /\ LiveR(P[P[p].pgid]) /\ LeaderR(P[p].pgid, P[P[p].pgid])

ApartOf(P) ==
    \A p, q \in Pids : LeaderR(p, P[p]) /\ LeaderR(q, P[q]) /\ p # q =>
        /\ P[p].vmmc # P[q].vmmc
        /\ P[p].mask # 0 => P[p].mask # P[q].mask

StackAt(P, M, t) ==
    IF P[t].mask = 0 THEN PopupsOf(P, P[t].vmmc) = {}
    ELSE /\ \A p, q \in PopupsOf(P, P[t].vmmc) : p # q => P[p].psi # P[q].psi
         /\ M[P[t].mask].bits = {P[p].psi : p \in PopupsOf(P, P[t].vmmc)}

StacksOf(P, M) == \A t \in Pids : LeaderR(t, P[t]) => StackAt(P, M, t)

WaitsOf(P) ==
    \A p \in Pids : P[p].wfor \in {"ipc", "child"} =>
        /\ P[p].wait \in Pids /\ KnownR(P[P[p].wait]) /\ P[P[p].wait].ppid = p
        /\ P[p].wfor = "ipc" => P[P[p].wait].sync
        /\ P[p].wfor = "child" => ~(P[P[p].wait].psi >= 0)

SyncsOf(P) ==
    \A z \in Pids : P[z].sync =>
        /\ P[z].ppid \in Pids /\ P[P[z].ppid].wfor = "ipc" /\ P[P[z].ppid].wait = z
        /\ P[z].ans \in {0, P[z].ppid}

(* Before the step, from the invariant.                                    *)
LEMMA ViewsBefore ==
    ASSUME IInv
    PROVE  /\ LedOf(proc) /\ ApartOf(proc) /\ StacksOf(proc, masks)
           /\ WaitsOf(proc) /\ SyncsOf(proc)
           /\ \A p \in Pids : LeaderR(p, proc[p]) => LiveR(proc[p])
<1>1. \A p \in Pids : LeaderR(p, proc[p]) => LiveR(proc[p])
  BY DEF IInv, RecordInv, RecordOK, LeaderR, LiveR, Pids
<1>2. /\ \A p \in Pids : LeaderR(p, proc[p]) <=> Leader(p)
      /\ \A p \in Pids : LiveR(proc[p]) <=> Alive(p)
  BY DEF LeaderR, Leader, LiveR, Alive, IsFree, Is, is_popup
<1>3. \A v : PopupsOf(proc, v) = RunningPopups(v)
  BY DEF PopupsOf, RunningPopups, Is, is_popup
<1>4. LedOf(proc) /\ ApartOf(proc)
  BY <1>2 DEF IInv, GroupInv, LedOf, ApartOf
<1>5. StacksOf(proc, masks)
  BY <1>1, <1>2, <1>3 DEF IInv, MaskInv, StacksExclusive, StacksOf, StackAt, Alive
<1>6. WaitsOf(proc) /\ SyncsOf(proc)
  BY DEF IInv, WaitInv, NoDanglingWait, SyncInv, WaitsOf, SyncsOf, KnownR, Is, is_popup
<1> QED
  BY <1>1, <1>4, <1>5, <1>6

(* After the step, for the invariant.                                      *)
LEMMA ViewsAfter ==
    /\ LedOf(proc') /\ ApartOf(proc') => GroupInv'
    /\ StacksOf(proc', masks') => StacksExclusive'
    /\ StacksOf(proc', masks') /\ (\A m \in Pids : masks'[m].ref = 0 => masks'[m].bits = {})
         => MaskInv'
    /\ WaitsOf(proc') => WaitInv'
    /\ SyncsOf(proc') => SyncInv'
<1>1. LedOf(proc') /\ ApartOf(proc') => GroupInv'
  BY DEF GroupInv, LedOf, ApartOf, LeaderR, Leader, LiveR, Alive, IsFree, Is, is_popup
<1>2. \A t \in Pids : RunningPopups(proc[t].vmmc)' = PopupsOf(proc', proc'[t].vmmc)
  BY DEF PopupsOf, RunningPopups, Is, is_popup
<1>3. \A t \in Pids : LeaderR(t, proc'[t]) <=> Leader(t)'
  BY DEF LeaderR, Leader, IsFree, Is, is_popup
<1>4. StacksOf(proc', masks') => StacksExclusive'
  BY <1>2, <1>3 DEF StacksExclusive, StacksOf, StackAt
<1>5. StacksOf(proc', masks') /\ (\A m \in Pids : masks'[m].ref = 0 => masks'[m].bits = {})
         => MaskInv'
  BY <1>2, <1>3 DEF MaskInv, StacksOf, StackAt
<1>6. (WaitsOf(proc') => WaitInv') /\ (SyncsOf(proc') => SyncInv')
  BY DEF WaitInv, NoDanglingWait, SyncInv, WaitsOf, SyncsOf, KnownR, Is, is_popup
<1> QED
  BY <1>1, <1>4, <1>5, <1>6

(* What is left to show of any step.                                       *)
LEMMA ViewsEnough ==
    ASSUME Loose', RecordInv', LedOf(proc'), ApartOf(proc'), StacksOf(proc', masks'),
           \A m \in Pids : masks'[m].ref = 0 => masks'[m].bits = {},
           CountsExact', ParentInv', NoCircle', WaitsOf(proc'), SyncsOf(proc'),
           AnswersAccounted'
    PROVE  IInv'
BY ViewsAfter, TypeNext DEF IInv

-----------------------------------------------------------------------------
(* A new process that starts a group has an address space and a mask of    *)
(* its own; another one is put into its group's address space.             *)
LEMMA BirthGroup ==
    ASSUME IInv, NEW c, NEW p, Birth(c, p), proc'[c].vmmc # 0,
           \/ /\ LeaderR(c, proc'[c])
              /\ \A q \in Pids : proc[q].vmmc # proc'[c].vmmc
              /\ \A q \in Pids : proc'[c].mask # 0 => proc[q].mask # proc'[c].mask
           \/ /\ proc'[c].pgid \in Pids /\ proc[proc'[c].pgid].vmmc = proc'[c].vmmc
              /\ LiveR(proc[proc'[c].pgid])
              /\ LeaderR(proc'[c].pgid, proc[proc'[c].pgid])
    PROVE  LedOf(proc') /\ ApartOf(proc')
<1>1. /\ c \in Pids /\ proc[c] = NoProc
      /\ \A q \in Pids : proc[q].pgid # c
  BY FreeForgotten DEF Birth
<1>2. \A q \in Pids \ {c} : /\ LiveR(proc'[q]) <=> LiveR(proc[q])
                            /\ LeaderR(q, proc'[q]) <=> LeaderR(q, proc[q])
                            /\ proc'[q].pgid = proc[q].pgid /\ proc'[q].vmmc = proc[q].vmmc
                            /\ proc'[q].mask = proc[q].mask
  BY DEF Birth, SameBut, LiveR, LeaderR
<1>3. LedOf(proc) /\ ApartOf(proc)
  BY ViewsBefore
<1>4. ~LiveR(proc[c]) /\ ~LeaderR(c, proc[c]) /\ LiveR(proc'[c])
  BY <1>1 DEF NoProc, LiveR, LeaderR, Birth
<1>5. ASSUME NEW q \in Pids, LiveR(proc'[q])
      PROVE  /\ proc'[q].pgid \in Pids /\ proc'[proc'[q].pgid].vmmc = proc'[q].vmmc
             /\ LiveR(proc'[proc'[q].pgid]) /\ LeaderR(proc'[q].pgid, proc'[proc'[q].pgid])
  <2>1. CASE q # c
    BY <1>1, <1>2, <1>3, <1>5, <2>1 DEF LedOf
  <2>2. CASE q = c /\ LeaderR(c, proc'[c])
    BY <1>1, <1>5, <2>2 DEF LeaderR
  <2>3. CASE q = c /\ ~LeaderR(c, proc'[c])
    <3>1. proc'[c].pgid # c
      BY <1>4, <2>3
    <3> QED
      BY <1>2, <2>3, <3>1
  <2> QED
    BY <2>1, <2>2, <2>3
<1>6. ASSUME NEW q \in Pids, NEW r \in Pids, LeaderR(q, proc'[q]), LeaderR(r, proc'[r]), q # r
      PROVE  /\ proc'[q].vmmc # proc'[r].vmmc
             /\ proc'[q].mask # 0 => proc'[q].mask # proc'[r].mask
  <2>1. CASE q # c /\ r # c
    BY <1>2, <1>3, <1>6, <2>1 DEF ApartOf
  <2>2. CASE q = c \/ r = c
    <3>1. LeaderR(c, proc'[c])
      BY <1>6, <2>2
    <3>2. proc'[c].pgid = c
      BY <3>1 DEF LeaderR
    <3>3. /\ \A x \in Pids : proc[x].vmmc # proc'[c].vmmc
          /\ \A x \in Pids : proc'[c].mask # 0 => proc[x].mask # proc'[c].mask
      BY <1>4, <3>2
    <3> QED
      BY <1>2, <1>6, <2>2, <3>3
  <2> QED
    BY <2>1, <2>2
<1> QED
  BY <1>5, <1>6 DEF LedOf, ApartOf

(* Births that start no popup change nothing for popups and waiters.       *)
LEMMA QuietBirth ==
    ASSUME IInv, NEW c, NEW p, Birth(c, p),
           \A q \in Pids \ {c} : proc'[q] = proc[q],
           proc'[c].psi = -1, ~proc'[c].sync, proc'[c].vmmc # 0
    PROVE  /\ RecordInv' /\ WaitsOf(proc') /\ SyncsOf(proc')
           /\ \A v : PopupsOf(proc', v) = PopupsOf(proc, v)
<1>1. /\ c \in Pids /\ proc[c] = NoProc
      /\ \A q \in Pids : proc[q].wfor \in {"ipc", "child"} => proc[q].wait # c
      /\ \A q \in Pids : proc[q].ppid # c
  BY FreeForgotten DEF Birth
<1>2. WaitsOf(proc) /\ SyncsOf(proc)
  BY ViewsBefore
<1>3. RecordInv'
  <2>1. ASSUME NEW q \in Pids PROVE RecordOK(q, proc'[q])
    <3>1. CASE q = c
      BY <3>1 DEF Birth, RecordOK
    <3>2. CASE q # c
      BY <3>2 DEF IInv, RecordInv
    <3> QED
      BY <3>1, <3>2
  <2> QED
    BY <2>1 DEF RecordInv
<1>4. WaitsOf(proc')
  <2>1. proc'[c].wfor = "none"
    BY DEF Birth
  <2> QED
    BY <1>1, <1>2, <2>1 DEF WaitsOf
<1>5. SyncsOf(proc')
  BY <1>1, <1>2 DEF SyncsOf
<1>6. \A v : PopupsOf(proc', v) = PopupsOf(proc, v)
  BY <1>1 DEF PopupsOf, NoProc
<1> QED
  BY <1>3, <1>4, <1>5, <1>6

(* A group whose popups stay as they are.                                  *)
LEMMA StackKept ==
    ASSUME IInv, NEW t \in Pids, LeaderR(t, proc[t]),
           proc'[t].mask = proc[t].mask, proc'[t].vmmc = proc[t].vmmc,
           PopupsOf(proc', proc[t].vmmc) = PopupsOf(proc, proc[t].vmmc),
           \A q \in PopupsOf(proc, proc[t].vmmc) : proc'[q].psi = proc[q].psi,
           proc[t].mask # 0 => masks'[proc[t].mask].bits = masks[proc[t].mask].bits
    PROVE  StackAt(proc', masks', t)
<1>1. StackAt(proc, masks, t)
  BY ViewsBefore DEF StacksOf
<1>2. {proc[q].psi : q \in PopupsOf(proc, proc[t].vmmc)}
        = {proc'[q].psi : q \in PopupsOf(proc, proc[t].vmmc)}
  OBVIOUS
<1> QED
  BY <1>1, <1>2 DEF StackAt

(* A free process_t is a process_t.                                        *)
LEMMA NoProcType == NoProc \in Rec
<1>1. 0 \in 0 .. MaxPid /\ 0 \in 0 .. Stacks
  BY ProcessAssumption
<1> QED
  BY <1>1 DEF NoProc, Rec

(* The new process has an address space and a group of its own.            *)
LEMMA forkInv ==
    ASSUME IInv, NEW p \in Pids, fork(p)
    PROVE  IInv'
<1>1. /\ Loose /\ proc \in [Pids -> Rec] /\ proc[p] \in Rec
      /\ \A i \in Pids : users[i] \in Int /\ masks[i] \in [ref : Int, bits : SUBSET Stack]
  BY TypesLoose DEF IInv, Loose
<1>2. PICK c \in Pids : c = get_new_pid /\ IsFree(c)
  BY NewPid DEF fork
<1>3. PICK v \in Pids : v = FreshVmmc(c) /\ \A q \in Pids : proc[q].vmmc # v
  BY <1>2, FreshVmmcFacts
<1>4. PICK e \in BOOLEAN : e = proc[p].entry
  BY <1>1 DEF Rec
<1>5. PICK m \in 0 .. MaxPid :
        /\ m = IF e THEN FreshMask(c) ELSE 0
        /\ m # 0 => \A q \in Pids : proc[q].mask # m
        /\ m # 0 <=> e
        /\ m # 0 => m \in Pids
  <2>1. proc[c].mask = 0
    BY <1>2, FreeForgotten DEF NoProc
  <2>2. FreshMask(c) \in Pids /\ \A q \in Pids : proc[q].mask # FreshMask(c)
    BY <1>2, <2>1, FreshMaskFacts
  <2>3. FreshMask(c) \in 0 .. MaxPid /\ FreshMask(c) # 0
    BY <2>2 DEF Pids
  <2> QED
    BY <2>2, <2>3, ProcessAssumption
<1> DEFINE r == [NoProc EXCEPT !.status = "ACTIVE", !.pgid = c, !.ppid = p, !.entry = e,
                               !.mask = m, !.vmmc = v, !.tls = proc[p].tls]
<1>6. /\ proc' = [proc EXCEPT ![c] = r]
      /\ users' = [users EXCEPT ![v] = 1]
      /\ masks' = IF e THEN [masks EXCEPT ![m] = [ref |-> 1, bits |-> {}]] ELSE masks
      /\ UNCHANGED answers
  BY <1>2, <1>3, <1>4, <1>5 DEF fork
<1>7. /\ r.status = "ACTIVE" /\ r.pgid = c /\ r.ppid = p /\ r.psi = -1 /\ ~r.sync
      /\ r.mask = m /\ r.vmmc = v /\ r.ans = 0 /\ r.held = 0 /\ r.wfor = "none"
      /\ r \in Rec
  <2>1. proc[p].tls \in 0 .. Stacks /\ v \in 0 .. MaxPid /\ c \in 0 .. MaxPid /\ p \in 0 .. MaxPid
    BY <1>1 DEF Rec, Pids
  <2>2. r \in Rec
    BY <2>1, NoProcType DEF Rec
  <2> QED
    BY <2>2 DEF NoProc
<1> HIDE DEF r
<1>8. /\ proc' \in [Pids -> Rec] /\ proc'[c] = r
      /\ \A q \in Pids \ {c} : proc'[q] = proc[q]
  BY <1>1, <1>6, <1>7
<1>9. Birth(c, p)
  BY <1>2, <1>6, <1>7, <1>8 DEF Birth, SameBut, fork, Running, Is, Alive
<1>10. c # 0 /\ v # 0
  BY DEF Pids
<1>11. LedOf(proc') /\ ApartOf(proc')
  <2>1. LeaderR(c, proc'[c])
    BY <1>7, <1>8 DEF LeaderR
  <2> QED
    BY <1>3, <1>5, <1>7, <1>8, <1>9, <1>10, <2>1, BirthGroup
<1>12. ParentInv' /\ NoCircle' /\ AnswersAccounted'
  BY <1>9, BirthFamily
<1>13. /\ RecordInv' /\ WaitsOf(proc') /\ SyncsOf(proc')
       /\ \A w : PopupsOf(proc', w) = PopupsOf(proc, w)
  BY <1>7, <1>8, <1>9, <1>10, QuietBirth
<1>14. users[v] = 0 /\ (m # 0 => masks[m].ref = 0)
  <2>1. {q \in Pids : proc[q].vmmc = v} = {}
    BY <1>3
  <2>2. m # 0 => {q \in Pids : proc[q].mask = m} = {}
    BY <1>5
  <2>3. users[v] = Cardinality({q \in Pids : proc[q].vmmc = v})
    BY DEF IInv, CountsExact
  <2>4. m # 0 => masks[m].ref = Cardinality({q \in Pids : proc[q].mask = m})
    BY <1>5 DEF IInv, CountsExact
  <2> QED
    BY <2>1, <2>2, <2>3, <2>4, FS_EmptySet
<1>15. /\ \A i \in Pids : i # m => masks'[i] = masks[i]
       /\ m # 0 => masks'[m] = [ref |-> 1, bits |-> {}]
       /\ users' \in [Pids -> Int] /\ masks' \in [Pids -> [ref : Int, bits : SUBSET Stack]]
       /\ users'[v] = 1 /\ \A i \in Pids : i # v => users'[i] = users[i]
  <2>1. [ref |-> 1, bits |-> {}] \in [ref : Int, bits : SUBSET Stack]
    OBVIOUS
  <2> QED
    BY <1>1, <1>5, <1>6, <2>1 DEF Loose
<1>16. CountsExact'
  <2>1. ASSUME NEW i \in Pids
        PROVE  /\ users'[i] = users[i] + (IF proc'[c].vmmc = i THEN 1 ELSE 0)
               /\ masks'[i].ref = masks[i].ref + (IF proc'[c].mask = i THEN 1 ELSE 0)
    <3>1. i # 0
      BY DEF Pids
    <3>2. proc'[c].vmmc = v /\ proc'[c].mask = m
      BY <1>7, <1>8
    <3>3. users'[i] = users[i] + (IF v = i THEN 1 ELSE 0)
      BY <1>1, <1>14, <1>15
    <3>4. CASE i = m
      BY <1>14, <1>15, <3>1, <3>2, <3>3, <3>4
    <3>5. CASE i # m
      BY <1>1, <1>15, <3>2, <3>3, <3>5
    <3> QED
      BY <3>4, <3>5
  <2> QED
    BY <1>9, <2>1, BirthCounts
<1>17. StacksOf(proc', masks')
  <2>1. ASSUME NEW t \in Pids, LeaderR(t, proc'[t])
        PROVE  StackAt(proc', masks', t)
    <3>1. CASE t = c
      <4>1. PopupsOf(proc', v) = {}
        BY <1>3, <1>13 DEF PopupsOf
      <4> QED
        BY <1>7, <1>8, <1>15, <3>1, <4>1 DEF StackAt
    <3>2. CASE t # c
      <4>1. /\ proc[t].mask # 0 => proc[t].mask \in Pids /\ proc[t].mask # m
            /\ proc'[t] = proc[t]
        <5>1. proc[t].mask \in 0 .. MaxPid
          BY <1>1 DEF Rec
        <5> QED
          BY <1>5, <1>8, <3>2, <5>1 DEF Pids
      <4>2. \A q \in PopupsOf(proc, proc[t].vmmc) : proc'[q].psi = proc[q].psi
        BY <1>2, <1>8 DEF PopupsOf, IsFree, Is
      <4> QED
        BY <1>13, <1>15, <2>1, <4>1, <4>2, StackKept
    <3> QED
      BY <3>1, <3>2
  <2> QED
    BY <2>1 DEF StacksOf
<1>18. \A i \in Pids : masks'[i].ref = 0 => masks'[i].bits = {}
  <2>1. \A i \in Pids : i # 0
    BY DEF Pids
  <2> QED
    BY <1>15, <2>1 DEF IInv, MaskInv
<1> QED
  BY <1>8, <1>11, <1>12, <1>13, <1>15, <1>16, <1>17, <1>18, ViewsEnough DEF Loose

(* A thread joins the group of its creator.                                *)
LEMMA threadInv ==
    ASSUME IInv, NEW p \in Pids, create_user_thread(p)
    PROVE  IInv'
<1>1. /\ Loose /\ proc \in [Pids -> Rec] /\ proc[p] \in Rec
      /\ \A i \in Pids : users[i] \in Int /\ masks[i] \in [ref : Int, bits : SUBSET Stack]
  BY TypesLoose DEF IInv, Loose
<1>2. PICK c \in Pids : c = get_new_pid /\ IsFree(c)
  BY NewPid DEF create_user_thread
<1>3. LiveR(proc[p]) /\ proc[p].status = "ACTIVE"
  BY DEF create_user_thread, Running, Is, LiveR
<1>4. PICK g \in Pids : /\ g = proc[p].pgid /\ proc[g].vmmc = proc[p].vmmc
                        /\ LiveR(proc[g]) /\ LeaderR(g, proc[g])
  BY <1>3, ViewsBefore DEF LedOf
<1>5. PICK v \in Pids : v = proc[p].vmmc
  <2>1. proc[p].vmmc \in 0 .. MaxPid /\ proc[p].vmmc # 0
    BY <1>1, <1>3 DEF Rec, IInv, RecordInv, RecordOK
  <2> QED
    BY <2>1 DEF Pids
<1>6. PICK m \in 0 .. MaxPid : m = proc[p].mask
  BY <1>1 DEF Rec
<1>7. (m # 0 => m \in Pids) /\ v # 0 /\ v \in 0 .. MaxPid /\ 0 \in 0 .. MaxPid
      /\ g \in 0 .. MaxPid
  BY ProcessAssumption DEF Pids
<1> DEFINE r == [NoProc EXCEPT !.status = "ACTIVE", !.pgid = g, !.ppid = g, !.mask = m,
                               !.vmmc = v, !.tls = MainTls]
<1>8. /\ proc' = [proc EXCEPT ![c] = r]
      /\ users' = [users EXCEPT ![v] = @ + 1]
      /\ masks' = IF m = 0 THEN masks ELSE [masks EXCEPT ![m].ref = @ + 1]
      /\ UNCHANGED answers
  BY <1>2, <1>4, <1>5, <1>6 DEF create_user_thread
<1>9. /\ r.status = "ACTIVE" /\ r.pgid = g /\ r.ppid = g /\ r.psi = -1 /\ ~r.sync
      /\ r.mask = m /\ r.vmmc = v /\ r.ans = 0 /\ r.held = 0 /\ r.wfor = "none"
      /\ r \in Rec
  <2>1. MainTls \in 0 .. Stacks
    BY ProcessAssumption DEF MainTls
  <2>2. r \in Rec
    BY <1>7, <2>1, NoProcType DEF Rec
  <2> QED
    BY <2>2 DEF NoProc
<1> HIDE DEF r
<1>10. /\ proc' \in [Pids -> Rec] /\ proc'[c] = r
       /\ \A q \in Pids \ {c} : proc'[q] = proc[q]
  BY <1>1, <1>8, <1>9
<1>11. Birth(c, g)
  BY <1>2, <1>4, <1>8, <1>9, <1>10 DEF Birth, SameBut, Is, Alive, LiveR
<1>12. LedOf(proc') /\ ApartOf(proc')
  BY <1>4, <1>5, <1>7, <1>9, <1>10, <1>11, BirthGroup
<1>13. ParentInv' /\ NoCircle' /\ AnswersAccounted'
  BY <1>11, BirthFamily
<1>14. /\ RecordInv' /\ WaitsOf(proc') /\ SyncsOf(proc')
       /\ \A w : PopupsOf(proc', w) = PopupsOf(proc, w)
  BY <1>7, <1>9, <1>10, <1>11, QuietBirth
<1>15. /\ \A i \in Pids : i # m => masks'[i] = masks[i]
       /\ m # 0 => masks'[m].ref = masks[m].ref + 1 /\ masks'[m].bits = masks[m].bits
       /\ users' \in [Pids -> Int] /\ masks' \in [Pids -> [ref : Int, bits : SUBSET Stack]]
       /\ users'[v] = users[v] + 1 /\ \A i \in Pids : i # v => users'[i] = users[i]
  <2>1. users' \in [Pids -> Int] /\ users'[v] = users[v] + 1
        /\ \A i \in Pids : i # v => users'[i] = users[i]
    BY <1>1, <1>8 DEF Loose
  <2>2. CASE m = 0
    BY <1>1, <1>8, <2>1, <2>2 DEF Loose
  <2>3. CASE m # 0
    <3>1. masks' = [masks EXCEPT ![m].ref = @ + 1]
      BY <1>8, <2>3
    <3>2. /\ masks'[m] = [masks[m] EXCEPT !.ref = masks[m].ref + 1]
          /\ \A i \in Pids : i # m => masks'[i] = masks[i]
      BY <1>1, <1>7, <2>3, <3>1 DEF Loose
    <3>3. masks[m] \in [ref : Int, bits : SUBSET Stack]
      BY <1>1, <1>7, <2>3
    <3>4. /\ masks'[m].ref = masks[m].ref + 1 /\ masks'[m].bits = masks[m].bits
          /\ masks'[m] \in [ref : Int, bits : SUBSET Stack]
      BY <3>2, <3>3
    <3>5. masks' \in [Pids -> [ref : Int, bits : SUBSET Stack]]
      BY <1>1, <3>1, <3>2, <3>4 DEF Loose
    <3> QED
      BY <2>1, <3>2, <3>4, <3>5
  <2> QED
    BY <2>2, <2>3
<1>16. CountsExact'
  <2>1. ASSUME NEW i \in Pids
        PROVE  /\ users'[i] = users[i] + (IF proc'[c].vmmc = i THEN 1 ELSE 0)
               /\ masks'[i].ref = masks[i].ref + (IF proc'[c].mask = i THEN 1 ELSE 0)
    <3>1. i # 0
      BY DEF Pids
    <3>2. proc'[c].vmmc = v /\ proc'[c].mask = m
      BY <1>9, <1>10
    <3>3. users'[i] = users[i] + (IF v = i THEN 1 ELSE 0)
      BY <1>1, <1>15
    <3>4. CASE i = m
      BY <1>15, <3>1, <3>2, <3>3, <3>4
    <3>5. CASE i # m
      BY <1>1, <1>15, <3>2, <3>3, <3>5
    <3> QED
      BY <3>4, <3>5
  <2> QED
    BY <1>11, <2>1, BirthCounts
<1>17. StacksOf(proc', masks')
  <2>1. ASSUME NEW t \in Pids, LeaderR(t, proc'[t])
        PROVE  StackAt(proc', masks', t)
    <3>1. t # c
      <4>1. proc[g].status # "FREE" /\ proc[c].status = "FREE"
        BY <1>2, <1>4 DEF LiveR, IsFree, Is
      <4> QED
        BY <1>9, <1>10, <2>1, <4>1 DEF LeaderR
    <3>2. /\ proc[t].mask # 0 => proc[t].mask \in Pids
          /\ proc'[t] = proc[t]
      <4>1. proc[t].mask \in 0 .. MaxPid
        BY <1>1 DEF Rec
      <4> QED
        BY <1>10, <3>1, <4>1 DEF Pids
    <3>3. \A q \in PopupsOf(proc, proc[t].vmmc) : proc'[q].psi = proc[q].psi
      BY <1>2, <1>10 DEF PopupsOf, IsFree, Is
    <3>4. proc[t].mask # 0 => masks'[proc[t].mask].bits = masks[proc[t].mask].bits
      BY <1>15, <3>2
    <3> QED
      BY <1>14, <2>1, <3>2, <3>3, <3>4, StackKept
  <2> QED
    BY <2>1 DEF StacksOf
<1>18. \A i \in Pids : masks'[i].ref = 0 => masks'[i].bits = {}
  <2>1. m # 0 => masks[m].ref >= 0
    <3>1. masks \in [Pids -> [ref : 0 .. MaxPid, bits : SUBSET Stack]]
      BY DEF IInv, TypeOK
    <3>2. m # 0 => masks[m] \in [ref : 0 .. MaxPid, bits : SUBSET Stack]
      BY <1>7, <3>1
    <3> QED
      BY <3>2
  <2>2. \A i \in Pids : i # 0
    BY DEF Pids
  <2>3. \A i \in Pids : masks[i].ref \in Int
    BY <1>1
  <2> QED
    BY <1>15, <2>1, <2>2, <2>3 DEF IInv, MaskInv
<1> QED
  BY <1>10, <1>12, <1>13, <1>14, <1>15, <1>16, <1>17, <1>18, ViewsEnough DEF Loose

(* A message starts a popup on a stack nobody is on.                       *)
LEMMA popupInv ==
    ASSUME IInv, NEW p \in Pids, NEW t \in Pids, NEW sync \in BOOLEAN, popup(p, t, sync)
    PROVE  IInv'
<1>1. /\ Loose /\ proc \in [Pids -> Rec]
      /\ \A i \in Pids : users[i] \in Int /\ masks[i] \in [ref : Int, bits : SUBSET Stack]
  BY TypesLoose DEF IInv, Loose
<1>2. PICK c \in Pids : c = get_new_pid /\ IsFree(c)
  BY NewPid DEF popup
<1>3. /\ proc[p].status = "ACTIVE" /\ proc[p].wfor = "none" /\ proc[p].held = 0 /\ c # p
      /\ LiveR(proc[t]) /\ LeaderR(t, proc[t]) /\ proc[t].pgid = t /\ c # t
  BY <1>2 DEF popup, Running, find_process, Leader, Is, IsFree, LiveR, LeaderR, is_popup
<1>4. PICK k \in Pids : k = proc[t].mask
  <2>1. proc[t].mask # 0 /\ proc[t].mask \in 0 .. MaxPid
    BY <1>1 DEF popup, Rec
  <2> QED
    BY <2>1 DEF Pids
<1>5. PICK v \in Pids : v = proc[t].vmmc
  <2>1. proc[t].vmmc \in 0 .. MaxPid /\ proc[t].vmmc # 0
    BY <1>1, <1>3 DEF Rec, IInv, RecordInv, RecordOK, LeaderR
  <2> QED
    BY <2>1 DEF Pids
<1>6. PICK s \in Stack : s = Min(FreeStacks(t)) /\ s \notin masks[k].bits
  <2>1. FreeStacks(t) \in SUBSET Nat /\ FreeStacks(t) # {}
    BY DEF popup, FreeStacks, Stack
  <2>2. Min(FreeStacks(t)) \in FreeStacks(t)
    BY <2>1, MinIsMember
  <2> QED
    BY <1>4, <2>2 DEF FreeStacks
<1>7. PICK w \in {"none", "ipc"}, x \in 0 .. MaxPid :
        w = (IF sync THEN "ipc" ELSE "none") /\ x = (IF sync THEN c ELSE 0)
  BY ProcessAssumption DEF Pids
<1>8. /\ v # 0 /\ v \in 0 .. MaxPid /\ t \in 0 .. MaxPid /\ p \in 0 .. MaxPid
      /\ 0 \in 0 .. MaxPid /\ s >= 0 /\ s \in Nat /\ s \in 0 .. Stacks
  BY ProcessAssumption DEF Pids, Stack
<1> DEFINE r == NewPopup(p, t, s, sync)
           P == [proc EXCEPT ![c] = r]
           Q == SetErrno(P, c, 0)
<1>9. /\ proc' = [Q EXCEPT ![p].wfor = w, ![p].wait = x]
      /\ users' = [users EXCEPT ![v] = @ + 1]
      /\ masks' = [masks EXCEPT ![k].bits = @ \cup {s}]
      /\ UNCHANGED answers
  BY <1>2, <1>4, <1>5, <1>6, <1>7 DEF popup, use_vmm_context, TakeStack
<1>10. /\ r.status = "ACTIVE" /\ r.pgid = t /\ r.ppid = p /\ r.psi = s /\ r.sync = sync
       /\ r.mask = 0 /\ r.vmmc = v /\ r.tls = s /\ r.ans = 0 /\ r.held = 0 /\ r.wfor = "none"
       /\ r \in Rec
  <2>1. r = [NoProc EXCEPT !.status = "ACTIVE", !.pgid = t, !.ppid = p,
                   !.psi = s, !.sync = sync, !.vmmc = v, !.tls = s]
    BY <1>3, <1>5 DEF NewPopup
  <2> HIDE DEF r
  <2>2. r \in Rec
    BY <1>8, <2>1, NoProcType DEF Rec
  <2> QED
    BY <2>1, <2>2 DEF NoProc
<1> HIDE DEF r
<1>11. P \in [Pids -> Rec] /\ P[c] = r /\ \A q \in Pids \ {c} : P[q] = proc[q]
  BY <1>1, <1>10
<1> HIDE DEF P
<1>12. /\ Q \in [Pids -> Rec]
       /\ \A q \in Pids : Alike(Q[q], P[q]) /\ (P[q].psi < 0 => Q[q] = P[q])
  BY <1>11, SetErrnoFacts
<1> HIDE DEF Q
<1>13. /\ proc' \in [Pids -> Rec]
       /\ \A q \in Pids \ {p} : proc'[q] = Q[q]
       /\ proc'[p] = [Q[p] EXCEPT !.wfor = w, !.wait = x]
  <2>1. Q[p] \in Rec
    BY <1>12
  <2>2. [Q[p] EXCEPT !.wfor = w, !.wait = x] \in Rec
    BY <2>1 DEF Rec
  <2>3. proc' = [Q EXCEPT ![p] = [Q[p] EXCEPT !.wfor = w, !.wait = x]]
    BY <1>9, <1>12
  <2> QED
    BY <1>12, <2>2, <2>3
<1>14. /\ proc'[p].wfor = w /\ proc'[p].wait = x
       /\ Alike([proc'[p] EXCEPT !.wfor = proc[p].wfor, !.wait = proc[p].wait], proc[p])
  <2>1. Q[p] \in Rec /\ Alike(Q[p], proc[p])
    BY <1>3, <1>11, <1>12
  <2> QED
    BY <1>13, <2>1 DEF Rec, Alike
<1>15. \A q \in Pids \ {c} : SameBut(q)
  <2>1. ASSUME NEW q \in Pids, q # c, q # p PROVE SameBut(q)
    <3>1. Alike(proc'[q], proc[q]) /\ (proc[q].psi < 0 => proc'[q] = proc[q])
      BY <1>11, <1>12, <1>13, <2>1
    <3>2. IsFree(q) => proc[q].psi < 0
      BY DEF IInv, RecordInv, RecordOK, IsFree, Is, NoProc
    <3> QED
      BY <3>1, <3>2 DEF Alike, SameBut
  <2>2. SameBut(p)
    <3>1. proc'[p] \in Rec
      BY <1>13
    <3> QED
      BY <1>3, <1>14, <3>1 DEF SameBut, Alike, Rec, IsFree, Is
  <2> QED
    BY <2>1, <2>2
<1>16. \A q \in Pids \ {c, p} : proc'[q].wfor = proc[q].wfor /\ proc'[q].wait = proc[q].wait
  BY <1>11, <1>12, <1>13 DEF Alike
<1>17. /\ proc'[c].status = "ACTIVE" /\ proc'[c].pgid = t /\ proc'[c].ppid = p
       /\ proc'[c].psi = s /\ proc'[c].sync = sync /\ proc'[c].mask = 0
       /\ proc'[c].vmmc = v /\ proc'[c].tls = s /\ proc'[c].ans = 0 /\ proc'[c].held = 0
       /\ proc'[c].wfor = "none"
  BY <1>3, <1>10, <1>11, <1>12, <1>13 DEF Alike
<1>18. Birth(c, p)
  BY <1>2, <1>3, <1>9, <1>13, <1>15, <1>17 DEF Birth, Is, Alive
<1>19. /\ proc[c] = NoProc
       /\ \A q \in Pids : /\ proc[q].ppid # c /\ proc[q].pgid # c
                          /\ proc[q].wfor \in {"ipc", "child"} => proc[q].wait # c
  BY <1>2, FreeForgotten
<1>20. LedOf(proc') /\ ApartOf(proc')
  BY <1>3, <1>5, <1>8, <1>17, <1>18, BirthGroup
<1>21. ParentInv' /\ NoCircle' /\ AnswersAccounted'
  BY <1>18, BirthFamily
<1>22. RecordInv'
  <2>1. ASSUME NEW q \in Pids PROVE RecordOK(q, proc'[q])
    <3>1. RecordOK(q, proc[q])
      BY DEF IInv, RecordInv
    <3>2. CASE q = c
      BY <1>8, <1>17, <3>2 DEF RecordOK
    <3>3. CASE q = p
      BY <1>3, <1>15, <3>1, <3>3 DEF RecordOK, SameBut
    <3>4. CASE q # c /\ q # p
      BY <1>15, <1>16, <3>1, <3>4 DEF RecordOK, SameBut, IsFree, Is
    <3> QED
      BY <3>2, <3>3, <3>4
  <2> QED
    BY <2>1 DEF RecordInv
<1>23. WaitsOf(proc')
  <2>1. WaitsOf(proc)
    BY ViewsBefore
  <2>2. ASSUME NEW q \in Pids, proc'[q].wfor \in {"ipc", "child"}
        PROVE  /\ proc'[q].wait \in Pids /\ KnownR(proc'[proc'[q].wait])
               /\ proc'[proc'[q].wait].ppid = q
               /\ proc'[q].wfor = "ipc" => proc'[proc'[q].wait].sync
               /\ proc'[q].wfor = "child" => ~(proc'[proc'[q].wait].psi >= 0)
    <3>1. q # c
      BY <1>17, <2>2
    <3>2. CASE q = p
      BY <1>7, <1>14, <1>17, <2>2, <3>2 DEF KnownR
    <3>3. CASE q # p
      <4>1. proc'[q].wfor = proc[q].wfor /\ proc'[q].wait = proc[q].wait
        BY <1>16, <3>1, <3>3
      <4>2. proc[q].wait \in Pids /\ proc[q].wait # c
        BY <1>19, <2>1, <2>2, <4>1 DEF WaitsOf
      <4> QED
        BY <1>15, <2>1, <2>2, <4>1, <4>2 DEF WaitsOf, SameBut, KnownR
    <3> QED
      BY <3>2, <3>3
  <2> QED
    BY <2>2 DEF WaitsOf
<1>24. SyncsOf(proc')
  <2>1. SyncsOf(proc)
    BY ViewsBefore
  <2>2. ASSUME NEW z \in Pids, proc'[z].sync
        PROVE  /\ proc'[z].ppid \in Pids /\ proc'[proc'[z].ppid].wfor = "ipc"
               /\ proc'[proc'[z].ppid].wait = z /\ proc'[z].ans \in {0, proc'[z].ppid}
    <3>1. CASE z = c
      BY <1>7, <1>14, <1>17, <2>2, <3>1
    <3>2. CASE z # c
      <4>1. proc[z].sync /\ proc'[z].ppid = proc[z].ppid /\ proc'[z].ans = proc[z].ans
        BY <1>15, <2>2, <3>2 DEF SameBut
      <4>2. /\ proc[z].ppid \in Pids /\ proc[proc[z].ppid].wfor = "ipc"
            /\ proc[proc[z].ppid].wait = z /\ proc[z].ans \in {0, proc[z].ppid}
        BY <2>1, <4>1 DEF SyncsOf
      <4>3. proc[z].ppid # p /\ proc[z].ppid # c
        BY <1>3, <1>19, <4>2
      <4> QED
        BY <1>16, <4>1, <4>2, <4>3
    <3> QED
      BY <3>1, <3>2
  <2> QED
    BY <2>2 DEF SyncsOf
<1>25. /\ masks' \in [Pids -> [ref : Int, bits : SUBSET Stack]]
       /\ users' \in [Pids -> Int]
       /\ masks'[k].ref = masks[k].ref /\ masks'[k].bits = masks[k].bits \cup {s}
       /\ \A i \in Pids \ {k} : masks'[i] = masks[i]
       /\ users'[v] = users[v] + 1 /\ \A i \in Pids \ {v} : users'[i] = users[i]
  <2>1. users' \in [Pids -> Int] /\ users'[v] = users[v] + 1
        /\ \A i \in Pids \ {v} : users'[i] = users[i]
    BY <1>1, <1>9 DEF Loose
  <2>2. masks[k] \in [ref : Int, bits : SUBSET Stack]
    BY <1>1
  <2>3. /\ masks'[k] = [masks[k] EXCEPT !.bits = masks[k].bits \cup {s}]
        /\ \A i \in Pids \ {k} : masks'[i] = masks[i]
    BY <1>1, <1>9 DEF Loose
  <2>4. /\ masks'[k].ref = masks[k].ref /\ masks'[k].bits = masks[k].bits \cup {s}
        /\ masks'[k] \in [ref : Int, bits : SUBSET Stack]
    BY <2>2, <2>3
  <2>5. masks' \in [Pids -> [ref : Int, bits : SUBSET Stack]]
    BY <1>1, <1>9, <2>3, <2>4 DEF Loose
  <2> QED
    BY <2>1, <2>3, <2>4, <2>5
<1>26. CountsExact'
  <2>1. ASSUME NEW i \in Pids
        PROVE  /\ users'[i] = users[i] + (IF proc'[c].vmmc = i THEN 1 ELSE 0)
               /\ masks'[i].ref = masks[i].ref + (IF proc'[c].mask = i THEN 1 ELSE 0)
    <3>1. i # 0
      BY DEF Pids
    <3>2. masks'[i].ref = masks[i].ref
      BY <1>25
    <3>3. users'[i] = users[i] + (IF v = i THEN 1 ELSE 0)
      BY <1>1, <1>25
    <3> QED
      BY <1>1, <1>17, <3>1, <3>2, <3>3
  <2> QED
    BY <1>18, <2>1, BirthCounts
<1>27. ASSUME NEW u
       PROVE  PopupsOf(proc', u) = IF u = v THEN PopupsOf(proc, u) \cup {c} ELSE PopupsOf(proc, u)
  <2>1. \A q \in Pids \ {c} : q \in PopupsOf(proc', u) <=> q \in PopupsOf(proc, u)
    BY <1>15 DEF PopupsOf, SameBut
  <2>2. c \notin PopupsOf(proc, u) /\ (c \in PopupsOf(proc', u) <=> u = v)
    BY <1>8, <1>17, <1>19 DEF PopupsOf, NoProc
  <2>3. PopupsOf(proc, u) \subseteq Pids /\ PopupsOf(proc', u) \subseteq Pids
    BY DEF PopupsOf
  <2> QED
    BY <2>1, <2>2, <2>3
<1>28. StacksOf(proc', masks')
  <2>1. ASSUME NEW q \in Pids, LeaderR(q, proc'[q])
        PROVE  StackAt(proc', masks', q)
    <3>1. q # c
      BY <1>8, <1>17, <2>1 DEF LeaderR
    <3>2. LeaderR(q, proc[q]) /\ proc'[q].mask = proc[q].mask /\ proc'[q].vmmc = proc[q].vmmc
      BY <1>15, <2>1, <3>1 DEF LeaderR, SameBut
    <3>3. \A y \in Pids \ {c} : proc'[y].psi = proc[y].psi
      BY <1>15 DEF SameBut
    <3>4. \A u : c \notin PopupsOf(proc, u) /\ PopupsOf(proc, u) \subseteq Pids
      BY <1>19 DEF PopupsOf, NoProc
    <3>5. CASE q = t
      <4> DEFINE A == PopupsOf(proc, v)
      <4>1. StackAt(proc, masks, t)
        BY <1>3, ViewsBefore DEF StacksOf
      <4>2. k # 0
        BY DEF Pids
      <4>3. /\ \A y, z \in A : y # z => proc[y].psi # proc[z].psi
            /\ masks[k].bits = {proc[y].psi : y \in A}
        BY <1>4, <1>5, <4>1, <4>2 DEF StackAt
      <4>4. \A y \in A : proc'[y].psi = proc[y].psi /\ proc[y].psi # s
        BY <1>6, <3>3, <3>4, <4>3
      <4>5. PopupsOf(proc', v) = A \cup {c}
        BY <1>27
      <4>6. \A y, z \in A \cup {c} : y # z => proc'[y].psi # proc'[z].psi
        BY <1>17, <4>3, <4>4
      <4>7. masks'[k].bits = {proc'[y].psi : y \in A \cup {c}}
        BY <1>17, <1>25, <4>3, <4>4
      <4> QED
        BY <1>4, <1>5, <3>2, <3>5, <4>2, <4>5, <4>6, <4>7 DEF StackAt
    <3>6. CASE q # t
      <4>1. proc[q].vmmc # v /\ (proc[q].mask # 0 => proc[q].mask # k)
        BY <1>3, <1>4, <1>5, <3>2, <3>6, ViewsBefore DEF ApartOf
      <4>2. PopupsOf(proc', proc[q].vmmc) = PopupsOf(proc, proc[q].vmmc)
        BY <1>27, <4>1
      <4>3. \A y \in PopupsOf(proc, proc[q].vmmc) : proc'[y].psi = proc[y].psi
        BY <3>3, <3>4
      <4>4. proc[q].mask # 0 => masks'[proc[q].mask].bits = masks[proc[q].mask].bits
        <5>1. proc[q].mask \in 0 .. MaxPid
          BY <1>1 DEF Rec
        <5> QED
          BY <1>25, <4>1, <5>1 DEF Pids
      <4> QED
        BY <3>2, <4>2, <4>3, <4>4, StackKept
    <3> QED
      BY <3>5, <3>6
  <2> QED
    BY <2>1 DEF StacksOf
<1>29. \A i \in Pids : masks'[i].ref = 0 => masks'[i].bits = {}
  <2>1. masks[k].ref # 0
    <3> DEFINE A == {q \in Pids : proc[q].mask = k}
    <3>1. masks[k].ref = Cardinality(A)
      BY DEF IInv, CountsExact
    <3>2. t \in A /\ IsFiniteSet(A)
      BY <1>4, PidSets
    <3> HIDE DEF A
    <3> QED
      BY <3>1, <3>2, FS_EmptySet
  <2> QED
    BY <1>25, <2>1 DEF IInv, MaskInv
<1> QED
  BY <1>13, <1>20, <1>21, <1>22, <1>23, <1>24, <1>25, <1>26, <1>28, <1>29, ViewsEnough DEF Loose

-----------------------------------------------------------------------------
(* A step in which p exits, as a zombie or for the reaper, and its children*)
(* get its parent.                                                         *)
SameButParent(q) ==
    /\ proc'[q].status = proc[q].status /\ proc'[q].pgid = proc[q].pgid
    /\ proc'[q].psi = proc[q].psi /\ proc'[q].sync = proc[q].sync
    /\ proc'[q].mask = proc[q].mask /\ proc'[q].vmmc = proc[q].vmmc
    /\ proc'[q].tls = proc[q].tls /\ proc'[q].ans = proc[q].ans
    /\ proc'[q].held = proc[q].held /\ proc'[q].wfor = proc[q].wfor
    /\ proc'[q].wait = proc[q].wait /\ proc'[q].errno = proc[q].errno
    /\ IsFree(q) => proc'[q] = proc[q]

Departs(p, st) ==
    /\ proc[p].status = "ACTIVE" /\ proc[p].wfor = "none" /\ proc[p].held = 0 /\ p # 1
    /\ \A q \in Pids \ {p} : LiveR(proc[q]) => proc[q].pgid # p
    /\ proc' \in [Pids -> Rec]
    /\ \A q \in Pids \ {p} :
          /\ SameButParent(q)
          /\ proc'[q].ppid = IF KnownR(proc[q]) /\ proc[q].ppid = p THEN proc[p].ppid
                             ELSE proc[q].ppid
    /\ proc'[p].status = st /\ proc'[p].pgid = 0 /\ proc'[p].wfor = "none"
    /\ proc'[p].held = 0 /\ proc'[p].mask = proc[p].mask /\ proc'[p].vmmc = proc[p].vmmc
    /\ \/ /\ st = "ZOMBIE" /\ (proc[p].psi >= 0 => proc[p].sync)
          /\ proc'[p].ppid = proc[p].ppid /\ proc'[p].psi = proc[p].psi
          /\ proc'[p].sync = proc[p].sync /\ proc'[p].ans = proc[p].ans
          /\ proc[p].psi >= 0 => proc'[p].tls = proc[p].tls
       \/ /\ st = "DESTRUCT" /\ ~proc[p].sync /\ proc[p].psi >= 0
          /\ proc'[p].ppid = 0 /\ proc'[p].psi = -1 /\ ~proc'[p].sync /\ proc'[p].ans = 0

(* Nobody is his own parent, and only those known have one.                *)
LEMMA NotOwnParent ==
    ASSUME IInv, NEW p \in Pids
    PROVE  /\ proc[p].ppid # p
           /\ ~KnownR(proc[p]) => proc[p].ppid = 0
<1>1. \E q \in {p} : proc[q].ppid \notin {p}
  BY DEF IInv, NoCircle
<1>2. ~KnownR(proc[p]) => proc[p].ppid = 0
  BY DEF IInv, RecordInv, RecordOK, KnownR
<1> QED
  BY <1>1, <1>2

(* The end of a process (exit, kill, the end of a popup) with the adoption *)
(* of its children keeps the parts of the invariant about records and      *)
(* groups.                                                                 *)
LEMMA DepartKept ==
    ASSUME IInv, NEW p \in Pids, NEW st, Departs(p, st)
    PROVE  /\ RecordInv' /\ LedOf(proc') /\ ApartOf(proc')
           /\ WaitsOf(proc') /\ SyncsOf(proc')
<1>1. /\ LedOf(proc) /\ ApartOf(proc) /\ WaitsOf(proc) /\ SyncsOf(proc)
      /\ proc[p].ppid # p
  BY ViewsBefore, NotOwnParent
<1>2. \A q \in Pids \ {p} :
          /\ SameButParent(q)
          /\ proc'[q].ppid = IF KnownR(proc[q]) /\ proc[q].ppid = p THEN proc[p].ppid
                             ELSE proc[q].ppid
  BY DEF Departs
<1>3. RecordInv'
  <2>1. ASSUME NEW q \in Pids PROVE RecordOK(q, proc'[q])
    <3>1. RecordOK(q, proc[q])
      BY DEF IInv, RecordInv
    <3>2. CASE q = p
      BY <3>1, <3>2 DEF RecordOK, Departs
    <3>3. CASE q # p
      BY <1>2, <3>1, <3>3 DEF RecordOK, SameButParent, IsFree, Is, KnownR
    <3> QED
      BY <3>2, <3>3
  <2> QED
    BY <2>1 DEF RecordInv
<1>4. ~LiveR(proc'[p]) /\ ~LeaderR(p, proc'[p])
  BY DEF Departs, LiveR, LeaderR, Pids
<1>5. \A q \in Pids \ {p} : /\ LiveR(proc'[q]) <=> LiveR(proc[q])
                            /\ LeaderR(q, proc'[q]) <=> LeaderR(q, proc[q])
                            /\ proc'[q].pgid = proc[q].pgid /\ proc'[q].vmmc = proc[q].vmmc
                            /\ proc'[q].mask = proc[q].mask
  BY <1>2 DEF SameButParent, LiveR, LeaderR
<1>6. \A q \in Pids \ {p} : LiveR(proc[q]) => proc[q].pgid # p
  BY DEF Departs
<1>7. LedOf(proc')
  BY <1>1, <1>4, <1>5, <1>6 DEF LedOf
<1>8. ApartOf(proc')
  BY <1>1, <1>4, <1>5 DEF ApartOf
<1>9. WaitsOf(proc')
  <2>1. ASSUME NEW q \in Pids, proc'[q].wfor \in {"ipc", "child"}
        PROVE  /\ proc'[q].wait \in Pids /\ KnownR(proc'[proc'[q].wait])
               /\ proc'[proc'[q].wait].ppid = q
               /\ proc'[q].wfor = "ipc" => proc'[proc'[q].wait].sync
               /\ proc'[q].wfor = "child" => ~(proc'[proc'[q].wait].psi >= 0)
    <3>1. q # p
      BY <2>1 DEF Departs
    <3>2. proc'[q].wfor = proc[q].wfor /\ proc'[q].wait = proc[q].wait
      BY <1>2, <3>1 DEF SameButParent
    <3> DEFINE w == proc[q].wait
    <3>3. /\ w \in Pids /\ KnownR(proc[w]) /\ proc[w].ppid = q
          /\ proc[q].wfor = "ipc" => proc[w].sync
          /\ proc[q].wfor = "child" => ~(proc[w].psi >= 0)
      BY <1>1, <2>1, <3>2 DEF WaitsOf
    <3> HIDE DEF w
    <3>4. CASE w = p
      <4>1. st = "ZOMBIE"
        BY <2>1, <3>2, <3>3, <3>4 DEF Departs
      <4>2. KnownR(proc'[p]) /\ proc'[p].ppid = proc[p].ppid /\ proc'[p].psi = proc[p].psi
            /\ proc'[p].sync = proc[p].sync
        BY <4>1 DEF Departs, KnownR
      <4> QED
        BY <3>2, <3>3, <3>4, <4>2 DEF w
    <3>5. CASE w # p
      <4>1. /\ proc'[w].ppid = proc[w].ppid /\ proc'[w].psi = proc[w].psi
            /\ proc'[w].sync = proc[w].sync /\ KnownR(proc'[w])
        BY <1>2, <3>1, <3>3, <3>5 DEF SameButParent, KnownR
      <4> QED
        BY <3>2, <3>3, <3>5, <4>1 DEF w
    <3> QED
      BY <3>4, <3>5
  <2> QED
    BY <2>1 DEF WaitsOf
<1>10. SyncsOf(proc')
  <2>1. ASSUME NEW z \in Pids, proc'[z].sync
        PROVE  /\ proc'[z].ppid \in Pids /\ proc'[proc'[z].ppid].wfor = "ipc"
               /\ proc'[proc'[z].ppid].wait = z /\ proc'[z].ans \in {0, proc'[z].ppid}
    <3>1. proc[z].sync /\ proc'[z].ans = proc[z].ans /\ (z = p => proc'[z].ppid = proc[z].ppid)
      BY <1>2, <2>1 DEF SameButParent, Departs
    <3>2. /\ proc[z].ppid \in Pids /\ proc[proc[z].ppid].wfor = "ipc"
          /\ proc[proc[z].ppid].wait = z /\ proc[z].ans \in {0, proc[z].ppid}
      BY <1>1, <3>1 DEF SyncsOf
    <3>3. proc[z].ppid # p
      BY <3>2 DEF Departs
    <3>4. proc'[z].ppid = proc[z].ppid
      BY <1>2, <3>1, <3>3
    <3> QED
      BY <1>2, <3>1, <3>2, <3>3, <3>4 DEF SameButParent
  <2> QED
    BY <2>1 DEF SyncsOf
<1> QED
  BY <1>3, <1>7, <1>8, <1>9, <1>10

(* The children that lose their parent get another one that runs.          *)
LEMMA DepartFamily ==
    ASSUME IInv, NEW p \in Pids, NEW st, Departs(p, st)
    PROVE  ParentInv' /\ NoCircle'
<1>1. \A q \in Pids \ {p} :
          /\ SameButParent(q)
          /\ proc'[q].ppid = IF KnownR(proc[q]) /\ proc[q].ppid = p THEN proc[p].ppid
                             ELSE proc[q].ppid
  BY DEF Departs
<1>2. proc[p].ppid \in Pids /\ LiveR(proc[proc[p].ppid]) /\ proc[p].ppid # p /\ p # 1
  BY NotOwnParent DEF Departs, IInv, ParentInv, Known, Is, Alive, LiveR
<1>3. \A q \in Pids : ~KnownR(proc[q]) => proc[q].ppid = 0
  BY NotOwnParent
<1>4. proc'[p].ppid \in {0, proc[p].ppid}
  BY DEF Departs
<1>5. ParentInv'
  <2>1. 1 \in Pids
    BY ProcessAssumption DEF Pids
  <2>2. proc[1].status = "ACTIVE" /\ ~(proc[1].psi >= 0) /\ proc[1].ppid = 0
    BY DEF IInv, ParentInv, Is, is_popup
  <2>3. proc'[1].status \in {"ACTIVE"} /\ ~(proc'[1].psi >= 0) /\ proc'[1].ppid = 0
    BY <1>1, <1>2, <2>1, <2>2 DEF SameButParent, Pids
  <2>4. ASSUME NEW q \in Pids \ {1}, KnownR(proc'[q])
        PROVE  proc'[q].ppid \in Pids /\ LiveR(proc'[proc'[q].ppid])
    <3>1. \A x \in Pids \ {p} : LiveR(proc[x]) => LiveR(proc'[x])
      BY <1>1 DEF SameButParent, LiveR
    <3>2. CASE q = p
      <4>1. proc'[p].ppid = proc[p].ppid
        BY <2>4, <3>2 DEF Departs, KnownR
      <4> QED
        BY <1>2, <3>1, <3>2, <4>1
    <3>3. CASE q # p
      <4>1. KnownR(proc[q])
        BY <1>1, <2>4, <3>3 DEF SameButParent, KnownR
      <4>2. proc[q].ppid \in Pids /\ LiveR(proc[proc[q].ppid])
        BY <4>1 DEF IInv, ParentInv, Known, KnownR, Is, Alive, LiveR
      <4> QED
        BY <1>1, <1>2, <3>1, <3>3, <4>1, <4>2
    <3> QED
      BY <3>2, <3>3
  <2> QED
    BY <2>3, <2>4 DEF ParentInv, Alive, Known, KnownR, LiveR, Is, is_popup
<1>6. NoCircle'
  <2>1. ASSUME NEW S \in SUBSET Pids, S # {}
        PROVE  \E q \in S : proc'[q].ppid \notin S
    <3>1. 0 \notin S
      BY DEF Pids
    <3>2. PICK x \in S : proc[x].ppid \notin S
      BY <2>1 DEF IInv, NoCircle
    <3>3. CASE x = p
      BY <1>4, <3>1, <3>2, <3>3
    <3>4. CASE x # p /\ proc[x].ppid # p
      BY <1>1, <3>2, <3>4
    <3>5. CASE x # p /\ proc[x].ppid = p
      <4>1. PICK y \in S \cup {p} : proc[y].ppid \notin S \cup {p}
        BY DEF IInv, NoCircle
      <4>2. CASE y # p
        BY <1>1, <4>1, <4>2
      <4>3. CASE y = p
        <5>1. p # 0 /\ KnownR(proc[x])
          BY <1>3, <3>5 DEF Pids
        <5>2. proc'[x].ppid = proc[p].ppid
          BY <1>1, <3>5, <5>1
        <5> QED
          BY <4>1, <4>3, <5>2
      <4> QED
        BY <4>2, <4>3
    <3> QED
      BY <3>3, <3>4, <3>5
  <2> QED
    BY <2>1 DEF NoCircle
<1> QED
  BY <1>5, <1>6

(* The end of a process alone gives no address space and no stack mask     *)
(* back.                                                                   *)
LEMMA DepartCounts ==
    ASSUME IInv, NEW p \in Pids, NEW st, Departs(p, st), users' = users,
           \A m \in Pids : masks'[m].ref = masks[m].ref
    PROVE  CountsExact'
<1>1. \A q \in Pids : proc'[q].vmmc = proc[q].vmmc /\ proc'[q].mask = proc[q].mask
  BY DEF Departs, SameButParent
<1>2. ASSUME NEW i \in Pids
      PROVE  /\ users'[i] = Cardinality({q \in Pids : proc'[q].vmmc = i})
             /\ masks'[i].ref = Cardinality({q \in Pids : proc'[q].mask = i})
  <2>1. /\ {q \in Pids : proc'[q].vmmc = i} = {q \in Pids : proc[q].vmmc = i}
        /\ {q \in Pids : proc'[q].mask = i} = {q \in Pids : proc[q].mask = i}
    BY <1>1
  <2> QED
    BY <2>1 DEF IInv, CountsExact
<1> QED
  BY <1>2 DEF CountsExact

(* What the two exits have in common.                                      *)
LEMMA ExitDeparts ==
    ASSUME IInv, NEW p \in Pids, NEW st \in {"ZOMBIE", "DESTRUCT"},
           Running(p), p # 1,
           \A q \in Pids \ {p} : LiveR(proc[q]) => proc[q].pgid # p,
           st = "ZOMBIE" => (proc[p].psi >= 0 => proc[p].sync),
           st = "DESTRUCT" => ~proc[p].sync /\ proc[p].psi >= 0,
           proc' = [adopt_orphans(p) EXCEPT ![p] = Corpse(p, st)]
    PROVE  Departs(p, st)
<1>1. proc \in [Pids -> Rec] /\ proc[p] \in Rec
  BY TypesLoose DEF IInv, Loose
<1>2. proc[p].status = "ACTIVE" /\ proc[p].wfor = "none" /\ proc[p].held = 0
  BY DEF Running, Is
<1> DEFINE r == Corpse(p, st)
           A == adopt_orphans(p)
<1>3. A \in [Pids -> Rec]
  <2>1. ASSUME NEW q \in Pids
        PROVE  /\ proc[q] \in Rec
               /\ [proc[q] EXCEPT !.ppid = proc[p].ppid] \in Rec
    BY <1>1 DEF Rec
  <2> QED
    BY <2>1 DEF adopt_orphans
<1>4. ASSUME NEW q \in Pids
      PROVE  A[q] = IF KnownR(proc[q]) /\ proc[q].ppid = p
                    THEN [proc[q] EXCEPT !.ppid = proc[p].ppid] ELSE proc[q]
  BY DEF adopt_orphans, Orphans, KnownR, Is
<1>5. r = [NoProc EXCEPT !.status = st, !.mask = proc[p].mask, !.vmmc = proc[p].vmmc,
                   !.ppid = IF st = "ZOMBIE" THEN proc[p].ppid ELSE 0,
                   !.psi = IF st = "ZOMBIE" THEN proc[p].psi ELSE -1,
                   !.sync = st = "ZOMBIE" /\ proc[p].sync,
                   !.tls = IF st = "ZOMBIE" /\ proc[p].sync THEN proc[p].tls ELSE 0,
                   !.errno = IF st = "ZOMBIE" THEN proc[p].errno ELSE 0,
                   !.ans = IF st = "ZOMBIE" THEN proc[p].ans ELSE 0]
  BY DEF Corpse
<1>6. /\ proc' = [A EXCEPT ![p] = r]
      /\ \A q \in Pids \ {p} : proc'[q] = A[q]
      /\ proc'[p] = r
  BY <1>3
<1> HIDE DEF r, A
<1>7. /\ r \in Rec /\ r.status = st /\ r.pgid = 0 /\ r.wfor = "none" /\ r.held = 0
      /\ r.mask = proc[p].mask /\ r.vmmc = proc[p].vmmc
      /\ r.ppid = IF st = "ZOMBIE" THEN proc[p].ppid ELSE 0
      /\ r.psi = IF st = "ZOMBIE" THEN proc[p].psi ELSE -1
      /\ r.sync <=> st = "ZOMBIE" /\ proc[p].sync
      /\ r.tls = IF st = "ZOMBIE" /\ proc[p].sync THEN proc[p].tls ELSE 0
      /\ r.ans = IF st = "ZOMBIE" THEN proc[p].ans ELSE 0
  <2> DEFINE a == IF st = "ZOMBIE" THEN proc[p].ppid ELSE 0
             b == IF st = "ZOMBIE" THEN proc[p].psi ELSE -1
             y == st = "ZOMBIE" /\ proc[p].sync
             l == IF st = "ZOMBIE" /\ proc[p].sync THEN proc[p].tls ELSE 0
             e == IF st = "ZOMBIE" THEN proc[p].errno ELSE 0
             n == IF st = "ZOMBIE" THEN proc[p].ans ELSE 0
  <2>1. a \in 0 .. MaxPid /\ l \in 0 .. Stacks /\ e \in {0, 1} /\ n \in 0 .. MaxPid
    BY <1>1, ProcessAssumption DEF Rec
  <2>2. b \in Stack \cup {-1}
    BY <1>1 DEF Rec
  <2>3. y \in BOOLEAN
    OBVIOUS
  <2>4. r = [NoProc EXCEPT !.status = st, !.mask = proc[p].mask, !.vmmc = proc[p].vmmc,
                   !.ppid = a, !.psi = b, !.sync = y, !.tls = l, !.errno = e, !.ans = n]
    BY <1>5
  <2>5. proc[p].mask \in 0 .. MaxPid /\ proc[p].vmmc \in 0 .. MaxPid
    BY <1>1 DEF Rec
  <2> HIDE DEF a, b, y, l, e, n
  <2>6. r \in Rec
    BY <2>1, <2>2, <2>3, <2>4, <2>5, NoProcType DEF Rec
  <2>7. /\ r.status = st /\ r.pgid = 0 /\ r.wfor = "none" /\ r.held = 0
        /\ r.mask = proc[p].mask /\ r.vmmc = proc[p].vmmc
        /\ r.ppid = a /\ r.psi = b /\ (r.sync <=> y) /\ r.tls = l /\ r.ans = n
    BY <2>4 DEF NoProc
  <2> QED
    BY <2>6, <2>7 DEF a, b, y, l, n
<1>8. proc' \in [Pids -> Rec]
  BY <1>3, <1>6, <1>7
<1>9. ASSUME NEW q \in Pids \ {p}
      PROVE  /\ SameButParent(q)
             /\ proc'[q].ppid = IF KnownR(proc[q]) /\ proc[q].ppid = p THEN proc[p].ppid
                                ELSE proc[q].ppid
  <2>1. CASE KnownR(proc[q]) /\ proc[q].ppid = p
    <3>1. proc'[q] = [proc[q] EXCEPT !.ppid = proc[p].ppid] /\ proc[q] \in Rec
      BY <1>1, <1>4, <1>6, <2>1
    <3> QED
      BY <2>1, <3>1 DEF SameButParent, Rec, KnownR, IsFree, Is
  <2>2. CASE ~(KnownR(proc[q]) /\ proc[q].ppid = p)
    <3>1. proc'[q] = proc[q]
      BY <1>4, <1>6, <2>2
    <3> QED
      BY <2>2, <3>1 DEF SameButParent
  <2> QED
    BY <2>1, <2>2
<1>10. /\ proc'[p].status = st /\ proc'[p].pgid = 0 /\ proc'[p].wfor = "none"
       /\ proc'[p].held = 0 /\ proc'[p].mask = proc[p].mask /\ proc'[p].vmmc = proc[p].vmmc
  BY <1>6, <1>7
<1>11. CASE st = "ZOMBIE"
  <2>1. /\ proc'[p].ppid = proc[p].ppid /\ proc'[p].psi = proc[p].psi
        /\ proc'[p].sync = proc[p].sync /\ proc'[p].ans = proc[p].ans
        /\ proc[p].psi >= 0 => proc'[p].tls = proc[p].tls
    <3>1. r.sync \in BOOLEAN /\ proc[p].sync \in BOOLEAN
      BY <1>1, <1>7 DEF Rec
    <3> QED
      BY <1>6, <1>7, <1>11, <3>1
  <2> QED
    BY <1>2, <1>8, <1>9, <1>10, <1>11, <2>1 DEF Departs
<1>12. CASE st = "DESTRUCT"
  <2>1. proc'[p].ppid = 0 /\ proc'[p].psi = -1 /\ ~proc'[p].sync /\ proc'[p].ans = 0
    BY <1>6, <1>7, <1>12
  <2> QED
    BY <1>2, <1>8, <1>9, <1>10, <1>12, <2>1 DEF Departs
<1> QED
  BY <1>11, <1>12

(* A leader or a thread.                                                   *)
LEMMA destroyInv ==
    ASSUME IInv, ~LeaderMayLeave, NEW p \in Pids, destroy_process(p)
    PROVE  IInv'
<1>1. /\ Running(p) /\ ~is_popup(p) /\ p # 1 /\ ~(proc[p].psi >= 0) /\ proc[p].status = "ACTIVE"
      /\ proc' = [adopt_orphans(p) EXCEPT ![p] = Corpse(p, "ZOMBIE")]
      /\ UNCHANGED <<users, masks, answers>>
  BY DEF destroy_process, is_popup, Running, Is
<1>2. ASSUME NEW q \in Pids \ {p}, LiveR(proc[q]), proc[q].pgid = p
      PROVE  FALSE
  <2>1. LeaderR(p, proc[p])
    BY <1>2, ViewsBefore DEF LedOf
  <2>2. Alone(p)
    BY <2>1 DEF destroy_process, Leader, LeaderR, IsFree, Is, is_popup
  <2>3. proc[q].status = "DAEMON"
    BY <1>2, <2>2 DEF Alone, Is, LiveR
  <2> QED
    BY <1>2, <2>3 DEF IInv, RecordInv, RecordOK
<1>3. Departs(p, "ZOMBIE")
  BY <1>1, <1>2, ExitDeparts
<1>4. /\ RecordInv' /\ LedOf(proc') /\ ApartOf(proc') /\ WaitsOf(proc') /\ SyncsOf(proc')
      /\ ParentInv' /\ NoCircle' /\ CountsExact'
  BY <1>1, <1>3, DepartKept, DepartFamily, DepartCounts
<1>5. \A q \in Pids : /\ proc'[q].ans = proc[q].ans /\ proc'[q].held = proc[q].held
                      /\ proc'[q].psi = proc[q].psi /\ proc'[q].vmmc = proc[q].vmmc
                      /\ proc'[q].mask = proc[q].mask
                      /\ q # p => proc'[q].status = proc[q].status
                      /\ q # p => proc'[q].pgid = proc[q].pgid
  BY <1>3 DEF Departs, SameButParent
<1>6. AnswersAccounted'
  <2>1. /\ {q \in Pids : proc'[q].ans # 0} = {q \in Pids : proc[q].ans # 0}
        /\ {q \in Pids : proc'[q].held # 0} = {q \in Pids : proc[q].held # 0}
    BY <1>5
  <2> QED
    BY <1>1, <1>5, <2>1 DEF IInv, AnswersAccounted
<1>7. \A v : PopupsOf(proc', v) = PopupsOf(proc, v)
  BY <1>1, <1>5 DEF PopupsOf
<1>8. StacksOf(proc', masks')
  <2>1. ASSUME NEW t \in Pids, LeaderR(t, proc'[t])
        PROVE  StackAt(proc', masks', t)
    <3>1. t # p
      BY <1>3, <2>1 DEF Departs, LeaderR, Pids
    <3>2. LeaderR(t, proc[t])
      BY <1>5, <2>1, <3>1 DEF LeaderR
    <3>3. \A q \in PopupsOf(proc, proc[t].vmmc) : proc'[q].psi = proc[q].psi
      BY <1>5 DEF PopupsOf
    <3> QED
      BY <1>1, <1>5, <1>7, <3>2, <3>3, StackKept
  <2> QED
    BY <2>1 DEF StacksOf
<1>9. Loose'
  BY <1>1, <1>3, TypesLoose DEF IInv, Loose, Departs
<1>10. \A i \in Pids : masks'[i].ref = 0 => masks'[i].bits = {}
  BY <1>1 DEF IInv, MaskInv
<1> QED
  BY <1>4, <1>6, <1>8, <1>9, <1>10, ViewsEnough

(* A popup gives its stack back and frees an answer nobody will read.      *)
LEMMA destroyPopupInv ==
    ASSUME IInv, NEW p \in Pids, destroy_this_popup_thread(p)
    PROVE  IInv'
<1>1. /\ Loose /\ proc \in [Pids -> Rec] /\ proc[p] \in Rec
      /\ \A i \in Pids : users[i] \in Int /\ masks[i] \in [ref : Int, bits : SUBSET Stack]
  BY TypesLoose DEF IInv, Loose
<1>2. /\ Running(p) /\ proc[p].psi >= 0 /\ proc[p].status = "ACTIVE" /\ LiveR(proc[p])
      /\ users' = users
  BY DEF destroy_this_popup_thread, is_popup, Running, Is, LiveR
<1>3. PICK g \in Pids : /\ g = proc[p].pgid /\ proc[g].vmmc = proc[p].vmmc
                        /\ LiveR(proc[g]) /\ LeaderR(g, proc[g])
  BY <1>2, ViewsBefore DEF LedOf
<1>4. g # p
  BY <1>2, <1>3 DEF LeaderR
<1>5. PICK k \in Pids : k = proc[g].mask
  <2>1. proc[g].mask # 0 /\ proc[g].mask \in 0 .. MaxPid
    BY <1>1, <1>3 DEF destroy_this_popup_thread, Rec
  <2> QED
    BY <2>1 DEF Pids
<1>6. PICK st \in {"ZOMBIE", "DESTRUCT"} : st = IF proc[p].sync THEN "ZOMBIE" ELSE "DESTRUCT"
  OBVIOUS
<1>7. /\ masks' = [masks EXCEPT ![k].bits = @ \ {proc[p].psi}]
      /\ answers' = answers - AnswersFreed(p)
      /\ proc' = [adopt_orphans(p) EXCEPT ![p] = Corpse(p, st)]
  BY <1>3, <1>5, <1>6 DEF destroy_this_popup_thread, FreeStack
<1>8. Departs(p, st)
  <2>1. p # 1
    BY <1>2 DEF IInv, ParentInv, is_popup
  <2>2. \A q \in Pids \ {p} : LiveR(proc[q]) => proc[q].pgid # p
    BY <1>2, ViewsBefore DEF LedOf, LeaderR
  <2> QED
    BY <1>2, <1>6, <1>7, <2>1, <2>2, ExitDeparts
<1>9. /\ masks' \in [Pids -> [ref : Int, bits : SUBSET Stack]]
      /\ masks'[k].ref = masks[k].ref /\ masks'[k].bits = masks[k].bits \ {proc[p].psi}
      /\ \A i \in Pids \ {k} : masks'[i] = masks[i]
  <2>1. masks[k] \in [ref : Int, bits : SUBSET Stack]
    BY <1>1
  <2>2. /\ masks'[k] = [masks[k] EXCEPT !.bits = masks[k].bits \ {proc[p].psi}]
        /\ \A i \in Pids \ {k} : masks'[i] = masks[i]
    BY <1>1, <1>7 DEF Loose
  <2>3. /\ masks'[k].ref = masks[k].ref /\ masks'[k].bits = masks[k].bits \ {proc[p].psi}
        /\ masks'[k] \in [ref : Int, bits : SUBSET Stack]
    BY <2>1, <2>2
  <2>4. masks' \in [Pids -> [ref : Int, bits : SUBSET Stack]]
    BY <1>1, <1>7, <2>2, <2>3 DEF Loose
  <2> QED
    BY <2>2, <2>3, <2>4
<1>10. \A i \in Pids : masks'[i].ref = masks[i].ref
  BY <1>9
<1>11. /\ RecordInv' /\ LedOf(proc') /\ ApartOf(proc') /\ WaitsOf(proc') /\ SyncsOf(proc')
       /\ ParentInv' /\ NoCircle' /\ CountsExact'
  BY <1>2, <1>8, <1>10, DepartKept, DepartFamily, DepartCounts
<1>12. /\ proc'[p].status # "ACTIVE" /\ proc'[p].held = proc[p].held
       /\ proc'[p].ans = IF proc[p].sync THEN proc[p].ans ELSE 0
       /\ \A q \in Pids \ {p} : SameButParent(q)
  BY <1>6, <1>8 DEF Departs
<1>13. AnswersAccounted'
  <2> DEFINE A == {q \in Pids : proc[q].ans # 0}
             H == {q \in Pids : proc[q].held # 0}
  <2>1. {q \in Pids : proc'[q].held # 0} = H
    BY <1>12 DEF SameButParent
  <2>2. \A q \in Pids : proc'[q].held \in {0, q}
    BY <1>12 DEF SameButParent, IInv, AnswersAccounted
  <2>3. answers = Cardinality(A) + Cardinality(H)
    BY DEF IInv, AnswersAccounted
  <2>4. IsFiniteSet(A) /\ Cardinality(A) \in Int /\ Cardinality(H) \in Int
    BY PidSets
  <2>5. CASE proc[p].sync
    <3>1. {q \in Pids : proc'[q].ans # 0} = A
      BY <1>12, <2>5 DEF SameButParent
    <3>2. answers' = answers
      BY <1>7, <2>3, <2>4, <2>5 DEF AnswersFreed
    <3> QED
      BY <2>1, <2>2, <2>3, <3>1, <3>2 DEF AnswersAccounted
  <2>6. CASE ~proc[p].sync
    <3>1. {q \in Pids : proc'[q].ans # 0} = A \ {p}
      BY <1>12, <2>6 DEF SameButParent
    <3>2. Cardinality(A \ {p}) = IF p \in A THEN Cardinality(A) - 1 ELSE Cardinality(A)
      BY <2>4, FS_RemoveElement
    <3>3. p \in A <=> proc[p].ans # 0
      OBVIOUS
    <3> HIDE DEF A, H
    <3>4. answers' = Cardinality(A \ {p}) + Cardinality(H)
      BY <1>7, <2>3, <2>4, <2>6, <3>2, <3>3 DEF AnswersFreed
    <3> QED
      BY <2>1, <2>2, <3>1, <3>4 DEF AnswersAccounted
  <2> QED
    BY <2>5, <2>6
<1>14. ASSUME NEW u PROVE PopupsOf(proc', u) = PopupsOf(proc, u) \ {p}
  <2>1. \A q \in Pids \ {p} : q \in PopupsOf(proc', u) <=> q \in PopupsOf(proc, u)
    BY <1>12 DEF PopupsOf, SameButParent
  <2>2. p \notin PopupsOf(proc', u)
    BY <1>12 DEF PopupsOf
  <2>3. PopupsOf(proc, u) \subseteq Pids /\ PopupsOf(proc', u) \subseteq Pids
    BY DEF PopupsOf
  <2> QED
    BY <2>1, <2>2, <2>3
<1>15. StacksOf(proc', masks')
  <2>1. ASSUME NEW t \in Pids, LeaderR(t, proc'[t])
        PROVE  StackAt(proc', masks', t)
    <3>1. t # p
      BY <1>8, <2>1 DEF Departs, LeaderR, Pids
    <3>2. LeaderR(t, proc[t]) /\ proc'[t].mask = proc[t].mask /\ proc'[t].vmmc = proc[t].vmmc
      BY <1>12, <2>1, <3>1 DEF LeaderR, SameButParent
    <3>3. \A y \in Pids \ {p} : proc'[y].psi = proc[y].psi
      BY <1>12 DEF SameButParent
    <3>4. CASE t = g
      <4> DEFINE A == PopupsOf(proc, proc[g].vmmc)
      <4>1. StackAt(proc, masks, g)
        BY <1>3, ViewsBefore DEF StacksOf
      <4>2. k # 0
        BY DEF Pids
      <4>3. /\ \A y, z \in A : y # z => proc[y].psi # proc[z].psi
            /\ masks[k].bits = {proc[y].psi : y \in A}
        BY <1>5, <4>1, <4>2 DEF StackAt
      <4>4. p \in A /\ A \subseteq Pids
        BY <1>2, <1>3 DEF PopupsOf
      <4>5. PopupsOf(proc', proc[g].vmmc) = A \ {p}
        BY <1>14
      <4> HIDE DEF A
      <4>6. \A y, z \in A \ {p} : y # z => proc'[y].psi # proc'[z].psi
        BY <3>3, <4>3, <4>4
      <4>7. masks'[k].bits = {proc'[y].psi : y \in A \ {p}}
        <5>1. {proc'[y].psi : y \in A \ {p}} = {proc[y].psi : y \in A \ {p}}
          BY <3>3, <4>4
        <5>2. {proc[y].psi : y \in A \ {p}} = {proc[y].psi : y \in A} \ {proc[p].psi}
          BY <4>3, <4>4
        <5> QED
          BY <1>9, <4>3, <5>1, <5>2
      <4> QED
        BY <1>5, <3>2, <3>4, <4>2, <4>5, <4>6, <4>7 DEF StackAt
    <3>5. CASE t # g
      <4>1. proc[t].vmmc # proc[g].vmmc /\ (proc[t].mask # 0 => proc[t].mask # k)
        BY <1>3, <1>5, <3>2, <3>5, ViewsBefore DEF ApartOf
      <4>2. p \notin PopupsOf(proc, proc[t].vmmc)
        BY <1>3, <4>1 DEF PopupsOf
      <4>3. PopupsOf(proc', proc[t].vmmc) = PopupsOf(proc, proc[t].vmmc)
        BY <1>14, <4>2
      <4>4. \A y \in PopupsOf(proc, proc[t].vmmc) : proc'[y].psi = proc[y].psi
        BY <3>3, <4>2 DEF PopupsOf
      <4>5. proc[t].mask # 0 => masks'[proc[t].mask].bits = masks[proc[t].mask].bits
        <5>1. proc[t].mask \in 0 .. MaxPid
          BY <1>1 DEF Rec
        <5> QED
          BY <1>9, <4>1, <5>1 DEF Pids
      <4> QED
        BY <3>2, <4>3, <4>4, <4>5, StackKept
    <3> QED
      BY <3>4, <3>5
  <2> QED
    BY <2>1 DEF StacksOf
<1>16. \A i \in Pids : masks'[i].ref = 0 => masks'[i].bits = {}
  <2>1. \A i \in Pids : masks[i].ref = 0 => masks[i].bits = {}
    BY DEF IInv, MaskInv
  <2> QED
    BY <1>9, <2>1
<1>17. Loose'
  BY <1>1, <1>2, <1>8, <1>9 DEF Loose, Departs
<1> QED
  BY <1>11, <1>13, <1>15, <1>16, <1>17, ViewsEnough

-----------------------------------------------------------------------------
(* A step that frees the processes in D, all of them exited.               *)
Remains(q) ==
    /\ proc'[q].status = proc[q].status /\ proc'[q].pgid = proc[q].pgid
    /\ proc'[q].ppid = proc[q].ppid /\ proc'[q].psi = proc[q].psi
    /\ proc'[q].sync = proc[q].sync /\ proc'[q].mask = proc[q].mask
    /\ proc'[q].vmmc = proc[q].vmmc /\ proc'[q].tls = proc[q].tls
    /\ proc'[q].ans = proc[q].ans
    /\ IsFree(q) => proc'[q] = proc[q]

Frees(D) ==
    /\ D \in SUBSET Pids /\ proc' \in [Pids -> Rec]
    /\ \A d \in D : proc[d].status \in {"ZOMBIE", "DESTRUCT"} /\ proc'[d] = NoProc
    /\ \A q \in Pids \ D : Remains(q)
    /\ users' = UsersAfter(D) /\ masks' = MasksAfter(D)

(* The counters lose exactly what the freed processes pointed to.          *)
LEMMA FreesCounts ==
    ASSUME IInv, NEW D, Frees(D)
    PROVE  /\ CountsExact' /\ Loose'
           /\ \A m \in Pids : masks'[m].ref = 0 => masks'[m].bits = {}
           /\ \A m \in Pids : masks'[m].ref # 0 => masks'[m].bits = masks[m].bits
<1>1. /\ D \in SUBSET Pids /\ proc' \in [Pids -> Rec]
      /\ users' = UsersAfter(D) /\ masks' = MasksAfter(D)
      /\ Loose
      /\ \A i \in Pids : users[i] \in Int /\ masks[i] \in [ref : Int, bits : SUBSET Stack]
  BY TypesLoose DEF Frees, IInv, Loose
<1>2. \A q \in Pids \ D : proc'[q].vmmc = proc[q].vmmc /\ proc'[q].mask = proc[q].mask
  BY DEF Frees, Remains
<1>3. \A d \in D : proc'[d].vmmc = 0 /\ proc'[d].mask = 0
  BY DEF Frees, NoProc
<1>4. ASSUME NEW i \in Pids
      PROVE  /\ users'[i] = Cardinality({q \in Pids : proc'[q].vmmc = i})
             /\ masks'[i].ref = Cardinality({q \in Pids : proc'[q].mask = i})
             /\ masks'[i].ref = 0 => masks'[i].bits = {}
             /\ masks'[i].ref # 0 => masks'[i].bits = masks[i].bits
             /\ users'[i] \in Int /\ masks'[i] \in [ref : Int, bits : SUBSET Stack]
  <2> DEFINE V == {q \in Pids : proc[q].vmmc = i}
             M == {q \in Pids : proc[q].mask = i}
  <2>1. users[i] = Cardinality(V) /\ masks[i].ref = Cardinality(M)
    BY DEF IInv, CountsExact
  <2>2. i # 0
    BY DEF Pids
  <2>3. /\ {q \in Pids : proc'[q].vmmc = i} = V \ D /\ {q \in D : proc[q].vmmc = i} = V \cap D
        /\ {q \in Pids : proc'[q].mask = i} = M \ D /\ {q \in D : proc[q].mask = i} = M \cap D
    BY <1>1, <1>2, <1>3, <2>2
  <2>4. IsFiniteSet(V) /\ IsFiniteSet(M)
    BY PidSets
  <2> HIDE DEF V, M
  <2>5. /\ Cardinality(V \ D) = Cardinality(V) - Cardinality(V \cap D)
        /\ Cardinality(M \ D) = Cardinality(M) - Cardinality(M \cap D)
    BY <2>4, FS_Difference
  <2>6. users'[i] = users[i] - Cardinality({q \in D : proc[q].vmmc = i})
    BY <1>1 DEF UsersAfter
  <2> DEFINE left == masks[i].ref - Cardinality({q \in D : proc[q].mask = i})
  <2>7. masks'[i] = IF left = 0 THEN [ref |-> 0, bits |-> {}] ELSE [masks[i] EXCEPT !.ref = left]
    BY <1>1 DEF MasksAfter
  <2>8. /\ left = Cardinality({q \in Pids : proc'[q].mask = i}) /\ left \in Int
        /\ Cardinality({q \in Pids : proc'[q].vmmc = i}) \in Int
    <3>1. left = Cardinality(M) - Cardinality(M \cap D)
      BY <2>1, <2>3
    <3>2. left = Cardinality({q \in Pids : proc'[q].mask = i})
      BY <2>3, <2>5, <3>1
    <3> QED
      BY <3>2, PidSets
  <2> HIDE DEF left
  <2>9. masks[i] \in [ref : Int, bits : SUBSET Stack]
    BY <1>1
  <2>10. /\ masks'[i].ref = left
         /\ left = 0 => masks'[i].bits = {}
         /\ left # 0 => masks'[i].bits = masks[i].bits
         /\ masks'[i] \in [ref : Int, bits : SUBSET Stack]
    <3>1. CASE left = 0
      BY <2>7, <3>1
    <3>2. CASE left # 0
      BY <2>7, <2>8, <2>9, <3>2
    <3> QED
      BY <3>1, <3>2
  <2>11. users'[i] = Cardinality({q \in Pids : proc'[q].vmmc = i})
    BY <2>1, <2>3, <2>5, <2>6
  <2> QED
    BY <2>8, <2>10, <2>11
<1>5. users' \in [Pids -> Int] /\ masks' \in [Pids -> [ref : Int, bits : SUBSET Stack]]
  <2>1. users' = [i \in Pids |-> users'[i]] /\ masks' = [i \in Pids |-> masks'[i]]
    BY <1>1 DEF UsersAfter, MasksAfter
  <2> QED
    BY <1>4, <2>1
<1> QED
  BY <1>1, <1>4, <1>5 DEF CountsExact, Loose

(* Giving zombies and destructed records back keeps groups, stacks and     *)
(* family.                                                                 *)
LEMMA FreesKept ==
    ASSUME IInv, NEW D, Frees(D)
    PROVE  /\ LedOf(proc') /\ ApartOf(proc') /\ StacksOf(proc', masks')
           /\ ParentInv' /\ NoCircle'
<1>1. /\ D \in SUBSET Pids
      /\ \A d \in D : proc[d].status \in {"ZOMBIE", "DESTRUCT"} /\ proc'[d] = NoProc
      /\ \A q \in Pids \ D : Remains(q)
  BY DEF Frees
<1>2. \A d \in D : /\ ~LiveR(proc[d]) /\ ~LiveR(proc'[d]) /\ ~LeaderR(d, proc'[d])
                   /\ ~LeaderR(d, proc[d])
                   /\ ~KnownR(proc'[d]) /\ proc'[d].ppid = 0 /\ d # 1
                   /\ proc[d].status # "ACTIVE" /\ proc'[d].status # "ACTIVE"
  <2>1. \A d \in D : /\ ~LiveR(proc[d]) /\ ~LiveR(proc'[d]) /\ ~LeaderR(d, proc'[d])
                     /\ ~KnownR(proc'[d]) /\ proc'[d].ppid = 0
                     /\ proc[d].status # "ACTIVE" /\ proc'[d].status # "ACTIVE"
    BY <1>1 DEF LiveR, LeaderR, KnownR, NoProc
  <2>2. proc[1].status = "ACTIVE"
    BY DEF IInv, ParentInv, Is
  <2> QED
    BY <1>1, <2>1, <2>2, ViewsBefore
<1>3. \A q \in Pids \ D : /\ LiveR(proc'[q]) <=> LiveR(proc[q])
                          /\ KnownR(proc'[q]) <=> KnownR(proc[q])
                          /\ LeaderR(q, proc'[q]) <=> LeaderR(q, proc[q])
                          /\ proc'[q].pgid = proc[q].pgid /\ proc'[q].vmmc = proc[q].vmmc
                          /\ proc'[q].mask = proc[q].mask /\ proc'[q].ppid = proc[q].ppid
                          /\ proc'[q].psi = proc[q].psi /\ proc'[q].status = proc[q].status
  BY <1>1 DEF Remains, LiveR, LeaderR, KnownR
<1>4. LedOf(proc) /\ ApartOf(proc)
  BY ViewsBefore
<1>5. LedOf(proc')
  BY <1>1, <1>2, <1>3, <1>4 DEF LedOf
<1>6. ApartOf(proc')
  BY <1>1, <1>2, <1>3, <1>4 DEF ApartOf
<1>7. ParentInv'
  <2>1. 1 \in Pids
    BY ProcessAssumption DEF Pids
  <2>2. proc'[1].status \in {"ACTIVE"} /\ ~(proc'[1].psi >= 0) /\ proc'[1].ppid = 0
    BY <1>2, <1>3, <2>1 DEF IInv, ParentInv, Is, is_popup
  <2>3. ASSUME NEW q \in Pids \ {1}, KnownR(proc'[q])
        PROVE  proc'[q].ppid \in Pids /\ LiveR(proc'[proc'[q].ppid])
    <3>1. q \notin D
      BY <1>2, <2>3
    <3>2. proc[q].ppid \in Pids /\ LiveR(proc[proc[q].ppid])
      BY <1>3, <2>3, <3>1 DEF IInv, ParentInv, Known, KnownR, Is, Alive, LiveR
    <3> QED
      BY <1>2, <1>3, <3>1, <3>2
  <2> QED
    BY <2>2, <2>3 DEF ParentInv, Alive, Known, KnownR, LiveR, Is, is_popup
<1>8. NoCircle'
  <2>1. ASSUME NEW S \in SUBSET Pids, S # {}
        PROVE  \E q \in S : proc'[q].ppid \notin S
    <3>1. 0 \notin S
      BY DEF Pids
    <3>2. PICK x \in S : proc[x].ppid \notin S
      BY <2>1 DEF IInv, NoCircle
    <3> QED
      BY <1>2, <1>3, <3>1, <3>2
  <2> QED
    BY <2>1 DEF NoCircle
<1>9. ASSUME NEW u PROVE PopupsOf(proc', u) = PopupsOf(proc, u)
  BY <1>1, <1>2, <1>3 DEF PopupsOf
<1>10. StacksOf(proc', masks')
  <2>1. ASSUME NEW t \in Pids, LeaderR(t, proc'[t])
        PROVE  StackAt(proc', masks', t)
    <3>1. t \notin D
      BY <1>2, <2>1
    <3>2. LeaderR(t, proc[t]) /\ proc'[t].mask = proc[t].mask /\ proc'[t].vmmc = proc[t].vmmc
      BY <1>3, <2>1, <3>1
    <3>3. \A y \in PopupsOf(proc, proc[t].vmmc) : proc'[y].psi = proc[y].psi
      BY <1>2, <1>3 DEF PopupsOf
    <3>4. proc[t].mask # 0 => masks'[proc[t].mask].bits = masks[proc[t].mask].bits
      <4> SUFFICES ASSUME proc[t].mask # 0
                   PROVE  masks'[proc[t].mask].bits = masks[proc[t].mask].bits
        OBVIOUS
      <4> DEFINE k == proc[t].mask
                 A == {q \in Pids : proc'[q].mask = k}
      <4>1. k \in Pids
        <5>1. proc[t].mask \in 0 .. MaxPid
          BY TypesLoose DEF IInv, Loose, Rec
        <5> QED
          BY <5>1 DEF Pids
      <4>2. t \in A /\ IsFiniteSet(A)
        BY <3>2, PidSets
      <4>3. masks'[k].ref = Cardinality(A)
        BY <4>1, FreesCounts DEF CountsExact
      <4> HIDE DEF A
      <4>4. masks'[k].ref # 0
        BY <4>2, <4>3, FS_EmptySet
      <4> QED
        BY <4>1, <4>4, FreesCounts
    <3> QED
      BY <1>9, <3>2, <3>3, <3>4, StackKept
  <2> QED
    BY <2>1 DEF StacksOf
<1> QED
  BY <1>5, <1>6, <1>7, <1>8, <1>10

(* The reaper.                                                             *)
LEMMA sweepInv ==
    ASSUME IInv, sweep_dead_processes
    PROVE  IInv'
<1> DEFINE D == {p \in Pids : Is(p, {"DESTRUCT"})}
<1>1. proc \in [Pids -> Rec]
  BY TypesLoose DEF IInv, Loose
<1>2. /\ proc' = [p \in Pids |-> IF p \in D THEN NoProc ELSE proc[p]]
      /\ users' = UsersAfter(D) /\ masks' = MasksAfter(D) /\ answers' = answers
      /\ D \in SUBSET Pids /\ \A d \in D : proc[d].status = "DESTRUCT"
  BY DEF sweep_dead_processes, destroy_process_struct, Is
<1> HIDE DEF D
<1>3. /\ \A d \in D : proc'[d] = NoProc
      /\ \A q \in Pids \ D : proc'[q] = proc[q]
      /\ proc' \in [Pids -> Rec]
  BY <1>1, <1>2, NoProcType
<1>4. Frees(D)
  BY <1>2, <1>3 DEF Frees, Remains
<1>5. \A d \in D : /\ proc[d].wfor = "none" /\ proc[d].held = 0 /\ ~proc[d].sync
                   /\ proc[d].ans = 0 /\ ~KnownR(proc[d])
  BY <1>2 DEF IInv, RecordInv, RecordOK, KnownR
<1>6. \A d \in D : /\ proc'[d].wfor = "none" /\ proc'[d].held = 0 /\ ~proc'[d].sync
                   /\ proc'[d].ans = 0
  BY <1>3 DEF NoProc
<1>7. RecordInv'
  <2>1. ASSUME NEW q \in Pids PROVE RecordOK(q, proc'[q])
    <3>1. CASE q \in D
      BY <1>3, <3>1 DEF RecordOK, NoProc
    <3>2. CASE q \notin D
      BY <1>3, <3>2 DEF IInv, RecordInv
    <3> QED
      BY <3>1, <3>2
  <2> QED
    BY <2>1 DEF RecordInv
<1>8. WaitsOf(proc')
  <2>1. WaitsOf(proc)
    BY ViewsBefore
  <2>2. \A q \in Pids : proc'[q].wfor \in {"ipc", "child"} => q \notin D
    BY <1>6
  <2>3. \A q \in Pids : proc[q].wfor \in {"ipc", "child"} => proc[q].wait \notin D
    BY <1>5, <2>1 DEF WaitsOf
  <2> QED
    BY <1>3, <2>1, <2>2, <2>3 DEF WaitsOf
<1>9. SyncsOf(proc')
  <2>1. SyncsOf(proc)
    BY ViewsBefore
  <2>2. \A z \in Pids : proc[z].sync => proc[z].ppid \notin D
    BY <1>5, <2>1 DEF SyncsOf
  <2> QED
    BY <1>3, <1>6, <2>1, <2>2 DEF SyncsOf
<1>10. AnswersAccounted'
  <2>1. \A q \in Pids : proc'[q].ans = proc[q].ans /\ proc'[q].held = proc[q].held
    BY <1>3, <1>5, <1>6
  <2>2. /\ {q \in Pids : proc'[q].ans # 0} = {q \in Pids : proc[q].ans # 0}
        /\ {q \in Pids : proc'[q].held # 0} = {q \in Pids : proc[q].held # 0}
    BY <2>1
  <2> QED
    BY <1>2, <2>1, <2>2 DEF IInv, AnswersAccounted
<1> QED
  BY <1>4, <1>7, <1>8, <1>9, <1>10, FreesCounts, FreesKept, ViewsEnough

(* The end of a wait: z is freed, and if it was a popup p has its answer.  *)
LEMMA waitpidInv ==
    ASSUME IInv, NEW p \in Pids, NEW z \in Pids, raw_waitpid(p, z)
    PROVE  IInv'
<1>1. proc \in [Pids -> Rec]
  BY TypesLoose DEF IInv, Loose
<1>2. /\ proc[z].status = "ZOMBIE" /\ proc[p].wfor \in {"ipc", "child", "any"}
      /\ \/ proc[p].wfor \in {"ipc", "child"} /\ proc[p].wait = z
         \/ proc[p].wfor = "any" /\ proc[z].ppid = p
      /\ answers' = answers
  BY DEF raw_waitpid, Is
<1>3. proc[p].status = "ACTIVE" /\ proc[p].held = 0 /\ p # z
  BY <1>2 DEF IInv, RecordInv, RecordOK, Is
<1>4. WaitsOf(proc) /\ SyncsOf(proc)
  BY ViewsBefore
<1>5. /\ proc[z].ppid = p
      /\ proc[p].wfor = "ipc" => proc[z].sync /\ proc[z].ans \in {0, p}
      /\ proc[p].wfor # "ipc" => ~proc[z].sync /\ proc[z].ans = 0
  <2>1. proc[z].ppid = p
    BY <1>2, <1>4 DEF WaitsOf
  <2>2. proc[p].wfor = "ipc" => proc[z].sync
    BY <1>2, <1>4 DEF WaitsOf
  <2>3. proc[z].sync => proc[p].wfor = "ipc" /\ proc[z].ans \in {0, p}
    BY <1>4, <2>1 DEF SyncsOf
  <2>4. proc[z].psi >= 0 => proc[z].sync
    BY <1>2 DEF IInv, RecordInv, RecordOK
  <2>5. ~(proc[z].psi >= 0) => proc[z].ans = 0
    BY DEF IInv, RecordInv, RecordOK
  <2> QED
    BY <2>1, <2>2, <2>3, <2>4, <2>5
<1> DEFINE P == IF proc[p].wfor = "ipc" /\ proc[z].errno # 0 THEN SetErrno(proc, p, 1)
                ELSE proc
           h == IF proc[p].wfor = "ipc" THEN proc[z].ans ELSE 0
           R == [P EXCEPT ![p].wfor = "none", ![p].wait = 0, ![p].held = h]
<1>6. /\ P \in [Pids -> Rec]
      /\ \A q \in Pids : Alike(P[q], proc[q]) /\ (proc[q].psi < 0 => P[q] = proc[q])
  <2>1. CASE P = SetErrno(proc, p, 1)
    BY <1>1, <2>1, SetErrnoFacts
  <2>2. CASE P = proc
    BY <1>1, <2>2 DEF Alike
  <2> QED
    BY <2>1, <2>2
<1>7. /\ users' = UsersAfter({z}) /\ masks' = MasksAfter({z})
      /\ proc' = [q \in Pids |-> IF q \in {z} THEN NoProc ELSE R[q]]
  BY DEF raw_waitpid, destroy_process_struct
<1>8. h \in 0 .. MaxPid /\ h = proc[z].ans /\ h \in {0, p}
  <2>1. proc[z].ans \in 0 .. MaxPid
    BY <1>1 DEF Rec
  <2> QED
    BY <1>2, <1>5, <2>1, ProcessAssumption
<1> HIDE DEF P, h
<1>9. /\ R \in [Pids -> Rec]
      /\ \A q \in Pids \ {p} : R[q] = P[q]
      /\ R[p] = [P[p] EXCEPT !.wfor = "none", !.wait = 0, !.held = h]
  <2>1. P[p] \in Rec /\ 0 \in 0 .. MaxPid
    BY <1>6, ProcessAssumption
  <2>2. [P[p] EXCEPT !.wfor = "none", !.wait = 0, !.held = h] \in Rec
    BY <1>8, <2>1 DEF Rec
  <2>3. R = [P EXCEPT ![p] = [P[p] EXCEPT !.wfor = "none", !.wait = 0, !.held = h]]
    BY <1>6
  <2> QED
    BY <1>6, <2>2, <2>3
<1> HIDE DEF R
<1>10. /\ proc'[z] = NoProc /\ \A q \in Pids \ {z} : proc'[q] = R[q]
       /\ proc' \in [Pids -> Rec]
  BY <1>7, <1>9, NoProcType
<1>11. /\ Remains(p) /\ proc'[p].wfor = "none" /\ proc'[p].held = h
  <2>1. P[p] \in Rec /\ Alike(P[p], proc[p])
    BY <1>6
  <2>2. proc'[p] = [P[p] EXCEPT !.wfor = "none", !.wait = 0, !.held = h]
    BY <1>3, <1>9, <1>10
  <2> QED
    BY <1>3, <2>1, <2>2 DEF Alike, Rec, Remains, IsFree, Is
<1>12. \A q \in Pids \ {p, z} : /\ Remains(q) /\ proc'[q].wfor = proc[q].wfor
                                /\ proc'[q].wait = proc[q].wait
                                /\ proc'[q].held = proc[q].held
  <2>1. ASSUME NEW q \in Pids \ {p, z}
        PROVE  /\ Remains(q) /\ proc'[q].wfor = proc[q].wfor
               /\ proc'[q].wait = proc[q].wait
               /\ proc'[q].held = proc[q].held
    <3>1. Alike(proc'[q], proc[q]) /\ (proc[q].psi < 0 => proc'[q] = proc[q])
      BY <1>6, <1>9, <1>10
    <3>2. IsFree(q) => proc[q].psi < 0
      BY DEF IInv, RecordInv, RecordOK, IsFree, Is, NoProc
    <3> QED
      BY <3>1, <3>2 DEF Alike, Remains
  <2> QED
    BY <2>1
<1>13. Frees({z})
  BY <1>2, <1>7, <1>10, <1>11, <1>12 DEF Frees
<1>14. /\ proc'[z].wfor = "none" /\ proc'[z].held = 0 /\ ~proc'[z].sync
       /\ proc'[z].ans = 0
  BY <1>10 DEF NoProc
<1>15. RecordInv'
  <2>1. ASSUME NEW q \in Pids PROVE RecordOK(q, proc'[q])
    <3>1. RecordOK(q, proc[q])
      BY DEF IInv, RecordInv
    <3>2. CASE q = z
      BY <1>10, <3>2 DEF RecordOK, NoProc
    <3>3. CASE q = p
      BY <1>3, <1>11, <3>1, <3>3 DEF RecordOK, Remains
    <3>4. CASE q # z /\ q # p
      BY <1>12, <3>1, <3>4 DEF RecordOK, Remains, IsFree, Is
    <3> QED
      BY <3>2, <3>3, <3>4
  <2> QED
    BY <2>1 DEF RecordInv
<1>16. WaitsOf(proc')
  <2>1. ASSUME NEW q \in Pids, proc'[q].wfor \in {"ipc", "child"}
        PROVE  /\ proc'[q].wait \in Pids /\ KnownR(proc'[proc'[q].wait])
               /\ proc'[proc'[q].wait].ppid = q
               /\ proc'[q].wfor = "ipc" => proc'[proc'[q].wait].sync
               /\ proc'[q].wfor = "child" => ~(proc'[proc'[q].wait].psi >= 0)
    <3>1. q # z /\ q # p
      BY <1>11, <1>14, <2>1
    <3>2. proc'[q].wfor = proc[q].wfor /\ proc'[q].wait = proc[q].wait
      BY <1>12, <3>1
    <3>3. /\ proc[q].wait \in Pids /\ KnownR(proc[proc[q].wait]) /\ proc[proc[q].wait].ppid = q
          /\ proc[q].wfor = "ipc" => proc[proc[q].wait].sync
          /\ proc[q].wfor = "child" => ~(proc[proc[q].wait].psi >= 0)
      BY <1>4, <2>1, <3>2 DEF WaitsOf
    <3>4. proc[q].wait # z
      BY <1>5, <3>1, <3>3
    <3>5. Remains(proc[q].wait)
      BY <1>11, <1>12, <3>3, <3>4
    <3> QED
      BY <3>2, <3>3, <3>5 DEF Remains, KnownR
  <2> QED
    BY <2>1 DEF WaitsOf
<1>17. SyncsOf(proc')
  <2>1. ASSUME NEW x \in Pids, proc'[x].sync
        PROVE  /\ proc'[x].ppid \in Pids /\ proc'[proc'[x].ppid].wfor = "ipc"
               /\ proc'[proc'[x].ppid].wait = x /\ proc'[x].ans \in {0, proc'[x].ppid}
    <3>1. x # z
      BY <1>14, <2>1
    <3>2. Remains(x)
      BY <1>11, <1>12, <3>1
    <3>3. /\ proc[x].ppid \in Pids /\ proc[proc[x].ppid].wfor = "ipc"
          /\ proc[proc[x].ppid].wait = x /\ proc[x].ans \in {0, proc[x].ppid}
      BY <1>4, <2>1, <3>2 DEF SyncsOf, Remains
    <3>4. proc[x].ppid # p /\ proc[x].ppid # z
      <4>1. proc[z].wfor = "none"
        BY <1>2 DEF IInv, RecordInv, RecordOK
      <4> QED
        BY <1>2, <3>1, <3>3, <4>1
    <3> QED
      BY <1>12, <3>2, <3>3, <3>4 DEF Remains
  <2> QED
    BY <2>1 DEF SyncsOf
<1>18. AnswersAccounted'
  <2> DEFINE A == {q \in Pids : proc[q].ans # 0}
             H == {q \in Pids : proc[q].held # 0}
  <2>1. \A q \in Pids : proc'[q].held \in {0, q}
    BY <1>8, <1>11, <1>12, <1>14 DEF IInv, AnswersAccounted
  <2>2. answers = Cardinality(A) + Cardinality(H)
    BY DEF IInv, AnswersAccounted
  <2>3. /\ IsFiniteSet(A) /\ Cardinality(A) \in Int
        /\ IsFiniteSet(H) /\ Cardinality(H) \in Int
    BY PidSets
  <2>4. proc[z].held = 0
    BY <1>2 DEF IInv, RecordInv, RecordOK
  <2>5. {q \in Pids : proc'[q].ans # 0} = A \ {z}
    BY <1>11, <1>12, <1>14 DEF Remains
  <2>6. {q \in Pids : proc'[q].held # 0} = IF h = 0 THEN H ELSE H \cup {p}
    BY <1>3, <1>11, <1>12, <1>14, <2>4
  <2>7. (z \in A <=> h # 0) /\ p \notin H
    BY <1>3, <1>8
  <2> HIDE DEF A, H
  <2>8. Cardinality(A \ {z}) = IF z \in A THEN Cardinality(A) - 1 ELSE Cardinality(A)
    BY <2>3, FS_RemoveElement
  <2>9. Cardinality(H \cup {p}) = Cardinality(H) + 1
    BY <2>3, <2>7, FS_AddElement
  <2>10. answers = Cardinality(A \ {z}) + Cardinality(IF h = 0 THEN H ELSE H \cup {p})
    <3>1. CASE h = 0
      BY <2>2, <2>3, <2>7, <2>8, <3>1
    <3>2. CASE h # 0
      BY <2>2, <2>3, <2>7, <2>8, <2>9, <3>2
    <3> QED
      BY <3>1, <3>2
  <2> QED
    BY <1>2, <2>1, <2>5, <2>6, <2>10 DEF AnswersAccounted
<1> QED
  BY <1>13, <1>15, <1>16, <1>17, <1>18, FreesCounts, FreesKept, ViewsEnough

-----------------------------------------------------------------------------
(* An ipc call that fails because the callee is gone only sets errno.      *)
LEMMA IpcFailsInv ==
    ASSUME IInv, NEW p \in Pids, NEW t \in Pids, IpcFails(p, t)
    PROVE  IInv'
BY ErrnoOnly DEF IpcFails

(* The program itself may set its errno.                                   *)
LEMMA UserErrnoInv ==
    ASSUME IInv, NEW p \in Pids, UserErrno(p)
    PROVE  IInv'
BY ErrnoOnly DEF UserErrno

(* At boot there is init and nothing else.                                 *)
LEMMA InitIInv == Init => IInv
<1> SUFFICES ASSUME Init PROVE IInv
  OBVIOUS
<1>1. 1 \in Pids /\ 0 \notin Pids /\ 1 \in 0 .. MaxPid /\ MainTls \in 0 .. Stacks
      /\ 0 \in 0 .. MaxPid
  BY ProcessAssumption DEF Pids, MainTls
<1>2. [NoProc EXCEPT !.status = "ACTIVE", !.pgid = 1, !.entry = TRUE, !.mask = 1,
                     !.vmmc = 1, !.tls = MainTls] \in Rec
  BY <1>1, NoProcType DEF Rec
<1>3. proc \in [Pids -> Rec]
  BY <1>2, NoProcType DEF Init
<1>4. /\ proc[1].status = "ACTIVE" /\ proc[1].pgid = 1 /\ proc[1].ppid = 0 /\ proc[1].psi = -1
      /\ ~proc[1].sync /\ proc[1].mask = 1 /\ proc[1].vmmc = 1 /\ proc[1].ans = 0
      /\ proc[1].held = 0 /\ proc[1].wfor = "none"
  BY <1>1 DEF Init, NoProc
<1>5. \A q \in Pids \ {1} :
        /\ proc[q] = NoProc /\ proc[q].status = "FREE" /\ proc[q].pgid = 0 /\ proc[q].ppid = 0
        /\ proc[q].psi = -1 /\ ~proc[q].sync /\ proc[q].mask = 0 /\ proc[q].vmmc = 0
        /\ proc[q].ans = 0 /\ proc[q].held = 0 /\ proc[q].wfor = "none"
  BY DEF Init, NoProc
<1>6. RecordInv
  <2>1. ASSUME NEW q \in Pids PROVE RecordOK(q, proc[q])
    <3>1. CASE q = 1
      BY <1>4, <3>1 DEF RecordOK
    <3>2. CASE q # 1
      BY <1>5, <3>2 DEF RecordOK
    <3> QED
      BY <3>1, <3>2
  <2> QED
    BY <2>1 DEF RecordInv
<1>7. GroupInv
  <2>1. \A q \in Pids : (Alive(q) \/ Leader(q)) => q = 1
    BY <1>5 DEF Alive, Leader, Is, IsFree
  <2>2. Alive(1) /\ Leader(1)
    BY <1>4 DEF Alive, Leader, Is, IsFree, is_popup
  <2> QED
    BY <1>1, <1>4, <2>1, <2>2 DEF GroupInv
<1>8. \A v : RunningPopups(v) = {}
  BY <1>4, <1>5 DEF RunningPopups, Is, is_popup
<1>9. MaskInv
  BY <1>8 DEF MaskInv, Init
<1>10. StacksExclusive
  <2>1. \A q \in Pids : Leader(q) => q = 1
    BY <1>5 DEF Leader, Is, IsFree
  <2>2. masks[proc[1].mask].bits = {}
    BY <1>1, <1>4 DEF Init
  <2> QED
    BY <1>8, <2>1, <2>2 DEF StacksExclusive
<1>11. CountsExact
  <2>1. ASSUME NEW i \in Pids
        PROVE  /\ users[i] = Cardinality({q \in Pids : proc[q].vmmc = i})
               /\ masks[i].ref = Cardinality({q \in Pids : proc[q].mask = i})
    <3>1. CASE i = 1
      <4>1. /\ {q \in Pids : proc[q].vmmc = i} = {1} /\ {q \in Pids : proc[q].mask = i} = {1}
        <5>1. \A q \in Pids : (proc[q].vmmc = i <=> q = 1) /\ (proc[q].mask = i <=> q = 1)
          BY <1>4, <1>5, <3>1
        <5> QED
          BY <1>1, <5>1
      <4>2. users[i] = 1 /\ masks[i].ref = 1
        BY <3>1 DEF Init
      <4> QED
        BY <4>1, <4>2, FS_Singleton
    <3>2. CASE i # 1
      <4>1. /\ {q \in Pids : proc[q].vmmc = i} = {} /\ {q \in Pids : proc[q].mask = i} = {}
        BY <1>1, <1>4, <1>5, <3>2
      <4>2. users[i] = 0 /\ masks[i].ref = 0
        BY <3>2 DEF Init
      <4> QED
        BY <4>1, <4>2, FS_EmptySet
    <3> QED
      BY <3>1, <3>2
  <2> QED
    BY <2>1 DEF CountsExact
<1>12. ParentInv
  BY <1>4, <1>5 DEF ParentInv, Known, Is, is_popup
<1>13. NoCircle
  BY <1>1, <1>4, <1>5 DEF NoCircle
<1>14. WaitInv /\ SyncInv
  <2>1. \A q \in Pids : proc[q].wfor = "none" /\ ~proc[q].sync
    BY <1>4, <1>5
  <2> QED
    BY <2>1 DEF WaitInv, NoDanglingWait, SyncInv
<1>15. AnswersAccounted
  <2>1. /\ \A q \in Pids : proc[q].held = 0 /\ proc[q].ans = 0
        /\ {q \in Pids : proc[q].ans # 0} = {} /\ {q \in Pids : proc[q].held # 0} = {}
    BY <1>4, <1>5
  <2> QED
    <3>1. answers = 0 /\ Cardinality({}) = 0
      BY FS_EmptySet DEF Init
    <3>2. Cardinality({q \in Pids : proc[q].ans # 0}) = 0
      BY <2>1, <3>1
    <3>3. Cardinality({q \in Pids : proc[q].held # 0}) = 0
      BY <2>1, <3>1
    <3> QED
      BY <2>1, <3>1, <3>2, <3>3 DEF AnswersAccounted
<1>16. Loose
  BY <1>3 DEF Loose, Init
<1>17. TypeOK
  BY <1>11, <1>15, <1>16, TypeFromCounts
<1> QED
  BY <1>6, <1>7, <1>9, <1>10, <1>11, <1>12, <1>13, <1>14, <1>15, <1>17 DEF IInv

(* Every step of the system keeps the inductive invariant.                 *)
LEMMA StepIInv == ~LeaderMayLeave /\ IInv /\ [Next]_vars => IInv'
<1> SUFFICES ASSUME ~LeaderMayLeave, IInv, [Next]_vars PROVE IInv'
  OBVIOUS
<1>1. CASE UNCHANGED vars
  <2>1. UNCHANGED <<proc, users, masks, answers>>
    BY <1>1 DEF vars
  <2>2. proc' \in [Pids -> Rec] /\ \A q \in Pids : Alike(proc'[q], proc[q]) /\ proc'[q] = proc[q]
    BY <2>1, TypesLoose DEF IInv, Loose, Alike
  <2> QED
    BY <2>1, <2>2, QuietStep
<1>2. ASSUME NEW p \in Pids,
             \/ exec(p) \/ set_process_popup_entry(p) \/ fork(p) \/ create_user_thread(p)
             \/ daemonize_process(p) \/ popup_set_answer(p) \/ StartWait(p) \/ UserErrno(p)
      PROVE  IInv'
  BY <1>2, execInv, popupEntryInv, forkInv, threadInv, daemonizeInv, setAnswerInv,
     StartWaitInv, UserErrnoInv
<1>3. ASSUME NEW p \in Pids, NEW t \in Pids,
             IpcFails(p, t) \/ \E sync \in BOOLEAN : popup(p, t, sync)
      PROVE  IInv'
  BY <1>3, IpcFailsInv, popupInv
<1>4. ASSUME NEW p \in Pids, Exit(p)
      PROVE  IInv'
  BY <1>4, destroyInv, destroyPopupInv DEF Exit
<1>5. ASSUME NEW p \in Pids, Finish(p)
      PROVE  IInv'
  BY <1>5, getAnswerInv, waitpidInv DEF Finish
<1>6. CASE sweep_dead_processes
  BY <1>6, sweepInv
<1> QED
  BY <1>1, <1>2, <1>3, <1>4, <1>5, <1>6 DEF Next

-----------------------------------------------------------------------------
(* StacksCounted (management.c: popup, destroy_this_popup_thread;          *)
(* destroy_process_struct): no two popups of a process run on one stack,   *)
(* a stack is marked as taken as long as a popup runs on it, and address   *)
(* spaces and stack masks are counted exactly.                             *)
THEOREM StacksAreCounted ==
    ASSUME ~LeaderMayLeave
    PROVE  Spec => []StacksCounted
<1>1. IInv => StacksCounted
  BY DEF IInv, StacksCounted
<1>2. IInv /\ [Next]_vars => IInv'
  BY StepIInv
<1> QED
  BY <1>1, <1>2, InitIInv, PTL DEF Spec

(* FamilyKept (management.c: raw_waitpid, adopt_orphans): nobody waits for *)
(* a process_t that is gone, a popup finds the leader of its group, and    *)
(* everybody's parent runs.                                                *)
THEOREM FamilyIsKept ==
    ASSUME ~LeaderMayLeave
    PROVE  Spec => []FamilyKept
<1>1. IInv => FamilyKept
  <2> SUFFICES ASSUME IInv PROVE FamilyKept
    OBVIOUS
  <2>1. NoDanglingWait
    BY DEF IInv, WaitInv
  <2>2. LeaderFound
    BY DEF IInv, GroupInv, LeaderFound, Alive, Is, find_process
  <2>3. ParentRuns
    BY DEF IInv, ParentInv, ParentRuns, Known, Alive, Is, find_process
  <2> QED
    BY <2>1, <2>2, <2>3 DEF FamilyKept
<1>2. IInv /\ [Next]_vars => IInv'
  BY StepIInv
<1> QED
  BY <1>1, <1>2, InitIInv, PTL DEF Spec

(* AnswersAccounted (syscall.c: SYS_POPUP_SET_ANSWER, SYS_POPUP_GET_ANSWER;*)
(* management.c: raw_waitpid): no answer is lost and none is handed to     *)
(* somebody who may not read it.                                           *)
THEOREM AnswersAreAccounted ==
    ASSUME ~LeaderMayLeave
    PROVE  Spec => []AnswersAccounted
<1>1. IInv => AnswersAccounted
  BY DEF IInv
<1>2. IInv /\ [Next]_vars => IInv'
  BY StepIInv
<1> QED
  BY <1>1, <1>2, InitIInv, PTL DEF Spec

-----------------------------------------------------------------------------
(* What ErrnoLostOnlyByReuse says of the zombie z in one step.             *)
ErrnoOf(z) ==
    Is(z, {"ZOMBIE"}) /\ is_popup(z) /\ proc'[z].status = "ZOMBIE"
      /\ proc'[z].errno # proc[z].errno
    => \E q \in Pids \ {z} : /\ proc'[q].status = "ACTIVE"
                             /\ proc'[q].psi = proc[z].psi
                             /\ proc'[q].vmmc = proc[z].vmmc

(* If a store in a table P changes what z left, it comes from a popup on   *)
(* the same stack.                                                         *)
LEMMA StoreSeen ==
    ASSUME NEW P \in [Pids -> Rec], NEW p \in Pids, NEW z \in Pids, NEW e \in {0, 1},
           P[p].psi >= 0 => P[p].tls = P[p].psi, P[z].psi >= 0 => P[z].tls = P[z].psi,
           SetErrno(P, p, e)[z].errno # P[z].errno
    PROVE  P[p].psi = P[z].psi /\ P[p].vmmc = P[z].vmmc
<1>1. SameTls(P, p, z)
  BY SetErrnoFacts
<1> QED
  BY <1>1 DEF SameTls

(* The steps in which a process that runs stores in its own table entry,   *)
(* after it may have set errno.                                            *)
LEMMA ErrnoByStore ==
    ASSUME IInv, NEW p \in Pids, NEW z \in Pids, p # z, proc[p].status = "ACTIVE",
           proc'[p].status = "ACTIVE" /\ proc'[p].psi = proc[p].psi
             /\ proc'[p].vmmc = proc[p].vmmc,
           proc'[z] = proc[z] \/ proc'[z] = SetErrno(proc, p, 1)[z]
    PROVE  ErrnoOf(z)
<1>1. proc \in [Pids -> Rec]
  BY TypesLoose DEF IInv, Loose
<1>2. /\ proc[p].psi >= 0 => proc[p].tls = proc[p].psi
      /\ proc[z].psi >= 0 => proc[z].tls = proc[z].psi
  BY DEF IInv, RecordInv, RecordOK
<1>3. CASE proc'[z].errno = proc[z].errno
  BY <1>3 DEF ErrnoOf
<1>4. CASE proc'[z].errno # proc[z].errno
  <2>1. SetErrno(proc, p, 1)[z].errno # proc[z].errno
    BY <1>4
  <2>2. proc[p].psi = proc[z].psi /\ proc[p].vmmc = proc[z].vmmc
    BY <1>1, <1>2, <2>1, StoreSeen
  <2> QED
    BY <2>2 DEF ErrnoOf
<1> QED
  BY <1>3, <1>4

(* A popup that writes a zombie's errno does so because it was given the   *)
(* zombie's stack: the two share the stack index and the address space.    *)
LEMMA ErrnoByPopup ==
    ASSUME IInv, NEW p \in Pids, NEW t \in Pids, NEW sync \in BOOLEAN, popup(p, t, sync),
           NEW z \in Pids
    PROVE  ErrnoOf(z)
<1> SUFFICES ASSUME proc[z].status = "ZOMBIE", proc[z].psi >= 0,
                    proc'[z].errno # proc[z].errno
             PROVE  \E q \in Pids \ {z} : /\ proc'[q].status = "ACTIVE"
                                          /\ proc'[q].psi = proc[z].psi
                                          /\ proc'[q].vmmc = proc[z].vmmc
  BY DEF ErrnoOf, Is, is_popup
<1>1. proc \in [Pids -> Rec]
  BY TypesLoose DEF IInv, Loose
<1>2. PICK c \in Pids : c = get_new_pid /\ proc[c].status = "FREE"
  BY NewPid DEF popup, IsFree, Is
<1>3. c # z /\ c # p /\ p # z
  BY <1>2 DEF popup, Running, Is
<1> DEFINE s == Min(FreeStacks(t))
           r == NewPopup(p, t, s, sync)
           P == [proc EXCEPT ![c] = r]
           Q == SetErrno(P, c, 0)
           w == IF sync THEN "ipc" ELSE "none"
           x == IF sync THEN c ELSE 0
<1>4. proc' = [Q EXCEPT ![p].wfor = w, ![p].wait = x]
  BY <1>2 DEF popup
<1>5. s \in Stack
  <2>1. FreeStacks(t) \in SUBSET Nat /\ FreeStacks(t) # {}
    BY DEF popup, FreeStacks, Stack
  <2> HIDE DEF s
  <2>2. Min(FreeStacks(t)) \in FreeStacks(t)
    BY <2>1, MinIsMember
  <2> QED
    BY <2>2 DEF FreeStacks, s
<1>6. /\ r.status = "ACTIVE" /\ r.psi = s /\ r.vmmc = proc[t].vmmc /\ r.tls = s
      /\ r \in Rec
  <2> HIDE DEF s
  <2>1. r = [NoProc EXCEPT !.status = "ACTIVE", !.pgid = proc[t].pgid, !.ppid = p,
                   !.psi = s, !.sync = sync, !.vmmc = proc[t].vmmc, !.tls = s]
    BY DEF NewPopup
  <2>2. /\ proc[t].pgid \in 0 .. MaxPid /\ proc[t].vmmc \in 0 .. MaxPid
        /\ p \in 0 .. MaxPid /\ s \in 0 .. Stacks
    <3>1. proc[t].pgid \in 0 .. MaxPid /\ proc[t].vmmc \in 0 .. MaxPid
      BY <1>1 DEF Rec
    <3>2. p \in 0 .. MaxPid
      BY DEF Pids
    <3>3. s \in 0 .. Stacks
      BY <1>5, ProcessAssumption DEF Stack
    <3> QED
      BY <3>1, <3>2, <3>3
  <2> HIDE DEF r
  <2>3. r \in Rec
    BY <1>5, <2>1, <2>2, NoProcType DEF Rec
  <2> QED
    BY <2>1, <2>3 DEF NoProc
<1> HIDE DEF r, s
<1>7. P \in [Pids -> Rec] /\ P[c] = r /\ P[z] = proc[z]
  BY <1>1, <1>3, <1>6
<1> HIDE DEF P
<1>8. /\ Q \in [Pids -> Rec]
      /\ \A q \in Pids : Alike(Q[q], P[q])
  BY <1>7, SetErrnoFacts
<1>9. Q[z].errno # P[z].errno
  <2> HIDE DEF Q, w, x
  <2>1. proc'[z] = Q[z]
    BY <1>3, <1>4, <1>8
  <2> QED
    BY <1>7, <2>1
<1>10. P[c].psi = P[z].psi /\ P[c].vmmc = P[z].vmmc
  <2>1. P[z].psi >= 0 => P[z].tls = P[z].psi
    BY <1>7 DEF IInv, RecordInv, RecordOK
  <2>2. P[c].psi >= 0 => P[c].tls = P[c].psi
    BY <1>6, <1>7
  <2> QED
    BY <1>7, <1>9, <2>1, <2>2, StoreSeen
<1>11. proc'[c].status = "ACTIVE" /\ proc'[c].psi = proc[z].psi /\ proc'[c].vmmc = proc[z].vmmc
  <2> HIDE DEF Q, w, x
  <2>1. proc'[c] = Q[c]
    BY <1>3, <1>4, <1>8
  <2> QED
    BY <1>6, <1>7, <1>8, <1>10, <2>1 DEF Alike
<1> QED
  BY <1>3, <1>11

(* ErrnoLostOnlyByReuse (management.c: popup, raw_waitpid; kernel_tls.h):  *)
(* the errno that a popup leaves for its caller is overwritten only by a   *)
(* popup that was given the same stack in the meantime.                    *)
THEOREM ErrnoKept ==
    ASSUME ~LeaderMayLeave
    PROVE  Spec => ErrnoLostOnlyByReuse
<1>1. ASSUME IInv, Next, NEW z \in Pids
      PROVE  ErrnoOf(z)
  <2> SUFFICES ASSUME proc[z].status = "ZOMBIE" PROVE ErrnoOf(z)
    BY DEF ErrnoOf, Is
  <2>1. proc \in [Pids -> Rec]
    BY <1>1, TypesLoose DEF IInv, Loose
  <2>2. ASSUME NEW p \in Pids,
               \/ exec(p) \/ set_process_popup_entry(p) \/ daemonize_process(p)
               \/ popup_set_answer(p) \/ StartWait(p)
        PROVE  ErrnoOf(z)
    <3>1. p # z
      BY <2>2 DEF exec, set_process_popup_entry, daemonize_process, popup_set_answer,
                  StartWait, Running, Is
    <3>2. proc'[z] = proc[z]
      BY <2>1, <2>2, <3>1
      DEF exec, set_process_popup_entry, daemonize_process, popup_set_answer, StartWait
    <3> QED
      BY <3>2 DEF ErrnoOf
  <2>3. ASSUME NEW p \in Pids, fork(p) \/ create_user_thread(p)
        PROVE  ErrnoOf(z)
    <3>1. get_new_pid # z
      BY <2>3, NewPid DEF fork, create_user_thread, IsFree, Is
    <3>2. proc'[z] = proc[z]
      BY <2>1, <2>3, <3>1 DEF fork, create_user_thread
    <3> QED
      BY <3>2 DEF ErrnoOf
  <2>4. ASSUME NEW p \in Pids, UserErrno(p) \/ \E t \in Pids : IpcFails(p, t)
        PROVE  ErrnoOf(z)
    <3>1. proc[p].status = "ACTIVE" /\ proc' = SetErrno(proc, p, 1)
      BY <2>4 DEF UserErrno, IpcFails, Running, Is
    <3>2. Alike(proc'[p], proc[p])
      BY <2>1, <3>1, SetErrnoFacts
    <3> QED
      BY <1>1, <3>1, <3>2, ErrnoByStore DEF Alike
  <2>5. ASSUME NEW p \in Pids, NEW t \in Pids, NEW sync \in BOOLEAN, popup(p, t, sync)
        PROVE  ErrnoOf(z)
    BY <1>1, <2>5, ErrnoByPopup
  <2>6. ASSUME NEW p \in Pids, Exit(p)
        PROVE  ErrnoOf(z)
    <3>1. p # z
      BY <2>6 DEF Exit, destroy_process, destroy_this_popup_thread, Running, Is
    <3>2. proc'[z] = adopt_orphans(p)[z]
      BY <2>6, <3>1 DEF Exit, destroy_process, destroy_this_popup_thread, adopt_orphans
    <3>3. proc'[z].errno = proc[z].errno
      BY <2>1, <3>2 DEF adopt_orphans, Rec
    <3> QED
      BY <3>3 DEF ErrnoOf
  <2>7. ASSUME NEW p \in Pids, popup_get_answer(p)
        PROVE  ErrnoOf(z)
    <3>1. p # z /\ proc[p].held = p
      BY <1>1, <2>7 DEF popup_get_answer, Is, IInv, AnswersAccounted
    <3>2. proc'[z] = proc[z]
      BY <2>1, <2>7, <3>1 DEF popup_get_answer
    <3> QED
      BY <3>2 DEF ErrnoOf
  <2>8. ASSUME NEW p \in Pids, NEW y \in Pids, raw_waitpid(p, y)
        PROVE  ErrnoOf(z)
    <3> DEFINE P == IF proc[p].wfor = "ipc" /\ proc[y].errno # 0 THEN SetErrno(proc, p, 1)
                    ELSE proc
               h == IF proc[p].wfor = "ipc" THEN proc[y].ans ELSE 0
               R == [P EXCEPT ![p].wfor = "none", ![p].wait = 0, ![p].held = h]
    <3>1. proc' = [q \in Pids |-> IF q \in {y} THEN NoProc ELSE R[q]]
      BY <2>8 DEF raw_waitpid, destroy_process_struct
    <3>2. proc[p].status = "ACTIVE" /\ proc[y].status = "ZOMBIE" /\ p # z /\ p # y
      <4>1. proc[p].wfor # "none"
        BY <2>8 DEF raw_waitpid
      <4> QED
        BY <1>1, <2>8, <4>1 DEF raw_waitpid, IInv, RecordInv, RecordOK, Is
    <3>3. P \in [Pids -> Rec] /\ Alike(P[p], proc[p])
          /\ (P[z] = proc[z] \/ P[z] = SetErrno(proc, p, 1)[z])
      <4>1. CASE P = SetErrno(proc, p, 1)
        BY <2>1, <4>1, SetErrnoFacts
      <4>2. CASE P = proc
        BY <2>1, <4>2 DEF Alike
      <4> QED
        BY <4>1, <4>2
    <3> HIDE DEF P, h
    <3>4. proc'[p] = [P[p] EXCEPT !.wfor = "none", !.wait = 0, !.held = h]
      BY <3>1, <3>2, <3>3
    <3>5. proc'[p].status = "ACTIVE" /\ proc'[p].psi = proc[p].psi /\ proc'[p].vmmc = proc[p].vmmc
      <4>1. P[p] \in Rec
        BY <3>3
      <4> QED
        BY <3>2, <3>3, <3>4, <4>1 DEF Alike, Rec
    <3>6. CASE z = y
      BY <3>1, <3>6 DEF ErrnoOf, NoProc
    <3>7. CASE z # y
      <4>1. proc'[z] = P[z]
        BY <3>1, <3>2, <3>3, <3>7
      <4> QED
        BY <1>1, <3>2, <3>3, <3>5, <4>1, ErrnoByStore
    <3> QED
      BY <3>6, <3>7
  <2>9. CASE sweep_dead_processes
    <3>1. proc'[z] = proc[z]
      BY <2>9 DEF sweep_dead_processes, destroy_process_struct, Is
    <3> QED
      BY <3>1 DEF ErrnoOf
  <2> QED
    BY <1>1, <2>2, <2>3, <2>4, <2>5, <2>6, <2>7, <2>8, <2>9 DEF Next, Finish
<1>2. IInv /\ [Next]_vars => [\A z \in Pids : ErrnoOf(z)]_vars
  BY <1>1
<1>3. ErrnoLostOnlyByReuse <=> [][\A z \in Pids : ErrnoOf(z)]_vars
  BY DEF ErrnoLostOnlyByReuse, ErrnoOf
<1>4. IInv /\ [Next]_vars => IInv'
  BY StepIInv
<1> QED
  BY InitIInv, <1>2, <1>3, <1>4, PTL DEF Spec

-----------------------------------------------------------------------------
(***************************************************************************)
(* The scheduler.  The counter of its ticks is wide enough that it does    *)
(* not wrap a second time for a process that waits.                        *)
(***************************************************************************)
CONSTANTS Procs, IrqProcs, Threshold, Width, Counters, MaxStorm
VARIABLES runqueue, status, age, fresh_irq, current_process, schedule_lock, waited, storm

D == INSTANCE Scheduler

NProcs == Cardinality(Procs)
Burst  == NProcs + MaxStorm + 1      \* ticks between two choices by age
Ticks(w) == Threshold + w * Burst

Machine ==
    /\ IsFiniteSet(Procs) /\ Procs \subseteq Nat \ {0}
    /\ Threshold \in Nat \ {0} /\ MaxStorm \in Nat
    /\ Width \in Nat /\ Counters \subseteq 0 .. Width - 1
    /\ Width > Ticks(Threshold + 2 * NProcs) + 1

CpuType ==
    /\ runqueue \in Seq(Procs)
    /\ status \in [Procs -> {"new", "active", "coma", "daemon", "gone"}]
    /\ age \in [Procs -> 0 .. Width - 1]
    /\ fresh_irq \in [Procs -> BOOLEAN]
    /\ current_process \in Procs \cup {0}
    /\ schedule_lock \in BOOLEAN
    /\ waited \in [Procs -> Nat]
    /\ storm \in 0 .. MaxStorm

(* Whoever may become the choice is in the run queue.                      *)
Queued(p) == status[p] \in {"active", "coma"} \/ (status[p] = "daemon" /\ p \in IrqProcs)

QueueInv ==
    /\ \A p \in Procs : Queued(p) => \E i \in 1 .. Len(runqueue) : runqueue[i] = p
    /\ current_process \in Procs => status[current_process] # "new"
    /\ schedule_lock => current_process \in Procs /\ status[current_process] = "active"

(* Those that may be chosen for their age before p is, and the choices for *)
(* an interrupt that there may be before the next one by age.              *)
Before(p) ==
    {q \in Procs \ {p} : \/ status[q] = "new"
                         \/ age[q] >= age[p] /\ (q = current_process => age[p] = 0)}
Jumps == Cardinality({p \in Procs : fresh_irq[p]}) + MaxStorm - storm

(* A process that was below Threshold when it began to wait, or since the  *)
(* counter has wrapped for it; one that was not.                           *)
Young(p) ==
    /\ age[p] + Jumps <= Ticks(waited[p] + 1)
    /\ waited[p] + Cardinality(Before(p)) <= Threshold + 2 * NProcs - 1
    /\ waited[p] + Threshold - age[p] + Cardinality(Before(p)) <= Threshold + 2 * NProcs - 1

Old(p) ==
    /\ age[p] >= Threshold
    /\ waited[p] + Cardinality(Before(p)) <= NProcs - 1

WaitsInv ==
    \A p \in Procs : waited[p] > 0 =>
        /\ status[p] = "active" /\ p # current_process
        /\ Young(p) \/ Old(p)

CpuInv == CpuType /\ QueueInv /\ WaitsInv

-----------------------------------------------------------------------------
(* A set of natural numbers has a least element.                           *)
LEMMA LeastElement ==
    ASSUME NEW S \in SUBSET Nat, S # {}
    PROVE  \E m \in S : \A x \in S : m <= x
<1> DEFINE R == OpToRel(<, Nat)
<1>1. IsWellFoundedOn(R, Nat)
  BY NatLessThanWellFounded
<1>2. R = {ss \in Nat \X Nat : ss[1] < ss[2]}
  BY Zenon DEF OpToRel
<1> HIDE DEF R
<1>3. PICK m \in S : \A x \in S : ~(<<x, m>> \in R)
  BY <1>1, WFMin
<1>4. ASSUME NEW x \in S, x < m PROVE FALSE
  <2>1. <<x, m>> \in {ss \in Nat \X Nat : ss[1] < ss[2]}
    BY <1>4
  <2> QED
    BY <1>2, <1>3, <2>1
<1>5. \A x \in S : m <= x
  BY <1>4
<1> QED
  BY <1>5

(* The loop of schedule finds the first of the eldest,                     *)
LEMMA FirstOfTheEldest ==
    ASSUME NEW S \in SUBSET Nat, S # {}, NEW f \in [S -> Nat],
           NEW top \in Nat, \A i \in S : f[i] <= top
    PROVE  \E i \in S : \A j \in S : f[i] > f[j] \/ (f[i] = f[j] /\ i <= j)
<1> DEFINE A == {top - f[i] : i \in S}
<1>1. PICK m \in A : \A x \in A : m <= x
  <2>1. \A i \in S : top - f[i] \in Nat
    OBVIOUS
  <2>2. A \in SUBSET Nat /\ A # {}
    BY <2>1
  <2> QED
    BY <2>2, LeastElement
<1> DEFINE B == {i \in S : top - f[i] = m}
<1>2. PICK i \in B : \A x \in B : i <= x
  <2>1. B \in SUBSET Nat /\ B # {}
    OBVIOUS
  <2> QED
    BY <2>1, LeastElement
<1>3. ASSUME NEW j \in S PROVE f[i] > f[j] \/ (f[i] = f[j] /\ i <= j)
  <2>1. top - f[i] = m /\ i \in S /\ f[i] \in Nat /\ f[j] \in Nat
    BY <1>2
  <2>2. top - f[j] \in A
    OBVIOUS
  <2>3. m <= top - f[j]
    BY <1>1, <2>2
  <2>4. f[i] > f[j] \/ f[i] = f[j]
    BY <2>1, <2>3
  <2>5. CASE f[i] = f[j]
    <3>1. j \in B
      BY <2>1, <2>5
    <3> QED
      BY <1>2, <2>5, <3>1
  <2> QED
    BY <2>4, <2>5
<1> QED
  BY <1>2, <1>3

(* and the last one with a fresh interrupt.                                *)
LEMMA LastOfTheFresh ==
    ASSUME NEW k \in Nat, NEW S \in SUBSET (1 .. k), S # {}
    PROVE  \E i \in S : \A j \in S : j <= i
<1> DEFINE A == {k - i : i \in S}
<1>1. PICK m \in A : \A x \in A : m <= x
  <2>1. A \in SUBSET Nat /\ A # {}
    OBVIOUS
  <2> QED
    BY <2>1, LeastElement
<1>2. PICK i \in S : m = k - i
  OBVIOUS
<1>3. \A j \in S : j <= i
  <2> TAKE j \in S
  <2>1. k - j \in A
    OBVIOUS
  <2>2. m <= k - j
    BY <1>1, <2>1
  <2> QED
    BY <1>2, <2>2
<1> QED
  BY <1>3

(* What the loop decides.                                                  *)
LEMMA ChoiceFacts ==
    ASSUME Machine, CpuType, NEW ages \in [Procs -> 0 .. Width], NEW switch_to,
           NEW c, c = D!Choice(ages, switch_to)
    PROVE  /\ c.irq \in BOOLEAN /\ c.to \in Procs \cup {0}
           /\ c.to \in Procs => status[c.to] = "active"
           /\ c.irq => c.to \in Procs /\ fresh_irq[c.to]
           /\ ~c.irq => \A i \in 1 .. Len(runqueue) :
                 status[runqueue[i]] = "active" /\ ages[runqueue[i]] >= Threshold =>
                 c.to \in Procs /\ ages[c.to] >= ages[runqueue[i]]
<1> DEFINE Rd == {i \in 1 .. Len(runqueue) : status[runqueue[i]] = "active"}
           Aged == {i \in Rd : ages[runqueue[i]] > 0}
           Urgent == {i \in Rd : fresh_irq[runqueue[i]]}
           Older(i) == \A j \in Aged : \/ ages[runqueue[i]] > ages[runqueue[j]]
                                       \/ ages[runqueue[i]] = ages[runqueue[j]] /\ i <= j
           target == \E i \in Rd : runqueue[i] = switch_to
           first == CHOOSE i \in Aged : Older(i)
           last == CHOOSE i \in Urgent : \A j \in Urgent : j <= i
<1>0. /\ Len(runqueue) \in Nat /\ Threshold \in Nat /\ Threshold > 0
      /\ \A i \in 1 .. Len(runqueue) :
            runqueue[i] \in Procs /\ ages[runqueue[i]] \in Nat /\ ages[runqueue[i]] <= Width
  <2>1. \A i \in 1 .. Len(runqueue) : runqueue[i] \in Procs
    BY ElementOfSeq DEF CpuType
  <2>2. \A p \in Procs : ages[p] \in Nat /\ ages[p] <= Width
    BY DEF Machine
  <2>3. Len(runqueue) \in Nat
    BY LenProperties DEF CpuType
  <2> QED
    BY <2>1, <2>2, <2>3 DEF Machine
<1>1. c = IF Aged = {} THEN [to |-> 0, irq |-> FALSE]
          ELSE IF Urgent # {} THEN [to |-> runqueue[last], irq |-> TRUE]
          ELSE [to |-> IF target /\ ages[runqueue[first]] < Threshold THEN switch_to
                       ELSE runqueue[first],
                irq |-> FALSE]
  BY Zenon DEF D!Choice, D!Ready, D!YieldsTo, D!Idle
<1>2. ASSUME Aged # {} PROVE first \in Aged /\ Older(first)
  <2>1. \E i \in Aged : Older(i)
    <3> DEFINE f == [i \in Aged |-> ages[runqueue[i]]]
    <3>1. Aged \in SUBSET Nat /\ f \in [Aged -> Nat] /\ \A i \in Aged : f[i] <= Width
      BY <1>0
    <3>2. Width \in Nat
      BY DEF Machine
    <3>3. \E i \in Aged : \A j \in Aged : f[i] > f[j] \/ (f[i] = f[j] /\ i <= j)
      <4> HIDE DEF f, Aged
      <4> QED
        BY <1>2, <3>1, <3>2, FirstOfTheEldest
    <3> QED
      BY <3>3
  <2> HIDE DEF Aged, Older
  <2> QED
    BY <2>1, Zenon DEF first
<1>3. ASSUME Urgent # {} PROVE last \in Urgent
  <2>1. \E i \in Urgent : \A j \in Urgent : j <= i
    BY <1>0, <1>3, LastOfTheFresh
  <2> HIDE DEF Urgent
  <2> QED
    BY <2>1, Zenon DEF last
<1> HIDE DEF first, last
<1>4. CASE Aged = {}
  <2>1. c.to = 0 /\ c.irq = FALSE
    BY <1>1, <1>4
  <2>2. \A i \in 1 .. Len(runqueue) :
           status[runqueue[i]] = "active" => ~(ages[runqueue[i]] >= Threshold)
    BY <1>0, <1>4
  <2>3. 0 \notin Procs
    BY DEF Machine
  <2> QED
    BY <2>1, <2>2, <2>3
<1>5. CASE Aged # {} /\ Urgent # {}
  <2>1. c.to = runqueue[last] /\ c.irq = TRUE
    BY <1>1, <1>5
  <2>2. last \in Urgent
    BY <1>3, <1>5
  <2> QED
    BY <1>0, <2>1, <2>2
<1>6. CASE Aged # {} /\ Urgent = {}
  <2>1. c.irq = FALSE
    BY <1>1, <1>6
  <2>2. first \in Aged /\ Older(first)
    BY <1>2, <1>6
  <2>3. CASE target /\ ages[runqueue[first]] < Threshold
    <3>1. c.to = switch_to
      BY <1>1, <1>6, <2>3
    <3>2. PICK k \in Rd : runqueue[k] = switch_to
      BY <2>3
    <3>3. ASSUME NEW i \in Aged PROVE ages[runqueue[i]] < Threshold
      BY <1>0, <2>2, <2>3
    <3>4. \A i \in 1 .. Len(runqueue) :
             status[runqueue[i]] = "active" => ~(ages[runqueue[i]] >= Threshold)
      BY <1>0, <3>3
    <3> QED
      BY <1>0, <2>1, <3>1, <3>2, <3>4
  <2>4. CASE ~(target /\ ages[runqueue[first]] < Threshold)
    <3>1. c.to = runqueue[first]
      BY <1>1, <1>6, <2>4
    <3>2. ASSUME NEW i \in 1 .. Len(runqueue), status[runqueue[i]] = "active",
                 ages[runqueue[i]] >= Threshold
          PROVE  ages[runqueue[first]] >= ages[runqueue[i]]
      <4>1. i \in Aged
        BY <1>0, <3>2
      <4> QED
        BY <1>0, <2>2, <4>1
    <3> QED
      BY <1>0, <2>1, <2>2, <3>1, <3>2
  <2> QED
    BY <2>3, <2>4
<1> QED
  BY <1>4, <1>5, <1>6
(* Sets of processes, and the ticks there may be while somebody waits.     *)
LEMMA CountFacts ==
    ASSUME Machine
    PROVE  /\ NProcs \in Nat
           /\ \A S \in SUBSET Procs : Cardinality(S) \in Nat /\ Cardinality(S) <= NProcs
           /\ \A S, T \in SUBSET Procs : S \subseteq T => Cardinality(S) <= Cardinality(T)
           /\ \A S, T \in SUBSET Procs : \A q \in T :
                 S \subseteq T \ {q} => Cardinality(S) <= Cardinality(T) - 1
<1>1. IsFiniteSet(Procs)
  BY DEF Machine
<1>2. \A S \in SUBSET Procs : IsFiniteSet(S) /\ Cardinality(S) \in Nat
  BY <1>1, FS_Subset, FS_CardinalityType
<1>3. ASSUME NEW S \in SUBSET Procs, NEW T \in SUBSET Procs, S \subseteq T
      PROVE  Cardinality(S) <= Cardinality(T)
  BY <1>2, <1>3, FS_Subset
<1>4. ASSUME NEW S \in SUBSET Procs, NEW T \in SUBSET Procs, NEW q \in T, S \subseteq T \ {q}
      PROVE  Cardinality(S) <= Cardinality(T) - 1
  <2>1. Cardinality(S) <= Cardinality(T \ {q})
    BY <1>3, <1>4
  <2>2. Cardinality(T \ {q}) = Cardinality(T) - 1
    BY <1>2, FS_RemoveElement
  <2> QED
    BY <2>1, <2>2
<1> QED
  BY <1>2, <1>3, <1>4 DEF NProcs

(* The counter does not come round within the longest wait.                *)
LEMMA TicksFacts ==
    ASSUME Machine
    PROVE  /\ Burst \in Nat /\ Burst = NProcs + MaxStorm + 1
           /\ \A w \in Nat : Ticks(w) \in Nat /\ Ticks(w + 1) = Ticks(w) + Burst
           /\ \A w \in Nat : w <= Threshold + 2 * NProcs => Ticks(w) + 1 < Width
<1>1. /\ NProcs \in Nat /\ MaxStorm \in Nat /\ Threshold \in Nat /\ Width \in Nat
      /\ Width > Ticks(Threshold + 2 * NProcs) + 1
  BY CountFacts DEF Machine
<1>2. Burst \in Nat /\ Burst = NProcs + MaxStorm + 1
  BY <1>1 DEF Burst
<1> HIDE DEF Burst
<1>3. ASSUME NEW w \in Nat PROVE Ticks(w) \in Nat /\ Ticks(w + 1) = Ticks(w) + Burst
  BY <1>1, <1>2 DEF Ticks
<1>4. ASSUME NEW w \in Nat, w <= Threshold + 2 * NProcs PROVE Ticks(w) + 1 < Width
  <2> DEFINE v == Threshold + 2 * NProcs
  <2>1. v \in Nat /\ v - w \in Nat
    BY <1>1, <1>4
  <2>2. (v - w) * Burst >= 0
    BY <1>2, <2>1
  <2>3. v * Burst = w * Burst + (v - w) * Burst
    BY <1>2, <2>1
  <2>4. w * Burst <= v * Burst
    <3>1. w * Burst \in Int /\ (v - w) * Burst \in Int
      BY <1>2, <2>1
    <3> QED
      BY <2>2, <2>3, <3>1
  <2>5. Ticks(w) <= Ticks(v)
    <3>1. w * Burst \in Int /\ v * Burst \in Int
      BY <1>2, <2>1
    <3> QED
      BY <1>1, <2>4, <3>1 DEF Ticks
  <2>6. Ticks(w) \in Nat /\ Ticks(v) \in Nat
    BY <1>3, <2>1
  <2>7. Width > Ticks(v) + 1
    BY <1>1
  <2> HIDE DEF v
  <2> QED
    BY <1>1, <2>5, <2>6, <2>7
<1> QED
  BY <1>2, <1>3, <1>4

(* At most all the others are before p, fewer if one of them is not.       *)
LEMMA BeforeFacts ==
    ASSUME Machine, CpuType, NEW p \in Procs
    PROVE  /\ Before(p) \in SUBSET Procs
           /\ Cardinality(Before(p)) \in Nat /\ Cardinality(Before(p)) <= NProcs - 1
           /\ \A q \in Procs \ {p} : q \notin Before(p) => Cardinality(Before(p)) <= NProcs - 2
           /\ Jumps \in Nat /\ Jumps <= NProcs + MaxStorm
<1>1. Before(p) \in SUBSET Procs /\ p \notin Before(p)
  BY DEF Before
<1>2. Cardinality(Before(p)) \in Nat
  BY <1>1, CountFacts
<1>3. Cardinality(Procs \ {p}) <= NProcs - 1
  BY CountFacts DEF NProcs
<1>4. Cardinality(Before(p)) <= NProcs - 1
  BY <1>1, CountFacts DEF NProcs
<1>5. ASSUME NEW q \in Procs \ {p}, q \notin Before(p)
      PROVE  Cardinality(Before(p)) <= NProcs - 2
  <2>1. Before(p) \subseteq (Procs \ {p}) \ {q}
    BY <1>1, <1>5
  <2>2. Cardinality(Before(p)) <= Cardinality(Procs \ {p}) - 1
    BY <1>1, <2>1, CountFacts
  <2>3. Cardinality(Procs \ {p}) \in Nat /\ NProcs \in Nat
    BY CountFacts
  <2> QED
    BY <1>2, <1>3, <2>2, <2>3
<1>6. Jumps \in Nat /\ Jumps <= NProcs + MaxStorm
  <2> DEFINE F == {x \in Procs : fresh_irq[x]}
  <2>1. Cardinality(F) \in Nat /\ Cardinality(F) <= NProcs /\ NProcs \in Nat
    BY CountFacts
  <2>2. storm \in 0 .. MaxStorm /\ MaxStorm \in Nat
    BY DEF CpuType, Machine
  <2>3. Jumps = Cardinality(F) + MaxStorm - storm
    BY DEF Jumps
  <2> HIDE DEF F
  <2> QED
    BY <2>1, <2>2, <2>3
<1> QED
  BY <1>1, <1>2, <1>4, <1>5, <1>6

(* Whatever does not let the counter tick only takes processes out of the  *)
(* way, and a new interrupt is one less to come.                           *)
LEMMA Quiet ==
    ASSUME Machine, CpuType, CpuType', NEW p \in Procs, Young(p) \/ Old(p),
           waited'[p] = waited[p], age'[p] = age[p],
           Before(p)' \subseteq Before(p), Jumps' <= Jumps
    PROVE  Young(p)' \/ Old(p)'
<1>1. /\ Cardinality(Before(p)) \in Nat /\ Cardinality(Before(p)') \in Nat
      /\ Jumps \in Nat /\ Jumps' \in Int
  <2>1. Before(p)' \in SUBSET Procs
    BY DEF Before
  <2>2. Jumps' \in Int
    <3>1. Cardinality({x \in Procs : fresh_irq'[x]}) \in Nat
      BY CountFacts
    <3> QED
      BY <3>1 DEF Jumps, CpuType, Machine
  <2> QED
    BY <2>1, <2>2, BeforeFacts, CountFacts
<1>2. Cardinality(Before(p)') <= Cardinality(Before(p))
  BY BeforeFacts, CountFacts DEF Before
<1>3. /\ age[p] \in Nat /\ waited[p] \in Nat /\ Threshold \in Nat /\ NProcs \in Nat
      /\ Ticks(waited[p] + 1) \in Nat
  <2>1. age[p] \in Nat /\ waited[p] \in Nat
    BY DEF CpuType, Machine
  <2>2. waited[p] + 1 \in Nat
    BY <2>1
  <2> QED
    BY <2>1, <2>2, CountFacts, TicksFacts DEF Machine
<1>4. CASE Young(p)
  <2>1. Young(p)'
    BY <1>1, <1>2, <1>3, <1>4 DEF Young, Ticks
  <2> QED
    BY <2>1
<1>5. CASE Old(p)
  <2>1. Old(p)'
    BY <1>1, <1>2, <1>3, <1>5 DEF Old
  <2> QED
    BY <2>1
<1> QED
  BY <1>4, <1>5
-----------------------------------------------------------------------------
(* Taking one process out of the run queue leaves the others in it.        *)
LEMMA QueueWithout ==
    ASSUME NEW S, NEW s \in Seq(S), NEW k \in 1 .. Len(s)
    PROVE  LET r == SubSeq(s, 1, k - 1) \o SubSeq(s, k + 1, Len(s)) IN
           /\ r \in Seq(S)
           /\ \A q : q # s[k] /\ (\E i \in 1 .. Len(s) : s[i] = q) =>
                 \E j \in 1 .. Len(r) : r[j] = q
<1> DEFINE a == SubSeq(s, 1, k - 1)
           b == SubSeq(s, k + 1, Len(s))
           r == a \o b
<1>0. Len(s) \in Nat /\ \A i \in 1 .. Len(s) : s[i] \in S
  BY LenProperties, ElementOfSeq
<1>1. /\ a \in Seq(S) /\ Len(a) = k - 1 /\ \A i \in 1 .. k - 1 : a[i] = s[i]
  <2>1. 1 \in Int /\ k - 1 \in Int /\ \A i \in 1 .. k - 1 : s[i] \in S
    BY <1>0
  <2>2. /\ a \in Seq(S)
        /\ Len(a) = IF 1 <= k - 1 THEN k - 1 - 1 + 1 ELSE 0
        /\ \A i \in 1 .. k - 1 - 1 + 1 : a[i] = s[1 + i - 1]
    BY <2>1, SubSeqProperties
  <2> QED
    BY <2>2, <1>0
<1>2. /\ b \in Seq(S) /\ Len(b) = Len(s) - k /\ \A i \in 1 .. Len(s) - k : b[i] = s[k + i]
  <2>1. k + 1 \in Int /\ Len(s) \in Int /\ \A i \in k + 1 .. Len(s) : s[i] \in S
    BY <1>0
  <2>2. /\ b \in Seq(S)
        /\ Len(b) = IF k + 1 <= Len(s) THEN Len(s) - (k + 1) + 1 ELSE 0
        /\ \A i \in 1 .. Len(s) - (k + 1) + 1 : b[i] = s[k + 1 + i - 1]
    BY <2>1, SubSeqProperties
  <2> QED
    BY <2>2, <1>0
<1> HIDE DEF a, b
<1>4. /\ r \in Seq(S) /\ Len(r) = Len(s) - 1
      /\ \A i \in 1 .. Len(s) - 1 : r[i] = IF i <= k - 1 THEN a[i] ELSE b[i - (k - 1)]
  <2>1. /\ a \o b \in Seq(S) /\ Len(a \o b) = Len(a) + Len(b)
        /\ \A i \in 1 .. Len(a) + Len(b) : (a \o b)[i] = IF i <= Len(a) THEN a[i] ELSE b[i - Len(a)]
    BY <1>1, <1>2, ConcatProperties
  <2> QED
    BY <2>1, <1>0, <1>1, <1>2
<1> HIDE DEF r
<1>5. ASSUME NEW q, q # s[k], NEW i \in 1 .. Len(s), s[i] = q
      PROVE  \E j \in 1 .. Len(r) : r[j] = q
  <2>1. CASE i < k
    <3>1. i \in 1 .. Len(s) - 1 /\ i <= k - 1 /\ r[i] = s[i]
      BY <1>0, <1>1, <1>4, <2>1
    <3> QED
      BY <1>4, <1>5, <3>1
  <2>2. CASE i > k
    <3>1. i - 1 \in 1 .. Len(s) - 1 /\ ~(i - 1 <= k - 1)
      BY <1>0, <2>2
    <3>2. r[i - 1] = b[i - k]
      <4>1. (i - 1) - (k - 1) = i - k
        BY <1>0
      <4>2. r[i - 1] = b[(i - 1) - (k - 1)]
        BY <1>4, <3>1
      <4> QED
        BY <4>1, <4>2
    <3>3. b[i - k] = s[i]
      <4>1. i - k \in 1 .. Len(s) - k /\ k + (i - k) = i
        BY <1>0, <2>2
      <4> QED
        BY <1>2, <4>1
    <3> QED
      BY <1>4, <1>5, <3>1, <3>2, <3>3
  <2> QED
    BY <1>5, <2>1, <2>2
<1> QED
  BY <1>4, <1>5 DEF r, a, b

(* The type invariant and the run queue, in every action but the choice.   *)
Ticking == \E t \in Procs \union {D!None} : ~schedule_lock /\ D!schedule(t)
Still ==
    \/ D!Block \/ D!DaemonizeFromIrq \/ D!LockSchedule \/ D!daemonize_process
    \/ \E p \in Procs : D!run_process(p) \/ D!Wake(p) \/ D!common_irq_handler(p) \/ D!Leave(p)

(* A step lets the counter tick, or not (dispatch with the lock held).     *)
LEMMA NextSplit ==
    ASSUME [D!Next]_(D!vars)
    PROVE  Ticking \/ Still \/ UNCHANGED D!vars
BY Zenon DEF D!Next, D!dispatch, Ticking, Still

(* Without a choice: types, and everybody stays in the queue who must.     *)
LEMMA StillQueue ==
    ASSUME Machine, CpuType, QueueInv, Still
    PROVE  CpuType' /\ QueueInv'
<1> USE DEF CpuType, QueueInv, Queued
<1>0. 0 \notin Procs /\ Width \in Nat /\ Counters \subseteq 0 .. Width - 1 /\ MaxStorm \in Nat
  BY DEF Machine
<1>1. CASE D!Block
  BY <1>1, <1>0 DEF D!Block, D!Running
<1>2. CASE D!DaemonizeFromIrq
  BY <1>2, <1>0 DEF D!DaemonizeFromIrq, D!Running
<1>3. CASE D!LockSchedule
  BY <1>3, <1>0 DEF D!LockSchedule, D!Running
<1>4. CASE D!daemonize_process
  <2>1. /\ runqueue' \in Seq(Procs)
        /\ \A q \in Procs : q # current_process /\ (\E i \in 1 .. Len(runqueue) : runqueue[i] = q) =>
              \E i \in 1 .. Len(runqueue') : runqueue'[i] = q
    <3>1. CASE current_process \in IrqProcs
      BY <1>4, <3>1 DEF D!daemonize_process
    <3>2. CASE current_process \notin IrqProcs
      <4> DEFINE I == {i \in 1 .. Len(runqueue) : runqueue[i] = current_process}
                 k == CHOOSE x \in I : \A y \in I : x <= y
      <4>1. CASE I = {} /\ runqueue' = runqueue
        BY <4>1
      <4>2. CASE I # {} /\ runqueue' = SubSeq(runqueue, 1, k - 1) \o SubSeq(runqueue, k + 1, Len(runqueue))
        <5>1. k \in I
          <6>1. I \in SUBSET Nat
            OBVIOUS
          <6>2. \E x \in I : \A y \in I : x <= y
            BY <4>2, <6>1, LeastElement
          <6> HIDE DEF I
          <6> QED
            BY <6>2
        <5>2. PICK m \in 1 .. Len(runqueue) :
                   /\ runqueue[m] = current_process
                   /\ runqueue' = SubSeq(runqueue, 1, m - 1) \o SubSeq(runqueue, m + 1, Len(runqueue))
          BY <4>2, <5>1
        <5> HIDE DEF k, I
        <5> DEFINE r == SubSeq(runqueue, 1, m - 1) \o SubSeq(runqueue, m + 1, Len(runqueue))
        <5>3. runqueue \in Seq(Procs)
          OBVIOUS
        <5>4. /\ r \in Seq(Procs)
              /\ \A q : q # runqueue[m] /\ (\E i \in 1 .. Len(runqueue) : runqueue[i] = q) =>
                    \E j \in 1 .. Len(r) : r[j] = q
          BY <5>3, QueueWithout, Zenon
        <5>5. r = runqueue'
          BY <5>2
        <5> HIDE DEF r
        <5> QED
          BY <5>2, <5>4, <5>5
      <4>3. I # {} => D!SelectInSeq(runqueue, LAMBDA v : v = current_process) = k
        BY Zenon DEF D!SelectInSeq, D!Min
      <4>4. I = {} => runqueue' = runqueue
        BY <1>4, <3>2 DEF D!daemonize_process, D!RemoveFirst
      <4>5. I # {} => runqueue' = SubSeq(runqueue, 1, k - 1) \o SubSeq(runqueue, k + 1, Len(runqueue))
        <5>1. I # {} => runqueue' = D!RemoveAt(runqueue, D!SelectInSeq(runqueue, LAMBDA v : v = current_process))
          BY <1>4, <3>2 DEF D!daemonize_process, D!RemoveFirst
        <5> HIDE DEF I, k
        <5> QED
          BY <4>3, <5>1 DEF D!RemoveAt
      <4> HIDE DEF I, k
      <4> QED
        BY <4>1, <4>2, <4>4, <4>5
    <3> QED
      BY <3>1, <3>2
  <2>2. current_process \in Procs
    BY <1>4 DEF D!daemonize_process
  <2>3. /\ status' = [status EXCEPT ![current_process] = "daemon"] /\ schedule_lock' = FALSE
        /\ UNCHANGED <<age, fresh_irq, current_process, waited, storm>>
        /\ current_process \in IrqProcs => runqueue' = runqueue
    BY <1>4 DEF D!daemonize_process
  <2>4. CpuType'
    BY <2>1, <2>2, <2>3
  <2>5. ASSUME NEW q \in Procs, Queued(q)' PROVE \E i \in 1 .. Len(runqueue') : runqueue'[i] = q
    <3>1. CASE q = current_process
      <4>1. current_process \in IrqProcs
        BY <2>2, <2>3, <2>5, <3>1
      <4>2. Queued(current_process)
        BY <1>4, <2>2 DEF D!daemonize_process
      <4> QED
        BY <2>2, <2>3, <3>1, <4>1, <4>2
    <3>2. CASE q # current_process
      BY <2>1, <2>3, <2>5, <3>2
    <3> QED
      BY <3>1, <3>2
  <2> QED
    BY <2>2, <2>3, <2>4, <2>5
<1>5. CASE \E p \in Procs : D!run_process(p)
  <2>1. PICK p \in Procs : D!run_process(p)
    BY <1>5
  <2>2. /\ status[p] = "new" /\ status' = [status EXCEPT ![p] = "active"]
        /\ runqueue' = <<p>> \o runqueue
        /\ UNCHANGED <<fresh_irq, current_process, schedule_lock, waited, storm>>
    BY <2>1 DEF D!run_process
  <2>3. PICK counter \in Counters : age' = [age EXCEPT ![p] = counter]
    BY <2>1 DEF D!run_process
  <2>4. /\ runqueue' \in Seq(Procs) /\ Len(runqueue') = 1 + Len(runqueue)
        /\ runqueue'[1] = p /\ \A i \in 1 .. Len(runqueue) : runqueue'[i + 1] = runqueue[i]
        /\ Len(runqueue) \in Nat
    <3>1. <<p>> \in Seq(Procs) /\ Len(<<p>>) = 1 /\ <<p>>[1] = p
      OBVIOUS
    <3>2. Len(runqueue) \in Nat
      BY LenProperties
    <3>3. /\ <<p>> \o runqueue \in Seq(Procs)
          /\ Len(<<p>> \o runqueue) = Len(<<p>>) + Len(runqueue)
          /\ \A i \in 1 .. Len(<<p>>) + Len(runqueue) :
                (<<p>> \o runqueue)[i] = IF i <= Len(<<p>>) THEN <<p>>[i] ELSE runqueue[i - Len(<<p>>)]
      BY <3>1, ConcatProperties
    <3> QED
      BY <2>2, <3>1, <3>2, <3>3
  <2>5. CpuType'
    BY <1>0, <2>2, <2>3, <2>4
  <2>6. ASSUME NEW q \in Procs, Queued(q)' PROVE \E i \in 1 .. Len(runqueue') : runqueue'[i] = q
    <3>1. CASE q = p
      BY <2>4, <3>1
    <3>2. CASE q # p
      <4>1. PICK i \in 1 .. Len(runqueue) : runqueue[i] = q
        BY <2>2, <2>6, <3>2
      <4>2. i + 1 \in 1 .. Len(runqueue') /\ runqueue'[i + 1] = q
        <5>1. i + 1 \in 1 .. Len(runqueue')
          BY <2>4, <4>1
        <5>2. runqueue'[i + 1] = runqueue[i]
          BY <2>4, <4>1
        <5> QED
          BY <4>1, <5>1, <5>2
      <4> QED
        BY <4>2
    <3> QED
      BY <3>1, <3>2
  <2> QED
    BY <2>2, <2>5, <2>6
<1>6. CASE \E p \in Procs : D!Wake(p)
  <2>1. PICK p \in Procs : D!Wake(p)
    BY <1>6
  <2>2. /\ status[p] = "coma" /\ status' = [status EXCEPT ![p] = "active"]
        /\ UNCHANGED <<runqueue, age, fresh_irq, current_process, schedule_lock, waited, storm>>
    BY <2>1 DEF D!Wake
  <2>3. CpuType'
    BY <2>2
  <2>4. \A q \in Procs : Queued(q)' => Queued(q)
    BY <2>2
  <2> QED
    BY <2>2, <2>3, <2>4
<1>7. CASE \E p \in Procs : D!common_irq_handler(p)
  BY <1>7, <1>0 DEF D!common_irq_handler
<1>8. CASE \E p \in Procs : D!Leave(p)
  <2>1. PICK p \in Procs : D!Leave(p)
    BY <1>8
  <2>2. /\ status[p] \notin {"new", "gone"} /\ p # current_process
        /\ status' = [status EXCEPT ![p] = "gone"]
        /\ runqueue' = D!RemoveFirst(runqueue, p)
        /\ age' = [age EXCEPT ![p] = 0]
        /\ fresh_irq' = [fresh_irq EXCEPT ![p] = FALSE]
        /\ waited' = [waited EXCEPT ![p] = 0]
        /\ UNCHANGED <<current_process, schedule_lock, storm>>
    BY <2>1 DEF D!Leave
  <2>3. /\ runqueue' \in Seq(Procs)
        /\ \A q \in Procs : q # p /\ (\E i \in 1 .. Len(runqueue) : runqueue[i] = q) =>
              \E i \in 1 .. Len(runqueue') : runqueue'[i] = q
    <3> DEFINE I == {i \in 1 .. Len(runqueue) : runqueue[i] = p}
               k == CHOOSE x \in I : \A y \in I : x <= y
    <3>1. CASE I = {} /\ runqueue' = runqueue
      BY <3>1
    <3>2. CASE I # {} /\ runqueue' = SubSeq(runqueue, 1, k - 1) \o SubSeq(runqueue, k + 1, Len(runqueue))
      <4>1. k \in I
        <5>1. I \in SUBSET Nat
          OBVIOUS
        <5>2. \E x \in I : \A y \in I : x <= y
          BY <3>2, <5>1, LeastElement
        <5> HIDE DEF I
        <5> QED
          BY <5>2
      <4>2. PICK m \in 1 .. Len(runqueue) :
                 /\ runqueue[m] = p
                 /\ runqueue' = SubSeq(runqueue, 1, m - 1) \o SubSeq(runqueue, m + 1, Len(runqueue))
        BY <3>2, <4>1
      <4> HIDE DEF k, I
      <4> DEFINE r == SubSeq(runqueue, 1, m - 1) \o SubSeq(runqueue, m + 1, Len(runqueue))
      <4>3. runqueue \in Seq(Procs)
        OBVIOUS
      <4>4. /\ r \in Seq(Procs)
            /\ \A q : q # runqueue[m] /\ (\E i \in 1 .. Len(runqueue) : runqueue[i] = q) =>
                  \E j \in 1 .. Len(r) : r[j] = q
        BY <4>3, QueueWithout, Zenon
      <4>5. r = runqueue'
        BY <4>2
      <4> HIDE DEF r
      <4> QED
        BY <4>2, <4>4, <4>5
    <3>3. I # {} => D!SelectInSeq(runqueue, LAMBDA v : v = p) = k
      BY Zenon DEF D!SelectInSeq, D!Min
    <3>4. I = {} => runqueue' = runqueue
      BY <2>2 DEF D!RemoveFirst
    <3>5. I # {} => runqueue' = SubSeq(runqueue, 1, k - 1) \o SubSeq(runqueue, k + 1, Len(runqueue))
      <4>1. I # {} => runqueue' = D!RemoveAt(runqueue, D!SelectInSeq(runqueue, LAMBDA v : v = p))
        BY <2>2 DEF D!RemoveFirst
      <4> HIDE DEF I, k
      <4> QED
        BY <3>3, <4>1 DEF D!RemoveAt
    <3> HIDE DEF I, k
    <3> QED
      BY <3>1, <3>2, <3>4, <3>5
  <2>4. CpuType'
    <3>1. 0 \in 0 .. Width - 1
      BY <1>0, <2>1
    <3> QED
      BY <2>2, <2>3, <3>1
  <2>5. QueueInv'
    BY <2>2, <2>3
  <2> QED
    BY <2>4, <2>5
<1> QED
  BY <1>1, <1>2, <1>3, <1>4, <1>5, <1>6, <1>7, <1>8, Zenon DEF Still
(* Between two choices nobody comes before one that waits who did not      *)
(* before, and no choice for an interrupt comes on top.                    *)
LEMMA FewerJumps ==
    ASSUME Machine, CpuType, CpuType',
           \/ \A x \in Procs : fresh_irq'[x] => fresh_irq[x]
           \/ /\ storm' = storm + 1
              /\ \E p \in Procs : \A x \in Procs : fresh_irq'[x] => fresh_irq[x] \/ x = p,
           storm' >= storm
    PROVE  Jumps' <= Jumps
<1> DEFINE F == {x \in Procs : fresh_irq[x]}
           G == {x \in Procs : fresh_irq'[x]}
<1>1. /\ F \in SUBSET Procs /\ IsFiniteSet(F) /\ Cardinality(F) \in Nat
      /\ G \in SUBSET Procs /\ IsFiniteSet(G) /\ Cardinality(G) \in Nat
      /\ storm \in Nat /\ storm' \in Nat /\ MaxStorm \in Nat
  <2>1. IsFiniteSet(Procs)
    BY DEF Machine
  <2>2. \A S \in SUBSET Procs : IsFiniteSet(S) /\ Cardinality(S) \in Nat
    BY <2>1, FS_Subset, FS_CardinalityType
  <2>3. F \in SUBSET Procs /\ G \in SUBSET Procs
    OBVIOUS
  <2>4. storm \in Nat /\ storm' \in Nat /\ MaxStorm \in Nat
    BY DEF CpuType, Machine
  <2> HIDE DEF F, G
  <2> QED
    BY <2>2, <2>3, <2>4
<1>2. Jumps = Cardinality(F) + MaxStorm - storm /\ Jumps' = Cardinality(G) + MaxStorm - storm'
  BY DEF Jumps
<1>3. CASE \A x \in Procs : fresh_irq'[x] => fresh_irq[x]
  <2>1. G \subseteq F
    BY <1>3
  <2>2. Cardinality(G) <= Cardinality(F)
    BY <1>1, <2>1, FS_Subset
  <2> HIDE DEF F, G
  <2> QED
    BY <1>1, <1>2, <2>2
<1>4. CASE storm' = storm + 1 /\ \E p \in Procs : \A x \in Procs : fresh_irq'[x] => fresh_irq[x] \/ x = p
  <2>1. PICK p \in Procs : G \subseteq F \cup {p}
    BY <1>4
  <2>2. IsFiniteSet(F \cup {p}) /\ Cardinality(F \cup {p}) <= Cardinality(F) + 1
        /\ Cardinality(F \cup {p}) \in Nat
    <3> HIDE DEF F
    <3>1. /\ IsFiniteSet(F \cup {p})
          /\ Cardinality(F \cup {p}) = IF p \in F THEN Cardinality(F) ELSE Cardinality(F) + 1
      BY <1>1, FS_AddElement, Zenon
    <3> QED
      BY <1>1, <3>1
  <2>3. Cardinality(G) <= Cardinality(F \cup {p})
    BY <2>1, <2>2, FS_Subset
  <2> HIDE DEF F, G
  <2> QED
    BY <1>1, <1>2, <1>4, <2>2, <2>3
<1> QED
  BY <1>3, <1>4

(* Without a choice nobody has waited longer.                              *)
LEMMA StillWaits ==
    ASSUME Machine, CpuInv, CpuType', Still
    PROVE  WaitsInv'
<1> DEFINE Kept ==
      /\ current_process' = current_process
      /\ \A p \in Procs : waited'[p] > 0 =>
            /\ waited'[p] = waited[p] /\ age'[p] = age[p] /\ status'[p] = status[p]
            /\ Before(p)' \subseteq Before(p)
      /\ Jumps' <= Jumps
<1>1. Kept
  <2> USE DEF CpuInv
  <2>1. 0 \notin Procs
    BY DEF Machine
  <2>2. CASE D!Block
    <3>1. /\ current_process \in Procs /\ status[current_process] = "active"
          /\ status' = [status EXCEPT ![current_process] = "coma"]
          /\ UNCHANGED <<age, fresh_irq, current_process, waited, storm>>
      BY <2>2 DEF D!Block, D!Running
    <3>2. Jumps' <= Jumps
      BY <3>1, FewerJumps DEF CpuType
    <3>3. \A p \in Procs : waited'[p] > 0 => p # current_process
      BY <3>1 DEF WaitsInv
    <3>4. \A p \in Procs : Before(p)' \subseteq Before(p)
      BY <3>1 DEF Before, CpuType
    <3> QED
      BY <3>1, <3>2, <3>3, <3>4 DEF CpuType
  <2>3. CASE D!DaemonizeFromIrq
    <3>1. /\ current_process \in Procs /\ status[current_process] = "active"
          /\ status' = [status EXCEPT ![current_process] = "daemon"]
          /\ fresh_irq' = [fresh_irq EXCEPT ![current_process] = FALSE]
          /\ UNCHANGED <<age, current_process, waited, storm>>
      BY <2>3 DEF D!DaemonizeFromIrq, D!Running
    <3>2. Jumps' <= Jumps
      <4>1. \A x \in Procs : fresh_irq'[x] => fresh_irq[x]
        BY <3>1 DEF CpuType
      <4> QED
        BY <3>1, <4>1, FewerJumps DEF CpuType
    <3>3. \A p \in Procs : waited'[p] > 0 => p # current_process
      BY <3>1 DEF WaitsInv
    <3>4. \A p \in Procs : Before(p)' \subseteq Before(p)
      BY <3>1 DEF Before, CpuType
    <3> QED
      BY <3>1, <3>2, <3>3, <3>4 DEF CpuType
  <2>4. CASE D!LockSchedule
    <3>1. UNCHANGED <<status, age, fresh_irq, current_process, waited, storm>>
      BY <2>4 DEF D!LockSchedule
    <3>2. Jumps' <= Jumps
      BY <3>1, FewerJumps DEF CpuType
    <3> QED
      BY <3>1, <3>2 DEF Before
  <2>5. CASE D!daemonize_process
    <3>1. /\ current_process \in Procs /\ status[current_process] = "active"
          /\ status' = [status EXCEPT ![current_process] = "daemon"]
          /\ UNCHANGED <<age, fresh_irq, current_process, waited, storm>>
      BY <2>5 DEF D!daemonize_process, QueueInv
    <3>2. Jumps' <= Jumps
      BY <3>1, FewerJumps DEF CpuType
    <3>3. \A p \in Procs : waited'[p] > 0 => p # current_process
      BY <3>1 DEF WaitsInv
    <3>4. \A p \in Procs : Before(p)' \subseteq Before(p)
      BY <3>1 DEF Before, CpuType
    <3> QED
      BY <3>1, <3>2, <3>3, <3>4 DEF CpuType
  <2>6. ASSUME NEW q \in Procs, D!run_process(q)
        PROVE Kept
    <3>1. /\ status[q] = "new" /\ status' = [status EXCEPT ![q] = "active"]
          /\ \A p \in Procs \ {q} : age'[p] = age[p]
          /\ UNCHANGED <<fresh_irq, current_process, waited, storm>>
      BY <2>6 DEF D!run_process, CpuType
    <3>2. Jumps' <= Jumps
      BY <3>1, FewerJumps DEF CpuType
    <3>3. \A p \in Procs : waited'[p] > 0 => p # q
      BY <3>1 DEF WaitsInv
    <3>4. \A p \in Procs \ {q} : Before(p)' \subseteq Before(p)
      BY <3>1 DEF Before, CpuType
    <3> QED
      BY <3>1, <3>2, <3>3, <3>4 DEF CpuType
  <2>7. ASSUME NEW q \in Procs, D!Wake(q)
        PROVE Kept
    <3>1. /\ status[q] = "coma" /\ status' = [status EXCEPT ![q] = "active"]
          /\ UNCHANGED <<age, fresh_irq, current_process, waited, storm>>
      BY <2>7 DEF D!Wake
    <3>2. Jumps' <= Jumps
      BY <3>1, FewerJumps DEF CpuType
    <3>3. \A p \in Procs : waited'[p] > 0 => p # q
      BY <3>1 DEF WaitsInv
    <3>4. \A p \in Procs : Before(p)' \subseteq Before(p)
      BY <3>1 DEF Before, CpuType
    <3> QED
      BY <3>1, <3>2, <3>3, <3>4 DEF CpuType
  <2>8. ASSUME NEW q \in Procs, D!common_irq_handler(q)
        PROVE Kept
    <3>1. /\ status[q] = "daemon" /\ status' = [status EXCEPT ![q] = "active"]
          /\ fresh_irq' = [fresh_irq EXCEPT ![q] = TRUE] /\ storm' = storm + 1
          /\ UNCHANGED <<age, current_process, waited>>
      BY <2>8 DEF D!common_irq_handler
    <3>2. Jumps' <= Jumps
      <4>1. \A x \in Procs : fresh_irq'[x] => fresh_irq[x] \/ x = q
        BY <3>1 DEF CpuType
      <4>2. storm' >= storm
        BY <3>1 DEF CpuType, Machine
      <4> QED
        BY <3>1, <4>1, <4>2, FewerJumps
    <3>3. \A p \in Procs : waited'[p] > 0 => p # q
      BY <3>1 DEF WaitsInv
    <3>4. \A p \in Procs : Before(p)' \subseteq Before(p)
      BY <3>1 DEF Before, CpuType
    <3> QED
      BY <3>1, <3>2, <3>3, <3>4 DEF CpuType
  <2>9. ASSUME NEW q \in Procs, D!Leave(q)
        PROVE Kept
    <3>1. /\ q # current_process /\ status[q] # "new"
          /\ status' = [status EXCEPT ![q] = "gone"]
          /\ age' = [age EXCEPT ![q] = 0]
          /\ fresh_irq' = [fresh_irq EXCEPT ![q] = FALSE]
          /\ waited' = [waited EXCEPT ![q] = 0]
          /\ UNCHANGED <<current_process, storm>>
      BY <2>9 DEF D!Leave
    <3>2. Jumps' <= Jumps
      <4>1. \A x \in Procs : fresh_irq'[x] => fresh_irq[x]
        BY <3>1 DEF CpuType
      <4> QED
        BY <3>1, <4>1, FewerJumps DEF CpuType
    <3>3. \A p \in Procs : waited'[p] > 0 => p # q
      BY <3>1 DEF CpuType
    <3>4. \A p \in Procs \ {q} : Before(p)' \subseteq Before(p)
      BY <3>1 DEF Before, CpuType, Machine
    <3> QED
      BY <3>1, <3>2, <3>3, <3>4 DEF CpuType
  <2> QED
    <3> HIDE DEF Kept
    <3> QED
      BY <2>2, <2>3, <2>4, <2>5, <2>6, <2>7, <2>8, <2>9, Zenon DEF Still
<1>2. ASSUME NEW p \in Procs, waited'[p] > 0
      PROVE  status'[p] = "active" /\ p # current_process' /\ (Young(p)' \/ Old(p)')
  <2>1. waited[p] > 0
    BY <1>1, <1>2
  <2>2. status[p] = "active" /\ p # current_process /\ (Young(p) \/ Old(p))
    BY <2>1 DEF CpuInv, WaitsInv
  <2>3. Young(p)' \/ Old(p)'
    BY <1>1, <1>2, <2>2, Quiet DEF CpuInv
  <2> QED
    BY <1>1, <1>2, <2>2, <2>3
<1> QED
  BY <1>2 DEF WaitsInv
-----------------------------------------------------------------------------
(* The counter ticks, and somebody is chosen.                              *)
Older(p) ==
    IF p = current_process THEN 1
    ELSE IF status[p] \in {"new", "gone"} THEN 0 ELSE (age[p] + 1) % Width

(* The arithmetic of the unsigned counter.                                 *)
LEMMA Modulo ==
    ASSUME Machine
    PROVE  /\ Width \in Nat /\ Width > 2
           /\ \A a \in 0 .. Width - 1 : a + 1 < Width => (a + 1) % Width = a + 1
           /\ Width % Width = 0
           /\ \A a \in 0 .. Width - 1 : (a + 1) % Width \in 0 .. Width - 1
<1>1. Width \in Nat /\ Width > 2
  <2>1. /\ Threshold + 2 * NProcs \in Nat /\ Threshold + 2 * NProcs = Threshold + 2 * NProcs
        /\ Threshold \in Nat /\ Threshold > 0
    BY CountFacts DEF Machine
  <2>2. 1 \in Nat /\ 0 \in Nat /\ 1 <= Threshold + 2 * NProcs
    BY <2>1, CountFacts
  <2>3. Ticks(1) \in Nat /\ Ticks(0) \in Nat /\ Ticks(0 + 1) = Ticks(0) + Burst /\ Ticks(1) + 1 < Width
    BY <2>2, TicksFacts
  <2>4. Burst >= 1 /\ Burst \in Nat
    BY TicksFacts, CountFacts DEF Machine
  <2>5. Ticks(0) = Threshold
    BY <2>1, <2>4 DEF Ticks
  <2> QED
    BY <2>1, <2>3, <2>4, <2>5 DEF Machine
<1> QED
  BY <1>1

(* What schedule does, whoever is chosen.                                  *)
LEMMA Tick ==
    ASSUME Machine, CpuInv, NEW t, D!schedule(t)
    PROVE  \E irq \in BOOLEAN :
              /\ UNCHANGED <<runqueue, status, schedule_lock>>
              /\ age' = [p \in Procs |-> Older(p)] /\ age' \in [Procs -> 0 .. Width - 1]
              /\ current_process' \in Procs \cup {0}
              /\ current_process' \in Procs => status[current_process'] = "active"
              /\ irq => /\ current_process' \in Procs /\ fresh_irq[current_process']
                        /\ fresh_irq' = [fresh_irq EXCEPT ![current_process'] = FALSE]
                        /\ storm' = storm
              /\ ~irq => /\ UNCHANGED fresh_irq /\ storm' = 0
                         /\ \A p \in Procs : status[p] = "active" /\ age'[p] >= Threshold =>
                               current_process' \in Procs /\ age'[current_process'] >= age'[p]
              /\ waited' = [p \in Procs |->
                   IF p = current_process' \/ status[p] # "active" THEN 0
                   ELSE IF irq \/ waited[p] > D!Bound THEN waited[p] ELSE waited[p] + 1]
<1>1. PICK ages : ages = [p \in Procs |-> Older(p)]
  OBVIOUS
<1>2. ages \in [Procs -> 0 .. Width - 1] /\ ages \in [Procs -> 0 .. Width]
  <2>1. ASSUME NEW p \in Procs PROVE Older(p) \in 0 .. Width - 1
    <3>1. age[p] \in 0 .. Width - 1
      BY DEF CpuInv, CpuType
    <3> QED
      BY <3>1, Modulo DEF Older
  <2> QED
    BY <1>1, <2>1, Modulo
<1>3. PICK c : c = D!Choice(ages, t)
  OBVIOUS
<1>4. /\ age' = ages /\ current_process' = c.to
      /\ fresh_irq' = IF c.irq THEN [fresh_irq EXCEPT ![c.to] = FALSE] ELSE fresh_irq
      /\ waited' = [p \in Procs |->
           IF p = c.to \/ status[p] # "active" THEN 0
           ELSE IF c.irq \/ waited[p] > D!Bound THEN waited[p] ELSE waited[p] + 1]
      /\ storm' = IF c.irq THEN storm ELSE 0
      /\ UNCHANGED <<runqueue, status, schedule_lock>>
  BY <1>1, <1>3, Zenon DEF D!schedule, Older
<1>5. /\ c.irq \in BOOLEAN /\ c.to \in Procs \cup {0}
      /\ c.to \in Procs => status[c.to] = "active"
      /\ c.irq => c.to \in Procs /\ fresh_irq[c.to]
      /\ ~c.irq => \A i \in 1 .. Len(runqueue) :
            status[runqueue[i]] = "active" /\ ages[runqueue[i]] >= Threshold =>
            c.to \in Procs /\ ages[c.to] >= ages[runqueue[i]]
  BY <1>2, <1>3, ChoiceFacts DEF CpuInv
<1>6. ASSUME ~c.irq, NEW p \in Procs, status[p] = "active", ages[p] >= Threshold
      PROVE  c.to \in Procs /\ ages[c.to] >= ages[p]
  <2>1. PICK i \in 1 .. Len(runqueue) : runqueue[i] = p
    BY <1>6 DEF CpuInv, QueueInv, Queued
  <2> QED
    BY <1>5, <1>6, <2>1
<1> QED
  <2> c.irq \in BOOLEAN
    BY <1>5
  <2> WITNESS c.irq \in BOOLEAN
  <2> QED
    BY <1>1, <1>2, <1>4, <1>5, <1>6

(* schedule keeps the types and the queue.                                 *)
LEMMA TickQueue ==
    ASSUME Machine, CpuInv, Ticking
    PROVE  CpuType' /\ QueueInv'
<1>1. PICK t : ~schedule_lock /\ D!schedule(t)
  BY DEF Ticking
<1>2. PICK irq \in BOOLEAN :
         /\ UNCHANGED <<runqueue, status, schedule_lock>>
         /\ age' \in [Procs -> 0 .. Width - 1]
         /\ current_process' \in Procs \cup {0}
         /\ current_process' \in Procs => status[current_process'] = "active"
         /\ irq => /\ fresh_irq' = [fresh_irq EXCEPT ![current_process'] = FALSE]
                   /\ storm' = storm
         /\ ~irq => UNCHANGED fresh_irq /\ storm' = 0
         /\ waited' = [p \in Procs |->
              IF p = current_process' \/ status[p] # "active" THEN 0
              ELSE IF irq \/ waited[p] > D!Bound THEN waited[p] ELSE waited[p] + 1]
  BY <1>1, Tick
<1>3. waited' \in [Procs -> Nat]
  BY <1>2 DEF CpuInv, CpuType
<1>4. fresh_irq' \in [Procs -> BOOLEAN]
  BY <1>2 DEF CpuInv, CpuType
<1>5. storm' \in 0 .. MaxStorm
  BY <1>2 DEF CpuInv, CpuType, Machine
<1>6. CpuType'
  BY <1>2, <1>3, <1>4, <1>5 DEF CpuInv, CpuType
<1>7. QueueInv'
  BY <1>1, <1>2 DEF CpuInv, QueueInv, Queued
<1> QED
  BY <1>6, <1>7
(* One who waits while somebody is chosen.                                 *)
LEMMA TickWaits ==
    ASSUME Machine, CpuInv, CpuType', Ticking
    PROVE  WaitsInv'
<1>1. PICK t : D!schedule(t)
  BY DEF Ticking
<1>2. PICK irq \in BOOLEAN :
         /\ UNCHANGED <<runqueue, status, schedule_lock>>
         /\ age' = [p \in Procs |-> Older(p)] /\ age' \in [Procs -> 0 .. Width - 1]
         /\ current_process' \in Procs \cup {0}
         /\ current_process' \in Procs => status[current_process'] = "active"
         /\ irq => /\ current_process' \in Procs /\ fresh_irq[current_process']
                   /\ fresh_irq' = [fresh_irq EXCEPT ![current_process'] = FALSE]
                   /\ storm' = storm
         /\ ~irq => /\ UNCHANGED fresh_irq /\ storm' = 0
                    /\ \A p \in Procs : status[p] = "active" /\ age'[p] >= Threshold =>
                          current_process' \in Procs /\ age'[current_process'] >= age'[p]
         /\ waited' = [p \in Procs |->
              IF p = current_process' \/ status[p] # "active" THEN 0
              ELSE IF irq \/ waited[p] > D!Bound THEN waited[p] ELSE waited[p] + 1]
  BY <1>1, Tick
<1>3. /\ NProcs \in Nat /\ Threshold \in Nat /\ Threshold > 0 /\ MaxStorm \in Nat
      /\ Burst \in Nat /\ Burst = NProcs + MaxStorm + 1 /\ Width \in Nat /\ Width > 2
      /\ D!Bound = Threshold + 2 * NProcs
  <2>1. D!Bound = Threshold + 2 * Cardinality(Procs)
    BY Zenon DEF D!Bound, D!Cardinality, Cardinality, D!IsFiniteSet, IsFiniteSet
  <2> QED
    BY <2>1, CountFacts, TicksFacts, Modulo DEF Machine, NProcs
<1>4. SUFFICES ASSUME NEW p \in Procs, waited'[p] > 0
               PROVE  status'[p] = "active" /\ p # current_process' /\ (Young(p)' \/ Old(p)')
  BY DEF WaitsInv
<1>5. /\ status[p] = "active" /\ p # current_process' /\ status'[p] = "active"
      /\ waited'[p] = IF irq \/ waited[p] > D!Bound THEN waited[p] ELSE waited[p] + 1
      /\ age'[p] = Older(p)
      /\ age[p] \in 0 .. Width - 1 /\ age'[p] \in 0 .. Width - 1
      /\ waited[p] \in Nat /\ waited'[p] \in Nat
  BY <1>2, <1>4 DEF CpuInv, CpuType
(* The next interrupts, and those before p.                                *)
<1>6. /\ Cardinality(Before(p)) \in Nat /\ Cardinality(Before(p)) <= NProcs - 1
      /\ Before(p) \in SUBSET Procs
      /\ Jumps \in Nat /\ Jumps <= NProcs + MaxStorm
  BY BeforeFacts DEF CpuInv
<1>7. /\ Cardinality(Before(p)') \in Nat /\ Cardinality(Before(p)') <= NProcs - 1
      /\ \A q \in Procs \ {p} : q \notin Before(p)' => Cardinality(Before(p)') <= NProcs - 2
      /\ Before(p)' \in SUBSET Procs
  <2>1. Before(p)' \in SUBSET Procs /\ p \notin Before(p)'
    BY DEF Before
  <2>2. Cardinality(Before(p)') \in Nat /\ Cardinality(Before(p)') <= NProcs - 1
    BY <2>1, CountFacts DEF NProcs
  <2>3. ASSUME NEW q \in Procs \ {p}, q \notin Before(p)'
        PROVE  Cardinality(Before(p)') <= NProcs - 2
    <3>1. Before(p)' \subseteq (Procs \ {p}) \ {q}
      BY <2>1, <2>3
    <3>2. Cardinality(Before(p)') <= Cardinality(Procs \ {p}) - 1
      BY <2>1, <3>1, CountFacts
    <3>3. Cardinality(Procs \ {p}) <= NProcs - 1 /\ Cardinality(Procs \ {p}) \in Nat
      BY CountFacts DEF NProcs
    <3> QED
      BY <1>3, <2>2, <3>2, <3>3
  <2> QED
    BY <2>1, <2>2, <2>3
<1>8. Jumps' \in Nat /\ Jumps' <= NProcs + MaxStorm /\ (irq => Jumps' <= Jumps - 1)
  <2> DEFINE F == {x \in Procs : fresh_irq[x]}
             G == {x \in Procs : fresh_irq'[x]}
  <2>1. Cardinality(F) \in Nat /\ Cardinality(G) \in Nat /\ Cardinality(G) <= NProcs
    BY CountFacts
  <2>2. Jumps = Cardinality(F) + MaxStorm - storm /\ Jumps' = Cardinality(G) + MaxStorm - storm'
    BY DEF Jumps
  <2>3. irq => Cardinality(G) <= Cardinality(F) - 1 /\ storm' = storm
    <3>1. irq => current_process' \in F /\ G \subseteq F \ {current_process'}
      BY <1>2 DEF CpuInv, CpuType
    <3>2. F \in SUBSET Procs /\ G \in SUBSET Procs
      OBVIOUS
    <3> HIDE DEF F, G
    <3> QED
      BY <1>2, <3>1, <3>2, CountFacts
  <2>4. storm \in 0 .. MaxStorm /\ storm' \in 0 .. MaxStorm
    BY DEF CpuInv, CpuType
  <2> HIDE DEF F, G
  <2> QED
    BY <1>3, <2>1, <2>2, <2>3, <2>4
(* As long as the counter does not wrap for p.                             *)
<1>9. ASSUME p # current_process, age[p] + 1 < Width
      PROVE  /\ age'[p] = age[p] + 1
             /\ Cardinality(Before(p)') <= Cardinality(Before(p))
             /\ ~irq /\ age'[p] >= Threshold =>
                   Cardinality(Before(p)') <= Cardinality(Before(p)) - 1
  <2>1. age'[p] = age[p] + 1
    BY <1>5, <1>9, Modulo DEF Older
  <2>2. ASSUME NEW q \in Procs \ {p}, age'[q] >= age'[p]
        PROVE  q \in Before(p)
    <3>1. age'[q] = Older(q) /\ age[q] \in 0 .. Width - 1
      BY <1>2 DEF CpuInv, CpuType
    <3>2. CASE q = current_process
      BY <1>5, <2>1, <2>2, <3>1, <3>2 DEF Older, Before
    <3>3. CASE q # current_process
      <4>1. age'[q] = (age[q] + 1) % Width
        BY <1>5, <2>1, <2>2, <3>1, <3>3 DEF Older
      <4>2. age[q] + 1 < Width
        BY <1>3, <1>5, <2>1, <2>2, <3>1, <4>1, Modulo
      <4>3. age'[q] = age[q] + 1
        BY <3>1, <4>1, <4>2, Modulo
      <4> QED
        BY <1>5, <2>1, <2>2, <3>1, <3>3, <4>3 DEF Before
    <3> QED
      BY <3>2, <3>3
  <2>3. ASSUME NEW q \in Before(p)' PROVE q \in Before(p) /\ q # current_process'
    <3>1. q \in Procs \ {p} /\ status' = status
      BY <1>2 DEF Before
    <3>2. CASE status[q] = "new"
      BY <1>2, <3>1, <3>2 DEF Before
    <3>3. CASE status[q] # "new"
      <4>1. age'[q] >= age'[p] /\ (q = current_process' => age'[p] = 0)
        BY <3>1, <3>3 DEF Before
      <4> QED
        BY <1>5, <2>1, <2>2, <3>1, <4>1
    <3> QED
      BY <3>2, <3>3
  <2>4. Cardinality(Before(p)') <= Cardinality(Before(p))
    BY <1>6, <1>7, <2>3, CountFacts
  <2>5. ASSUME ~irq, age'[p] >= Threshold
        PROVE  Cardinality(Before(p)') <= Cardinality(Before(p)) - 1
    <3>1. current_process' \in Procs \ {p} /\ age'[current_process'] >= age'[p]
      BY <1>2, <1>5, <2>5
    <3>2. current_process' \in Before(p)
      BY <2>2, <3>1
    <3>3. Before(p)' \subseteq Before(p) \ {current_process'}
      BY <2>3
    <3> QED
      BY <1>6, <1>7, <3>2, <3>3, CountFacts
  <2> QED
    BY <2>1, <2>4, <2>5
<1> DEFINE w == waited[p]   v == waited'[p]   a == age[p]   b == age'[p]
           e == Cardinality(Before(p))   f == Cardinality(Before(p)')
           j == Jumps   k == Jumps'
<1>10. (/\ b + k <= Ticks(v + 1)
        /\ v + f <= Threshold + 2 * NProcs - 1
        /\ v + Threshold - b + f <= Threshold + 2 * NProcs - 1) => Young(p)'
  BY DEF Young, Ticks
<1>11. b >= Threshold /\ v + f <= NProcs - 1 => Old(p)'
  BY DEF Old
<1>12. Young(p)' \/ Old(p)'
  <2>0. /\ w \in Nat /\ v \in Nat /\ a \in Nat /\ b \in Nat /\ e \in Nat /\ f \in Nat
        /\ j \in Nat /\ k \in Nat /\ v > 0 /\ a <= Width - 1
    BY <1>3, <1>4, <1>5, <1>6, <1>7, <1>8
  <2>1. CASE w = 0
    <3>1. ~irq /\ v = 1
      BY <1>3, <1>4, <1>5, <2>1
    <3>2. CASE b < Threshold
      <4>1. Ticks(1) = Ticks(0) + Burst /\ Ticks(2) = Ticks(1) + Burst /\ Ticks(0) \in Nat
        <5>1. 0 \in Nat /\ 1 \in Nat /\ 0 + 1 = 1 /\ 1 + 1 = 2
          OBVIOUS
        <5> QED
          BY <5>1, TicksFacts
      <4>2. Ticks(0) = Threshold
        BY <1>3 DEF Ticks
      <4>3. f <= NProcs - 1 /\ k <= NProcs + MaxStorm
        BY <1>7, <1>8
      <4> HIDE DEF v, b, f, k
      <4>4. b + k <= Ticks(v + 1)
        <5>1. v + 1 = 2
          BY <3>1
        <5> QED
          BY <1>3, <2>0, <3>2, <4>1, <4>2, <4>3, <5>1
      <4>5. v + f <= Threshold + 2 * NProcs - 1 /\ v + Threshold - b + f <= Threshold + 2 * NProcs - 1
        BY <1>3, <2>0, <3>1, <4>3
      <4> QED
        BY <1>10, <4>4, <4>5
    <3>3. CASE b >= Threshold
      <4>1. current_process' \in Procs \ {p}
        BY <1>2, <1>5, <3>1, <3>3
      <4>2. status'[current_process'] = "active"
        BY <1>2, <4>1
      <4>3. current_process' \notin Before(p)'
        BY <1>3, <3>3, <4>2 DEF Before
      <4>4. f <= NProcs - 2
        BY <1>7, <4>1, <4>3
      <4> HIDE DEF v, b, f
      <4> QED
        BY <1>3, <1>11, <2>0, <3>1, <3>3, <4>4
    <3> QED
      BY <1>3, <2>0, <3>2, <3>3
  <2>2. CASE w > 0
    <3>1. p # current_process /\ (Young(p) \/ Old(p))
      BY <2>2 DEF CpuInv, WaitsInv
    <3>2. w <= Threshold + 2 * NProcs - 1
      BY <1>3, <2>0, <3>1 DEF Young, Old
    <3>3. v = IF irq THEN w ELSE w + 1
      BY <1>3, <1>5, <2>0, <3>2
    <3>4. a + 1 < Width =>
            /\ b = a + 1 /\ f <= e
            /\ ~irq /\ b >= Threshold => f <= e - 1
      BY <1>9, <3>1
    <3>5. e <= NProcs - 1 /\ f <= NProcs - 1 /\ k <= NProcs + MaxStorm /\ (irq => k <= j - 1)
      BY <1>6, <1>7, <1>8
    <3>6. /\ Ticks(w + 1) \in Nat /\ Ticks(w + 2) = Ticks(w + 1) + Burst
          /\ Ticks(w + 1) + 1 < Width
          /\ Ticks(v) \in Nat /\ Ticks(v + 1) = Ticks(v) + Burst
      <4>1. w + 1 \in Nat /\ w + 1 <= Threshold + 2 * NProcs /\ w + 1 + 1 = w + 2
        BY <1>3, <2>0, <3>2
      <4> HIDE DEF w, v
      <4> QED
        BY <2>0, <4>1, TicksFacts
    <3>7. CASE Young(p)
      <4>1. /\ a + j <= Ticks(w + 1) /\ w + e <= Threshold + 2 * NProcs - 1
            /\ w + Threshold - a + e <= Threshold + 2 * NProcs - 1
        BY <3>7 DEF Young
      <4> HIDE DEF w, v, a, b, e, f, j, k
      <4>2. a + 1 < Width
        BY <1>3, <2>0, <3>6, <4>1
      <4>3. b + k <= Ticks(v + 1)
        <5>1. CASE irq
          <6>1. v + 1 = w + 1
            BY <2>0, <3>3, <5>1
          <6> QED
            BY <2>0, <3>4, <3>5, <3>6, <4>1, <4>2, <5>1, <6>1
        <5>2. CASE ~irq
          <6>1. v + 1 = w + 2
            BY <2>0, <3>3, <5>2
          <6> QED
            BY <1>3, <2>0, <3>4, <3>5, <3>6, <4>1, <4>2, <6>1
        <5> QED
          BY <5>1, <5>2
      <4>4. /\ v + f <= Threshold + 2 * NProcs - 1
            /\ v + Threshold - b + f <= Threshold + 2 * NProcs - 1
        BY <1>3, <2>0, <3>3, <3>4, <4>1, <4>2
      <4> QED
        BY <1>10, <4>3, <4>4
    <3>8. CASE Old(p) /\ a + 1 < Width
      <4>1. a >= Threshold /\ w + e <= NProcs - 1
        BY <3>8 DEF Old
      <4> HIDE DEF w, v, a, b, e, f, j, k
      <4> QED
        BY <1>3, <1>11, <2>0, <3>3, <3>4, <3>8, <4>1
    <3>9. CASE Old(p) /\ ~(a + 1 < Width)
      <4>1. a >= Threshold /\ w + e <= NProcs - 1
        BY <3>9 DEF Old
      <4>2. b = 0
        <5>1. a + 1 = Width
          BY <1>3, <2>0, <3>9
        <5>2. b = (a + 1) % Width
          BY <1>5, <3>1 DEF Older
        <5> QED
          BY <5>1, <5>2, Modulo
      <4> HIDE DEF w, v, a, b, e, f, j, k
      <4>3. b + k <= Ticks(v + 1)
        BY <1>3, <2>0, <3>5, <3>6, <4>2
      <4>4. /\ v + f <= Threshold + 2 * NProcs - 1
            /\ v + Threshold - b + f <= Threshold + 2 * NProcs - 1
        BY <1>3, <2>0, <3>3, <3>5, <4>1, <4>2
      <4> QED
        BY <1>10, <4>3, <4>4
    <3> QED
      BY <3>1, <3>7, <3>8, <3>9
  <2> QED
    BY <2>0, <2>1, <2>2
<1> QED
  BY <1>5, <1>12
-----------------------------------------------------------------------------
(* The invariant holds at first, is kept, and bounds the waits.            *)
LEMMA CpuInitial ==
    ASSUME Machine, D!Init
    PROVE  CpuInv
<1>1. Width \in Nat /\ Width > 2 /\ MaxStorm \in Nat /\ 0 \notin Procs
  BY Modulo DEF Machine
<1>2. CpuType
  <2>1. /\ runqueue = <<>> /\ status = [p \in Procs |-> "new"] /\ age = [p \in Procs |-> 0]
        /\ fresh_irq = [p \in Procs |-> FALSE] /\ current_process = 0
        /\ schedule_lock = FALSE /\ waited = [p \in Procs |-> 0] /\ storm = 0
    BY DEF D!Init, D!Idle
  <2>2. runqueue \in Seq(Procs)
    BY <2>1, EmptySeq
  <2>3. 0 \in 0 .. Width - 1 /\ 0 \in 0 .. MaxStorm
    BY <1>1
  <2> QED
    BY <2>1, <2>2, <2>3 DEF CpuType
<1>3. QueueInv
  BY <1>1 DEF QueueInv, Queued, D!Init, D!Idle
<1>4. WaitsInv
  BY DEF WaitsInv, D!Init
<1> QED
  BY <1>2, <1>3, <1>4 DEF CpuInv

(* Every step is with or without a choice.                                 *)
LEMMA CpuStep ==
    ASSUME Machine, CpuInv, [D!Next]_(D!vars)
    PROVE  CpuInv'
<1>1. CASE Ticking
  BY <1>1, TickQueue, TickWaits DEF CpuInv
<1>2. CASE Still
  BY <1>2, StillQueue, StillWaits DEF CpuInv
<1>3. CASE UNCHANGED D!vars
  <2>1. UNCHANGED <<runqueue, status, age, fresh_irq, current_process, schedule_lock, waited, storm>>
    BY <1>3 DEF D!vars
  <2>2. CpuType'
    BY <2>1 DEF CpuInv, CpuType
  <2>3. QueueInv'
    BY <2>1 DEF CpuInv, QueueInv, Queued
  <2>4. WaitsInv'
    BY <2>1 DEF CpuInv, WaitsInv, Young, Old, Before, Jumps
  <2> QED
    BY <2>2, <2>3, <2>4 DEF CpuInv
<1> QED
  BY <1>1, <1>2, <1>3, NextSplit

(* Old or young, nobody has waited longer than Bound.                      *)
LEMMA WaitsAreBounded ==
    ASSUME Machine, CpuInv
    PROVE  D!Correct
<1>1. D!Bound = Threshold + 2 * NProcs /\ NProcs \in Nat /\ Threshold \in Nat
  <2>1. D!Bound = Threshold + 2 * Cardinality(Procs)
    BY Zenon DEF D!Bound, D!Cardinality, Cardinality, D!IsFiniteSet, IsFiniteSet
  <2> QED
    BY <2>1, CountFacts DEF Machine, NProcs
<1>2. ASSUME NEW p \in Procs PROVE waited[p] <= D!Bound
  <2>1. waited[p] \in Nat
    BY DEF CpuInv, CpuType
  <2>2. waited[p] > 0 => Young(p) \/ Old(p)
    BY DEF CpuInv, WaitsInv
  <2>3. Cardinality(Before(p)) \in Nat
    BY BeforeFacts DEF CpuInv
  <2> QED
    BY <1>1, <2>1, <2>2, <2>3 DEF Young, Old
<1> QED
  BY <1>2 DEF D!Correct

(* For any number of processes and any Threshold, a process that is ready  *)
(* is passed over at most Threshold times and twice for each process,      *)
(* whoever yields to whom and wherever the unsigned counter is when it     *)
(* wraps, if a round of choices is short against the width of the counter  *)
(* (schedule in scheduler.c).                                              *)
THEOREM WaitingIsBounded ==
    ASSUME Machine
    PROVE  D!Spec => []D!Correct
<1>1. D!Init => CpuInv
  BY CpuInitial
<1>2. CpuInv /\ [D!Next]_(D!vars) => CpuInv'
  BY CpuStep
<1>3. CpuInv => D!Correct
  BY WaitsAreBounded
<1> QED
  BY <1>1, <1>2, <1>3, PTL DEF D!Spec
=========================================================================
