----------------------------- MODULE Irq_proofs -----------------------------
(***************************************************************************)
(* Proofs about Irq for every finite set of drivers, every assignment of   *)
(* their lines, any lines on either PIC and every set of processes that    *)
(* may exit.  The accounting and the registration of handlers hold without *)
(* condition (IInv, Listed).  That the lines are opened when they should   *)
(* be rests on the shadow byte, the mask of the PIC and the register of    *)
(* enable_irq agreeing on the PIC of the line that is being opened         *)
(* (PicInv), which an interrupt of another line of that PIC between the    *)
(* load and the out ends (run irq_onepic).                                 *)
(***************************************************************************)
EXTENDS Irq, TLAPS, FiniteSetTheorems

(* Where another process can be found while one is in the kernel, and the  *)
(* labels of enable_irq.                                                   *)
Preempted == UserLabels \cup {"sleep", "yield"}
ReaperSettles == EnableLabels \cup {"s_dec", "s_count"}

OneRuns == \A a \in Actors \ {cur} : pc[a] \in Preempted

(* The flags of a process follow from where it is.                         *)
StageInv ==
    \A p \in Procs :
        /\ pc[p] \in ProcLabels
        /\ pc[p] # "sleep" => status[p] = "ACTIVE"
        /\ pc[p] \in {"setup", "e_zombie"} => ~handled_irq[p]
        /\ pc[p] \notin {"setup", "e_zombie", "sleep"} => handled_irq[p]
        /\ pc[p] \in {"setup", "main", "d_list", "d_status", "x_count", "x_status"}
              => ~handling_irq[p]
        /\ pc[p] \in {"handler", "x_flag", "s_dec"} \cup EnableLabels => handling_irq[p]
        /\ pc[p] = "sleep" =>
              /\ handled_irq[p] <=> status[p] # "ZOMBIE"
              /\ status[p] = "DAEMON" => ~handling_irq[p]
              /\ status[p] = "ACTIVE" => handling_irq[p]

(* A handler that has run is counted until the reaper has settled it; only *)
(* at the end of that can its process be in the next run of its handler.   *)
SettleInv ==
    \A p \in Procs :
        /\ pc[p] = "x_status" => settle_count[p] = 1
        /\ settle_count[p] = 1 =>
              \/ pc[p] = "x_status"
              \/ pc[p] = "sleep" /\ status[p] = "DAEMON"
              \/ /\ pc[p] = "handler" /\ Head(rp) = p
                 /\ pc[Reaper] \in EnableLabels \cup {"s_count"}

ReaperInv ==
    pc[Reaper] \in ReaperSettles =>
        /\ rp # <<>> /\ settle_count[Head(rp)] = 1 /\ handled_irq[Head(rp)]
        /\ pc[Reaper] = "s_dec" => status[Head(rp)] = "DAEMON"

(* Until a line fires into an enable_irq of its PIC: who opens a line has  *)
(* in reg what else is masked there, and the static byte is what the PIC   *)
(* has, but for the line that is just being opened.                        *)
Agreement ==
    /\ \A i \in Irqs : unsettled_procs[i] > 0 => i \in mask
    /\ pc[cur] \in EnableLabels => unsettled_procs[Line] = 0 /\ Line \in mask
    /\ \A i \in mask : unsettled_procs[i] > 0 \/ (pc[cur] \in EnableLabels /\ Line = i)
    /\ disabled_status = IF pc[cur] = "s_out" THEN mask \ {Line} ELSE mask
    /\ pc[cur] \in {"s_store", "s_out"} =>
          \A j \in Irqs : Pic[j] = Pic[Line] => (j \in reg <=> j \in mask /\ j # Line)

PicInv == raced \/ Agreement

Debtors(i) == {p \in Procs : Irq[p] = i /\ Owes(p)}

IInv == TypeOK /\ OneRuns /\ StageInv /\ SettleInv /\ ReaperInv /\ Accounting

Awake == \A p \in Procs :
    /\ p \notin overtaken /\ pc[p] = "sleep" => status[p] # "ACTIVE"
    /\ p \in overtaken => pc[p] = "sleep" /\ status[p] = "ACTIVE"
Listed == \A p \in Procs :
    \/ pc[p] \in {"setup", "main", "d_list", "e_unreg", "e_zombie"}
    \/ \E n \in DOMAIN daemons : daemons[n] = p
    \/ \E q \in Procs : status[q] = "ZOMBIE"

-----------------------------------------------------------------------------
JumpFacts(a, from, to) ==
    /\ cur = a /\ cur' = a
    /\ pc[a] = from /\ pc'[a] = to
    /\ \A b \in Actors \ {a} : pc'[b] = pc[b] /\ pc[b] \in Preempted
    /\ pc' \in [Actors -> ProcLabels \cup ReaperLabels]
    /\ raced' = raced /\ overtaken' = overtaken

(* A jump of a goes to one of its labels and moves nobody else.            *)
LEMMA JumpLabels ==
    ASSUME IInv, NEW a \in Actors, NEW from, NEW to \in ProcLabels \cup ReaperLabels,
           Jump(a, from, to)
    PROVE  JumpFacts(a, from, to)
BY DEF IInv, TypeOK, OneRuns, Jump, JumpFacts, past

(* A jump leaves everybody else where another may be.                      *)
LEMMA JumpOneRuns ==
    ASSUME NEW a \in Actors, NEW from, NEW to, JumpFacts(a, from, to)
    PROVE  OneRuns'
BY DEF OneRuns, JumpFacts

(* The three ways the debts of the lines and unsettled_procs change.       *)
LEMMA SameDebts ==
    ASSUME IInv, unsettled_procs' = unsettled_procs,
           \A p \in Procs : Owes(p)' <=> Owes(p)
    PROVE  Accounting'
BY DEF IInv, Accounting

(* One process pays its debt and the count of its line drops by one.       *)
LEMMA DebtPaid ==
    ASSUME IInv, NEW p \in Procs, Owes(p), ~Owes(p)',
           \A q \in Procs \ {p} : Owes(q)' <=> Owes(q),
           unsettled_procs' = [unsettled_procs EXCEPT ![Irq[p]] = @ - 1]
    PROVE  /\ Accounting'
           /\ unsettled_procs' \in [Irqs -> 0 .. Cardinality(Procs)]
<1> DEFINE i == Irq[p]
<1>1. /\ i \in Irqs /\ IsFiniteSet(Procs)
      /\ unsettled_procs \in [Irqs -> 0 .. Cardinality(Procs)]
      /\ Cardinality(Procs) \in Nat
      /\ \A j \in Irqs : unsettled_procs[j] = Cardinality(Debtors(j))
  BY IrqAssumption, FS_CardinalityType DEF IInv, TypeOK, Accounting, Debtors
<1>2. Debtors(i)' = Debtors(i) \ {p} /\ p \in Debtors(i)
  BY DEF Debtors
<1>3. \A j \in Irqs \ {i} : Debtors(j)' = Debtors(j)
  BY DEF Debtors
<1>4. IsFiniteSet(Debtors(i))
  BY <1>1, FS_Subset DEF Debtors
<1>5. /\ Cardinality(Debtors(i)') = Cardinality(Debtors(i)) - 1
      /\ Cardinality(Debtors(i)') \in Nat
  BY <1>2, <1>4, FS_RemoveElement, FS_CardinalityType
<1>6. unsettled_procs[i] > 0
  BY <1>1, <1>5
<1>7. unsettled_procs' \in [Irqs -> 0 .. Cardinality(Procs)]
  BY <1>1, <1>6
<1>8. \A j \in Irqs : unsettled_procs'[j] = Cardinality(Debtors(j)')
  BY <1>1, <1>3, <1>5
<1> QED
  BY <1>7, <1>8 DEF Accounting, Debtors

(* A line somebody owes has a positive count.                              *)
LEMMA DebtMeansCount ==
    ASSUME IInv, NEW p \in Procs, Owes(p)
    PROVE  unsettled_procs[Irq[p]] > 0
<1>1. /\ Irq[p] \in Irqs /\ p \in Debtors(Irq[p]) /\ IsFiniteSet(Debtors(Irq[p]))
      /\ unsettled_procs[Irq[p]] = Cardinality(Debtors(Irq[p]))
  BY IrqAssumption, FS_Subset DEF IInv, Accounting, Debtors
<1> QED
  BY <1>1, FS_EmptySet, FS_CardinalityType

-----------------------------------------------------------------------------
(* Nobody has registered, slept or been woken at first.                    *)
LEMMA InitIInv == Init => IInv
<1> SUFFICES ASSUME Init PROVE IInv
  OBVIOUS
<1>1. \A i \in Irqs : {p \in Procs : Irq[p] = i /\ Owes(p)} = {}
  BY DEF Init, Owes
<1>2. Accounting
  BY <1>1, FS_EmptySet DEF Accounting, Init
<1>3. Cardinality(Procs) \in Nat
  BY IrqAssumption, FS_CardinalityType
<1>4. TypeOK
  <2>1. raced \in BOOLEAN /\ overtaken \subseteq Procs
    BY Zenon DEF Init
  <2> QED
    BY <1>3, <2>1, IrqAssumption
    DEF Init, TypeOK, Actors, ProcLabels, ReaperLabels, UserLabels, EnableLabels
<1> QED
  BY <1>2, <1>4, IrqAssumption
  DEF Init, IInv, OneRuns, StageInv, SettleInv, ReaperInv, Actors, Preempted,
      UserLabels, ProcLabels, EnableLabels, ReaperSettles

(* An interrupt: the line had no debts, now all its sleepers have one.     *)
LEMMA InterruptIInv ==
    ASSUME IInv, NEW i \in Irqs, Interrupt(i)
    PROVE  IInv'
<1> DEFINE woken == Sleepers(i)
<1> USE IrqAssumption
<1>1. /\ \A p \in woken : p \in Procs /\ Irq[p] = i /\ handled_irq[p] /\ status[p] = "DAEMON"
      /\ \A p \in Procs \ woken : status'[p] = status[p] /\ handling_irq'[p] = handling_irq[p]
      /\ \A p \in woken : status'[p] = "ACTIVE" /\ handling_irq'[p]
      /\ \A p \in woken : pc[p] = "sleep"
      /\ \A a \in Actors : pc'[a] = IF a \in woken \ {cur} THEN "handler" ELSE pc[a]
      /\ Reaper \notin woken
      /\ UNCHANGED <<cur, handled_irq, settle_count, daemons, reg, rp>>
  BY DEF Interrupt, Sleepers, IInv, TypeOK, StageInv, Entry, Actors
<1>2. unsettled_procs[i] = 0 /\ Debtors(i) = {}
  <2>1. unsettled_procs[i] = 0 /\ unsettled_procs[i] = Cardinality(Debtors(i))
    BY DEF Interrupt, IInv, Accounting, Debtors
  <2>2. IsFiniteSet(Debtors(i))
    BY FS_Subset DEF Debtors
  <2> QED
    BY <2>1, <2>2, FS_EmptySet
<1>3. Debtors(i)' = woken
  <2>1. \A p \in woken : Owes(p)'
    BY <1>1 DEF Owes, UserLabels, EnableLabels, Actors
  <2>2. \A p \in Procs \ woken : Owes(p)' <=> Owes(p)
    BY <1>1 DEF Owes, Actors
  <2> QED
    BY <1>1, <1>2, <2>1, <2>2 DEF Debtors
<1>4. \A j \in Irqs \ {i} : Debtors(j)' = Debtors(j)
  BY <1>1 DEF Debtors, Owes, Actors
<1>5. /\ IsFiniteSet(woken) /\ woken \subseteq Procs
      /\ Cardinality(woken) \in 0 .. Cardinality(Procs)
  <2>1. woken \subseteq Procs
    BY DEF Sleepers
  <2> QED
    BY <2>1, FS_Subset, FS_CardinalityType
<1>6. unsettled_procs' = [unsettled_procs EXCEPT ![i] = Cardinality(woken)]
  BY DEF Interrupt
<1>7. Accounting'
  <2>1. \A j \in Irqs : unsettled_procs'[j] = Cardinality(Debtors(j)')
    BY <1>3, <1>4, <1>6 DEF IInv, TypeOK, Accounting, Debtors
  <2> QED
    BY <2>1 DEF Accounting, Debtors
<1>8. TypeOK'
  BY <1>5, <1>6 DEF IInv, TypeOK, Interrupt, OutMask, Entry, ProcLabels, UserLabels, Actors
<1>9. OneRuns' /\ StageInv'
  BY <1>1 DEF IInv, OneRuns, StageInv, Preempted, UserLabels, ProcLabels, Actors, EnableLabels
<1>10. ReaperInv' /\ SettleInv'
  <2>1. pc'[Reaper] = pc[Reaper] /\ Reaper \in Actors
    BY <1>1 DEF Actors
  <2>2. pc[Reaper] = "s_dec" => Head(rp) \notin woken
    <3> SUFFICES ASSUME pc[Reaper] = "s_dec", Head(rp) \in woken PROVE FALSE
      OBVIOUS
    <3>1. Owes(Head(rp))
      BY <1>1 DEF IInv, ReaperInv, ReaperSettles, Owes, EnableLabels
    <3> QED
      BY <3>1, <1>1, <1>2 DEF Debtors
  <2>3. \A p \in woken : settle_count[p] = 1 =>
           pc[Reaper] \in EnableLabels \cup {"s_count"} /\ Head(rp) = p
    <3> SUFFICES ASSUME NEW p \in woken, settle_count[p] = 1,
                        ~(pc[Reaper] \in EnableLabels \cup {"s_count"} /\ Head(rp) = p)
                 PROVE  FALSE
      OBVIOUS
    <3>1. Owes(p)
      BY <1>1 DEF Owes
    <3> QED
      BY <3>1, <1>1, <1>2 DEF Debtors
  <2>4. pc[Reaper] \in EnableLabels \cup {"s_count"} => cur = Reaper
    BY DEF IInv, OneRuns, Preempted, UserLabels, EnableLabels, Actors
  <2>5. rp # <<>> => Head(rp) \in Procs
    BY DEF IInv, TypeOK
  <2>6. ReaperInv'
    BY <1>1, <2>1, <2>2, <2>5 DEF IInv, ReaperInv, ReaperSettles, EnableLabels
  <2>7. SettleInv'
    BY <1>1, <2>1, <2>3, <2>4 DEF IInv, SettleInv, Actors
  <2> QED
    BY <2>6, <2>7
<1> QED
  BY <1>7, <1>8, <1>9, <1>10 DEF IInv

(* dispatch only chooses who runs.                                         *)
LEMMA DispatchIInv ==
    ASSUME IInv, NEW a \in Actors, Dispatch(a)
    PROVE  IInv'
<1>1. Accounting'
  BY SameDebts DEF Dispatch, Owes, picVars
<1>2. TypeOK'
  BY DEF IInv, TypeOK, Dispatch, Fresh, picVars, past
<1>3. OneRuns'
  BY DEF IInv, OneRuns, Dispatch, Preempted, TypeOK
<1> QED
  BY <1>1, <1>2, <1>3 DEF IInv, StageInv, SettleInv, ReaperInv, Dispatch

-----------------------------------------------------------------------------
(* While a process is in the kernel the reaper is between two passes, and  *)
(* the process has settled all but what it is just about to count.         *)
LEMMA ProcessAlone ==
    ASSUME IInv, NEW p \in Procs, NEW from \in ProcLabels, NEW to \in ProcLabels,
           Jump(p, from, to)
    PROVE  /\ JumpFacts(p, from, to) /\ OneRuns'
           /\ pc[Reaper] = "yield" /\ pc'[Reaper] = "yield" /\ ReaperInv'
           /\ \A q \in Procs : settle_count[q] \in {0, 1}
           /\ from # "sleep" =>
                 /\ status[p] = "ACTIVE"
                 /\ settle_count[p] = IF from = "x_status" THEN 1 ELSE 0
<1>1. p \in Actors /\ Reaper \in Actors /\ p # Reaper /\ to \in ProcLabels \cup ReaperLabels
  BY IrqAssumption DEF Actors
<1>2. JumpFacts(p, from, to)
  BY <1>1, JumpLabels
<1>3. pc[Reaper] = "yield" /\ pc'[Reaper] = "yield"
  BY <1>1, <1>2
  DEF JumpFacts, IInv, TypeOK, Preempted, ReaperLabels, UserLabels, EnableLabels
<1>4. ReaperInv'
  BY <1>3 DEF ReaperInv, ReaperSettles, EnableLabels
<1>5. /\ settle_count[p] = 1 => from \in {"x_status", "sleep"}
      /\ from = "x_status" => settle_count[p] = 1
      /\ settle_count[p] \in {0, 1}
      /\ from # "sleep" => status[p] = "ACTIVE"
  BY <1>2, <1>3 DEF IInv, TypeOK, SettleInv, StageInv, JumpFacts, EnableLabels
<1> QED
  BY <1>1, <1>2, <1>3, <1>4, <1>5, JumpOneRuns DEF IInv, TypeOK

(* A step of a process that leaves its debt as it is.                      *)
LEMMA ProcessKeepsDebt ==
    ASSUME IInv, NEW p \in Procs, NEW from \in ProcLabels, NEW to \in ProcLabels,
           Jump(p, from, to), UNCHANGED <<unsettled_procs, rp>>,
           \A q \in Procs \ {p} :
              /\ handled_irq'[q] = handled_irq[q] /\ handling_irq'[q] = handling_irq[q]
              /\ settle_count'[q] = settle_count[q] /\ status'[q] = status[q],
           Owes(p)' <=> Owes(p)
    PROVE  /\ Accounting'
           /\ \A q \in Procs \ {p} : pc'[q] = pc[q]
<1>1. JumpFacts(p, from, to) /\ pc[Reaper] = "yield" /\ pc'[Reaper] = "yield"
  BY ProcessAlone
<1>2. \A q \in Procs \ {p} : pc'[q] = pc[q]
  BY <1>1 DEF JumpFacts, Actors
<1>3. \A q \in Procs \ {p} : Owes(q)' <=> Owes(q)
  BY <1>1, <1>2 DEF Owes, EnableLabels
<1> QED
  BY <1>2, <1>3, SameDebts

(* register_user_isr: the handler is entered and the process goes on.      *)
LEMMA RegisterIInv ==
    ASSUME IInv, NEW p \in Procs, register_user_isr(p)
    PROVE  IInv'
<1>1. Jump(p, "setup", "main") /\ "setup" \in ProcLabels /\ "main" \in ProcLabels
  BY DEF register_user_isr, ProcLabels, UserLabels
<1>2. /\ JumpFacts(p, "setup", "main") /\ OneRuns' /\ ReaperInv'
      /\ pc[Reaper] = "yield" /\ pc'[Reaper] = "yield" /\ settle_count[p] = 0
  BY <1>1, ProcessAlone
<1>3. ~Owes(p) /\ ~Owes(p)'
  BY <1>2 DEF Owes, register_user_isr, IInv, StageInv, TypeOK, JumpFacts
<1>4. Accounting' /\ \A q \in Procs \ {p} : pc'[q] = pc[q]
  BY <1>1, <1>3, ProcessKeepsDebt DEF register_user_isr, IInv, TypeOK, picVars
<1>5. TypeOK'
  BY <1>2, IrqAssumption DEF register_user_isr, IInv, TypeOK, picVars, JumpFacts, Actors
<1>6. StageInv' /\ SettleInv'
  BY <1>2, <1>4
  DEF register_user_isr, IInv, TypeOK, StageInv, SettleInv, JumpFacts, ProcLabels,
      UserLabels, EnableLabels
<1> QED
  BY <1>2, <1>4, <1>5, <1>6 DEF IInv

(* daemonize of a process in main: it sleeps as a daemon.                  *)
LEMMA DaemonizeIInv ==
    ASSUME IInv, NEW p \in Procs, daemonize_process(p)
    PROVE  IInv'
<1>1. PICK from \in {"main", "d_list", "d_status"}, to \in {"d_list", "d_status", "sleep"} :
         /\ Jump(p, from, to)
         /\ from # "d_status" => status' = status /\ to # "sleep"
         /\ from = "d_status" => status' = [status EXCEPT ![p] = "DAEMON"] /\ to = "sleep"
         /\ daemons' \in {daemons, q_register_process(p)}
         /\ UNCHANGED <<handled_irq, handling_irq, fresh_irq, settle_count, picVars, rp>>
  BY DEF daemonize_process, procVars
<1>2. from \in ProcLabels /\ to \in ProcLabels
  BY DEF ProcLabels, UserLabels
<1>3. /\ JumpFacts(p, from, to) /\ OneRuns' /\ ReaperInv'
      /\ pc[Reaper] = "yield" /\ pc'[Reaper] = "yield" /\ settle_count[p] = 0
  BY <1>1, <1>2, ProcessAlone
<1>4. ~Owes(p) /\ ~Owes(p)'
  BY <1>1, <1>3 DEF Owes, IInv, StageInv, TypeOK, JumpFacts
<1>5. Accounting' /\ \A q \in Procs \ {p} : pc'[q] = pc[q]
  BY <1>1, <1>2, <1>4, ProcessKeepsDebt DEF IInv, TypeOK, picVars
<1>6. TypeOK'
  <2>1. daemons \in Seq(Procs) /\ <<p>> \o daemons \in Seq(Procs)
    BY DEF IInv, TypeOK
  <2>2. daemons' \in Seq(Procs)
    BY <1>1, <2>1 DEF q_register_process
  <2> QED
    BY <1>1, <1>3, <2>2, IrqAssumption DEF IInv, TypeOK, picVars, JumpFacts, Actors
<1>7. StageInv'
  BY <1>1, <1>2, <1>3, <1>5
  DEF IInv, TypeOK, StageInv, JumpFacts, ProcLabels, UserLabels, EnableLabels
<1>8. SettleInv'
  BY <1>1, <1>3, <1>5 DEF IInv, TypeOK, SettleInv, JumpFacts, EnableLabels
<1> QED
  BY <1>3, <1>5, <1>6, <1>7, <1>8 DEF IInv

(* daemonize called in the handler: the debt stands until it is settled.   *)
LEMMA DaemonizeFromHandlerIInv ==
    ASSUME IInv, NEW p \in Procs, daemonize_from_irq_handler(p)
    PROVE  IInv'
<1>1. PICK from \in {"handler", "x_flag", "x_count", "x_status"},
           to \in {"x_flag", "x_count", "x_status", "sleep"} :
         /\ Jump(p, from, to)
         /\ to = CASE from = "handler" -> "x_flag" [] from = "x_flag" -> "x_count"
                   [] from = "x_count" -> "x_status" [] OTHER -> "sleep"
         /\ handling_irq' = IF from = "x_flag" THEN [handling_irq EXCEPT ![p] = FALSE]
                            ELSE handling_irq
         /\ settle_count' = IF from = "x_count" THEN [settle_count EXCEPT ![p] = @ + 1]
                            ELSE settle_count
         /\ status' = IF from = "x_status" THEN [status EXCEPT ![p] = "DAEMON"] ELSE status
         /\ UNCHANGED <<handled_irq, fresh_irq, daemons, picVars, rp>>
  BY DEF daemonize_from_irq_handler, procVars, NotHandling
<1>2. from \in ProcLabels /\ to \in ProcLabels
  BY DEF ProcLabels, UserLabels
<1>3. /\ JumpFacts(p, from, to) /\ OneRuns' /\ ReaperInv'
      /\ pc[Reaper] = "yield" /\ pc'[Reaper] = "yield"
      /\ settle_count[p] = IF from = "x_status" THEN 1 ELSE 0
  BY <1>1, <1>2, ProcessAlone
<1>4. Owes(p) /\ Owes(p)'
  BY <1>1, <1>3 DEF Owes, IInv, StageInv, TypeOK, JumpFacts, EnableLabels
<1>5. Accounting' /\ \A q \in Procs \ {p} : pc'[q] = pc[q]
  BY <1>1, <1>2, <1>4, ProcessKeepsDebt DEF IInv, TypeOK, picVars
<1>6. TypeOK'
  BY <1>1, <1>3, IrqAssumption DEF IInv, TypeOK, picVars, JumpFacts, Actors
<1>7. StageInv'
  BY <1>1, <1>2, <1>3, <1>5
  DEF IInv, TypeOK, StageInv, JumpFacts, ProcLabels, UserLabels, EnableLabels
<1>8. SettleInv'
  BY <1>1, <1>3, <1>5 DEF IInv, TypeOK, SettleInv, JumpFacts, EnableLabels
<1> QED
  BY <1>3, <1>5, <1>6, <1>7, <1>8 DEF IInv

-----------------------------------------------------------------------------
(* irq_settled and what it leaves alone, whoever calls it.                 *)
LEMMA SettledByProcess ==
    ASSUME IInv, NEW p \in Procs, irq_settled(p, Irq[p], "e_unreg")
    PROVE  IInv'
<1> USE IrqAssumption
<1>1. PICK from \in {"s_dec", "s_load", "s_store", "s_out"},
           to \in {"s_load", "s_store", "s_out", "e_unreg"} :
         /\ Jump(p, from, to)
         /\ unsettled_procs' = IF from = "s_dec"
                               THEN [unsettled_procs EXCEPT ![Irq[p]] = @ - 1]
                               ELSE unsettled_procs
         /\ disabled_status' \in SUBSET Irqs /\ mask' \in SUBSET Irqs /\ reg' \in SUBSET Irqs
         /\ UNCHANGED <<procVars, daemons, rp>>
  BY DEF irq_settled, Decrement, Load, Store, Out, OutMask, IInv, TypeOK
<1>2. from \in ProcLabels /\ to \in ProcLabels
  BY DEF ProcLabels, EnableLabels
<1>3. /\ JumpFacts(p, from, to) /\ OneRuns' /\ ReaperInv'
      /\ pc[Reaper] = "yield" /\ pc'[Reaper] = "yield" /\ settle_count[p] = 0
  BY <1>1, <1>2, ProcessAlone
<1>4. \A q \in Procs \ {p} : pc'[q] = pc[q]
  BY <1>3 DEF JumpFacts, Actors
<1>5. ~Owes(p)' /\ \A q \in Procs \ {p} : Owes(q)' <=> Owes(q)
  BY <1>1, <1>3, <1>4 DEF Owes, EnableLabels, procVars, JumpFacts
<1>6. Accounting' /\ unsettled_procs' \in [Irqs -> 0 .. Cardinality(Procs)]
  <2>1. CASE from = "s_dec"
    <3>1. Owes(p)
      BY <2>1, <1>3 DEF Owes, IInv, StageInv, JumpFacts, EnableLabels
    <3> QED
      BY <2>1, <3>1, <1>1, <1>5, DebtPaid
  <2>2. CASE from # "s_dec"
    <3>1. ~Owes(p)
      BY <2>2, <1>1, <1>3 DEF Owes, JumpFacts, EnableLabels
    <3> QED
      BY <2>2, <3>1, <1>1, <1>5, SameDebts DEF IInv, TypeOK
  <2> QED
    BY <2>1, <2>2
<1>7. TypeOK'
  BY <1>1, <1>3, <1>6 DEF IInv, TypeOK, procVars, JumpFacts, Actors
<1>8. StageInv'
  BY <1>1, <1>3, <1>4
  DEF IInv, StageInv, procVars, JumpFacts, ProcLabels, UserLabels, EnableLabels
<1>9. SettleInv'
  BY <1>1, <1>3, <1>4 DEF IInv, SettleInv, procVars, JumpFacts, EnableLabels
<1> QED
  BY <1>3, <1>6, <1>7, <1>8, <1>9 DEF IInv

(* The exit of a process: it settles what it owes before it is a zombie.   *)
LEMMA DestroyIInv ==
    ASSUME IInv, NEW p \in Procs, destroy_process(p)
    PROVE  IInv'
<1> USE IrqAssumption
<1>1. CASE irq_settled(p, Irq[p], "e_unreg")
  BY <1>1, SettledByProcess
<1>2. CASE ~irq_settled(p, Irq[p], "e_unreg")
  <2>1. PICK from \in {"handler", "main", "e_unreg", "e_zombie"},
             to \in {"s_dec", "e_unreg", "e_zombie", "sleep"} :
           /\ Jump(p, from, to)
           /\ from = "handler" => to = IF MustSettle(p) THEN "s_dec" ELSE "e_unreg"
           /\ from = "main" => to = "e_unreg"
           /\ from = "e_unreg" => to = "e_zombie"
           /\ from = "e_zombie" => to = "sleep"
           /\ handled_irq' = IF from = "e_unreg" THEN [handled_irq EXCEPT ![p] = FALSE]
                             ELSE handled_irq
           /\ status' = IF from = "e_zombie" THEN [status EXCEPT ![p] = "ZOMBIE"] ELSE status
           /\ daemons' \in {daemons, SubSeq(daemons, 1, Cardinality(Before(p)))}
           /\ UNCHANGED <<handling_irq, fresh_irq, settle_count, picVars, rp>>
    BY <1>2 DEF destroy_process, procVars
  <2>2. from \in ProcLabels /\ to \in ProcLabels
    BY DEF ProcLabels, UserLabels
  <2>3. /\ JumpFacts(p, from, to) /\ OneRuns' /\ ReaperInv'
        /\ pc[Reaper] = "yield" /\ pc'[Reaper] = "yield" /\ settle_count[p] = 0
        /\ status[p] = "ACTIVE"
    BY <2>1, <2>2, ProcessAlone
  <2>4. from = "handler" => to = "s_dec"
    BY <2>1, <2>3 DEF MustSettle, IInv, StageInv, JumpFacts
  <2>5. Owes(p)' <=> Owes(p)
    BY <2>1, <2>3, <2>4 DEF Owes, IInv, StageInv, TypeOK, JumpFacts, EnableLabels
  <2>6. Accounting' /\ \A q \in Procs \ {p} : pc'[q] = pc[q]
    BY <2>1, <2>2, <2>5, ProcessKeepsDebt DEF IInv, TypeOK, picVars
  <2>7. TypeOK'
    <3>1. Before(p) \subseteq 1 .. Len(daemons) /\ Len(daemons) \in Nat
      BY DEF Before, IInv, TypeOK
    <3>2. Cardinality(Before(p)) \in 0 .. Len(daemons)
      <4> DEFINE n == Len(daemons)
      <4>1. IsFiniteSet(1 .. n) /\ Cardinality(1 .. n) = n
        <5>1. n \in Nat /\ 1 \in Int /\ n \in Int /\ (1 > n => n = 0) /\ n - 1 + 1 = n
          BY <3>1
        <5> HIDE DEF n
        <5>2. IsFiniteSet(1 .. n) /\ Cardinality(1 .. n) = IF 1 > n THEN 0 ELSE n - 1 + 1
          BY <5>1, FS_Interval
        <5> QED
          BY <5>1, <5>2
      <4> QED
        BY <3>1, <4>1, FS_Subset, FS_CardinalityType
    <3>3. SubSeq(daemons, 1, Cardinality(Before(p))) \in Seq(Procs)
      BY <3>2 DEF IInv, TypeOK
    <3>4. daemons' \in Seq(Procs)
      BY <2>1, <3>3 DEF IInv, TypeOK
    <3> QED
      BY <2>1, <2>3, <3>4 DEF IInv, TypeOK, picVars, JumpFacts, Actors
  <2>8. StageInv'
    BY <2>1, <2>2, <2>3, <2>4, <2>6
    DEF IInv, TypeOK, StageInv, JumpFacts, ProcLabels, UserLabels, EnableLabels
  <2>9. SettleInv'
    BY <2>1, <2>3, <2>6 DEF IInv, TypeOK, SettleInv, JumpFacts, EnableLabels
  <2> QED
    BY <2>3, <2>6, <2>7, <2>8, <2>9 DEF IInv
<1> QED
  BY <1>1, <1>2

-----------------------------------------------------------------------------
(* The reaper's labels and the processes it may interrupt.                 *)
LEMMA ReaperAlone ==
    ASSUME IInv, NEW from \in ReaperLabels, NEW to \in ReaperLabels, Jump(Reaper, from, to)
    PROVE  /\ JumpFacts(Reaper, from, to) /\ OneRuns'
           /\ \A p \in Procs : pc'[p] = pc[p] /\ pc[p] \in Preempted
<1>1. Reaper \in Actors /\ \A p \in Procs : p # Reaper /\ p \in Actors
  BY IrqAssumption DEF Actors
<1>2. JumpFacts(Reaper, from, to)
  BY <1>1, JumpLabels
<1> QED
  BY <1>1, <1>2, JumpOneRuns DEF JumpFacts

(* The reaper, settling and reaping the daemons one after the other.       *)
LEMMA ReaperIInv ==
    ASSUME IInv, reaper
    PROVE  IInv'
<1> USE IrqAssumption
<1> Reaper \in Actors
  BY DEF Actors
<1>1. CASE StartPass \/ Visit
  <2>1. PICK from \in {"yield", "scan"}, to \in {"scan", "yield", "s_dec"} :
           /\ Jump(Reaper, from, to)
           /\ to = "s_dec" => rp # <<>> /\ NeedsSettling(Head(rp)) /\ rp' = rp
           /\ rp' \in Seq(Procs)
           /\ UNCHANGED <<procVars, daemons, picVars>>
    <3>1. CASE StartPass
      BY <3>1 DEF StartPass, IInv, TypeOK
    <3>2. CASE Visit /\ rp = <<>>
      BY <3>2 DEF Visit, IInv, TypeOK
    <3>3. CASE Visit /\ rp # <<>> /\ NeedsSettling(Head(rp))
      BY <3>3 DEF Visit, IInv, TypeOK
    <3>4. CASE Visit /\ rp # <<>> /\ ~NeedsSettling(Head(rp))
      <4>1. Tail(rp) \in Seq(Procs)
        BY <3>4 DEF IInv, TypeOK
      <4> QED
        BY <3>4, <4>1 DEF Visit
    <3> QED
      BY <1>1, <3>1, <3>2, <3>3, <3>4
  <2>2. /\ JumpFacts(Reaper, from, to) /\ OneRuns'
        /\ \A p \in Procs : pc'[p] = pc[p] /\ pc[p] \in Preempted
    BY <2>1, ReaperAlone DEF ReaperLabels, EnableLabels
  <2>3. \A p \in Procs : Owes(p)' <=> Owes(p)
    BY <2>1, <2>2 DEF Owes, procVars, JumpFacts, EnableLabels
  <2>4. Accounting'
    BY <2>1, <2>3, SameDebts DEF picVars
  <2>5. TypeOK'
    BY <2>1, <2>2 DEF IInv, TypeOK, procVars, picVars, JumpFacts, ReaperLabels, EnableLabels
  <2>6. StageInv' /\ SettleInv'
    BY <2>1, <2>2 DEF IInv, StageInv, SettleInv, procVars, JumpFacts, EnableLabels
  <2>7. ReaperInv'
    <3> SUFFICES ASSUME to = "s_dec"
                 PROVE  /\ rp # <<>> /\ settle_count[Head(rp)] = 1 /\ handled_irq[Head(rp)]
                        /\ status[Head(rp)] = "DAEMON"
      BY <2>1, <2>2 DEF ReaperInv, ReaperSettles, procVars, JumpFacts, EnableLabels
    <3>1. rp # <<>> /\ Head(rp) \in Procs
      BY <2>1 DEF IInv, TypeOK
    <3> QED
      BY <2>1, <3>1 DEF NeedsSettling, IInv, TypeOK
  <2> QED
    BY <2>2, <2>4, <2>5, <2>6, <2>7 DEF IInv
<1>2. CASE rp # <<>> /\ irq_settled(Reaper, Irq[Head(rp)], "s_count")
  <2> DEFINE h == Head(rp)
  <2>1. h \in Procs /\ Irq[h] \in Irqs
    BY <1>2 DEF IInv, TypeOK
  <2>2. PICK from \in {"s_dec", "s_load", "s_store", "s_out"},
             to \in {"s_load", "s_store", "s_out", "s_count"} :
           /\ Jump(Reaper, from, to)
           /\ unsettled_procs' = IF from = "s_dec"
                                 THEN [unsettled_procs EXCEPT ![Irq[h]] = @ - 1]
                                 ELSE unsettled_procs
           /\ disabled_status' \in SUBSET Irqs /\ mask' \in SUBSET Irqs /\ reg' \in SUBSET Irqs
           /\ UNCHANGED <<procVars, daemons, rp>>
    BY <1>2, <2>1 DEF irq_settled, Decrement, Load, Store, Out, OutMask, IInv, TypeOK
  <2>3. /\ JumpFacts(Reaper, from, to) /\ OneRuns'
        /\ \A p \in Procs : pc'[p] = pc[p] /\ pc[p] \in Preempted
    BY <2>2, ReaperAlone DEF ReaperLabels, EnableLabels
  <2>4. /\ handled_irq[h] /\ settle_count[h] = 1
        /\ from = "s_dec" => status[h] = "DAEMON" /\ ~handling_irq[h]
    BY <2>1, <2>2, <2>3
    DEF IInv, TypeOK, ReaperInv, ReaperSettles, StageInv, JumpFacts, EnableLabels
  <2>5. /\ \A p \in Procs \ {h} : Owes(p)' <=> Owes(p)
        /\ from # "s_dec" => (Owes(h)' <=> Owes(h))
        /\ from = "s_dec" => Owes(h) /\ ~Owes(h)'
    <3>1. \A p \in Procs \ {h} : Owes(p)' <=> Owes(p)
      BY <1>2, <2>1, <2>2, <2>3 DEF Owes, procVars, JumpFacts
    <3>2. from # "s_dec" => (Owes(h)' <=> Owes(h))
      BY <1>2, <2>1, <2>2, <2>3 DEF Owes, procVars, JumpFacts, EnableLabels
    <3>3. from = "s_dec" => Owes(h) /\ ~Owes(h)'
      BY <1>2, <2>1, <2>2, <2>3, <2>4
      DEF Owes, procVars, JumpFacts, EnableLabels, IInv, StageInv
    <3> QED
      BY <3>1, <3>2, <3>3
  <2>6. Accounting' /\ unsettled_procs' \in [Irqs -> 0 .. Cardinality(Procs)]
    <3>1. CASE from = "s_dec"
      BY <3>1, <2>1, <2>2, <2>5, DebtPaid
    <3>2. CASE from # "s_dec"
      BY <3>2, <2>1, <2>2, <2>5, SameDebts DEF IInv, TypeOK
    <3> QED
      BY <3>1, <3>2
  <2>7. TypeOK'
    BY <2>2, <2>3, <2>6
    DEF IInv, TypeOK, procVars, JumpFacts, ReaperLabels, EnableLabels
  <2>8. StageInv'
    BY <2>2, <2>3 DEF IInv, StageInv, procVars
  <2>9. SettleInv'
    BY <2>2, <2>3, <1>2 DEF IInv, TypeOK, SettleInv, ReaperInv, procVars, JumpFacts, EnableLabels
  <2>10. ReaperInv'
    BY <2>2, <2>3, <2>4, <1>2 DEF ReaperInv, ReaperSettles, procVars, JumpFacts
  <2> QED
    BY <2>3, <2>6, <2>7, <2>8, <2>9, <2>10 DEF IInv
<1>3. CASE CountDown
  <2>3. /\ rp # <<>> /\ settle_count[Head(rp)] = 1 /\ Head(rp) \in Procs
    <3>1. pc[Reaper] = "s_count"
      BY <1>3 DEF CountDown, Jump
    <3> QED
      BY <3>1 DEF IInv, TypeOK, ReaperInv, ReaperSettles
  <2> PICK h \in Procs : h = Head(rp)
    BY <2>3
  <2>1. PICK to \in {"s_dec", "scan"} :
           /\ Jump(Reaper, "s_count", to)
           /\ to = "s_dec" <=> SettlesLeft(h) # 0
           /\ settle_count' = [settle_count EXCEPT ![h] = SettlesLeft(h)]
           /\ rp' = IF SettlesLeft(h) # 0 THEN rp ELSE Tail(rp)
           /\ UNCHANGED <<status, handled_irq, handling_irq, fresh_irq, daemons, picVars>>
    BY <1>3 DEF CountDown
  <2>2. /\ JumpFacts(Reaper, "s_count", to) /\ OneRuns'
        /\ \A p \in Procs : pc'[p] = pc[p] /\ pc[p] \in Preempted
    BY <2>1, ReaperAlone DEF ReaperLabels, EnableLabels
  <2>4. /\ to = "scan" /\ settle_count' = [settle_count EXCEPT ![h] = 0]
        /\ rp' = Tail(rp) /\ rp' \in Seq(Procs) /\ pc'[Reaper] = "scan"
    BY <2>1, <2>2, <2>3 DEF SettlesLeft, JumpFacts, IInv, TypeOK
  <2>5. \A p \in Procs : Owes(p)' <=> Owes(p)
    <3>1. \A p \in Procs \ {h} : Owes(p)' <=> Owes(p)
      BY <2>1, <2>2, <2>3, <2>4 DEF Owes, JumpFacts, EnableLabels, IInv, TypeOK
    <3>2. Owes(h)' <=> Owes(h)
      BY <2>1, <2>2, <2>3, <2>4 DEF Owes, JumpFacts, EnableLabels, IInv, TypeOK
    <3> QED
      BY <3>1, <3>2
  <2>6. Accounting'
    BY <2>1, <2>5, SameDebts DEF picVars
  <2>7. TypeOK'
    BY <2>1, <2>2, <2>3, <2>4 DEF IInv, TypeOK, picVars, JumpFacts, ReaperLabels
  <2>8. StageInv' /\ ReaperInv'
    BY <2>1, <2>2, <2>4 DEF IInv, StageInv, ReaperInv, ReaperSettles, EnableLabels
  <2>9. SettleInv'
    <3> SUFFICES ASSUME NEW p \in Procs
                 PROVE  /\ pc[p] # "x_status"
                        /\ settle_count'[p] = 1 => pc[p] = "sleep" /\ status[p] = "DAEMON"
      BY <2>1, <2>2 DEF SettleInv
    <3>1. pc[p] # "x_status"
      BY <2>2 DEF Preempted, UserLabels
    <3>2. settle_count'[p] = 1 => p # h /\ settle_count[p] = 1
      BY <2>3, <2>4 DEF IInv, TypeOK
    <3> QED
      BY <3>1, <3>2 DEF IInv, SettleInv
  <2> QED
    BY <2>2, <2>6, <2>7, <2>8, <2>9 DEF IInv
<1> QED
  BY <1>1, <1>2, <1>3 DEF reaper

(* Every step of the system keeps the invariant.                           *)
LEMMA StepIInv == IInv /\ [Next]_vars => IInv'
<1> SUFFICES ASSUME IInv, [Next]_vars PROVE IInv'
  OBVIOUS
<1>1. CASE UNCHANGED vars
  BY <1>1
  DEF vars, procVars, picVars, past, IInv, TypeOK, OneRuns, StageInv, SettleInv, ReaperInv,
      Accounting, Owes
<1>2. CASE \E i \in Irqs : Interrupt(i)
  BY <1>2, InterruptIInv
<1>3. CASE \E a \in Actors : Dispatch(a)
  BY <1>3, DispatchIInv
<1>4. CASE \E p \in Procs : register_user_isr(p)
  BY <1>4, RegisterIInv
<1>5. CASE \E p \in Procs : daemonize_process(p)
  BY <1>5, DaemonizeIInv
<1>6. CASE \E p \in Procs : daemonize_from_irq_handler(p)
  BY <1>6, DaemonizeFromHandlerIInv
<1>7. CASE \E p \in Procs : destroy_process(p)
  BY <1>7, DestroyIInv
<1>8. CASE reaper
  BY <1>8, ReaperIInv
<1> QED
  BY <1>1, <1>2, <1>3, <1>4, <1>5, <1>6, <1>7, <1>8 DEF Next, Kernel

-----------------------------------------------------------------------------
(* Who decrements unsettled_procs has a debt on that line.                 *)
LEMMA SettlerOwes ==
    ASSUME IInv
    PROVE  /\ \A p \in Procs : pc[p] = "s_dec" => unsettled_procs[Irq[p]] > 0
           /\ pc[Reaper] = "s_dec" => unsettled_procs[Irq[Head(rp)]] > 0
<1>1. ASSUME NEW p \in Procs, pc[p] = "s_dec"
      PROVE  unsettled_procs[Irq[p]] > 0
  <2>1. Owes(p)
    BY <1>1 DEF IInv, StageInv, Owes, EnableLabels
  <2> QED
    BY <2>1, DebtMeansCount
<1>2. ASSUME pc[Reaper] = "s_dec"
      PROVE  unsettled_procs[Irq[Head(rp)]] > 0
  <2>1. Head(rp) \in Procs /\ Owes(Head(rp))
    BY <1>2 DEF IInv, TypeOK, ReaperInv, ReaperSettles, Owes, EnableLabels
  <2> QED
    BY <2>1, DebtMeansCount
<1> QED
  BY <1>1, <1>2

(* The four steps of irq_settled, by the current process a for line i.     *)
LEMMA SettledPicInv ==
    ASSUME IInv, PicInv, ~raced', NEW a \in Actors, NEW i \in Irqs,
           a = cur => i = Line /\ i = Line',
           NEW done \in {"s_count", "e_unreg"}, irq_settled(a, i, done)
    PROVE  Agreement'
<1>0. Agreement
  BY DEF PicInv, irq_settled, Decrement, Load, Store, Out, Jump, past
<1>1. a \in Actors /\ pc \in [Actors -> ProcLabels \cup ReaperLabels] /\ done \notin EnableLabels
  BY DEF IInv, TypeOK, EnableLabels
<1>2. CASE Decrement(a, i, done)
  <2>1. /\ cur = a /\ cur' = a /\ pc[a] = "s_dec" /\ i = Line /\ i = Line'
        /\ pc'[a] = IF unsettled_procs[i] = 1 THEN "s_load" ELSE done
        /\ unsettled_procs' = [unsettled_procs EXCEPT ![i] = @ - 1]
        /\ UNCHANGED <<mask, reg, disabled_status>>
    BY <1>1, <1>2 DEF Decrement, Jump
  <2>2. unsettled_procs[i] > 0
    BY <2>1, SettlerOwes DEF Line, Actors
  <2>3. \A j \in Irqs : unsettled_procs[j] \in Nat
    BY FS_CardinalityType, IrqAssumption DEF IInv, TypeOK
  <2> QED
    BY <1>0, <1>1, <2>1, <2>2, <2>3 DEF Agreement, EnableLabels, IInv, TypeOK
<1>3. CASE Load(a, i)
  <2>1. /\ cur = a /\ cur' = a /\ pc[a] = "s_load" /\ pc'[a] = "s_store"
        /\ i = Line /\ i = Line' /\ reg' = disabled_status \ {i}
        /\ UNCHANGED <<mask, unsettled_procs, disabled_status>>
    BY <1>1, <1>3 DEF Load, Jump
  <2> QED
    BY <1>0, <2>1 DEF Agreement, EnableLabels
<1>4. CASE Store(a, i)
  <2>1. /\ cur = a /\ cur' = a /\ pc[a] = "s_store" /\ pc'[a] = "s_out"
        /\ i = Line /\ i = Line' /\ UNCHANGED <<mask, unsettled_procs, reg>>
        /\ disabled_status' = {j \in disabled_status : Pic[j] # Pic[i]}
                                \cup {j \in reg : Pic[j] = Pic[i]}
    BY <1>1, <1>4 DEF Store, Jump
  <2>2. disabled_status = mask /\ mask \in SUBSET Irqs /\ reg \in SUBSET Irqs
        /\ \A j \in Irqs : Pic[j] = Pic[i] => (j \in reg <=> j \in mask /\ j # i)
    BY <1>0, <2>1 DEF Agreement, IInv, TypeOK
  <2>3. disabled_status' = mask \ {i}
    BY <2>1, <2>2
  <2> QED
    BY <1>0, <2>1, <2>2, <2>3 DEF Agreement, EnableLabels
<1>5. CASE Out(a, i, done)
  <2>1. /\ cur = a /\ cur' = a /\ pc[a] = "s_out" /\ pc'[a] = done
        /\ i = Line /\ i = Line' /\ mask' = OutMask(i, reg)
        /\ UNCHANGED <<unsettled_procs, disabled_status>>
    BY <1>1, <1>5 DEF Out, Jump
  <2>2. /\ unsettled_procs[i] = 0 /\ mask \in SUBSET Irqs /\ reg \in SUBSET Irqs
        /\ disabled_status = mask \ {i}
        /\ \A j \in mask : unsettled_procs[j] > 0 \/ j = i
        /\ \A j \in Irqs : Pic[j] = Pic[i] => (j \in reg <=> j \in mask /\ j # i)
    BY <1>0, <2>1 DEF Agreement, EnableLabels, IInv, TypeOK
  <2>3. mask' = mask \ {i}
    BY <2>1, <2>2 DEF OutMask
  <2>4. pc'[cur'] \notin {"s_load", "s_store", "s_out"}
    BY <1>1, <2>1 DEF EnableLabels
  <2>5. \A j \in Irqs : unsettled_procs'[j] > 0 => j \in mask'
    BY <1>0, <2>1, <2>2, <2>3 DEF Agreement
  <2> QED
    BY <2>1, <2>2, <2>3, <2>4, <2>5 DEF Agreement, EnableLabels
<1> QED
  BY <1>2, <1>3, <1>4, <1>5 DEF irq_settled

(* A step of whoever runs that neither is in irq_settled nor gets there.   *)
LEMMA QuietPicInv ==
    ASSUME Agreement, UNCHANGED <<unsettled_procs, mask, disabled_status>>,
           pc[cur] \notin EnableLabels, pc'[cur'] \notin EnableLabels
    PROVE  Agreement'
BY DEF Agreement, EnableLabels

(* Every step keeps masks, register and counts of the PICs in agreement.   *)
LEMMA StepPicInv ==
    ASSUME IInv, PicInv, [Next]_vars
    PROVE  PicInv'
<1> SUFFICES ASSUME ~raced' PROVE Agreement'
  BY DEF PicInv
<1> USE IrqAssumption
<1>0. /\ Reaper \in Actors /\ \A p \in Procs : p \in Actors /\ p # Reaper
      /\ cur \in Actors /\ pc \in [Actors -> ProcLabels \cup ReaperLabels]
  BY DEF Actors, IInv, TypeOK
<1>9. ~raced
  BY DEF Next, Interrupt, Dispatch, register_user_isr, Kernel, daemonize_process,
         daemonize_from_irq_handler, destroy_process, reaper, StartPass, Visit, CountDown,
         irq_settled, Decrement, Load, Store, Out, Jump, past, vars
<1> USE <1>9
<1>8. Agreement
  BY DEF PicInv
<1>1. CASE UNCHANGED vars
  BY <1>1, <1>8 DEF vars, picVars, Agreement, Line
<1>2. ASSUME NEW i \in Irqs, Interrupt(i)
      PROVE  Agreement'
  <2>1. /\ disabled_status' = disabled_status \cup {i}
        /\ mask' = {j \in mask : Pic[j] # Pic[i]} \cup {j \in disabled_status' : Pic[j] = Pic[i]}
        /\ mask \in SUBSET Irqs /\ disabled_status \in SUBSET Irqs
    BY <1>2 DEF Interrupt, OutMask, IInv, TypeOK
  <2>2. /\ i \notin mask /\ Sleepers(i) # {} /\ cur' = cur /\ reg' = reg /\ rp' = rp
        /\ pc'[cur] = pc[cur]
        /\ unsettled_procs' = [unsettled_procs EXCEPT ![i] = Cardinality(Sleepers(i))]
    BY <1>0, <1>2 DEF Interrupt, Entry
  <2>3. Cardinality(Sleepers(i)) \in Nat \ {0}
    BY <2>2, FS_Subset, FS_EmptySet, FS_CardinalityType DEF Sleepers
  <2>4. Line' = Line
    BY <2>2 DEF Line
  <2>5. pc[cur] \in {"s_store", "s_out"} => Pic[Line] # Pic[i]
    <3>1. ~Opens(i)
      BY <1>2 DEF Interrupt
    <3>2. pc[cur] \in {"s_store", "s_out"} => Line \in mask
      BY <1>8 DEF Agreement, EnableLabels
    <3> QED
      BY <2>2, <3>1, <3>2 DEF Opens
  <2>6. mask' = mask \cup {i}
        /\ disabled_status' = IF pc[cur] = "s_out" THEN mask' \ {Line} ELSE mask'
    <3>1. CASE pc[cur] = "s_out"
      <4>1. disabled_status = mask \ {Line} /\ Pic[Line] # Pic[i]
        BY <1>8, <2>5, <3>1 DEF Agreement
      <4>2. mask' = mask \cup {i}
        BY <2>1, <4>1
      <4> QED
        BY <2>1, <3>1, <4>1, <4>2
    <3>2. CASE pc[cur] # "s_out"
      <4>1. disabled_status = mask
        BY <1>8, <3>2 DEF Agreement
      <4> QED
        BY <2>1, <3>2, <4>1
    <3> QED
      BY <3>1, <3>2
  <2>7. /\ \A j \in Irqs : unsettled_procs'[j] > 0 => j \in mask'
        /\ pc'[cur'] \in EnableLabels => unsettled_procs'[Line'] = 0 /\ Line' \in mask'
        /\ \A j \in mask' : unsettled_procs'[j] > 0 \/ (pc'[cur'] \in EnableLabels /\ Line' = j)
    BY <1>8, <2>2, <2>3, <2>4, <2>6 DEF Agreement, IInv, TypeOK
  <2>8. pc'[cur'] \in {"s_store", "s_out"} =>
          \A j \in Irqs : Pic[j] = Pic[Line'] => (j \in reg' <=> j \in mask' /\ j # Line')
    BY <1>8, <2>2, <2>4, <2>5, <2>6 DEF Agreement
  <2>9. disabled_status' = IF pc'[cur'] = "s_out" THEN mask' \ {Line'} ELSE mask'
    BY <2>2, <2>4, <2>6
  <2> QED
    BY <2>7, <2>8, <2>9 DEF Agreement
<1>3. ASSUME NEW a \in Actors, Dispatch(a)
      PROVE  Agreement'
  <2>1. pc[cur] \in Preempted /\ pc[a] \in Preempted /\ cur' = a /\ pc' = pc
    BY <1>3 DEF Dispatch, IInv, OneRuns, Preempted
  <2> QED
    BY <1>3, <1>8, <2>1, QuietPicInv DEF Dispatch, picVars, Preempted, UserLabels, EnableLabels
<1>4. ASSUME NEW p \in Procs, register_user_isr(p) \/ daemonize_process(p)
                                \/ daemonize_from_irq_handler(p)
      PROVE  Agreement'
  <2>1. /\ pc[cur] \notin EnableLabels /\ pc'[cur'] \notin EnableLabels
        /\ UNCHANGED picVars
    BY <1>0, <1>4
    DEF register_user_isr, daemonize_process, daemonize_from_irq_handler, Jump, EnableLabels
  <2> QED
    BY <1>8, <2>1, QuietPicInv DEF picVars
<1>5. ASSUME NEW p \in Procs, destroy_process(p)
      PROVE  Agreement'
  <2>1. CASE irq_settled(p, Irq[p], "e_unreg")
    <3>1. cur = p /\ cur' = p
      BY <2>1 DEF irq_settled, Decrement, Load, Store, Out, Jump
    <3> QED
      BY <1>0, <2>1, <3>1, SettledPicInv DEF Line
  <2>2. CASE ~irq_settled(p, Irq[p], "e_unreg")
    <3>1. /\ pc[cur] \notin EnableLabels /\ pc'[cur'] \notin EnableLabels
          /\ UNCHANGED picVars
      BY <1>0, <1>5, <2>2 DEF destroy_process, Jump, EnableLabels
    <3> QED
      BY <1>8, <3>1, QuietPicInv DEF picVars
  <2> QED
    BY <2>1, <2>2
<1>6. CASE reaper
  <2>1. CASE rp # <<>> /\ irq_settled(Reaper, Irq[Head(rp)], "s_count")
    <3>1. cur = Reaper /\ cur' = Reaper /\ rp' = rp
      BY <2>1 DEF irq_settled, Decrement, Load, Store, Out, Jump
    <3>2. Irq[Head(rp)] \in Irqs
      BY <2>1 DEF IInv, TypeOK
    <3> QED
      BY <1>0, <2>1, <3>1, <3>2, SettledPicInv DEF Line
  <2>2. CASE StartPass \/ Visit \/ CountDown
    <3>1. /\ pc[cur] \notin EnableLabels /\ pc'[cur'] \notin EnableLabels
          /\ UNCHANGED picVars
      BY <1>0, <2>2 DEF StartPass, Visit, CountDown, Jump, EnableLabels
    <3> QED
      BY <1>8, <3>1, QuietPicInv DEF picVars
  <2> QED
    BY <1>6, <2>1, <2>2 DEF reaper
<1> QED
  BY <1>1, <1>2, <1>3, <1>4, <1>5, <1>6 DEF Next, Kernel

-----------------------------------------------------------------------------
(* Every wake-up is counted until it is settled, for any assignment of the *)
(* lines to the PICs.                                                      *)
THEOREM WakeupsAccounted == Spec => [](TypeOK /\ Accounting)
<1>1. IInv => TypeOK /\ Accounting
  BY DEF IInv
<1> QED
  BY InitIInv, StepIInv, <1>1, PTL DEF Spec

(* At first no line is masked and nobody opens one.                        *)
LEMMA InitPicInv == Init => PicInv
BY IrqAssumption DEF Init, PicInv, Agreement, EnableLabels, Actors

(* What SettledOnce says follows from the two invariants.                  *)
LEMMA SettledFromInv ==
    ASSUME IInv, PicInv
    PROVE  SettledOnce
<1>1. SettlerAssertions
  BY SettlerOwes DEF SettlerAssertions, IInv, StageInv
<1>2. Agreement => DeliverableSettled
  BY FS_CardinalityType, IrqAssumption DEF DeliverableSettled, Agreement, IInv, TypeOK
<1>3. Agreement => NoOrphanedMask
  <2> SUFFICES ASSUME Agreement, NEW i \in mask, ~(unsettled_procs[i] > 0)
               PROVE  Settling(i)
    BY DEF NoOrphanedMask
  <2>1. pc[cur] \in EnableLabels /\ Line = i
    BY DEF Agreement
  <2>2. cur = Reaper => rp # <<>>
    BY <2>1 DEF IInv, ReaperInv, ReaperSettles
  <2> QED
    BY <2>1, <2>2 DEF Settling, Line, IInv, TypeOK, Actors
<1> QED
  BY <1>1, <1>2, <1>3 DEF SettledOnce, IInv, PicInv

(* SettledOnce (isrs.c: common_irq_handler; int.c: irq_settled), for any   *)
(* lines on the two PICs: every wake-up is settled exactly once and no     *)
(* assertion of irq_settled or of a handler's exit fires; and until a line *)
(* fires between the load and the out of an enable_irq for another line of *)
(* its PIC, a line that may fire is settled and none stays masked with     *)
(* nobody to open it.                                                      *)
THEOREM InterruptsSettled == Spec => []SettledOnce
<1>1. Init => IInv /\ PicInv
  BY InitIInv, InitPicInv
<1>2. IInv /\ PicInv /\ [Next]_vars => (IInv /\ PicInv)'
  BY StepIInv, StepPicInv
<1>3. IInv /\ PicInv => SettledOnce
  BY SettledFromInv
<1> QED
  BY <1>1, <1>2, <1>3, PTL DEF Spec

-----------------------------------------------------------------------------
(* Nobody comes back from the dead, and only an exit takes entries off the *)
(* list of daemons.                                                        *)
LEMMA ZombieStays ==
    ASSUME IInv, [Next]_vars, NEW q \in Procs, status[q] = "ZOMBIE"
    PROVE  status'[q] = "ZOMBIE"
<1>1. pc[q] = "sleep"
  BY DEF IInv, StageInv
<1>2. CASE UNCHANGED vars
  BY <1>2 DEF vars, procVars
<1>3. ASSUME NEW i \in Irqs, Interrupt(i)
      PROVE  status'[q] = "ZOMBIE"
  BY <1>3 DEF Interrupt, Sleepers
<1>4. ASSUME NEW a \in Actors, Dispatch(a)
      PROVE  status'[q] = "ZOMBIE"
  BY <1>4 DEF Dispatch
<1>5. ASSUME NEW p \in Procs, register_user_isr(p) \/ Kernel(p)
      PROVE  status'[q] = "ZOMBIE"
  <2>1. /\ pc[p] = "sleep" => FALSE
        /\ \/ status' = status
           \/ \E v \in {"DAEMON", "ZOMBIE"} : status' = [status EXCEPT ![p] = v]
    BY <1>5
    DEF register_user_isr, Kernel, daemonize_process, daemonize_from_irq_handler,
        destroy_process, irq_settled, Decrement, Load, Store, Out, Jump, procVars
  <2> QED
    BY <1>1, <2>1 DEF IInv, TypeOK
<1>6. CASE reaper
  BY <1>6
  DEF reaper, StartPass, Visit, CountDown, irq_settled, Decrement, Load, Store, Out, procVars
<1> QED
  BY <1>2, <1>3, <1>4, <1>5, <1>6 DEF Next

(* Only an interrupt can leave a process at its yield awake, and there it  *)
(* stays.                                                                  *)
LEMMA StepAwake ==
    ASSUME IInv, Awake, [Next]_vars
    PROVE  Awake'
<1> USE IrqAssumption
<1>0. \A p \in Procs : p \in Actors /\ p # Reaper
  BY DEF Actors
<1>1. CASE UNCHANGED vars
  BY <1>1 DEF vars, procVars, past, Awake
<1>2. ASSUME NEW i \in Irqs, Interrupt(i)
      PROVE  Awake'
  <2>1. /\ overtaken' = overtaken \cup (Sleepers(i) \cap {cur})
        /\ \A p \in Procs : pc'[p] = IF p \in Sleepers(i) \ {cur} THEN "handler" ELSE pc[p]
        /\ \A p \in Procs : status'[p] = IF p \in Sleepers(i) THEN "ACTIVE" ELSE status[p]
        /\ \A p \in Sleepers(i) : pc[p] = "sleep" /\ status[p] = "DAEMON" /\ p \in Procs
    BY <1>0, <1>2 DEF Interrupt, Entry, Sleepers, IInv, StageInv
  <2>2. \A p \in Procs : p \in overtaken => p \notin Sleepers(i)
    BY <2>1 DEF Awake
  <2> QED
    BY <2>1, <2>2 DEF Awake
<1>3. ASSUME NEW a \in Actors, Dispatch(a)
      PROVE  Awake'
  BY <1>3 DEF Dispatch, Awake, past
<1>4. ASSUME NEW p \in Procs, register_user_isr(p) \/ Kernel(p)
      PROVE  Awake'
  <2>0. pc[p] # "sleep" /\ overtaken' = overtaken
    BY <1>4
    DEF register_user_isr, Kernel, daemonize_process, daemonize_from_irq_handler,
        destroy_process, irq_settled, Decrement, Load, Store, Out, Jump, past
  <2>1. \E to \in ProcLabels :
           /\ pc' = [pc EXCEPT ![p] = to]
           /\ \/ to # "sleep" /\ status' = status
              \/ \E v \in {"DAEMON", "ZOMBIE"} : status' = [status EXCEPT ![p] = v]
    BY <1>4
    DEF register_user_isr, Kernel, daemonize_process, daemonize_from_irq_handler,
        destroy_process, irq_settled, Decrement, Load, Store, Out, Jump, procVars,
        ProcLabels, UserLabels, EnableLabels
  <2> QED
    BY <1>0, <2>0, <2>1 DEF Awake, IInv, TypeOK
<1>5. CASE reaper
  <2>1. status' = status /\ overtaken' = overtaken /\ \E to : pc' = [pc EXCEPT ![Reaper] = to]
    BY <1>5
    DEF reaper, StartPass, Visit, CountDown, irq_settled, Decrement, Load, Store, Out,
        procVars, Jump, past
  <2> QED
    BY <1>0, <2>1 DEF Awake, IInv, TypeOK
<1> QED
  BY <1>1, <1>2, <1>3, <1>4, <1>5 DEF Next

(* A step keeps every process that handles interrupts on the list.         *)
LEMMA StepListed ==
    ASSUME IInv, Listed, [Next]_vars
    PROVE  Listed'
<1> USE IrqAssumption
<1>0. \A p \in Procs : p \in Actors /\ p # Reaper
  BY DEF Actors
<1>1. CASE \E q \in Procs : status'[q] = "ZOMBIE"
  BY <1>1 DEF Listed
<1>2. CASE \A q \in Procs : status'[q] # "ZOMBIE"
  <2>0. \A q \in Procs : status[q] # "ZOMBIE"
    BY <1>2, ZombieStays
  <2>1. ASSUME daemons' = daemons,
               \A p \in Procs : \/ pc'[p] \in {"setup", "main", "d_list", "e_unreg", "e_zombie"}
                                \/ pc[p] \notin {"setup", "main", "d_list", "e_unreg", "e_zombie"}
        PROVE  Listed'
    BY <2>0, <2>1 DEF Listed
  <2>2. CASE UNCHANGED vars
    BY <2>1, <2>2 DEF vars
  <2>3. ASSUME NEW i \in Irqs, Interrupt(i)
        PROVE  Listed'
    <3>1. \A p \in Sleepers(i) : pc[p] = "sleep"
      BY DEF Sleepers, IInv, StageInv
    <3> QED
      BY <1>0, <2>1, <2>3, <3>1 DEF Interrupt, Entry
  <2>4. ASSUME NEW a \in Actors, Dispatch(a)
        PROVE  Listed'
    BY <2>1, <2>4 DEF Dispatch
  <2>5. ASSUME NEW p \in Procs, Jump(p, "d_list", "d_status"), daemons' = q_register_process(p)
        PROVE  Listed'
    <3>1. /\ daemons' = <<p>> \o daemons /\ daemons \in Seq(Procs)
          /\ \A q \in Procs \ {p} : pc'[q] = pc[q]
      BY <1>0, <2>5 DEF q_register_process, Jump, IInv, TypeOK
    <3>2. 1 \in DOMAIN daemons' /\ daemons'[1] = p
      BY <3>1
    <3>3. \A n \in DOMAIN daemons : n + 1 \in DOMAIN daemons' /\ daemons'[n + 1] = daemons[n]
      BY <3>1
    <3>4. ASSUME NEW q \in Procs \ {p}, \E n \in DOMAIN daemons : daemons[n] = q
          PROVE  \E n \in DOMAIN daemons' : daemons'[n] = q
      <4>1. PICK n \in DOMAIN daemons : daemons[n] = q
        BY <3>4
      <4> QED
        BY <3>3, <4>1
    <3> QED
      BY <2>0, <3>1, <3>2, <3>4 DEF Listed
  <2>6. ASSUME NEW p \in Procs, register_user_isr(p) \/ Kernel(p),
               ~(Jump(p, "d_list", "d_status") /\ daemons' = q_register_process(p))
        PROVE  Listed'
    <3>1. CASE Jump(p, "e_zombie", "sleep") /\ status' = [status EXCEPT ![p] = "ZOMBIE"]
      BY <1>2, <3>1 DEF IInv, TypeOK
    <3>2. CASE ~(Jump(p, "e_zombie", "sleep") /\ status' = [status EXCEPT ![p] = "ZOMBIE"])
      <4>1. /\ daemons' = daemons
            /\ \E to : /\ pc' = [pc EXCEPT ![p] = to]
                       /\ \/ to \in {"setup", "main", "d_list", "e_unreg", "e_zombie"}
                          \/ pc[p] \notin {"setup", "main", "d_list", "e_unreg", "e_zombie"}
        BY <2>6, <3>2
        DEF register_user_isr, Kernel, daemonize_process, daemonize_from_irq_handler,
            destroy_process, irq_settled, Decrement, Load, Store, Out, Jump
      <4> QED
        BY <1>0, <2>1, <4>1 DEF IInv, TypeOK
    <3> QED
      BY <3>1, <3>2
  <2>7. CASE reaper
    <3>1. daemons' = daemons /\ \E to : pc' = [pc EXCEPT ![Reaper] = to]
      BY <2>7
      DEF reaper, StartPass, Visit, CountDown, irq_settled, Decrement, Load, Store, Out, Jump
    <3> QED
      BY <1>0, <2>1, <3>1 DEF IInv, TypeOK
  <2> QED
    BY <2>2, <2>3, <2>4, <2>5, <2>6, <2>7 DEF Next, Kernel
<1> QED
  BY <1>1, <1>2

(* At first nobody has died and nobody handles interrupts.                 *)
LEMMA InitListed == Init => Awake /\ Listed
BY IrqAssumption DEF Init, Awake, Listed, Actors

(* HandlersKept (isrs.c: common_irq_handler; management.c): a process woken *)
(* for an interrupt is in its handler, or it was woken between becoming a  *)
(* daemon and its yield and stays there; and only an exit can cut a        *)
(* sleeping one off the list that the reaper walks.                        *)
THEOREM HandlersAreKept == Spec => []HandlersKept
<1>1. Init => IInv /\ Awake /\ Listed
  BY InitIInv, InitListed
<1>2. IInv /\ Awake /\ Listed /\ [Next]_vars => (IInv /\ Awake /\ Listed)'
  BY StepIInv, StepAwake, StepListed
<1>3. IInv /\ Awake /\ Listed => HandlersKept
  <2> SUFFICES ASSUME IInv, Awake, Listed PROVE HandlersKept
    OBVIOUS
  <2>1. WokenRunsHandler
    BY DEF WokenRunsHandler, IInv, StageInv, TypeOK, Awake, ProcLabels, UserLabels, EnableLabels
  <2>2. LostOnlyByExit
    BY DEF LostOnlyByExit, Listed, IInv, StageInv
  <2> QED
    BY <2>1, <2>2 DEF HandlersKept
<1> QED
  BY <1>1, <1>2, <1>3, PTL DEF Spec
=============================================================================
