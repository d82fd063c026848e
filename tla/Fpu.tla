-------------------------------- MODULE Fpu ---------------------------------
(* The lazy switch of the FPU and SSE registers                              *)
(* (kernel/arch/i386/tasking/dispatch.c): a switch of processes only sets    *)
(* TS; the first FPU instruction behind it traps, and the trap saves the     *)
(* registers for the process that used them last.                            *)
EXTENDS Integers, FiniteSets, TLAPS

CONSTANTS Procs

VARIABLES
  alive,       \* processes whose structure exists
  born,        \* how often a structure was created, modulo 2
  current, ts, last_fpu_sse_user,
  fpu,         \* whose values are in the registers: <<process, birth>>
  fxsave,      \* what a process has saved, NoOne: not fxsave_valid
  wrong        \* values of another were used, or saved for nobody

vars == <<alive, born, current, ts, last_fpu_sse_user, fpu, fxsave, wrong>>

NoOne == <<"none", 0>>
Clean == <<"clean", 0>>

Init ==
  /\ alive = {} /\ born = [p \in Procs |-> 0]
  /\ current = "idle" /\ ts = TRUE /\ last_fpu_sse_user = "none"
  /\ fpu = Clean /\ fxsave = [p \in Procs |-> NoOne] /\ wrong = FALSE

Create(p) ==
  /\ p \notin alive
  /\ alive' = alive \union {p}
  /\ born' = [born EXCEPT ![p] = 1 - @]
  /\ fxsave' = [fxsave EXCEPT ![p] = NoOne]
  /\ UNCHANGED <<current, ts, last_fpu_sse_user, fpu, wrong>>

(* arch_process_change *)
arch_process_change(p) ==
  /\ p \in alive \union {"idle"}
  /\ current' = p /\ ts' = TRUE
  /\ UNCHANGED <<alive, born, last_fpu_sse_user, fpu, fxsave, wrong>>

Own(p) == <<p, born[p]>>

Loaded(saved, p) == IF saved[p] # NoOne THEN saved[p] ELSE Clean

save_and_restore_fpu_and_sse ==
  LET saved == IF last_fpu_sse_user # "none"
               THEN [fxsave EXCEPT ![last_fpu_sse_user] = fpu] ELSE fxsave IN
  /\ current \in alive /\ ts
  /\ ts' = FALSE
  /\ fxsave' = saved
  /\ fpu' = Loaded(saved, current)
  /\ last_fpu_sse_user' = current
  /\ wrong' = (wrong \/ (last_fpu_sse_user # "none" /\ last_fpu_sse_user \notin alive))
  /\ UNCHANGED <<alive, born, current>>

(* An FPU instruction that does not trap.  A process that has computed       *)
(* before must find its own values.                                          *)
Compute ==
  /\ current \in alive /\ ~ts
  /\ wrong' = (wrong \/ fpu \notin {Clean, Own(current)}
                     \/ (fpu = Clean /\ fxsave[current] = Own(current)))
  /\ fpu' = Own(current)
  /\ UNCHANGED <<alive, born, current, ts, last_fpu_sse_user, fxsave>>

fpu_sse_unregister(p) ==
  last_fpu_sse_user' = IF last_fpu_sse_user = p THEN "none" ELSE last_fpu_sse_user

(* destroy_process_struct: the structure is freed.                           *)
Destroy(p) ==
  /\ p \in alive /\ p # current
  /\ alive' = alive \ {p}
  /\ fpu_sse_unregister(p)
  /\ UNCHANGED <<born, current, ts, fpu, fxsave, wrong>>

Next ==
  \/ save_and_restore_fpu_and_sse \/ Compute \/ arch_process_change("idle")
  \/ \E p \in Procs : Create(p) \/ Destroy(p) \/ arch_process_change(p)

Spec == Init /\ [][Next]_vars

------------------------------------------------------------------------------
(* Every process computes with its own registers only, and nothing is saved  *)
(* into a structure that was freed.                                          *)
Correct == ~wrong
-----------------------------------------------------------------------------
(* Proof that no process computes in the registers of another, for any set   *)
(* of processes.  The registers have an owner that is known, the one who     *)
(* used them last; TS is clear only while the owner runs; and an owner whose *)
(* structure is freed is forgotten.                                          *)

(* The names that stand for nobody are no processes.                         *)
Named == {"none", "idle", "clean"} \cap Procs = {}

Contents == (Procs \X {0, 1}) \union {Clean}

TypeOK ==
  /\ alive \subseteq Procs
  /\ born \in [Procs -> {0, 1}]
  /\ current \in alive \union {"idle"}
  /\ ts \in BOOLEAN
  /\ last_fpu_sse_user \in alive \union {"none"}
  /\ fpu \in Contents
  /\ fxsave \in [Procs -> Contents \union {NoOne}]

(* What is in the registers is that of who used them last, and what it had   *)
(* saved before is not missing from them.                                    *)
RegistersKnown ==
  last_fpu_sse_user # "none" =>
    /\ fpu \in {Clean, Own(last_fpu_sse_user)}
    /\ fpu = Clean => fxsave[last_fpu_sse_user] # Own(last_fpu_sse_user)

(* The registers are open to the one who used them last only.                *)
OpenToLast == ~ts => current \in alive /\ last_fpu_sse_user = current

(* A process has saved nothing, the registers unused, or its own values.     *)
SavedOwn == \A p \in alive : fxsave[p] \in {NoOne, Clean, Own(p)}

IInv == TypeOK /\ RegistersKnown /\ OpenToLast /\ SavedOwn /\ Correct

(* The values of a process are told apart from those of nobody and from      *)
(* those of another process (born, NoOne, Clean).                            *)
LEMMA OwnApart ==
  ASSUME Named, NEW p \in Procs, NEW q \in Procs
  PROVE  /\ Own(p) # NoOne /\ Own(p) # Clean /\ NoOne # Clean
         /\ p # q => Own(p) # Own(q)
BY DEF Named, Own, NoOne, Clean

(* The trap (save_and_restore_fpu_and_sse) keeps IInv.                       *)
LEMMA TrapKeeps ==
  ASSUME Named, IInv, save_and_restore_fpu_and_sse
  PROVE  IInv'
<1> DEFINE c == current
           l == last_fpu_sse_user
           saved == IF l # "none" THEN [fxsave EXCEPT ![l] = fpu] ELSE fxsave
<1>1. /\ c \in alive /\ c \in Procs /\ c # "none" /\ ts' = FALSE
      /\ fxsave' = saved /\ fpu' = Loaded(saved, c)
      /\ last_fpu_sse_user' = c /\ alive' = alive /\ born' = born /\ current' = c
  BY DEF IInv, TypeOK, Named, save_and_restore_fpu_and_sse
<1>2. l # "none" => l \in alive /\ l \in Procs /\ fpu \in {Clean, Own(l)}
  BY DEF IInv, TypeOK, RegistersKnown
<1>3. saved \in [Procs -> Contents \union {NoOne}]
  BY <1>2 DEF IInv, TypeOK
<1>4. \A p \in alive : saved[p] \in {NoOne, Clean, Own(p)}
  <2>1. CASE l = "none"
    BY <2>1 DEF IInv, SavedOwn
  <2>2. CASE l # "none"
    BY <1>2, <2>2 DEF IInv, TypeOK, SavedOwn
  <2>3. QED BY <2>1, <2>2
<1>5. /\ fpu' \in {Clean, Own(c)} /\ fpu' \in Contents
      /\ fpu' = Clean => saved[c] # Own(c)
  <2>1. Own(c) # NoOne /\ Own(c) # Clean /\ NoOne # Clean
    BY <1>1, OwnApart
  <2>2. saved[c] \in {NoOne, Clean, Own(c)}
    BY <1>1, <1>4
  <2>3. fpu' \in {Clean, Own(c)} /\ (fpu' = Clean => saved[c] # Own(c))
    BY <1>1, <2>1, <2>2 DEF Loaded
  <2>4. Own(c) \in Contents
    BY <1>1 DEF IInv, TypeOK, Own, Contents
  <2>5. QED BY <2>3, <2>4 DEF Contents
<1>6. \A p : Own(p)' = Own(p)
  BY <1>1 DEF Own
<1>7. TypeOK'
  BY <1>1, <1>3, <1>5 DEF IInv, TypeOK, Contents
<1>8. RegistersKnown'
  BY <1>1, <1>5 DEF RegistersKnown, Own
<1>9. OpenToLast'
  BY <1>1 DEF OpenToLast
<1>10. SavedOwn'
  BY <1>1, <1>4, <1>6 DEF SavedOwn, Own
<1>11. Correct'
  BY <1>2 DEF IInv, Correct, save_and_restore_fpu_and_sse
<1>12. QED BY <1>7, <1>8, <1>9, <1>10, <1>11 DEF IInv

(* An instruction that does not trap keeps IInv.                             *)
LEMMA ComputeKeeps ==
  ASSUME Named, IInv, Compute
  PROVE  IInv'
<1>1. /\ current \in alive /\ current \in Procs /\ current # "none"
      /\ last_fpu_sse_user = current
  BY DEF IInv, TypeOK, Named, OpenToLast, Compute
<1>2. Own(current) # Clean /\ Own(current) \in Contents
  BY <1>1, OwnApart DEF IInv, TypeOK, Own, Contents
<1>3. /\ fpu' = Own(current)
      /\ UNCHANGED <<alive, born, current, ts, last_fpu_sse_user, fxsave>>
  BY DEF Compute
<1>4. TypeOK'
  BY <1>2, <1>3 DEF IInv, TypeOK, Contents
<1>5. RegistersKnown'
  BY <1>1, <1>2, <1>3 DEF RegistersKnown, Own
<1>6. OpenToLast' /\ SavedOwn'
  BY <1>3 DEF IInv, OpenToLast, SavedOwn, Own
<1>7. Correct'
  BY <1>1, <1>2 DEF IInv, RegistersKnown, Correct, Compute
<1>8. QED BY <1>4, <1>5, <1>6, <1>7 DEF IInv

(* The creation of a structure keeps IInv.                                   *)
LEMMA CreateKeeps ==
  ASSUME Named, IInv, NEW p \in Procs, Create(p)
  PROVE  IInv'
<1>1. /\ p \notin alive /\ alive' = alive \union {p}
      /\ born' = [born EXCEPT ![p] = 1 - @] /\ fxsave' = [fxsave EXCEPT ![p] = NoOne]
      /\ UNCHANGED <<current, ts, last_fpu_sse_user, fpu, wrong>>
  BY DEF Create
<1>2. \A q \in alive : q \in Procs /\ q # p /\ born'[q] = born[q] /\ fxsave'[q] = fxsave[q]
  BY <1>1 DEF IInv, TypeOK
<1>3. fxsave'[p] = NoOne
  BY <1>1 DEF IInv, TypeOK
<1>4. TypeOK'
  BY <1>1 DEF IInv, TypeOK
<1>5. RegistersKnown'
  BY <1>1, <1>2 DEF IInv, TypeOK, RegistersKnown, Own
<1>6. OpenToLast'
  BY <1>1 DEF IInv, OpenToLast
<1>7. SavedOwn'
  BY <1>1, <1>2, <1>3 DEF IInv, SavedOwn, Own
<1>8. Correct'
  BY <1>1 DEF IInv, Correct
<1>9. QED BY <1>4, <1>5, <1>6, <1>7, <1>8 DEF IInv

(* The end of a process (fpu_sse_unregister) keeps IInv.                     *)
LEMMA DestroyKeeps ==
  ASSUME Named, IInv, NEW p \in Procs, Destroy(p)
  PROVE  IInv'
<1>1. /\ p # current /\ alive' = alive \ {p}
      /\ last_fpu_sse_user' = IF last_fpu_sse_user = p THEN "none" ELSE last_fpu_sse_user
      /\ UNCHANGED <<born, current, ts, fpu, fxsave, wrong>>
  BY DEF Destroy, fpu_sse_unregister
<1>2. TypeOK'
  BY <1>1 DEF IInv, TypeOK
<1>3. RegistersKnown' /\ OpenToLast' /\ SavedOwn' /\ Correct'
  BY <1>1 DEF IInv, RegistersKnown, OpenToLast, SavedOwn, Correct, Own
<1>4. QED BY <1>2, <1>3 DEF IInv

(* RegistersAreOwn (save_and_restore_fpu_and_sse, fpu_sse_unregister): for   *)
(* any set of processes, whoever computes finds its own values in the        *)
(* registers, and nothing is saved into a structure that was freed.          *)
THEOREM RegistersAreOwn == ASSUME Named PROVE Spec => []Correct
<1>1. Init => IInv
  BY Named DEF Init, IInv, TypeOK, Contents, Clean, RegistersKnown, OpenToLast, SavedOwn, Correct
<1>2. IInv /\ [Next]_vars => IInv'
  <2> SUFFICES ASSUME IInv, [Next]_vars PROVE IInv'
    OBVIOUS
  <2>1. CASE save_and_restore_fpu_and_sse
    BY <2>1, TrapKeeps
  <2>2. CASE Compute
    BY <2>2, ComputeKeeps
  <2>3. ASSUME NEW p \in Procs \union {"idle"}, arch_process_change(p) PROVE IInv'
    BY <2>3 DEF arch_process_change, IInv, TypeOK, RegistersKnown, OpenToLast, SavedOwn,
                Correct, Own
  <2>4. ASSUME NEW p \in Procs, Create(p) PROVE IInv'
    BY <2>4, CreateKeeps
  <2>5. ASSUME NEW p \in Procs, Destroy(p) PROVE IInv'
    BY <2>5, DestroyKeeps
  <2>6. CASE UNCHANGED vars
    BY <2>6 DEF vars, IInv, TypeOK, RegistersKnown, OpenToLast, SavedOwn, Correct, Own
  <2>7. QED BY <2>1, <2>2, <2>3, <2>4, <2>5, <2>6 DEF Next
<1>3. IInv => Correct
  BY DEF IInv
<1>4. QED BY <1>1, <1>2, <1>3, PTL DEF Spec
=============================================================================
