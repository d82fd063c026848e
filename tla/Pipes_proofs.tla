---------------------------- MODULE Pipes_proofs ----------------------------
(***************************************************************************)
(* Proofs about Pipes for any number of processes, threads, entries and    *)
(* addresses.  The programs are taken to be careful, as in the runs: they  *)
(* fork and exit while their other threads are outside the library, and    *)
(* nothing is closed until the child has pipes of its own.                 *)
(*                                                                         *)
(* The argument: an entry of a running process's table is free, open, or   *)
(* one thread has it (EntryOK, ApartOK, TableOK).  Only who has an entry   *)
(* writes it.  An object has one entry that holds it, or one thread that   *)
(* carries its address, or one message that destroys it (ObjectInv).       *)
(* Between fork and the end of duplicate_all_pipes the child's entries do  *)
(* not hold what they name: a running process does that closes nothing     *)
(* until the child is done (SourceInv).                                    *)
(***************************************************************************)
EXTENDS Pipes, TLAPS

(* The labels at which a thread has taken the entry it works on.           *)
OwnLabels == {"path", "link", "relink", "undo", "ask", "store", "close"}

Pcs == {"idle", "look", "claim", "path", "link", "relink", "undo",
        "ask", "store", "close", "deinit", "aborted"} \cup InheritPcs

Entry == [pid : {"free", "reserved", "service"}, id : Ids \cup {None}]

Thread == [proc : Procs \cup {None}, pc : Pcs, i : 0 .. NPipes,
           src : Slots \cup {-1}, ans : Ids \cup {None}, links : 0 .. MaxLinks]

Runs(p) == \E t \in Threads : Proc(t) = p
Named(p, i) == tab[p][i].id # None
Free(p, i) == tab[p][i].pid = "free"

(* An entry that belongs to no service has no object.                      *)
CleanInv == \A p \in Procs, i \in Slots : tab[p][i].pid # "service" => ~Named(p, i)

(* What a thread's label says of the thread itself.                        *)
LabelInv ==
    \A t \in Threads :
        /\ Proc(t) = None => At(t, "idle")
        /\ At(t, "idle") => th[t].src = -1
        /\ At(t, "renewed") => th[t].ans # None
        /\ th[t].ans # None => th[t].pc \in {"store", "renewed"}
        /\ th[t].pc \in OwnLabels \cup {"claim", "renewed"} => th[t].i \in Slots
        /\ At(t, "relink") => th[t].links < MaxLinks

(* What it says of the entry the thread works on.                          *)
EntryOK(p) ==
    \A t \in Threads : Proc(t) = p =>
        /\ th[t].src # -1 => th[t].src \in open[p]
        /\ th[t].pc \in OwnLabels => ~Free(p, th[t].i) /\ th[t].i \notin open[p]
        /\ th[t].pc \in OwnLabels \ {"close"} => ~Named(p, th[t].i)
        /\ th[t].pc \in {"link", "ask", "store"} => tab[p][th[t].i].pid = "service"
        /\ At(t, "renewed") => ~Free(p, th[t].i)

(* Two threads of a process: an entry has one owner, a child that inherits *)
(* is alone, and so in the library is one that exits.                      *)
ApartOK(p) ==
    \A t, u \in Threads : t # u /\ Proc(t) = p /\ Proc(u) = p =>
        /\ th[t].pc \in OwnLabels /\ th[u].pc \in OwnLabels => th[t].i # th[u].i
        /\ th[t].pc \notin InheritPcs
        /\ At(t, "deinit") => At(u, "idle")

(* A thread on whose account an entry that is not open is not free.        *)
Works(u, p, i) ==
    /\ Proc(u) = p
    /\ \/ th[u].pc \in OwnLabels /\ th[u].i = i
       \/ th[u].pc \in {"deinit", "aborted"}

(* The table of a process: what the program has is an object of a service; *)
(* every other entry is free, or a thread has it that is not done.         *)
TableOK(p) ==
    \A t \in Threads, i \in Slots : Proc(t) = p =>
        /\ i \in open[p] => tab[p][i].pid = "service" /\ Named(p, i)
        /\ Free(p, i) \/ i \in open[p] \/ \E u \in Threads : Works(u, p, i)
        /\ At(t, "deinit") => i \notin open[p] /\ (i < th[t].i => Free(p, i))
        /\ th[t].pc \in InheritPcs => Free(p, i) \/ i \in open[p]

ProcOK(p) == EntryOK(p) /\ ApartOK(p) /\ TableOK(p)
ProcInv == \A p \in Procs : ProcOK(p)

(* Process p has a pipe i of its own.                                      *)
Keeps(p, i) == Runs(p) /\ i \in open[p] /\ Own(p, i)

(* An entry that a child has not renewed yet is that of a running process, *)
(* whose own it is.                                                        *)
SourceInv ==
    \A t \in Threads, p \in Procs, i \in Slots :
        Proc(t) = p /\ th[t].pc \in InheritPcs /\ th[t].i <= i /\ ~Free(p, i)
            => \E q \in Procs : Keeps(q, i) /\ tab[q][i] = tab[p][i]

(* The entry holds the object that it names.                               *)
Holds(p, i) == Runs(p) /\ Named(p, i) /\ Own(p, i)

(* The objects: each has one entry or is on its way to one, or is about to *)
(* be destroyed.                                                           *)
HeldInv ==
    \A p \in Procs, i \in Slots : Holds(p, i) =>
        /\ tab[p][i].id \in live /\ dying[tab[p][i].id] = 0
        /\ \A q \in Procs, j \in Slots :
              Holds(q, j) /\ tab[q][j].id = tab[p][i].id => q = p /\ j = i
        /\ \A t \in Threads : th[t].ans # tab[p][i].id

CarriedInv ==
    \A t \in Threads : th[t].ans # None =>
        /\ th[t].ans \in live /\ dying[th[t].ans] = 0
        /\ \A u \in Threads : th[u].ans = th[t].ans => u = t

DyingInv == \A a \in Ids : dying[a] # 0 => dying[a] = 1 /\ a \in live

(* NoOrphan, with CleanInv.                                                *)
KnownInv ==
    \A a \in live : \/ dying[a] # 0
                    \/ \E t \in Threads : th[t].ans = a
                    \/ \E p \in Procs, i \in Slots : Runs(p) /\ tab[p][i].id = a

ObjectInv == HeldInv /\ CarriedInv /\ DyingInv /\ KnownInv

IInv == TypeOK /\ CleanInv /\ LabelInv /\ ProcInv /\ SourceInv /\ ObjectInv

-----------------------------------------------------------------------------
(* Types in the form the proofs use.                                       *)
LEMMA Types ==
    TypeOK <=> /\ tab \in [Procs -> [Slots -> Entry]]
               /\ lck \in [Procs -> Threads \cup {None}]
               /\ th \in [Threads -> Thread]
               /\ open \in [Procs -> SUBSET Slots]
               /\ live \in SUBSET Ids
               /\ dying \in [Ids -> Nat]
               /\ failed \in SUBSET {"lock", "duplicate"}
BY DEF TypeOK, Entry, Thread, Pcs

(* The same of the next state.                                             *)
LEMMA TypesAfter ==
    ASSUME tab' \in [Procs -> [Slots -> Entry]], lck' \in [Procs -> Threads \cup {None}],
           th' \in [Threads -> Thread], open' \in [Procs -> SUBSET Slots],
           live' \in SUBSET Ids, dying' \in [Ids -> Nat],
           failed' \in SUBSET {"lock", "duplicate"}
    PROVE  TypeOK'
BY DEF TypeOK, Entry, Thread, Pcs

(* What the assumption says of numbers and of None.                        *)
LEMMA Given ==
    /\ NPipes \in Nat /\ NPipes > 0 /\ MaxLinks \in Nat /\ Slots = 0 .. NPipes - 1
    /\ None \notin Procs /\ None \notin Threads /\ None \notin Ids
    /\ Main \in Procs /\ First \in Threads /\ Slots \subseteq Nat /\ -1 \notin Slots
BY PipesAssumption DEF Slots

-----------------------------------------------------------------------------
(* Thread t of process p goes to label pc; the others stay where they are. *)
Moves(t, p, pc, i, src, ans) ==
    /\ Proc(t) = p /\ p \in Procs
    /\ th' \in [Threads -> Thread]
    /\ \A u \in Threads \ {t} : th'[u] = th[u]
    /\ th'[t].proc = p /\ th'[t].pc = pc /\ th'[t].i = i
    /\ th'[t].src = src /\ th'[t].ans = ans
    /\ pc = "relink" => th'[t].links < MaxLinks

(* Only process p's pipes change.                                          *)
OnlyIn(p) ==
    /\ tab' \in [Procs -> [Slots -> Entry]] /\ open' \in [Procs -> SUBSET Slots]
    /\ \A q \in Procs \ {p} : tab'[q] = tab[q] /\ open'[q] = open[q]

(* Where the mover is in the table of a process that nobody inherits, the  *)
(* others do not notice, and children find what they still share.          *)
LEMMA OthersKept ==
    ASSUME IInv, NEW t \in Threads, NEW p, NEW pc, NEW i, NEW src, NEW ans,
           Moves(t, p, pc, i, src, ans), OnlyIn(p),
           th[t].pc \notin InheritPcs, pc \notin InheritPcs,
           Inheriting => \A j \in open[p] : j \in open'[p] /\ tab'[p][j] = tab[p][j]
    PROVE  /\ \A q \in Procs \ {p} : ProcOK(q)'
           /\ SourceInv'
           /\ \A q \in Procs : Runs(q)' <=> Runs(q)
           /\ \A q \in Procs, j \in Slots : Own(q, j)' <=> Own(q, j)
<1>1. /\ th'[t].proc = p /\ th[t].proc = p /\ p \in Procs /\ th'[t].pc = pc
      /\ \A u \in Threads \ {t} : th'[u] = th[u]
  BY DEF Moves, Proc
<1>2. \A q \in Procs : Runs(q)' <=> Runs(q)
  BY <1>1 DEF Runs, Proc
<1>3. \A q \in Procs, j \in Slots : Own(q, j)' <=> Own(q, j)
  <2>1. \A u \in Threads : th'[u].proc = th[u].proc
    BY <1>1
  <2>2. \A u \in Threads : th'[u].pc \in InheritPcs => th[u].pc \in InheritPcs /\ th'[u] = th[u]
    BY <1>1
  <2>3. \A u \in Threads : th[u].pc \in InheritPcs => th'[u] = th[u]
    BY <1>1
  <2> QED
    BY <2>1, <2>2, <2>3 DEF Own, InLibrary, Proc, At, InheritPcs
<1>4. ASSUME NEW q \in Procs \ {p} PROVE ProcOK(q)'
  <2>1. ProcOK(q) /\ tab'[q] = tab[q] /\ open'[q] = open[q]
    BY DEF IInv, ProcInv, OnlyIn
  <2>2. \A u \in Threads : /\ th'[u].proc = q <=> th[u].proc = q
                           /\ th[u].proc = q => th'[u] = th[u]
    BY <1>1
  <2>3. EntryOK(q)'
    BY <2>1, <2>2 DEF ProcOK, EntryOK, Proc, At, Free, Named
  <2>4. ApartOK(q)'
    BY <2>1, <2>2 DEF ProcOK, ApartOK, Proc, At
  <2>5. TableOK(q)'
    BY <2>1, <2>2 DEF ProcOK, TableOK, Proc, At, Free, Named, Works
  <2> QED
    BY <2>3, <2>4, <2>5 DEF ProcOK
<1>5. SourceInv'
  <2> SUFFICES ASSUME NEW u \in Threads, NEW c \in Procs, NEW j \in Slots,
                      th'[u].proc = c, th'[u].pc \in InheritPcs, th'[u].i <= j,
                      tab'[c][j].pid # "free"
               PROVE  \E q \in Procs : Keeps(q, j)' /\ tab'[q][j] = tab'[c][j]
    BY DEF SourceInv, Proc, Free
  <2>1. u # t /\ th'[u] = th[u]
    BY <1>1
  <2>2. c # p
    BY <1>1, <2>1 DEF IInv, ProcInv, ProcOK, ApartOK, Proc
  <2>3. tab'[c] = tab[c]
    BY <2>2 DEF OnlyIn
  <2>4. PICK q \in Procs : Keeps(q, j) /\ tab[q][j] = tab[c][j]
    BY <2>1, <2>3 DEF IInv, SourceInv, Proc, Free
  <2>5. Inheriting
    BY <2>1 DEF Inheriting
  <2>6. j \in open'[q] /\ tab'[q][j] = tab[q][j]
    BY <2>4, <2>5 DEF OnlyIn, Keeps
  <2>7. Keeps(q, j)'
    BY <1>2, <1>3, <2>4, <2>6 DEF Keeps
  <2> QED
    BY <2>3, <2>4, <2>6, <2>7
<1> QED
  BY <1>2, <1>3, <1>4, <1>5

-----------------------------------------------------------------------------
(* Steps that change no table: the calls, the reads, the services' answers.*)
Unwritten ==
    /\ tab' \in [Procs -> [Slots -> Entry]] /\ open' = open
    /\ \A q \in Procs, j \in Slots : tab'[q][j] = tab[q][j]

(* What makes such a step of t harmless.                                   *)
MayMove(t, p, pc, i, src, ans) ==
    /\ th[t].pc \notin InheritPcs \cup {"aborted"}
    /\ pc \notin InheritPcs \cup {"deinit"}
    /\ th[t].pc = "deinit" => pc = "aborted"
    /\ th[t].pc \in OwnLabels => pc \in OwnLabels \cup {"aborted"} /\ i = th[t].i
    /\ pc \in OwnLabels => th[t].pc \in OwnLabels /\ (pc # "close" => th[t].pc # "close")
    /\ pc \in {"link", "ask", "store"} => th[t].pc \in {"link", "ask", "store"}
    /\ pc = "claim" => i \in Slots
    /\ pc = "idle" => src = -1
    /\ ans # None => pc = "store"
    /\ src # -1 => src \in open[p]
    /\ At(t, "idle") => \A u \in Threads : Proc(u) = p => ~At(u, "deinit")

(* Such a step keeps everything but the objects.                           *)
LEMMA MoveKept ==
    ASSUME IInv, NEW t \in Threads, NEW p, NEW pc, NEW i, NEW src, NEW ans,
           Moves(t, p, pc, i, src, ans), Unwritten, MayMove(t, p, pc, i, src, ans)
    PROVE  LabelInv' /\ ProcInv' /\ SourceInv' /\ CleanInv'
<1> USE DEF MayMove
<1>1. /\ th'[t].proc = p /\ th[t].proc = p /\ p \in Procs /\ th'[t].pc = pc
      /\ th'[t].i = i /\ th'[t].src = src /\ th'[t].ans = ans
      /\ pc = "relink" => th'[t].links < MaxLinks
      /\ \A u \in Threads \ {t} : th'[u] = th[u]
  BY DEF Moves, Proc
<1>2. OnlyIn(p) /\ \A q \in Procs : tab'[q] = tab[q]
  <2>1. /\ tab' \in [Procs -> [Slots -> Entry]] /\ tab \in [Procs -> [Slots -> Entry]]
        /\ open \in [Procs -> SUBSET Slots] /\ open' = open
    BY Types DEF Unwritten, IInv
  <2>2. ASSUME NEW q \in Procs PROVE tab'[q] = tab[q]
    BY <2>1 DEF Unwritten
  <2> QED
    BY <2>1, <2>2 DEF OnlyIn
<1>3. LabelInv'
  BY <1>1, Given DEF IInv, LabelInv, Proc, At, OwnLabels, InheritPcs
<1>4. EntryOK(p)'
  <2>1. EntryOK(p) /\ tab'[p] = tab[p] /\ open'[p] = open[p]
    BY <1>1, <1>2 DEF IInv, ProcInv, ProcOK, Unwritten
  <2>2. ASSUME NEW u \in Threads \ {t}, th'[u].proc = p
        PROVE  /\ th'[u].src # -1 => th'[u].src \in open[p]
               /\ th'[u].pc \in OwnLabels => ~Free(p, th'[u].i) /\ th'[u].i \notin open[p]
               /\ th'[u].pc \in OwnLabels \ {"close"} => ~Named(p, th'[u].i)
               /\ th'[u].pc \in {"link", "ask", "store"} => tab[p][th'[u].i].pid = "service"
               /\ th'[u].pc = "renewed" => ~Free(p, th'[u].i)
    BY <1>1, <2>1, <2>2 DEF EntryOK, Proc, At
  <2>3. /\ src # -1 => src \in open[p]
        /\ pc \in OwnLabels => ~Free(p, i) /\ i \notin open[p]
        /\ pc \in OwnLabels \ {"close"} => ~Named(p, i)
        /\ pc \in {"link", "ask", "store"} => tab[p][i].pid = "service"
        /\ pc # "renewed"
    BY <1>1, <2>1 DEF EntryOK, Proc, At, OwnLabels, InheritPcs
  <2> QED
    BY <1>1, <2>1, <2>2, <2>3 DEF EntryOK, Proc, At, Free, Named
<1>5. ApartOK(p)'
  <2>1. ApartOK(p)
    BY <1>1 DEF IInv, ProcInv, ProcOK
  <2>2. ASSUME NEW u \in Threads, NEW v \in Threads, u # v, th'[u].proc = p, th'[v].proc = p
        PROVE  /\ th'[u].pc \in OwnLabels /\ th'[v].pc \in OwnLabels => th'[u].i # th'[v].i
               /\ th'[u].pc \notin InheritPcs
               /\ th'[u].pc = "deinit" => th'[v].pc = "idle"
    <3>1. th[u].proc = p /\ th[v].proc = p
      BY <1>1, <2>2
    <3>2. /\ th[u].pc \in OwnLabels /\ th[v].pc \in OwnLabels => th[u].i # th[v].i
          /\ th[u].pc \notin InheritPcs
          /\ th[u].pc = "deinit" => th[v].pc = "idle"
      BY <2>1, <2>2, <3>1 DEF ApartOK, Proc, At
    <3>3. CASE t \notin {u, v}
      BY <1>1, <3>2, <3>3
    <3>4. CASE u = t
      BY <1>1, <2>2, <3>2, <3>4
    <3>5. CASE v = t
      BY <1>1, <2>2, <3>1, <3>2, <3>5 DEF Proc, At
    <3> QED
      BY <3>3, <3>4, <3>5
  <2> QED
    BY <2>2 DEF ApartOK, Proc, At
<1>6. TableOK(p)'
  <2>1. TableOK(p) /\ tab'[p] = tab[p] /\ open'[p] = open[p]
    BY <1>1, <1>2 DEF IInv, ProcInv, ProcOK, Unwritten
  <2>2. ASSUME NEW u \in Threads, NEW j \in Slots, th'[u].proc = p
        PROVE  /\ j \in open[p] => tab[p][j].pid = "service" /\ Named(p, j)
               /\ Free(p, j) \/ j \in open[p] \/ \E v \in Threads : Works(v, p, j)
               /\ th'[u].pc = "deinit" => j \notin open[p] /\ (j < th'[u].i => Free(p, j))
               /\ th'[u].pc \in InheritPcs => Free(p, j) \/ j \in open[p]
    <3>1. th[u].proc = p
      BY <1>1, <2>2
    <3>2. th'[u].pc \in {"deinit"} \cup InheritPcs => th'[u] = th[u]
      BY <1>1
    <3> QED
      BY <2>1, <3>1, <3>2 DEF TableOK, Proc, At
  <2>3. \A v \in Threads, j \in Slots : Works(v, p, j) => Works(v, p, j)'
    BY <1>1 DEF Works, Proc, OwnLabels
  <2> QED
    BY <2>1, <2>2, <2>3 DEF TableOK, Proc, At, Free, Named
<1>7. (\A q \in Procs \ {p} : ProcOK(q)') /\ SourceInv'
  BY <1>1, <1>2, OthersKept DEF Unwritten
<1>8. CleanInv'
  BY <1>2 DEF IInv, CleanInv, Named
<1> QED
  BY <1>3, <1>4, <1>5, <1>6, <1>7, <1>8 DEF ProcInv, ProcOK

(* Steps that write the entry k that t has or now takes, and nothing else  *)
(* of the table.  The entry is still t's afterwards, or free, or open.     *)
Writes(p, k, e, O) ==
    /\ tab' = [tab EXCEPT ![p][k] = e]
    /\ open' = [open EXCEPT ![p] = O]

(* What makes such a step harmless.                                        *)
MayWrite(t, p, pc, i, src, ans, k, e, O) ==
    /\ k \in Slots /\ e \in Entry /\ O \in {open[p], open[p] \cup {k}}
    /\ th[t].i = k
    /\ th[t].pc \in OwnLabels \/ (At(t, "claim") /\ Free(p, k))
    /\ pc \in {"idle", "look"} \cup OwnLabels
    /\ pc \in OwnLabels => /\ i = k /\ e.pid # "free" /\ O = open[p]
                           /\ pc # "close" /\ e.id = None
    /\ pc \in {"link", "ask", "store"} => e.pid = "service"
    /\ pc \notin OwnLabels => \/ e.pid = "free" /\ O = open[p]
                              \/ e.pid = "service" /\ e.id # None /\ k \in O
    /\ e.pid # "service" => e.id = None
    /\ pc = "idle" => src = -1
    /\ src # -1 => src \in open[p]
    /\ ans # None => pc = "store"

(* Such a step keeps everything but the objects.                           *)
LEMMA WriteKept ==
    ASSUME IInv, NEW t \in Threads, NEW p, NEW pc, NEW i, NEW src, NEW ans,
           Moves(t, p, pc, i, src, ans), NEW k, NEW e, NEW O,
           Writes(p, k, e, O), MayWrite(t, p, pc, i, src, ans, k, e, O)
    PROVE  /\ LabelInv' /\ ProcInv' /\ SourceInv' /\ CleanInv'
           /\ OnlyIn(p) /\ th[t].pc \notin InheritPcs /\ pc \notin InheritPcs
           /\ \A j \in open[p] : j \in open'[p] /\ tab'[p][j] = tab[p][j]
<1> USE DEF MayWrite
<1>1. /\ th'[t].proc = p /\ th[t].proc = p /\ p \in Procs /\ th'[t].pc = pc
      /\ th'[t].i = i /\ th'[t].src = src /\ th'[t].ans = ans
      /\ pc = "relink" => th'[t].links < MaxLinks
      /\ \A u \in Threads \ {t} : th'[u] = th[u]
  BY DEF Moves, Proc
<1>2. /\ tab' \in [Procs -> [Slots -> Entry]] /\ tab'[p][k] = e
      /\ open' \in [Procs -> SUBSET Slots] /\ open'[p] = O
      /\ \A j \in Slots \ {k} : tab'[p][j] = tab[p][j]
      /\ \A q \in Procs \ {p} : tab'[q] = tab[q] /\ open'[q] = open[q]
  <2>1. tab \in [Procs -> [Slots -> Entry]] /\ open \in [Procs -> SUBSET Slots] /\ p \in Procs
    BY <1>1, Types DEF IInv
  <2> QED
    BY <2>1 DEF Writes
<1>3. OnlyIn(p)
  BY <1>2 DEF OnlyIn
<1>4. EntryOK(p) /\ ApartOK(p) /\ TableOK(p)
  BY <1>1 DEF IInv, ProcInv, ProcOK
<1>5. k \notin open[p]
  BY <1>1, <1>4 DEF EntryOK, TableOK, Proc, Free, At, Named
<1>6. /\ open[p] \subseteq open'[p]
      /\ \A j \in open[p] : j \in Slots /\ j # k /\ tab'[p][j] = tab[p][j]
  <2>1. open[p] \in SUBSET Slots
    BY <1>1, Types DEF IInv
  <2> QED
    BY <1>2, <1>5, <2>1
<1>7. /\ th[t].pc \notin InheritPcs /\ pc \notin InheritPcs
      /\ th[t].pc \notin {"idle", "deinit", "aborted"} /\ pc \notin {"deinit", "aborted"}
  BY DEF OwnLabels, InheritPcs, At
<1>8. LabelInv'
  BY <1>1, <1>7, Given DEF IInv, LabelInv, Proc, At, OwnLabels, InheritPcs
<1>9. CleanInv'
  <2> SUFFICES ASSUME NEW q \in Procs, NEW j \in Slots, tab'[q][j].pid # "service"
               PROVE  tab'[q][j].id = None
    BY DEF CleanInv, Named
  <2>1. CASE q = p /\ j = k
    BY <1>2, <2>1
  <2>2. CASE ~(q = p /\ j = k)
    BY <1>2, <2>2 DEF IInv, CleanInv, Named
  <2> QED
    BY <2>1, <2>2
<1>10. \A u \in Threads \ {t} : th[u].proc = p /\ th[u].pc \in OwnLabels => th[u].i # k
  <2> SUFFICES ASSUME NEW u \in Threads \ {t}, th[u].proc = p, th[u].pc \in OwnLabels,
                      th[u].i = k
               PROVE  FALSE
    OBVIOUS
  <2>1. th[t].pc \in OwnLabels \/ Free(p, k)
    OBVIOUS
  <2> QED
    BY <1>1, <1>4, <2>1 DEF ApartOK, EntryOK, Proc, At, Free
<1>11. EntryOK(p)'
  <2>1. ASSUME NEW u \in Threads \ {t}, th'[u].proc = p
        PROVE  /\ th'[u].src # -1 => th'[u].src \in open'[p]
               /\ th'[u].pc \in OwnLabels => tab'[p][th'[u].i].pid # "free" /\ th'[u].i \notin open'[p]
               /\ th'[u].pc \in OwnLabels \ {"close"} => tab'[p][th'[u].i].id = None
               /\ th'[u].pc \in {"link", "ask", "store"} => tab'[p][th'[u].i].pid = "service"
               /\ th'[u].pc # "renewed"
    <3>1. th'[u] = th[u] /\ th[u].proc = p
      BY <1>1, <2>1
    <3>2. /\ th[u].src # -1 => th[u].src \in open[p]
          /\ th[u].pc \in OwnLabels => ~Free(p, th[u].i) /\ th[u].i \notin open[p]
          /\ th[u].pc \in OwnLabels \ {"close"} => ~Named(p, th[u].i)
          /\ th[u].pc \in {"link", "ask", "store"} => tab[p][th[u].i].pid = "service"
      BY <1>4, <3>1 DEF EntryOK, Proc
    <3>3. th[u].pc \in OwnLabels => /\ th[u].i \in Slots \ {k}
                                    /\ tab'[p][th[u].i] = tab[p][th[u].i]
      BY <1>2, <1>10, <3>1 DEF IInv, LabelInv, OwnLabels
    <3>4. th[u].pc # "renewed"
      BY <1>1, <1>4, <3>1 DEF ApartOK, Proc, InheritPcs
    <3> QED
      BY <1>2, <1>6, <3>1, <3>2, <3>3, <3>4 DEF Free, Named, OwnLabels
  <2>2. /\ src # -1 => src \in open'[p]
        /\ pc \in OwnLabels => tab'[p][i].pid # "free" /\ i \notin open'[p] /\ tab'[p][i].id = None
        /\ pc \in {"link", "ask", "store"} => tab'[p][i].pid = "service"
        /\ pc # "renewed"
    BY <1>2, <1>5, <1>6, <1>7 DEF OwnLabels, InheritPcs
  <2> QED
    BY <1>1, <2>1, <2>2 DEF EntryOK, Proc, At, Free, Named
<1>12. ApartOK(p)'
  <2>1. ASSUME NEW u \in Threads, NEW v \in Threads, u # v, th'[u].proc = p, th'[v].proc = p
        PROVE  /\ th'[u].pc \in OwnLabels /\ th'[v].pc \in OwnLabels => th'[u].i # th'[v].i
               /\ th'[u].pc \notin InheritPcs
               /\ th'[u].pc = "deinit" => th'[v].pc = "idle"
    <3>1. th[u].proc = p /\ th[v].proc = p
      BY <1>1, <2>1
    <3>2. /\ th[u].pc \in OwnLabels /\ th[v].pc \in OwnLabels => th[u].i # th[v].i
          /\ th[u].pc \notin InheritPcs
          /\ th[u].pc = "deinit" => th[v].pc = "idle"
      BY <1>4, <2>1, <3>1 DEF ApartOK, Proc, At
    <3>3. CASE t \notin {u, v}
      BY <1>1, <3>2, <3>3
    <3>4. CASE u = t
      BY <1>1, <1>7, <1>10, <2>1, <3>1, <3>4
    <3>5. CASE v = t
      BY <1>1, <1>7, <1>10, <2>1, <3>1, <3>2, <3>5
    <3> QED
      BY <3>3, <3>4, <3>5
  <2> QED
    BY <2>1 DEF ApartOK, Proc, At
<1>13. TableOK(p)'
  <2>1. ASSUME NEW u \in Threads, th'[u].proc = p
        PROVE  th'[u].pc # "deinit" /\ th'[u].pc \notin InheritPcs
    <3>1. CASE u = t
      BY <1>1, <1>7, <3>1
    <3>2. CASE u # t
      BY <1>1, <1>4, <1>7, <2>1, <3>2 DEF ApartOK, Proc, At
    <3> QED
      BY <3>1, <3>2
  <2>2. ASSUME NEW j \in Slots
        PROVE  /\ j \in open'[p] => tab'[p][j].pid = "service" /\ tab'[p][j].id # None
               /\ tab'[p][j].pid = "free" \/ j \in open'[p] \/ \E v \in Threads : Works(v, p, j)'
    <3>0. /\ j \in open[p] => tab[p][j].pid = "service" /\ Named(p, j)
          /\ Free(p, j) \/ j \in open[p] \/ \E v \in Threads : Works(v, p, j)
      BY <1>1, <1>4 DEF TableOK, Proc
    <3>1. CASE j = k
      <4>1. pc \in OwnLabels => Works(t, p, k)'
        BY <1>1 DEF Works, Proc
      <4> QED
        BY <1>2, <1>5, <3>1, <4>1
    <3>2. CASE j # k
      <4>1. \A v \in Threads : Works(v, p, j) => Works(v, p, j)'
        BY <1>1, <1>7, <3>2 DEF Works, Proc
      <4> QED
        BY <1>2, <3>0, <3>2, <4>1 DEF Free, Named
    <3> QED
      BY <3>1, <3>2
  <2> QED
    BY <2>1, <2>2 DEF TableOK, Proc, At, Free, Named
<1>14. (\A q \in Procs \ {p} : ProcOK(q)') /\ SourceInv'
  BY <1>3, <1>6, <1>7, OthersKept
<1> QED
  BY <1>3, <1>6, <1>7, <1>8, <1>9, <1>11, <1>12, <1>13, <1>14 DEF ProcInv, ProcOK

-----------------------------------------------------------------------------
(* The objects.  What an entry holds after the step it held before, and    *)
(* what was known to a running process still is.                           *)
HeldBefore(q, j) == Holds(q, j)' => Holds(q, j) /\ tab'[q][j].id = tab[q][j].id

StillKnown(a) == \E r \in Procs, k \in Slots : Runs(r)' /\ tab'[r][k].id = a

(* Steps that leave the objects alone.                                     *)
LEMMA ObjectsKept ==
    ASSUME IInv, live' = live, dying' = dying,
           \A u \in Threads : th'[u].ans = th[u].ans,
           \A q \in Procs, j \in Slots : HeldBefore(q, j),
           \A q \in Procs, j \in Slots :
               Runs(q) /\ Named(q, j) => StillKnown(tab[q][j].id)
    PROVE  ObjectInv'
<1>1. HeldInv'
  BY DEF IInv, ObjectInv, HeldInv, HeldBefore
<1>2. CarriedInv' /\ DyingInv'
  BY DEF IInv, ObjectInv, CarriedInv, DyingInv
<1>3. KnownInv'
  <2> SUFFICES ASSUME NEW a \in live, dying[a] = 0, \A u \in Threads : th[u].ans # a
               PROVE  StillKnown(a)
    BY DEF KnownInv, StillKnown
  <2>1. PICK q \in Procs, j \in Slots : Runs(q) /\ tab[q][j].id = a
    BY DEF IInv, ObjectInv, KnownInv
  <2>2. a # None
    BY Given, Types DEF IInv
  <2> QED
    BY <2>1, <2>2 DEF Named
<1> QED
  BY <1>1, <1>2, <1>3 DEF ObjectInv

(* A service makes an object; its answer is on its way to t.               *)
LEMMA ObjectBorn ==
    ASSUME IInv, NEW t \in Threads, NEW a \in Ids \ live, live' = live \cup {a}, dying' = dying,
           th[t].ans = None, th'[t].ans = a,
           \A u \in Threads \ {t} : th'[u].ans = th[u].ans,
           \A q \in Procs, j \in Slots : HeldBefore(q, j),
           \A q \in Procs, j \in Slots :
               Runs(q) /\ Named(q, j) => StillKnown(tab[q][j].id)
    PROVE  ObjectInv'
<1>1. dying[a] = 0 /\ \A u \in Threads : th[u].ans # a
  <2>1. a # None
    BY Given
  <2> QED
    BY <2>1 DEF IInv, ObjectInv, DyingInv, CarriedInv
<1>2. HeldInv'
  BY <1>1 DEF IInv, ObjectInv, HeldInv, HeldBefore
<1>3. CarriedInv' /\ DyingInv'
  BY <1>1 DEF IInv, ObjectInv, CarriedInv, DyingInv
<1>4. KnownInv'
  <2> SUFFICES ASSUME NEW b \in live, dying[b] = 0, \A u \in Threads : th'[u].ans # b, b # a
               PROVE  StillKnown(b)
    BY <1>1 DEF KnownInv, StillKnown
  <2>1. b # None
    BY Given, Types DEF IInv
  <2>2. PICK q \in Procs, j \in Slots : Runs(q) /\ tab[q][j].id = b
    BY <2>1 DEF IInv, ObjectInv, KnownInv
  <2> QED
    BY <2>1, <2>2 DEF Named
<1> QED
  BY <1>2, <1>3, <1>4 DEF ObjectInv

(* The address that t carries is stored in entry k of p.                   *)
LEMMA ObjectStored ==
    ASSUME IInv, NEW t \in Threads, NEW p \in Procs, NEW k \in Slots,
           live' = live, dying' = dying, th[t].ans # None, th'[t].ans = None,
           \A u \in Threads \ {t} : th'[u].ans = th[u].ans,
           Runs(p)', tab'[p][k].id = th[t].ans,
           \A q \in Procs, j \in Slots : ~(q = p /\ j = k) => HeldBefore(q, j),
           \A q \in Procs, j \in Slots :
               Runs(q) /\ Named(q, j) => StillKnown(tab[q][j].id)
    PROVE  ObjectInv'
<1>1. /\ th[t].ans \in live /\ dying[th[t].ans] = 0
      /\ \A u \in Threads \ {t} : th[u].ans # th[t].ans
  BY DEF IInv, ObjectInv, CarriedInv
<1>2. \A q \in Procs, j \in Slots :
          Holds(q, j)' => /\ ~(q = p /\ j = k) => Holds(q, j) /\ tab'[q][j].id = tab[q][j].id
                                                 /\ tab'[q][j].id # th[t].ans
                          /\ q = p /\ j = k => tab'[q][j].id = th[t].ans
  BY DEF HeldBefore, IInv, ObjectInv, HeldInv
<1>3. HeldInv'
  <2> SUFFICES ASSUME NEW q \in Procs, NEW j \in Slots, Holds(q, j)'
               PROVE  /\ tab'[q][j].id \in live /\ dying[tab'[q][j].id] = 0
                      /\ \A r \in Procs, l \in Slots :
                            Holds(r, l)' /\ tab'[r][l].id = tab'[q][j].id => r = q /\ l = j
                      /\ \A u \in Threads : th'[u].ans # tab'[q][j].id
    BY DEF HeldInv
  <2>1. CASE q = p /\ j = k
    BY <1>1, <1>2, <2>1
  <2>2. CASE ~(q = p /\ j = k)
    <3>1. Holds(q, j) /\ tab'[q][j].id = tab[q][j].id /\ tab[q][j].id # th[t].ans
      BY <1>2, <2>2
    <3>2. /\ tab[q][j].id \in live /\ dying[tab[q][j].id] = 0
          /\ \A r \in Procs, l \in Slots :
                Holds(r, l) /\ tab[r][l].id = tab[q][j].id => r = q /\ l = j
          /\ \A u \in Threads : th[u].ans # tab[q][j].id
      BY <3>1 DEF IInv, ObjectInv, HeldInv
    <3>3. tab[q][j].id # None
      BY <3>1 DEF Holds, Named
    <3> QED
      BY <1>2, <2>2, <3>1, <3>2, <3>3
  <2> QED
    BY <2>1, <2>2
<1>4. CarriedInv' /\ DyingInv'
  BY <1>1 DEF IInv, ObjectInv, CarriedInv, DyingInv
<1>5. KnownInv'
  <2> SUFFICES ASSUME NEW b \in live, dying[b] = 0, \A u \in Threads : th'[u].ans # b
               PROVE  StillKnown(b)
    BY DEF KnownInv, StillKnown
  <2>1. CASE b = th[t].ans
    BY <2>1 DEF StillKnown
  <2>2. CASE b # th[t].ans
    <3>1. b # None
      BY Given, Types DEF IInv
    <3>2. PICK q \in Procs, j \in Slots : Runs(q) /\ tab[q][j].id = b
      BY <2>2 DEF IInv, ObjectInv, KnownInv
    <3> QED
      BY <3>1, <3>2 DEF Named
  <2> QED
    BY <2>1, <2>2
<1> QED
  BY <1>3, <1>4, <1>5 DEF ObjectInv

(* One more message is under way that destroys a.                          *)
Dooms(a) == dying' = [dying EXCEPT ![a] = @ + 1]

(* The entry k of p gives up its object, and the message that destroys it  *)
(* is sent.                                                                *)
LEMMA ObjectDoomed ==
    ASSUME IInv, NEW p \in Procs, NEW k \in Slots, Holds(p, k), ~Holds(p, k)',
           live' = live, Dooms(tab[p][k].id),
           \A u \in Threads : th'[u].ans = th[u].ans,
           \A q \in Procs, j \in Slots : HeldBefore(q, j),
           \A q \in Procs, j \in Slots :
               Runs(q) /\ Named(q, j) /\ tab[q][j].id # tab[p][k].id
                   => StillKnown(tab[q][j].id)
    PROVE  ObjectInv'
<1> DEFINE a == tab[p][k].id
<1>1. /\ a \in live /\ a \in Ids /\ dying[a] = 0 /\ live \in SUBSET Ids
      /\ \A q \in Procs, j \in Slots : Holds(q, j) /\ tab[q][j].id = a => q = p /\ j = k
      /\ \A u \in Threads : th[u].ans # a
      /\ dying'[a] = 1 /\ \A b \in Ids \ {a} : dying'[b] = dying[b]
  BY Types DEF IInv, ObjectInv, HeldInv, Dooms
<1>2. HeldInv'
  BY <1>1 DEF IInv, ObjectInv, HeldInv, HeldBefore
<1>3. CarriedInv'
  BY <1>1 DEF IInv, ObjectInv, CarriedInv
<1>4. DyingInv'
  BY <1>1 DEF IInv, ObjectInv, DyingInv
<1>5. KnownInv'
  <2> SUFFICES ASSUME NEW b \in live, b # a, dying[b] = 0, \A u \in Threads : th[u].ans # b
               PROVE  StillKnown(b)
    BY <1>1 DEF KnownInv, StillKnown
  <2>1. PICK q \in Procs, j \in Slots : Runs(q) /\ tab[q][j].id = b
    BY DEF IInv, ObjectInv, KnownInv
  <2>2. b # None
    BY <1>1, Given
  <2> QED
    BY <2>1, <2>2 DEF Named
<1> QED
  BY <1>2, <1>3, <1>4, <1>5 DEF ObjectInv

(* service_destroy_pipe: the popup destroys an object that nobody names.   *)
LEMMA DestroyedInv ==
    ASSUME IInv, NEW a \in Ids, service_destroy_pipe(a)
    PROVE  IInv'
<1>1. /\ UNCHANGED <<tab, lck, th, open, failed>>
      /\ live' = live \ {a} /\ dying' = [dying EXCEPT ![a] = @ - 1] /\ dying[a] > 0
  BY DEF service_destroy_pipe
<1>2. /\ dying[a] = 1 /\ a \in live /\ dying \in [Ids -> Nat] /\ live \in SUBSET Ids
      /\ dying'[a] = 0 /\ \A b \in Ids \ {a} : dying'[b] = dying[b]
  <2>1. dying \in [Ids -> Nat] /\ live \in SUBSET Ids
    BY Types DEF IInv
  <2>2. dying[a] = 1 /\ a \in live
    BY <1>1, <2>1 DEF IInv, ObjectInv, DyingInv
  <2> QED
    BY <1>1, <2>1, <2>2
<1>3. TypeOK'
  <2>1. /\ tab \in [Procs -> [Slots -> Entry]] /\ lck \in [Procs -> Threads \cup {None}]
        /\ th \in [Threads -> Thread] /\ open \in [Procs -> SUBSET Slots]
        /\ failed \in SUBSET {"lock", "duplicate"}
    BY Types DEF IInv
  <2>2. live' \in SUBSET Ids /\ dying' \in [Ids -> Nat]
    BY <1>1, <1>2
  <2> QED
    BY <1>1, <2>1, <2>2, TypesAfter
<1>4. CleanInv' /\ LabelInv' /\ ProcInv' /\ SourceInv'
  BY <1>1 DEF IInv, CleanInv, LabelInv, ProcInv, ProcOK, EntryOK, ApartOK, TableOK, SourceInv,
              Keeps, Runs, Own, InLibrary, Named, Free, Works, Proc, At
<1>5. HeldInv'
  BY <1>1, <1>2 DEF IInv, ObjectInv, HeldInv, Holds, Runs, Named, Own, InLibrary, Proc, At
<1>6. CarriedInv' /\ DyingInv'
  BY <1>1, <1>2 DEF IInv, ObjectInv, CarriedInv, DyingInv
<1>7. KnownInv'
  BY <1>1, <1>2 DEF IInv, ObjectInv, KnownInv, Runs, Proc
<1> QED
  BY <1>3, <1>4, <1>5, <1>6, <1>7 DEF IInv, ObjectInv

-----------------------------------------------------------------------------
(* Types of what steps seldom change.                                      *)
LEMMA Parts ==
    ASSUME IInv
    PROVE  /\ tab \in [Procs -> [Slots -> Entry]] /\ lck \in [Procs -> Threads \cup {None}]
           /\ th \in [Threads -> Thread] /\ open \in [Procs -> SUBSET Slots]
           /\ live \in SUBSET Ids /\ dying \in [Ids -> Nat]
           /\ failed \in SUBSET {"lock", "duplicate"}
           /\ \A t \in Threads : ~At(t, "idle") \/ Proc(t) # None => Proc(t) \in Procs
<1>1. /\ tab \in [Procs -> [Slots -> Entry]] /\ lck \in [Procs -> Threads \cup {None}]
      /\ th \in [Threads -> Thread] /\ open \in [Procs -> SUBSET Slots]
      /\ live \in SUBSET Ids /\ dying \in [Ids -> Nat]
      /\ failed \in SUBSET {"lock", "duplicate"}
  BY Types DEF IInv
<1>2. \A t \in Threads : ~At(t, "idle") \/ Proc(t) # None => Proc(t) \in Procs
  BY <1>1 DEF IInv, LabelInv, Proc, Thread
<1> QED
  BY <1>1, <1>2

(* A step that changes no table keeps the invariant; at most it carries a  *)
(* new object's address.                                                   *)
LEMMA MoveInv ==
    ASSUME IInv, NEW t \in Threads, NEW p, NEW pc, NEW i, NEW src, NEW ans,
           Moves(t, p, pc, i, src, ans), Unwritten, MayMove(t, p, pc, i, src, ans),
           lck' \in [Procs -> Threads \cup {None}], failed' \in SUBSET {"lock", "duplicate"},
           dying' = dying,
           \/ live' = live /\ ans = th[t].ans
           \/ ans \in Ids \ live /\ live' = live \cup {ans} /\ th[t].ans = None
    PROVE  IInv'
<1>1. LabelInv' /\ ProcInv' /\ SourceInv' /\ CleanInv'
  BY MoveKept
<1>2. /\ tab' \in [Procs -> [Slots -> Entry]] /\ th' \in [Threads -> Thread]
      /\ open' \in [Procs -> SUBSET Slots] /\ live' \in SUBSET Ids /\ dying' \in [Ids -> Nat]
      /\ p \in Procs
  BY Parts DEF Moves, Unwritten
<1>3. TypeOK'
  BY <1>2, TypesAfter
<1>4. OnlyIn(p) /\ \A j \in open[p] : j \in open'[p] /\ tab'[p][j] = tab[p][j]
  <2>1. \A q \in Procs : tab'[q] = tab[q]
    <3> SUFFICES ASSUME NEW q \in Procs PROVE tab'[q] = tab[q]
      OBVIOUS
    <3>1. tab'[q] \in [Slots -> Entry] /\ tab[q] \in [Slots -> Entry]
      BY <1>2, Parts
    <3> QED
      BY <3>1 DEF Unwritten
  <2> QED
    BY <1>2, <2>1 DEF OnlyIn, Unwritten
<1>5. /\ \A q \in Procs : Runs(q)' <=> Runs(q)
      /\ \A q \in Procs, j \in Slots : Own(q, j)' <=> Own(q, j)
  BY <1>4, OthersKept DEF MayMove
<1>6. \A q \in Procs, j \in Slots : HeldBefore(q, j)
  BY <1>5 DEF HeldBefore, Holds, Named, Unwritten
<1>7. \A q \in Procs, j \in Slots : Runs(q) /\ Named(q, j) => StillKnown(tab[q][j].id)
  BY <1>5 DEF StillKnown, Unwritten
<1>8. th'[t].ans = ans /\ \A u \in Threads \ {t} : th'[u].ans = th[u].ans
  BY DEF Moves
<1>9. ObjectInv'
  <2>1. CASE live' = live /\ ans = th[t].ans
    BY <1>6, <1>7, <1>8, <2>1, ObjectsKept
  <2>2. CASE ans \in Ids \ live /\ live' = live \cup {ans} /\ th[t].ans = None
    BY <1>6, <1>7, <1>8, <2>2, ObjectBorn
  <2> QED
    BY <2>1, <2>2
<1> QED
  BY <1>1, <1>3, <1>9 DEF IInv

(* Thread t's new record, spelled out.                                     *)
LEMMA Steps ==
    ASSUME IInv, NEW t \in Threads, Proc(t) \in Procs, NEW r \in Thread,
           th' = [th EXCEPT ![t] = r], r.proc = Proc(t),
           r.pc = "relink" => r.links < MaxLinks
    PROVE  Moves(t, Proc(t), r.pc, r.i, r.src, r.ans)
BY Parts DEF Moves

(* create_pipe begins.                                                     *)
LEMMA create_pipeInv ==
    ASSUME IInv, Careful, NEW t \in Threads, create_pipe(t)
    PROVE  IInv'
<1>1. /\ th' = [th EXCEPT ![t] = [Idle(Proc(t)) EXCEPT !.pc = "look"]]
      /\ UNCHANGED <<tab, lck, open, live, dying, failed>>
      /\ At(t, "idle") /\ Proc(t) \in Procs
      /\ \A u \in Threads : Proc(u) = Proc(t) => ~At(u, "deinit")
  BY Parts DEF create_pipe, MayCall, InLibrary, At
<1> DEFINE r == [Idle(Proc(t)) EXCEPT !.pc = "look"]
<1>2. /\ th' = [th EXCEPT ![t] = r] /\ r \in Thread /\ r.proc = Proc(t)
      /\ r.pc = "look" /\ r.i = 0 /\ r.src = -1 /\ r.ans = None
  BY <1>1, Given DEF Idle, Thread, Pcs
<1>3. Moves(t, Proc(t), "look", 0, -1, None)
  BY <1>1, <1>2, Steps
<1>4. MayMove(t, Proc(t), "look", 0, -1, None) /\ th[t].ans = None
  BY <1>1 DEF MayMove, At, OwnLabels, InheritPcs, IInv, LabelInv
<1>5. Unwritten
  BY <1>1, Parts DEF Unwritten
<1> QED
  BY <1>1, <1>3, <1>4, <1>5, Parts, MoveInv

(* duplicate_pipe begins, with a pipe that the program has.                *)
LEMMA duplicate_pipeInv ==
    ASSUME IInv, Careful, NEW t \in Threads, duplicate_pipe(t)
    PROVE  IInv'
<1>1. PICK s \in open[Proc(t)], dest \in Slots :
        th' = [th EXCEPT ![t] = [Idle(Proc(t)) EXCEPT !.pc = "look", !.i = dest, !.src = s]]
  BY DEF duplicate_pipe
<1>2. /\ UNCHANGED <<tab, lck, open, live, dying, failed>>
      /\ At(t, "idle") /\ Proc(t) \in Procs /\ s \in Slots
      /\ \A u \in Threads : Proc(u) = Proc(t) => ~At(u, "deinit")
  BY Parts DEF duplicate_pipe, MayCall, InLibrary, At
<1> DEFINE r == [Idle(Proc(t)) EXCEPT !.pc = "look", !.i = dest, !.src = s]
<1>3. /\ th' = [th EXCEPT ![t] = r] /\ r \in Thread /\ r.proc = Proc(t)
      /\ r.pc = "look" /\ r.i = dest /\ r.src = s /\ r.ans = None
  <2>1. Idle(Proc(t)) \in Thread
    BY <1>2, Given DEF Idle, Thread, Pcs
  <2>2. dest \in 0 .. NPipes
    BY Given
  <2>3. r.proc = Proc(t) /\ r.pc = "look" /\ r.i = dest /\ r.src = s /\ r.ans = None
    BY DEF Idle
  <2>4. r \in Thread
    BY <1>2, <2>1, <2>2 DEF Thread, Pcs
  <2> QED
    BY <1>1, <2>3, <2>4
<1>4. Moves(t, Proc(t), "look", dest, s, None)
  BY <1>2, <1>3, Steps
<1>5. MayMove(t, Proc(t), "look", dest, s, None) /\ th[t].ans = None
  BY <1>1, <1>2 DEF MayMove, At, OwnLabels, InheritPcs, IInv, LabelInv
<1>6. Unwritten
  BY <1>2, Parts DEF Unwritten
<1> QED
  BY <1>2, <1>4, <1>5, <1>6, Parts, MoveInv

(* The search goes on, ends, or has found a free entry.                    *)
LEMMA LookInv ==
    ASSUME IInv, NEW t \in Threads, Look(t)
    PROVE  IInv'
<1>1. /\ At(t, "look") /\ Proc(t) \in Procs /\ th[t] \in Thread
      /\ UNCHANGED <<tab, lck, open, live, dying, failed>>
      /\ th[t].src # -1 => th[t].src \in open[Proc(t)]
      /\ th[t].ans = None
  BY Parts DEF Look, At, IInv, LabelInv, ProcInv, ProcOK, EntryOK
<1>2. Unwritten
  BY <1>1, Parts DEF Unwritten
<1>3. CASE th[t].i = NPipes
  <2> DEFINE r == [proc |-> Proc(t), pc |-> "idle", i |-> 0, src |-> -1, ans |-> None, links |-> 0]
  <2>1. th' = [th EXCEPT ![t] = r] /\ r \in Thread /\ r.proc = Proc(t)
    BY <1>1, <1>3, Given, Parts DEF Look, Idle, Thread, Pcs, Proc
  <2>2. Moves(t, Proc(t), "idle", 0, -1, None)
    BY <1>1, <2>1, Steps
  <2>3. MayMove(t, Proc(t), "idle", 0, -1, None)
    BY <1>1 DEF MayMove, At, OwnLabels, InheritPcs
  <2> QED
    BY <1>1, <1>2, <2>2, <2>3, Parts, MoveInv
<1>4. CASE th[t].i # NPipes /\ Free(Proc(t), th[t].i)
  <2> DEFINE r == [th[t] EXCEPT !.pc = "claim"]
  <2>1. th' = [th EXCEPT ![t] = r] /\ r \in Thread /\ r.proc = Proc(t)
    BY <1>1, <1>4, Parts DEF Look, Thread, Pcs, Proc, Free
  <2>2. /\ r.pc = "claim" /\ r.i = th[t].i /\ r.src = th[t].src /\ r.ans = th[t].ans
        /\ th[t].i \in Slots
    BY <1>1, <1>4, Given DEF Thread
  <2>3. Moves(t, Proc(t), "claim", th[t].i, th[t].src, th[t].ans)
    BY <1>1, <2>1, <2>2, Steps
  <2>4. MayMove(t, Proc(t), "claim", th[t].i, th[t].src, th[t].ans)
    BY <1>1, <2>2 DEF MayMove, At, OwnLabels, InheritPcs
  <2> QED
    BY <1>1, <1>2, <2>3, <2>4, Parts, MoveInv
<1>5. CASE th[t].i # NPipes /\ ~Free(Proc(t), th[t].i)
  <2> DEFINE r == [th[t] EXCEPT !.i = th[t].i + 1]
  <2>0. th[t].i + 1 \in 0 .. NPipes
    BY <1>1, <1>5, Given DEF Thread
  <2>1. th' = [th EXCEPT ![t] = r] /\ r \in Thread /\ r.proc = Proc(t)
    <3>1. th' = [th EXCEPT ![t] = r]
      BY <1>5, Parts DEF Look, Proc, Free
    <3>2. r \in Thread /\ r.proc = Proc(t)
      BY <1>1, <2>0 DEF Thread, Proc
    <3> QED
      BY <3>1, <3>2
  <2>2. r.pc = "look" /\ r.i = th[t].i + 1 /\ r.src = th[t].src /\ r.ans = th[t].ans
    BY <1>1 DEF Thread, At
  <2>3. Moves(t, Proc(t), "look", th[t].i + 1, th[t].src, th[t].ans)
    BY <1>1, <2>1, <2>2, Steps
  <2>4. MayMove(t, Proc(t), "look", th[t].i + 1, th[t].src, th[t].ans)
    BY <1>1, <2>2 DEF MayMove, At, OwnLabels, InheritPcs
  <2> QED
    BY <1>1, <1>2, <2>3, <2>4, Parts, MoveInv
<1> QED
  BY <1>3, <1>4, <1>5

(* The lock was taken: the entry is no longer free, and the search goes on.*)
LEMMA ClaimLostInv ==
    ASSUME IInv, NEW t \in Threads, Claim(t), ~Free(Proc(t), th[t].i)
    PROVE  IInv'
<1>1. /\ At(t, "claim") /\ Proc(t) \in Procs /\ th[t] \in Thread /\ th[t].i \in Slots
      /\ UNCHANGED <<tab, open, live, dying, failed>>
      /\ lck' = [lck EXCEPT ![Proc(t)] = t]
      /\ th' = [th EXCEPT ![t].pc = "look", ![t].i = th[t].i + 1]
      /\ th[t].src # -1 => th[t].src \in open[Proc(t)]
      /\ th[t].ans = None
  BY Parts DEF Claim, At, IInv, LabelInv, ProcInv, ProcOK, EntryOK, Free
<1>2. Moves(t, Proc(t), "look", th[t].i + 1, th[t].src, th[t].ans)
  <2> DEFINE r == [th[t] EXCEPT !.pc = "look", !.i = th[t].i + 1]
  <2>1. th' = [th EXCEPT ![t] = r]
    BY <1>1, Parts
  <2>2. th[t].i + 1 \in 0 .. NPipes
    BY <1>1, Given
  <2>3. /\ r \in Thread /\ r.proc = Proc(t) /\ r.pc = "look" /\ r.i = th[t].i + 1
        /\ r.src = th[t].src /\ r.ans = th[t].ans
    BY <1>1, <2>2 DEF Thread, Pcs, Proc
  <2> QED
    BY <1>1, <2>1, <2>3, Steps
<1>3. MayMove(t, Proc(t), "look", th[t].i + 1, th[t].src, th[t].ans)
  BY <1>1 DEF MayMove, At, OwnLabels, InheritPcs
<1>4. Unwritten /\ lck' \in [Procs -> Threads \cup {None}]
  BY <1>1, Parts DEF Unwritten
<1> QED
  BY <1>1, <1>2, <1>3, <1>4, Parts, MoveInv

(* assert(owner != mypid): the thread never returns.                       *)
LEMMA LockAssertInv ==
    ASSUME IInv, NEW t \in Threads, LockAssert(t)
    PROVE  IInv'
<1>1. /\ th[t].pc \in {"claim", "undo", "relink", "close", "deinit"}
      /\ Proc(t) \in Procs /\ th[t] \in Thread
      /\ UNCHANGED <<tab, lck, open, live, dying>>
      /\ failed' = failed \cup {"lock"}
      /\ th' = [th EXCEPT ![t].pc = "aborted"]
      /\ th[t].src # -1 => th[t].src \in open[Proc(t)]
      /\ th[t].ans = None
  BY Parts DEF LockAssert, At, IInv, LabelInv, ProcInv, ProcOK, EntryOK
<1>2. Moves(t, Proc(t), "aborted", th[t].i, th[t].src, th[t].ans)
  <2> DEFINE r == [th[t] EXCEPT !.pc = "aborted"]
  <2>1. th' = [th EXCEPT ![t] = r]
    BY <1>1, Parts
  <2>2. /\ r \in Thread /\ r.proc = Proc(t) /\ r.pc = "aborted" /\ r.i = th[t].i
        /\ r.src = th[t].src /\ r.ans = th[t].ans
    BY <1>1 DEF Thread, Pcs, Proc
  <2> QED
    BY <1>1, <2>1, <2>2, Steps
<1>3. MayMove(t, Proc(t), "aborted", th[t].i, th[t].src, th[t].ans)
  BY <1>1 DEF MayMove, At, OwnLabels, InheritPcs
<1>4. Unwritten /\ failed' \in SUBSET {"lock", "duplicate"}
  BY <1>1, Parts DEF Unwritten
<1> QED
  BY <1>1, <1>2, <1>3, <1>4, Parts, MoveInv

(* A link is followed, or the name is not one.                             *)
LEMMA FollowLinkInv ==
    ASSUME IInv, NEW t \in Threads, FollowLink(t)
    PROVE  IInv'
<1>1. PICK pc \in {"ask", "relink"} :
        /\ th' = [th EXCEPT ![t].pc = pc]
        /\ pc = "relink" => th[t].links < MaxLinks
  BY DEF FollowLink
<1>2. /\ At(t, "link") /\ Proc(t) \in Procs /\ th[t] \in Thread
      /\ UNCHANGED <<tab, lck, open, live, dying, failed>>
      /\ th[t].src # -1 => th[t].src \in open[Proc(t)]
      /\ th[t].ans = None
  BY Parts DEF FollowLink, At, IInv, LabelInv, ProcInv, ProcOK, EntryOK
<1>3. Moves(t, Proc(t), pc, th[t].i, th[t].src, th[t].ans)
  <2> DEFINE r == [th[t] EXCEPT !.pc = pc]
  <2>1. th' = [th EXCEPT ![t] = r]
    <3>1. th' = [th EXCEPT ![t].pc = pc]
      BY <1>1
    <3> QED
      BY <3>1, Parts
  <2>2. /\ r \in Thread /\ r.proc = Proc(t) /\ r.pc = pc /\ r.i = th[t].i
        /\ r.src = th[t].src /\ r.ans = th[t].ans
    BY <1>2 DEF Thread, Pcs, Proc
  <2>3. pc = "relink" => r.links < MaxLinks
    BY <1>1, <1>2 DEF Thread
  <2> QED
    BY <1>2, <2>1, <2>2, <2>3, Steps
<1>4. MayMove(t, Proc(t), pc, th[t].i, th[t].src, th[t].ans)
  BY <1>2 DEF MayMove, At, OwnLabels, InheritPcs
<1>5. Unwritten
  BY <1>2, Parts DEF Unwritten
<1> QED
  BY <1>2, <1>3, <1>4, <1>5, Parts, MoveInv

(* The service's answer: the address of a new object, or none.             *)
LEMMA AnswerInv ==
    ASSUME IInv, NEW t \in Threads, service_create_pipe(t) \/ service_duplicate_pipe(t)
    PROVE  IInv'
<1>1. PICK a \in Answers : /\ live' = live \cup ({a} \ {None})
                           /\ th' = [th EXCEPT ![t].pc = "store", ![t].ans = a]
  BY DEF service_create_pipe, service_duplicate_pipe
<1>2. /\ At(t, "ask") /\ Proc(t) \in Procs /\ th[t] \in Thread
      /\ UNCHANGED <<tab, lck, open, dying, failed>>
      /\ th[t].src # -1 => th[t].src \in open[Proc(t)]
      /\ th[t].ans = None
  BY Parts DEF service_create_pipe, service_duplicate_pipe, At, IInv, LabelInv, ProcInv,
               ProcOK, EntryOK
<1>3. Moves(t, Proc(t), "store", th[t].i, th[t].src, a)
  <2> DEFINE r == [th[t] EXCEPT !.pc = "store", !.ans = a]
  <2>1. th' = [th EXCEPT ![t] = r]
    BY <1>1, Parts
  <2>2. /\ r \in Thread /\ r.proc = Proc(t) /\ r.pc = "store" /\ r.i = th[t].i
        /\ r.src = th[t].src /\ r.ans = a
    BY <1>2 DEF Thread, Pcs, Proc, Answers
  <2> QED
    BY <1>2, <2>1, <2>2, Steps
<1>4. MayMove(t, Proc(t), "store", th[t].i, th[t].src, a)
  BY <1>2 DEF MayMove, At, OwnLabels, InheritPcs
<1>5. Unwritten
  BY <1>2, Parts DEF Unwritten
<1>6. \/ live' = live /\ a = th[t].ans
      \/ a \in Ids \ live /\ live' = live \cup {a} /\ th[t].ans = None
  BY <1>1, <1>2, Given DEF Answers
<1> QED
  BY <1>2, <1>3, <1>4, <1>5, <1>6, Parts, MoveInv

(* The service had no object to give.                                      *)
LEMMA StoreNoneInv ==
    ASSUME IInv, NEW t \in Threads, Store(t), th[t].ans = None
    PROVE  IInv'
<1>1. /\ At(t, "store") /\ Proc(t) \in Procs /\ th[t] \in Thread /\ th[t].i \in Slots
      /\ UNCHANGED <<lck, open, live, dying, failed>>
      /\ tab' = [tab EXCEPT ![Proc(t)][th[t].i].id = None]
      /\ th' = [th EXCEPT ![t].pc = "undo", ![t].ans = None]
      /\ th[t].src # -1 => th[t].src \in open[Proc(t)]
      /\ tab[Proc(t)][th[t].i].id = None
  BY Parts DEF Store, At, IInv, LabelInv, ProcInv, ProcOK, EntryOK, Named, OwnLabels
<1>2. Moves(t, Proc(t), "undo", th[t].i, th[t].src, th[t].ans)
  <2> DEFINE r == [th[t] EXCEPT !.pc = "undo", !.ans = None]
  <2>1. th' = [th EXCEPT ![t] = r]
    BY <1>1, Parts
  <2>2. /\ r \in Thread /\ r.proc = Proc(t) /\ r.pc = "undo" /\ r.i = th[t].i
        /\ r.src = th[t].src /\ r.ans = th[t].ans
    BY <1>1 DEF Thread, Pcs, Proc
  <2> QED
    BY <1>1, <2>1, <2>2, Steps
<1>3. MayMove(t, Proc(t), "undo", th[t].i, th[t].src, th[t].ans)
  BY <1>1 DEF MayMove, At, OwnLabels, InheritPcs
<1>4. Unwritten
  <2>1. tab[Proc(t)][th[t].i] \in Entry
    BY <1>1, Parts
  <2>2. [tab[Proc(t)][th[t].i] EXCEPT !.id = None] = tab[Proc(t)][th[t].i]
    BY <1>1, <2>1 DEF Entry
  <2>3. \A q \in Procs, j \in Slots : tab'[q][j] = tab[q][j]
    BY <1>1, <2>2, Parts
  <2>4. tab' \in [Procs -> [Slots -> Entry]]
    BY <1>1, <2>1, <2>2, Parts
  <2> QED
    BY <1>1, <2>3, <2>4 DEF Unwritten
<1> QED
  BY <1>1, <1>2, <1>3, <1>4, Parts, MoveInv

-----------------------------------------------------------------------------
(* A thread writes its entry: what is left to show is about the objects.   *)
LEMMA WriteRest ==
    ASSUME IInv, NEW t \in Threads, NEW p, NEW pc, NEW i, NEW src, NEW ans,
           Moves(t, p, pc, i, src, ans), NEW k, NEW e, NEW O,
           Writes(p, k, e, O), MayWrite(t, p, pc, i, src, ans, k, e, O),
           UNCHANGED <<lck, failed, live>>, dying' \in [Ids -> Nat]
    PROVE  /\ ObjectInv' => IInv'
           /\ p \in Procs /\ k \in Slots /\ tab'[p][k] = e /\ Runs(p)
           /\ \A q \in Procs : Runs(q)' <=> Runs(q)
           /\ \A q \in Procs, j \in Slots : Own(q, j)' <=> Own(q, j)
           /\ \A q \in Procs, j \in Slots : ~(q = p /\ j = k) =>
                  tab'[q][j] = tab[q][j] /\ HeldBefore(q, j)
           /\ \A j \in Slots : Own(p, j)
           /\ th'[t].ans = ans /\ \A u \in Threads \ {t} : th'[u].ans = th[u].ans
<1>1. /\ LabelInv' /\ ProcInv' /\ SourceInv' /\ CleanInv'
      /\ OnlyIn(p) /\ th[t].pc \notin InheritPcs /\ pc \notin InheritPcs
      /\ \A j \in open[p] : j \in open'[p] /\ tab'[p][j] = tab[p][j]
  BY WriteKept
<1>2. /\ p \in Procs /\ k \in Slots /\ th[t].proc = p /\ th' \in [Threads -> Thread]
      /\ th'[t].ans = ans /\ \A u \in Threads \ {t} : th'[u] = th[u]
  BY DEF Moves, MayWrite, Proc
<1>3. TypeOK'
  BY <1>1, <1>2, Parts, TypesAfter DEF OnlyIn
<1>4. /\ \A q \in Procs : Runs(q)' <=> Runs(q)
      /\ \A q \in Procs, j \in Slots : Own(q, j)' <=> Own(q, j)
  BY <1>1, OthersKept
<1>5. /\ tab'[p][k] = e
      /\ \A q \in Procs, j \in Slots : ~(q = p /\ j = k) => tab'[q][j] = tab[q][j]
  BY <1>2, Parts DEF Writes
<1>6. \A q \in Procs, j \in Slots : ~(q = p /\ j = k) => HeldBefore(q, j)
  BY <1>4, <1>5 DEF HeldBefore, Holds, Named
<1>7. \A j \in Slots : Own(p, j)
  <2>1. \A u \in Threads : th[u].proc = p => th[u].pc \notin InheritPcs
    BY <1>1, <1>2 DEF IInv, ProcInv, ProcOK, ApartOK, Proc
  <2> QED
    BY <2>1 DEF Own, InLibrary, Proc
<1>8. Runs(p)
  BY <1>2 DEF Runs, Proc
<1> QED
  BY <1>1, <1>2, <1>3, <1>4, <1>5, <1>6, <1>7, <1>8 DEF IInv

(* As long as the entry has no object before and after, nothing happens to *)
(* the objects.                                                            *)
LEMMA WriteInv ==
    ASSUME IInv, NEW t \in Threads, NEW p, NEW pc, NEW i, NEW src, NEW ans,
           Moves(t, p, pc, i, src, ans), NEW k, NEW e, NEW O,
           Writes(p, k, e, O), MayWrite(t, p, pc, i, src, ans, k, e, O),
           UNCHANGED <<lck, failed, live, dying>>,
           ans = th[t].ans, tab[p][k].id = None, e.id = None
    PROVE  IInv'
<1>1. /\ ObjectInv' => IInv'
      /\ p \in Procs /\ k \in Slots /\ tab'[p][k] = e
      /\ \A q \in Procs : Runs(q)' <=> Runs(q)
      /\ \A q \in Procs, j \in Slots : ~(q = p /\ j = k) =>
             tab'[q][j] = tab[q][j] /\ HeldBefore(q, j)
      /\ th'[t].ans = ans /\ \A u \in Threads \ {t} : th'[u].ans = th[u].ans
  BY WriteRest, Parts
<1>2. HeldBefore(p, k)
  BY <1>1 DEF HeldBefore, Holds, Named
<1>3. \A q \in Procs, j \in Slots : Runs(q) /\ Named(q, j) => StillKnown(tab[q][j].id)
  BY <1>1 DEF StillKnown, Named
<1>4. \A u \in Threads : th'[u].ans = th[u].ans
  BY <1>1
<1> QED
  BY <1>1, <1>2, <1>3, <1>4, ObjectsKept

(* The entry is still free under the lock: it is t's.                      *)
LEMMA ClaimInv ==
    ASSUME IInv, NEW t \in Threads, Claim(t), Free(Proc(t), th[t].i)
    PROVE  IInv'
<1> DEFINE p == Proc(t)
           k == th[t].i
           pc == IF th[t].src = -1 THEN "path" ELSE "ask"
           e == [tab[p][k] EXCEPT !.pid = Mark(t)]
<1>1. /\ At(t, "claim") /\ p \in Procs /\ th[t] \in Thread /\ k \in Slots
      /\ UNCHANGED <<lck, open, live, dying, failed>>
      /\ tab' = [tab EXCEPT ![p][k].pid = Mark(t)]
      /\ th' = [th EXCEPT ![t].pc = pc]
      /\ th[t].src # -1 => th[t].src \in open[p] /\ th[t].src \in Slots
      /\ th[t].ans = None
  BY Parts DEF Claim, At, IInv, LabelInv, ProcInv, ProcOK, EntryOK, Free
<1>2. tab[p][k] \in Entry /\ tab[p][k].id = None
  BY <1>1, Parts DEF IInv, CleanInv, Free, Named
<1>3. /\ Mark(t) \in {"reserved", "service"}
      /\ th[t].src # -1 => Mark(t) = "service"
  BY <1>1 DEF Mark, IInv, ProcInv, ProcOK, TableOK, Proc
<1>4. e \in Entry /\ e.pid = Mark(t) /\ e.id = None
  BY <1>2, <1>3 DEF Entry
<1>5. Moves(t, p, pc, k, th[t].src, th[t].ans)
  <2> DEFINE r == [th[t] EXCEPT !.pc = pc]
  <2>1. th' = [th EXCEPT ![t] = r]
    BY <1>1, Parts
  <2>2. /\ r \in Thread /\ r.proc = p /\ r.pc = pc /\ pc # "relink" /\ r.i = k
        /\ r.src = th[t].src /\ r.ans = th[t].ans
    BY <1>1 DEF Thread, Pcs, Proc
  <2> HIDE DEF r, pc
  <2> QED
    BY <1>1, <2>1, <2>2, Steps
<1>6. Writes(p, k, e, open[p])
  BY <1>1, Parts DEF Writes
<1>7. MayWrite(t, p, pc, k, th[t].src, th[t].ans, k, e, open[p])
  BY <1>1, <1>3, <1>4 DEF MayWrite, At, OwnLabels
<1> HIDE DEF e, pc
<1> QED
  BY <1>1, <1>2, <1>4, <1>5, <1>6, <1>7, WriteInv

(* find_daemon_by_name: a service, or nobody of that name.                 *)
LEMMA ResolveInv ==
    ASSUME IInv, NEW t \in Threads, Resolve(t)
    PROVE  IInv'
<1>1. PICK found \in {"service", "reserved"} :
        /\ tab' = [tab EXCEPT ![Proc(t)][th[t].i].pid = found]
        /\ th' = [th EXCEPT ![t].pc = IF found = "service" THEN "link" ELSE "undo"]
  BY DEF Resolve
<1> DEFINE p == Proc(t)
           k == th[t].i
           pc == IF found = "service" THEN "link" ELSE "undo"
           e == [tab[p][k] EXCEPT !.pid = found]
<1>2. /\ At(t, "path") /\ p \in Procs /\ th[t] \in Thread /\ k \in Slots
      /\ UNCHANGED <<lck, open, live, dying, failed>>
      /\ th[t].src # -1 => th[t].src \in open[p]
      /\ th[t].ans = None /\ tab[p][k].id = None
  BY Parts DEF Resolve, At, IInv, LabelInv, ProcInv, ProcOK, EntryOK, Named, OwnLabels
<1>3. e \in Entry /\ e.pid = found /\ e.id = None
  <2>1. tab[p][k] \in Entry
    BY <1>2, Parts
  <2> QED
    BY <1>2, <2>1 DEF Entry
<1>4. Moves(t, p, pc, k, th[t].src, th[t].ans)
  <2> DEFINE r == [th[t] EXCEPT !.pc = pc]
  <2>1. th' = [th EXCEPT ![t] = r]
    BY <1>1, Parts
  <2>2. /\ r \in Thread /\ r.proc = p /\ r.pc = pc /\ pc # "relink" /\ r.i = k
        /\ r.src = th[t].src /\ r.ans = th[t].ans
    BY <1>2 DEF Thread, Pcs, Proc
  <2> HIDE DEF r, pc
  <2> QED
    BY <1>2, <2>1, <2>2, Steps
<1>5. Writes(p, k, e, open[p])
  BY <1>1, <1>2, Parts DEF Writes
<1>6. \/ pc = "link" /\ found = "service"
      \/ pc = "undo" /\ found = "reserved"
  OBVIOUS
<1> HIDE DEF e, pc
<1>7. MayWrite(t, p, pc, k, th[t].src, th[t].ans, k, e, open[p])
  BY <1>2, <1>3, <1>6 DEF MayWrite, At, OwnLabels
<1> QED
  BY <1>2, <1>3, <1>4, <1>5, <1>7, WriteInv

(* The thread gives the entry up, and is done or begins again with what the*)
(* link says.                                                              *)
LEMMA UndoInv ==
    ASSUME IInv, NEW t \in Threads, Undo(t)
    PROVE  IInv'
<1> DEFINE p == Proc(t)
           k == th[t].i
<1>1. /\ th[t].pc \in {"undo", "relink"} /\ p \in Procs /\ th[t] \in Thread /\ k \in Slots
      /\ UNCHANGED <<lck, open, live, dying, failed>>
      /\ tab' = [tab EXCEPT ![p][k] = Closed]
      /\ th[t].ans = None /\ tab[p][k].id = None
      /\ th[t].pc = "relink" => th[t].links < MaxLinks
  BY Parts DEF Undo, At, IInv, LabelInv, ProcInv, ProcOK, EntryOK, Named, OwnLabels
<1>2. Closed \in Entry /\ Closed.pid = "free" /\ Closed.id = None
  BY DEF Closed, Entry
<1>3. Writes(p, k, Closed, open[p])
  BY <1>1, Parts DEF Writes
<1>4. CASE th[t].pc = "undo"
  <2>1. th' = [th EXCEPT ![t] = Idle(p)]
    BY <1>1, <1>4, Parts DEF Undo
  <2>2. /\ Idle(p) \in Thread /\ Idle(p).proc = p /\ Idle(p).pc = "idle" /\ Idle(p).i = 0
        /\ Idle(p).src = -1 /\ Idle(p).ans = None
    BY <1>1, Given DEF Idle, Thread, Pcs
  <2>3. Moves(t, p, "idle", 0, -1, None)
    BY <1>1, <2>1, <2>2, Steps
  <2>4. MayWrite(t, p, "idle", 0, -1, None, k, Closed, open[p])
    BY <1>1, <1>2, <1>4 DEF MayWrite, OwnLabels
  <2> QED
    BY <1>1, <1>2, <1>3, <2>3, <2>4, WriteInv
<1>5. CASE th[t].pc = "relink"
  <2> DEFINE r == [Idle(p) EXCEPT !.pc = "look", !.links = th[t].links + 1]
  <2>1. th' = [th EXCEPT ![t] = r]
    BY <1>1, <1>5, Parts DEF Undo
  <2>2. th[t].links + 1 \in 0 .. MaxLinks
    BY <1>1, <1>5, Given DEF Thread
  <2>3. /\ Idle(p) \in Thread
        /\ r.proc = p /\ r.pc = "look" /\ r.i = 0 /\ r.src = -1 /\ r.ans = None
    BY <1>1, Given DEF Idle, Thread, Pcs
  <2>4. r \in Thread
    BY <2>2, <2>3 DEF Thread, Pcs
  <2>5. Moves(t, p, "look", 0, -1, None)
    BY <1>1, <2>1, <2>3, <2>4, Steps
  <2>6. MayWrite(t, p, "look", 0, -1, None, k, Closed, open[p])
    BY <1>1, <1>2, <1>5 DEF MayWrite, OwnLabels
  <2> QED
    BY <1>1, <1>2, <1>3, <2>5, <2>6, WriteInv
<1> QED
  BY <1>1, <1>4, <1>5

(* The entry gets the object, and the program the pipe.                    *)
LEMMA StoreInv ==
    ASSUME IInv, NEW t \in Threads, Store(t), th[t].ans # None
    PROVE  IInv'
<1>0. PICK p \in Procs, k \in Slots : p = Proc(t) /\ k = th[t].i
  BY Parts DEF Store, At, IInv, LabelInv, OwnLabels
<1> DEFINE e == [tab[p][k] EXCEPT !.id = th[t].ans]
<1>1. /\ At(t, "store") /\ p \in Procs /\ th[t] \in Thread /\ k \in Slots
      /\ UNCHANGED <<lck, live, dying, failed>>
      /\ open' = [open EXCEPT ![p] = @ \cup {k}]
      /\ tab' = [tab EXCEPT ![p][k].id = th[t].ans]
      /\ th' = [th EXCEPT ![t] = Idle(p)]
      /\ tab[p][k].id = None /\ tab[p][k].pid = "service"
  BY <1>0, Parts DEF Store, At, IInv, ProcInv, ProcOK, EntryOK, Named, OwnLabels
<1>2. e \in Entry /\ e.pid = "service" /\ e.id = th[t].ans
  <2>1. tab[p][k] \in Entry /\ th[t].ans \in Ids \cup {None}
    BY <1>1, Parts DEF Thread
  <2> QED
    BY <1>1, <2>1 DEF Entry
<1>3. Writes(p, k, e, open[p] \cup {k})
  BY <1>1, Parts DEF Writes
<1>4. Moves(t, p, "idle", 0, -1, None)
  <2>1. /\ Idle(p) \in Thread /\ Idle(p).proc = p /\ Idle(p).pc = "idle" /\ Idle(p).i = 0
        /\ Idle(p).src = -1 /\ Idle(p).ans = None
    BY <1>1, Given DEF Idle, Thread, Pcs
  <2> QED
    BY <1>0, <1>1, <2>1, Steps
<1>5. MayWrite(t, p, "idle", 0, -1, None, k, e, open[p] \cup {k})
  BY <1>0, <1>1, <1>2 DEF MayWrite, OwnLabels, At
<1> HIDE DEF e
<1>6. /\ ObjectInv' => IInv'
      /\ p \in Procs /\ k \in Slots /\ tab'[p][k] = e /\ Runs(p)
      /\ \A q \in Procs : Runs(q)' <=> Runs(q)
      /\ \A q \in Procs, j \in Slots : ~(q = p /\ j = k) =>
             tab'[q][j] = tab[q][j] /\ HeldBefore(q, j)
      /\ th'[t].ans = None /\ \A u \in Threads \ {t} : th'[u].ans = th[u].ans
  BY <1>1, <1>3, <1>4, <1>5, WriteRest, Parts
<1>7. \A q \in Procs, j \in Slots : Runs(q) /\ Named(q, j) => StillKnown(tab[q][j].id)
  BY <1>1, <1>6 DEF StillKnown, Named
<1>8. Runs(p)' /\ tab'[p][k].id = th[t].ans
  BY <1>2, <1>6
<1>9. ObjectInv'
  BY <1>1, <1>6, <1>7, <1>8, ObjectStored
<1> QED
  BY <1>6, <1>9

(* destroy_pipe: the entry is free, and the message is under way.          *)
LEMMA DestroyInv ==
    ASSUME IInv, NEW t \in Threads, Destroy(t)
    PROVE  IInv'
<1>0. PICK p \in Procs, k \in Slots : p = Proc(t) /\ k = th[t].i
  BY Parts DEF Destroy, At, IInv, LabelInv, OwnLabels
<1>1. /\ At(t, "close") /\ p \in Procs /\ th[t] \in Thread /\ k \in Slots
      /\ UNCHANGED <<lck, open, live, failed>>
      /\ tab' = [tab EXCEPT ![p][k] = Closed]
      /\ th' = [th EXCEPT ![t] = Idle(p)]
      /\ dying' = IF tab[p][k].pid = "service" /\ tab[p][k].id # None
                  THEN [dying EXCEPT ![tab[p][k].id] = @ + 1] ELSE dying
      /\ th[t].ans = None
  BY <1>0, Parts DEF Destroy, Close, At, IInv, LabelInv
<1>2. Closed \in Entry /\ Closed.pid = "free" /\ Closed.id = None
  BY DEF Closed, Entry
<1>3. Writes(p, k, Closed, open[p])
  BY <1>1, Parts DEF Writes
<1>4. Moves(t, p, "idle", 0, -1, None)
  <2>1. /\ Idle(p) \in Thread /\ Idle(p).proc = p /\ Idle(p).pc = "idle" /\ Idle(p).i = 0
        /\ Idle(p).src = -1 /\ Idle(p).ans = None
    BY <1>1, Given DEF Idle, Thread, Pcs
  <2> QED
    BY <1>0, <1>1, <2>1, Steps
<1>5. MayWrite(t, p, "idle", 0, -1, None, k, Closed, open[p])
  BY <1>0, <1>1, <1>2 DEF MayWrite, OwnLabels, At
<1>6. CASE tab[p][k].id = None
  <2>1. dying' = dying
    BY <1>1, <1>6
  <2> QED
    BY <1>1, <1>2, <1>3, <1>4, <1>5, <1>6, <2>1, WriteInv
<1>7. CASE tab[p][k].id # None
  <2>1. tab[p][k].pid = "service"
    BY <1>1, <1>7 DEF IInv, CleanInv, Named
  <2>2. dying' = [dying EXCEPT ![tab[p][k].id] = @ + 1]
    BY <1>1, <1>7, <2>1
  <2>3. dying' \in [Ids -> Nat]
    BY <1>1, <1>7, <2>2, Parts DEF Entry
  <2>4. /\ ObjectInv' => IInv'
        /\ tab'[p][k] = Closed /\ Runs(p)
        /\ \A q \in Procs : Runs(q)' <=> Runs(q)
        /\ \A q \in Procs, j \in Slots : ~(q = p /\ j = k) =>
               tab'[q][j] = tab[q][j] /\ HeldBefore(q, j)
        /\ \A j \in Slots : Own(p, j)
        /\ th'[t].ans = None /\ \A u \in Threads \ {t} : th'[u].ans = th[u].ans
    BY <1>1, <1>3, <1>4, <1>5, <2>3, WriteRest
  <2>5. Holds(p, k) /\ ~Holds(p, k)'
    BY <1>1, <1>2, <1>7, <2>4 DEF Holds, Named
  <2>6. \A q \in Procs, j \in Slots : HeldBefore(q, j)
    BY <2>4, <2>5 DEF HeldBefore
  <2>7. \A q \in Procs, j \in Slots :
            Runs(q) /\ Named(q, j) /\ tab[q][j].id # tab[p][k].id => StillKnown(tab[q][j].id)
    BY <2>4 DEF StillKnown
  <2>8. \A u \in Threads : th'[u].ans = th[u].ans
    BY <1>1, <2>4
  <2>8a. Dooms(tab[p][k].id)
    BY <2>2 DEF Dooms
  <2>9. ObjectInv'
    BY <1>1, <2>5, <2>6, <2>7, <2>8, <2>8a, ObjectDoomed
  <2> QED
    BY <2>4, <2>9
<1> QED
  BY <1>6, <1>7

-----------------------------------------------------------------------------
(* destroy_pipe begins: the program gives up pipe i.                       *)
LEMMA destroy_pipeInv ==
    ASSUME IInv, Careful, NEW t \in Threads, destroy_pipe(t)
    PROVE  IInv'
<1>1. PICK p \in Procs, i \in Slots :
        /\ p = Proc(t) /\ i \in open[p]
        /\ \A u \in InLibrary(p) : th[u].src # i
        /\ open' = [open EXCEPT ![p] = @ \ {i}]
        /\ th' = [th EXCEPT ![t] = [Idle(p) EXCEPT !.pc = "close", !.i = i]]
  BY Parts DEF destroy_pipe, MayCall
<1>2. /\ UNCHANGED <<tab, lck, live, dying, failed>> /\ At(t, "idle") /\ ~Inheriting
      /\ \A u \in Threads : Proc(u) = p => ~At(u, "deinit")
      /\ i \in Slots /\ open[p] \in SUBSET Slots /\ th[t].ans = None
  BY <1>1, Parts DEF destroy_pipe, MayCall, InLibrary, At, IInv, LabelInv
<1>3. Moves(t, p, "close", i, -1, None)
  <2> DEFINE r == [Idle(p) EXCEPT !.pc = "close", !.i = i]
  <2>1. /\ Idle(p) \in Thread
        /\ r.proc = p /\ r.pc = "close" /\ r.i = i /\ r.src = -1 /\ r.ans = None
    BY Given DEF Idle, Thread, Pcs
  <2>2. i \in 0 .. NPipes
    BY <1>2, Given
  <2>3. r \in Thread
    BY <2>1, <2>2 DEF Thread, Pcs
  <2> QED
    BY <1>1, <2>1, <2>3, Steps
<1>4. /\ th'[t].proc = p /\ th'[t].pc = "close" /\ th'[t].i = i /\ th'[t].src = -1
      /\ th'[t].ans = None /\ th[t].proc = p /\ th[t].pc = "idle"
      /\ \A u \in Threads \ {t} : th'[u] = th[u]
  BY <1>1, <1>2, <1>3 DEF Moves, Proc, At
<1>5. /\ tab' = tab /\ open'[p] = open[p] \ {i} /\ OnlyIn(p)
      /\ open' \in [Procs -> SUBSET Slots]
  <2>1. /\ open' \in [Procs -> SUBSET Slots] /\ open'[p] = open[p] \ {i}
        /\ \A q \in Procs \ {p} : open'[q] = open[q]
    BY <1>1, <1>2, Parts
  <2> QED
    BY <1>2, <2>1, Parts DEF OnlyIn
<1>6. EntryOK(p) /\ ApartOK(p) /\ TableOK(p)
  BY DEF IInv, ProcInv, ProcOK
<1>7. tab[p][i].pid = "service" /\ Named(p, i)
  BY <1>1, <1>2, <1>6 DEF TableOK
<1>8. /\ \A q \in Procs \ {p} : ProcOK(q)'
      /\ SourceInv'
      /\ \A q \in Procs : Runs(q)' <=> Runs(q)
      /\ \A q \in Procs, j \in Slots : Own(q, j)' <=> Own(q, j)
  BY <1>2, <1>3, <1>4, <1>5, OthersKept DEF InheritPcs
<1>9. LabelInv'
  BY <1>2, <1>4, Given DEF IInv, LabelInv, Proc, At, OwnLabels
<1>10. \A u \in Threads \ {t} : th[u].proc = p =>
          /\ th[u].src # -1 => th[u].src \in open'[p]
          /\ th[u].pc \in OwnLabels => th[u].i # i
          /\ th[u].pc \notin InheritPcs /\ th[u].pc # "deinit"
  <2> SUFFICES ASSUME NEW u \in Threads \ {t}, th[u].proc = p
               PROVE  /\ th[u].src # -1 => th[u].src \in open'[p]
                      /\ th[u].pc \in OwnLabels => th[u].i # i
                      /\ th[u].pc \notin InheritPcs /\ th[u].pc # "deinit"
    OBVIOUS
  <2>1. /\ th[u].src # -1 => th[u].src \in open[p]
        /\ th[u].pc \in OwnLabels => th[u].i \notin open[p]
    BY <1>6 DEF EntryOK, Proc
  <2>2. th[u].src # -1 => u \in InLibrary(p)
    BY DEF InLibrary, IInv, LabelInv, Proc
  <2>3. th[u].pc \notin InheritPcs
    BY <1>2 DEF Inheriting
  <2> QED
    BY <1>1, <1>2, <1>5, <2>1, <2>2, <2>3 DEF Proc, At
<1>11. EntryOK(p)'
  <2>1. ASSUME NEW u \in Threads \ {t}, th[u].proc = p
        PROVE  /\ th[u].src # -1 => th[u].src \in open'[p]
               /\ th[u].pc \in OwnLabels => ~Free(p, th[u].i) /\ th[u].i \notin open'[p]
               /\ th[u].pc \in OwnLabels \ {"close"} => ~Named(p, th[u].i)
               /\ th[u].pc \in {"link", "ask", "store"} => tab[p][th[u].i].pid = "service"
               /\ th[u].pc # "renewed"
    BY <1>5, <1>6, <1>10, <2>1 DEF EntryOK, Proc, InheritPcs
  <2> QED
    BY <1>4, <1>5, <1>7, <2>1 DEF EntryOK, Proc, At, Free, Named, OwnLabels
<1>12. ApartOK(p)'
  <2>1. ASSUME NEW u \in Threads, NEW v \in Threads, u # v, th'[u].proc = p, th'[v].proc = p
        PROVE  /\ th'[u].pc \in OwnLabels /\ th'[v].pc \in OwnLabels => th'[u].i # th'[v].i
               /\ th'[u].pc \notin InheritPcs
               /\ th'[u].pc # "deinit"
    <3>1. CASE t \notin {u, v}
      BY <1>4, <1>6, <1>10, <2>1, <3>1 DEF ApartOK, Proc, At
    <3>2. CASE u = t
      BY <1>4, <1>10, <2>1, <3>2 DEF InheritPcs
    <3>3. CASE v = t
      BY <1>4, <1>10, <2>1, <3>3
    <3> QED
      BY <3>1, <3>2, <3>3
  <2> QED
    BY <2>1 DEF ApartOK, Proc, At
<1>13. TableOK(p)'
  <2>1. ASSUME NEW u \in Threads, th'[u].proc = p
        PROVE  th'[u].pc # "deinit" /\ th'[u].pc \notin InheritPcs
    BY <1>4, <1>10, <2>1 DEF InheritPcs
  <2>2. ASSUME NEW j \in Slots
        PROVE  /\ j \in open'[p] => tab[p][j].pid = "service" /\ Named(p, j)
               /\ Free(p, j) \/ j \in open'[p] \/ \E v \in Threads : Works(v, p, j)'
    <3>1. /\ j \in open[p] => tab[p][j].pid = "service" /\ Named(p, j)
          /\ Free(p, j) \/ j \in open[p] \/ \E v \in Threads : Works(v, p, j)
      BY <1>4, <1>6 DEF TableOK, Proc
    <3>2. Works(t, p, i)'
      BY <1>4 DEF Works, Proc, OwnLabels
    <3>3. \A v \in Threads : Works(v, p, j) => Works(v, p, j)'
      BY <1>4 DEF Works, Proc, OwnLabels
    <3> QED
      BY <1>5, <3>1, <3>2, <3>3
  <2> QED
    BY <1>5, <2>1, <2>2 DEF TableOK, Proc, At, Free, Named
<1>14. CleanInv'
  BY <1>5 DEF IInv, CleanInv, Named
<1>15. \A q \in Procs, j \in Slots :
           HeldBefore(q, j) /\ (Runs(q) /\ Named(q, j) => StillKnown(tab[q][j].id))
  BY <1>5, <1>8 DEF HeldBefore, Holds, Named, StillKnown
<1>16. ObjectInv'
  <2>1. \A u \in Threads : th'[u].ans = th[u].ans
    BY <1>2, <1>4
  <2> QED
    BY <1>2, <1>15, <2>1, ObjectsKept
<1>17. TypeOK'
  BY <1>2, <1>3, <1>5, Parts, TypesAfter DEF Moves
<1> QED
  BY <1>8, <1>9, <1>11, <1>12, <1>13, <1>14, <1>16, <1>17 DEF IInv, ProcInv, ProcOK

(* exit: the program gives up everything, and nobody else is in the        *)
(* library.                                                                *)
LEMMA exitInv ==
    ASSUME IInv, Careful, NEW t \in Threads, exit(t)
    PROVE  IInv'
<1>1. PICK p \in Procs :
        /\ p = Proc(t)
        /\ open' = [open EXCEPT ![p] = {}]
        /\ th' = [th EXCEPT ![t] = [Idle(p) EXCEPT !.pc = "deinit"]]
  BY Parts DEF exit, MayCall
<1>2. /\ UNCHANGED <<tab, lck, live, dying, failed>> /\ At(t, "idle") /\ ~Inheriting
      /\ \A u \in Threads : Proc(u) = p => At(u, "idle") /\ th[u].src = -1
      /\ th[t].ans = None
  BY <1>1, Parts DEF exit, MayCall, InLibrary, At, IInv, LabelInv
<1>3. Moves(t, p, "deinit", 0, -1, None)
  <2> DEFINE r == [Idle(p) EXCEPT !.pc = "deinit"]
  <2>1. /\ r \in Thread
        /\ r.proc = p /\ r.pc = "deinit" /\ r.i = 0 /\ r.src = -1 /\ r.ans = None
    BY Given DEF Idle, Thread, Pcs
  <2> QED
    BY <1>1, <2>1, Steps
<1>4. /\ th'[t].proc = p /\ th'[t].pc = "deinit" /\ th'[t].i = 0 /\ th'[t].src = -1
      /\ th'[t].ans = None /\ th[t].proc = p /\ th[t].pc = "idle"
      /\ \A u \in Threads \ {t} : th'[u] = th[u]
      /\ \A u \in Threads \ {t} : th[u].proc = p => th[u].pc = "idle" /\ th[u].src = -1
  BY <1>1, <1>2, <1>3 DEF Moves, Proc, At
<1>5. /\ tab' = tab /\ open'[p] = {} /\ OnlyIn(p)
      /\ open' \in [Procs -> SUBSET Slots]
  <2>1. /\ open' \in [Procs -> SUBSET Slots] /\ open'[p] = {}
        /\ \A q \in Procs \ {p} : open'[q] = open[q]
    BY <1>1, <1>2, Parts
  <2> QED
    BY <1>2, <2>1, Parts DEF OnlyIn
<1>6. /\ \A q \in Procs \ {p} : ProcOK(q)'
      /\ SourceInv'
      /\ \A q \in Procs : Runs(q)' <=> Runs(q)
      /\ \A q \in Procs, j \in Slots : Own(q, j)' <=> Own(q, j)
  BY <1>2, <1>3, <1>4, <1>5, OthersKept DEF InheritPcs
<1>7. LabelInv'
  BY <1>2, <1>4, Given DEF IInv, LabelInv, Proc, At, OwnLabels
<1>8. EntryOK(p)'
  BY <1>4 DEF EntryOK, Proc, At, OwnLabels
<1>9. ApartOK(p)'
  BY <1>4 DEF ApartOK, Proc, At, OwnLabels, InheritPcs
<1>10. TableOK(p)'
  <2>1. \A j \in Slots : Works(t, p, j)'
    BY <1>4 DEF Works, Proc
  <2>2. \A u \in Threads : th'[u].proc = p =>
            th'[u].pc \notin InheritPcs /\ (th'[u].pc = "deinit" => th'[u].i = 0)
    BY <1>4 DEF InheritPcs
  <2>3. \A j \in Slots : ~(j < 0)
    BY Given
  <2> QED
    BY <1>5, <2>1, <2>2, <2>3 DEF TableOK, Proc, At
<1>11. CleanInv'
  BY <1>5 DEF IInv, CleanInv, Named
<1>12. \A q \in Procs, j \in Slots :
           HeldBefore(q, j) /\ (Runs(q) /\ Named(q, j) => StillKnown(tab[q][j].id))
  BY <1>5, <1>6 DEF HeldBefore, Holds, Named, StillKnown
<1>13. ObjectInv'
  <2>1. \A u \in Threads : th'[u].ans = th[u].ans
    BY <1>2, <1>4
  <2> QED
    BY <1>2, <1>12, <2>1, ObjectsKept
<1>14. TypeOK'
  BY <1>2, <1>3, <1>5, Parts, TypesAfter DEF Moves
<1> QED
  BY <1>6, <1>7, <1>8, <1>9, <1>10, <1>11, <1>13, <1>14 DEF IInv, ProcInv, ProcOK

(* _vfs_deinit, one entry.                                                 *)
LEMMA deinitStepInv ==
    ASSUME IInv, NEW t \in Threads, _vfs_deinit(t), th[t].i # NPipes
    PROVE  IInv'
<1>1. PICK p \in Procs, k \in Slots :
        /\ p = Proc(t) /\ k = th[t].i
        /\ tab' = [tab EXCEPT ![p][k] = Closed]
        /\ dying' = IF tab[p][k].pid = "service" /\ tab[p][k].id # None
                    THEN [dying EXCEPT ![tab[p][k].id] = @ + 1] ELSE dying
        /\ th' = [th EXCEPT ![t].i = k + 1]
  <2>1. Proc(t) \in Procs /\ th[t] \in Thread
    BY Parts DEF _vfs_deinit, At
  <2>2. th[t].i \in Slots
    BY <2>1, Given DEF Thread
  <2> QED
    BY <2>1, <2>2 DEF _vfs_deinit, Close
<1>2. UNCHANGED <<lck, open, live, failed>> /\ At(t, "deinit") /\ th[t] \in Thread
  BY Parts DEF _vfs_deinit
<1>3. /\ th'[t].proc = p /\ th'[t].pc = "deinit" /\ th'[t].i = k + 1
      /\ th'[t].src = th[t].src /\ th'[t].ans = th[t].ans
      /\ \A u \in Threads \ {t} : th'[u] = th[u]
      /\ th' \in [Threads -> Thread]
      /\ th[t].proc = p /\ th[t].pc = "deinit" /\ th[t].i = k
  <2>1. k + 1 \in 0 .. NPipes
    BY Given
  <2> DEFINE r == [th[t] EXCEPT !.i = k + 1]
  <2>2. th' = [th EXCEPT ![t] = r]
    BY <1>1, Parts
  <2>3. /\ r \in Thread /\ r.proc = th[t].proc /\ r.pc = th[t].pc /\ r.i = k + 1
        /\ r.src = th[t].src /\ r.ans = th[t].ans
    BY <1>2, <2>1 DEF Thread
  <2> QED
    BY <1>1, <1>2, <2>2, <2>3, Parts DEF Proc, At
<1>4. Moves(t, p, "deinit", k + 1, th[t].src, th[t].ans)
  BY <1>3 DEF Moves, Proc
<1>5. /\ tab' \in [Procs -> [Slots -> Entry]] /\ tab'[p][k] = Closed
      /\ Closed.pid = "free" /\ Closed.id = None
      /\ \A q \in Procs, j \in Slots : ~(q = p /\ j = k) => tab'[q][j] = tab[q][j]
      /\ \A q \in Procs \ {p} : tab'[q] = tab[q]
  <2>1. Closed \in Entry /\ Closed.pid = "free" /\ Closed.id = None
    BY DEF Closed, Entry
  <2> QED
    BY <1>1, <2>1, Parts
<1>6. EntryOK(p) /\ ApartOK(p) /\ TableOK(p)
  BY DEF IInv, ProcInv, ProcOK
<1>7. /\ open[p] = {}
      /\ \A j \in Slots : j < k => Free(p, j)
      /\ \A u \in Threads \ {t} : th[u].proc = p => th[u].pc = "idle"
      /\ \A u \in Threads : th[u].proc = p => th[u].src = -1
  <2>1. \A j \in Slots : j \notin open[p] /\ (j < k => Free(p, j))
    BY <1>3, <1>6 DEF TableOK, Proc, At
  <2>2. open[p] \in SUBSET Slots
    BY Parts
  <2> QED
    BY <1>3, <1>6, <2>1, <2>2 DEF EntryOK, ApartOK, Proc, At
<1>8. OnlyIn(p)
  BY <1>2, <1>5, Parts DEF OnlyIn
<1>9. /\ \A q \in Procs \ {p} : ProcOK(q)'
      /\ SourceInv'
      /\ \A q \in Procs : Runs(q)' <=> Runs(q)
      /\ \A q \in Procs, j \in Slots : Own(q, j)' <=> Own(q, j)
  BY <1>3, <1>4, <1>7, <1>8, OthersKept DEF InheritPcs
<1>10. LabelInv'
  BY <1>2, <1>3, Given DEF IInv, LabelInv, Proc, At, OwnLabels
<1>11. EntryOK(p)'
  BY <1>3, <1>7 DEF EntryOK, Proc, At, OwnLabels
<1>12. ApartOK(p)'
  BY <1>3, <1>7 DEF ApartOK, Proc, At, OwnLabels, InheritPcs
<1>13. TableOK(p)'
  <2>1. \A j \in Slots : Works(t, p, j)'
    BY <1>3 DEF Works, Proc
  <2>2. \A u \in Threads : th'[u].proc = p =>
            th'[u].pc \notin InheritPcs /\ (th'[u].pc = "deinit" => th'[u].i = k + 1)
    BY <1>3, <1>7 DEF InheritPcs
  <2>3. \A j \in Slots : j < k + 1 => tab'[p][j].pid = "free"
    <3> SUFFICES ASSUME NEW j \in Slots, j < k + 1, j # k PROVE Free(p, j)
      BY <1>5 DEF Free
    <3> QED
      BY <1>7, Given
  <2> QED
    BY <1>2, <1>7, <2>1, <2>2, <2>3 DEF TableOK, Proc, At, Free
<1>14. CleanInv'
  <2> SUFFICES ASSUME NEW q \in Procs, NEW j \in Slots, tab'[q][j].pid # "service"
               PROVE  tab'[q][j].id = None
    BY DEF CleanInv, Named
  <2> QED
    BY <1>5 DEF IInv, CleanInv, Named
<1>15. \A u \in Threads : th'[u].ans = th[u].ans
  BY <1>3
<1>16. \A q \in Procs, j \in Slots :
           /\ ~Holds(p, k)' /\ HeldBefore(q, j)
           /\ Runs(q) /\ Named(q, j) /\ ~(q = p /\ j = k) => StillKnown(tab[q][j].id)
  BY <1>5, <1>9 DEF HeldBefore, Holds, Named, StillKnown
<1>17. ObjectInv' /\ dying' \in [Ids -> Nat]
  <2>1. CASE tab[p][k].id = None
    <3>1. dying' = dying
      BY <1>1, <2>1
    <3>2. \A q \in Procs, j \in Slots : Runs(q) /\ Named(q, j) => StillKnown(tab[q][j].id)
      BY <1>16, <2>1 DEF Named
    <3> QED
      BY <1>2, <1>15, <1>16, <3>1, <3>2, ObjectsKept, Parts
  <2>2. CASE tab[p][k].id # None
    <3>1. tab[p][k].pid = "service" /\ tab[p][k] \in Entry
      BY <2>2, Parts DEF IInv, CleanInv, Named
    <3>2. dying' = [dying EXCEPT ![tab[p][k].id] = @ + 1]
      BY <1>1, <2>2, <3>1
    <3>2a. Dooms(tab[p][k].id)
      BY <3>2 DEF Dooms
    <3>3. Holds(p, k)
      <4>1. \A u \in Threads : th[u].proc = p => th[u].pc \notin InheritPcs
        BY <1>3, <1>7 DEF InheritPcs
      <4> QED
        BY <1>3, <2>2, <4>1 DEF Holds, Runs, Named, Own, InLibrary, Proc
    <3>4. \A q \in Procs, j \in Slots :
            Runs(q) /\ Named(q, j) /\ tab[q][j].id # tab[p][k].id => StillKnown(tab[q][j].id)
      BY <1>16
    <3>5. ObjectInv'
      <4>1. Holds(p, k) /\ ~Holds(p, k)'
        BY <1>16, <3>3
      <4>2. \A q \in Procs, j \in Slots : HeldBefore(q, j)
        BY <1>16
      <4>3. p \in Procs /\ k \in Slots /\ live' = live
        BY <1>2
      <4> QED
        BY <1>15, <3>2a, <3>4, <4>1, <4>2, <4>3, ObjectDoomed
    <3>6. tab[p][k].id \in Ids
      BY <2>2, <3>1 DEF Entry
    <3>7. dying' \in [Ids -> Nat]
      BY <3>2, <3>6, Parts
    <3> QED
      BY <3>5, <3>7
  <2> QED
    BY <2>1, <2>2
<1>18. TypeOK'
  BY <1>2, <1>3, <1>5, <1>17, Parts, TypesAfter
<1> QED
  BY <1>9, <1>10, <1>11, <1>12, <1>13, <1>14, <1>17, <1>18 DEF IInv, ProcInv, ProcOK
(* A thread outside the library comes to a process or leaves it; the same  *)
(* processes run, and nobody inherits in the one it comes to.              *)
LEMMA IdleKept ==
    ASSUME IInv, UNCHANGED <<tab, open, live, dying>>, NEW t \in Threads,
           At(t, "idle"), th'[t].pc = "idle", th'[t].src = -1, th[t].ans = th'[t].ans,
           th' \in [Threads -> Thread], \A u \in Threads \ {t} : th'[u] = th[u],
           \A q \in Procs : Runs(q)' <=> Runs(q),
           \A u \in Threads \ {t} : Proc(u) = th'[t].proc => th[u].pc \notin InheritPcs \/ Proc(u) = None
    PROVE  LabelInv' /\ ProcInv' /\ SourceInv' /\ CleanInv' /\ ObjectInv'
<1>1. \A q \in Procs, j \in Slots : Own(q, j)' <=> Own(q, j)
  BY DEF Own, InLibrary, Proc, At
<1>2. LabelInv'
  BY DEF IInv, LabelInv, Proc, At, OwnLabels, InheritPcs
<1>3. ASSUME NEW q \in Procs PROVE ProcOK(q)'
  <2>1. ProcOK(q) /\ th[t].pc = "idle" /\ tab' = tab /\ open' = open
    BY DEF IInv, ProcInv, At
  <2>2. EntryOK(q)'
    BY <2>1 DEF ProcOK, EntryOK, Proc, At, Free, Named, OwnLabels
  <2>3. ApartOK(q)'
    <3>1. ASSUME NEW u \in Threads, NEW v \in Threads, u # v, th'[u].proc = q, th'[v].proc = q
          PROVE  /\ th'[u].pc \in OwnLabels /\ th'[v].pc \in OwnLabels => th'[u].i # th'[v].i
                 /\ th'[u].pc \notin InheritPcs
                 /\ th'[u].pc = "deinit" => th'[v].pc = "idle"
      <4>1. CASE t \notin {u, v}
        BY <2>1, <3>1, <4>1 DEF ProcOK, ApartOK, Proc, At
      <4>2. CASE u = t
        BY <4>2 DEF OwnLabels, InheritPcs
      <4>3. CASE v = t
        <5>1. th'[u] = th[u] /\ th[u].proc = th'[t].proc /\ th[u].proc # None
          BY <3>1, <4>3, Given
        <5> QED
          BY <3>1, <4>3, <5>1 DEF OwnLabels, Proc
      <4> QED
        BY <4>1, <4>2, <4>3
    <3> QED
      BY <3>1 DEF ApartOK, Proc, At
  <2>4. TableOK(q)'
    <3>1. SUFFICES ASSUME NEW u \in Threads, NEW j \in Slots, th'[u].proc = q
                   PROVE  /\ j \in open[q] => tab[q][j].pid = "service" /\ Named(q, j)
                          /\ Free(q, j) \/ j \in open[q] \/ \E v \in Threads : Works(v, q, j)'
                          /\ th'[u].pc = "deinit" => j \notin open[q] /\ (j < th'[u].i => Free(q, j))
                          /\ th'[u].pc \in InheritPcs => Free(q, j) \/ j \in open[q]
      BY <2>1 DEF TableOK, Proc, At, Free, Named
    <3>2. Runs(q)'
      BY <3>1 DEF Runs, Proc
    <3>3. PICK w \in Threads : Proc(w) = q
      BY <3>2 DEF Runs
    <3>4. /\ j \in open[q] => tab[q][j].pid = "service" /\ Named(q, j)
          /\ Free(q, j) \/ j \in open[q] \/ \E v \in Threads : Works(v, q, j)
      BY <2>1, <3>3 DEF ProcOK, TableOK
    <3>5. \A v \in Threads : Works(v, q, j) => Works(v, q, j)'
      BY <2>1 DEF Works, Proc, OwnLabels
    <3>6. CASE u = t
      BY <3>4, <3>5, <3>6 DEF InheritPcs
    <3>7. CASE u # t
      BY <2>1, <3>1, <3>4, <3>5, <3>7 DEF ProcOK, TableOK, Proc, At
    <3> QED
      BY <3>6, <3>7
  <2> QED
    BY <2>2, <2>3, <2>4 DEF ProcOK
<1>4. SourceInv'
  <2> SUFFICES ASSUME NEW u \in Threads, NEW c \in Procs, NEW j \in Slots,
                      th'[u].proc = c, th'[u].pc \in InheritPcs, th'[u].i <= j,
                      tab[c][j].pid # "free"
               PROVE  \E q \in Procs : Keeps(q, j)' /\ tab[q][j] = tab[c][j]
    BY DEF SourceInv, Proc, Free
  <2>1. u # t
    BY DEF InheritPcs
  <2>2. PICK q \in Procs : Keeps(q, j) /\ tab[q][j] = tab[c][j]
    BY <2>1 DEF IInv, SourceInv, Proc, Free
  <2> QED
    BY <1>1, <2>2 DEF Keeps
<1>5. CleanInv'
  BY DEF IInv, CleanInv, Named
<1>6. ObjectInv'
  <2>1. \A q \in Procs, j \in Slots :
           HeldBefore(q, j) /\ (Runs(q) /\ Named(q, j) => StillKnown(tab[q][j].id))
    BY <1>1 DEF HeldBefore, Holds, Named, StillKnown
  <2>2. \A u \in Threads : th'[u].ans = th[u].ans
    OBVIOUS
  <2> QED
    BY <2>1, <2>2, ObjectsKept
<1> QED
  BY <1>2, <1>3, <1>4, <1>5, <1>6 DEF ProcInv

(* Popups come and go.                                                     *)
LEMMA popupInv ==
    ASSUME IInv, NEW t \in Threads, popup(t) \/ popup_exit(t)
    PROVE  IInv'
<1>1. PICK r \in Procs \cup {None} :
        /\ th' = [th EXCEPT ![t] = Idle(r)]
        /\ r # None => \E u \in Threads \ {t} : At(u, "idle") /\ Proc(u) = r
        /\ \E u \in Threads \ {t} : Proc(u) = Proc(t) \/ Proc(t) = None
        /\ At(t, "idle")
  <2>1. CASE popup(t)
    BY <2>1, Parts DEF popup, MayCall, IInv, LabelInv
  <2>2. CASE popup_exit(t)
    BY <2>2, Parts DEF popup_exit, MayCall
  <2> QED
    BY <2>1, <2>2
<1>2. UNCHANGED <<tab, lck, open, live, dying, failed>>
  BY DEF popup, popup_exit
<1>3. /\ Idle(r) \in Thread /\ Idle(r).proc = r /\ Idle(r).pc = "idle"
      /\ Idle(r).src = -1 /\ Idle(r).ans = None
  BY Given DEF Idle, Thread, Pcs
<1>4. /\ th' \in [Threads -> Thread] /\ th'[t] = Idle(r)
      /\ \A u \in Threads \ {t} : th'[u] = th[u]
  BY <1>1, <1>3, Parts
<1>5. th[t].ans = None
  BY <1>1 DEF IInv, LabelInv, At
<1>6. \A q \in Procs : Runs(q)' <=> Runs(q)
  BY <1>1, <1>3, <1>4, Given DEF Runs, Proc
<1>7. \A u \in Threads \ {t} : Proc(u) = r => th[u].pc \notin InheritPcs \/ Proc(u) = None
  <2> SUFFICES ASSUME NEW u \in Threads \ {t}, Proc(u) = r, r # None, r \in Procs
               PROVE  th[u].pc \notin InheritPcs
    OBVIOUS
  <2>1. PICK v \in Threads : At(v, "idle") /\ Proc(v) = r
    BY <1>1
  <2> QED
    BY <2>1 DEF IInv, ProcInv, ProcOK, ApartOK, At, InheritPcs
<1>8. LabelInv' /\ ProcInv' /\ SourceInv' /\ CleanInv' /\ ObjectInv'
  BY <1>1, <1>2, <1>3, <1>4, <1>5, <1>6, <1>7, IdleKept
<1>9. TypeOK'
  BY <1>2, <1>4, Parts, TypesAfter
<1> QED
  BY <1>8, <1>9 DEF IInv
(* _vfs_deinit, done with the table: the process and its popups are gone.  *)
LEMMA deinitEndInv ==
    ASSUME IInv, NEW t \in Threads, _vfs_deinit(t), th[t].i = NPipes
    PROVE  IInv'
<1>1. PICK p \in Procs :
        /\ p = Proc(t)
        /\ th' = [u \in Threads |-> IF Proc(u) = p THEN Idle(None) ELSE th[u]]
  BY Parts DEF _vfs_deinit, At
<1>2. UNCHANGED <<tab, lck, open, live, dying, failed>> /\ At(t, "deinit")
  BY DEF _vfs_deinit
<1>3. /\ Idle(None) \in Thread /\ Idle(None).proc = None /\ Idle(None).pc = "idle"
      /\ Idle(None).src = -1 /\ Idle(None).ans = None
  BY Given DEF Idle, Thread, Pcs
<1>4. /\ th' \in [Threads -> Thread] /\ None \notin Procs /\ p # None
      /\ \A u \in Threads : th[u].proc = p => th'[u] = Idle(None)
      /\ \A u \in Threads : th[u].proc # p => th'[u] = th[u]
  BY <1>1, <1>3, Parts, Given DEF Proc
<1>5. EntryOK(p) /\ ApartOK(p) /\ TableOK(p)
  BY DEF IInv, ProcInv, ProcOK
<1>6. /\ \A j \in Slots : j \notin open[p] /\ Free(p, j) /\ ~Named(p, j)
      /\ \A u \in Threads : th[u].proc = p => th[u].pc \in {"idle", "deinit"} /\ th[u].ans = None
  <2>1. \A j \in Slots : j \notin open[p] /\ Free(p, j)
    BY <1>1, <1>2, <1>5, Given DEF TableOK
  <2>2. \A u \in Threads : th[u].proc = p => th[u].pc \in {"idle", "deinit"}
    BY <1>1, <1>2, <1>5 DEF ApartOK, Proc, At
  <2> QED
    BY <2>1, <2>2 DEF IInv, CleanInv, LabelInv, Free
<1>7. /\ ~Runs(p)'
      /\ \A q \in Procs \ {p} : Runs(q)' <=> Runs(q)
      /\ \A u \in Threads, q \in Procs : th'[u].proc = q <=> (th[u].proc = q /\ q # p)
      /\ \A q \in Procs \ {p}, j \in Slots : Own(q, j)' <=> Own(q, j)
  <2>1. \A u \in Threads, q \in Procs : th'[u].proc = q <=> (th[u].proc = q /\ q # p)
    BY <1>3, <1>4
  <2>2. ~Runs(p)' /\ \A q \in Procs \ {p} : Runs(q)' <=> Runs(q)
    BY <2>1 DEF Runs, Proc
  <2>3. \A q \in Procs \ {p}, j \in Slots : Own(q, j)' <=> Own(q, j)
    <3> SUFFICES ASSUME NEW q \in Procs \ {p}, NEW j \in Slots PROVE Own(q, j)' <=> Own(q, j)
      OBVIOUS
    <3>1. \A u \in Threads : /\ th'[u].proc = q <=> th[u].proc = q
                             /\ th[u].proc = q => th'[u] = th[u]
      BY <1>4, <2>1
    <3> QED
      BY <3>1 DEF Own, InLibrary, Proc, At
  <2> QED
    BY <2>1, <2>2, <2>3
<1>8. LabelInv'
  BY <1>3, <1>4 DEF IInv, LabelInv, Proc, At, OwnLabels, InheritPcs
<1>9. ProcInv'
  <2> SUFFICES ASSUME NEW q \in Procs PROVE ProcOK(q)'
    BY DEF ProcInv
  <2>1. \A u \in Threads : /\ th'[u].proc = q => q # p
                           /\ q # p => (th'[u].proc = q <=> th[u].proc = q)
                           /\ q # p /\ th[u].proc = q => th'[u] = th[u]
    BY <1>4, <1>7
  <2>2. ProcOK(q) /\ tab' = tab /\ open' = open
    BY <1>2 DEF IInv, ProcInv
  <2>3. EntryOK(q)'
    BY <2>1, <2>2 DEF ProcOK, EntryOK, Proc, At, Free, Named
  <2>4. ApartOK(q)'
    BY <2>1, <2>2 DEF ProcOK, ApartOK, Proc, At
  <2>5. TableOK(q)'
    BY <2>1, <2>2 DEF ProcOK, TableOK, Proc, At, Free, Named, Works
  <2> QED
    BY <2>3, <2>4, <2>5 DEF ProcOK
<1>10. SourceInv'
  <2> SUFFICES ASSUME NEW u \in Threads, NEW c \in Procs, NEW j \in Slots,
                      th'[u].proc = c, th'[u].pc \in InheritPcs, th'[u].i <= j,
                      tab[c][j].pid # "free"
               PROVE  \E q \in Procs : Keeps(q, j)' /\ tab[q][j] = tab[c][j]
    BY <1>2 DEF SourceInv, Proc, Free
  <2>1. th'[u] = th[u]
    BY <1>4, <1>7
  <2>2. PICK q \in Procs : Keeps(q, j) /\ tab[q][j] = tab[c][j]
    BY <2>1 DEF IInv, SourceInv, Proc, Free
  <2>3. q # p
    BY <1>6, <2>2 DEF Keeps
  <2> QED
    BY <1>2, <1>7, <2>2, <2>3 DEF Keeps
<1>11. CleanInv'
  BY <1>2 DEF IInv, CleanInv, Named
<1>12. ObjectInv'
  <2>1. \A q \in Procs, j \in Slots :
           HeldBefore(q, j) /\ (Runs(q) /\ Named(q, j) => StillKnown(tab[q][j].id))
    <3> SUFFICES ASSUME NEW q \in Procs, NEW j \in Slots
                 PROVE  HeldBefore(q, j) /\ (Runs(q) /\ Named(q, j) => StillKnown(tab[q][j].id))
      OBVIOUS
    <3>1. CASE q = p
      BY <1>6, <1>7, <3>1 DEF HeldBefore, Holds
    <3>2. CASE q # p
      BY <1>2, <1>7, <3>2 DEF HeldBefore, Holds, Named, StillKnown
    <3> QED
      BY <3>1, <3>2
  <2>2. \A u \in Threads : th'[u].ans = th[u].ans
    BY <1>3, <1>4, <1>6
  <2> QED
    BY <1>2, <2>1, <2>2, ObjectsKept
<1>13. TypeOK'
  BY <1>2, <1>4, Parts, TypesAfter
<1> QED
  BY <1>8, <1>9, <1>10, <1>11, <1>12, <1>13 DEF IInv
(* fork: nobody else of the parent is in the library, so that everything   *)
(* in its table is free or open; the child begins to inherit.              *)
LEMMA forkInv ==
    ASSUME IInv, Careful, NEW t \in Threads, fork(t)
    PROVE  IInv'
<1>0. PICK q0 \in Procs : q0 = Proc(t)
  BY Parts DEF fork, MayCall
<1>1. PICK u \in Threads, p \in Procs :
        /\ q0 = Proc(t) /\ Proc(u) = None /\ \A v \in Threads : Proc(v) # p
        /\ tab' = [tab EXCEPT ![p] = tab[q0]]
        /\ lck' = [lck EXCEPT ![p] = lck[q0]]
        /\ open' = [open EXCEPT ![p] = open[q0]]
        /\ th' = [th EXCEPT ![u] = [Idle(p) EXCEPT !.pc = "inherit"]]
  BY <1>0 DEF fork
<1>2. /\ UNCHANGED <<live, dying, failed>> /\ Proc(t) = q0 /\ p # q0
      /\ \A v \in Threads : th[v].proc = q0 => th[v].pc = "idle"
  BY <1>1 DEF fork, InLibrary, Proc, At
<1>3. /\ th[u].pc = "idle" /\ th[u].ans = None
  BY <1>1 DEF IInv, LabelInv, At
<1>4. /\ th' \in [Threads -> Thread]
      /\ th'[u].proc = p /\ th'[u].pc = "inherit" /\ th'[u].i = 0 /\ th'[u].src = -1
      /\ th'[u].ans = None
      /\ \A v \in Threads \ {u} : th'[v] = th[v]
  <2> DEFINE r == [Idle(p) EXCEPT !.pc = "inherit"]
  <2>1. /\ r \in Thread /\ r.proc = p /\ r.pc = "inherit" /\ r.i = 0 /\ r.src = -1
        /\ r.ans = None
    BY Given DEF Idle, Thread, Pcs, InheritPcs
  <2>2. th' = [th EXCEPT ![u] = r]
    BY <1>1
  <2> HIDE DEF r
  <2> QED
    BY <2>1, <2>2, Parts
<1>5. /\ tab' \in [Procs -> [Slots -> Entry]] /\ open' \in [Procs -> SUBSET Slots]
      /\ lck' \in [Procs -> Threads \cup {None}]
      /\ tab'[p] = tab[q0] /\ open'[p] = open[q0]
      /\ \A q \in Procs \ {p} : tab'[q] = tab[q] /\ open'[q] = open[q]
  BY <1>1, Parts
<1>6. /\ \A v \in Threads : th'[v].proc = p <=> v = u
      /\ \A v \in Threads, q \in Procs \ {p} : /\ th'[v].proc = q <=> th[v].proc = q
                                               /\ th[v].proc = q => th'[v] = th[v]
  BY <1>1, <1>4, Given DEF Proc
<1>7. EntryOK(q0) /\ ApartOK(q0) /\ TableOK(q0)
  BY DEF IInv, ProcInv, ProcOK
<1>8. \A j \in Slots : /\ Free(q0, j) \/ j \in open[q0]
                       /\ j \in open[q0] => tab[q0][j].pid = "service" /\ Named(q0, j)
  <2>1. \A v \in Threads, j \in Slots : ~Works(v, q0, j)
    BY <1>2 DEF Works, Proc, OwnLabels
  <2> QED
    BY <1>2, <1>7, <2>1 DEF TableOK
<1>9. /\ Runs(p)' /\ ~Runs(p) /\ Runs(q0)
      /\ \A q \in Procs \ {p} : Runs(q)' <=> Runs(q)
      /\ \A q \in Procs \ {p}, j \in Slots : Own(q, j)' <=> Own(q, j)
      /\ \A j \in Slots : ~Own(p, j)' /\ Own(q0, j)
  <2>1. Runs(p)' /\ ~Runs(p) /\ Runs(q0) /\ \A q \in Procs \ {p} : Runs(q)' <=> Runs(q)
    BY <1>1, <1>2, <1>6 DEF Runs, Proc
  <2>2. \A q \in Procs \ {p}, j \in Slots : Own(q, j)' <=> Own(q, j)
    BY <1>6 DEF Own, InLibrary, Proc, At
  <2>3. \A j \in Slots : ~Own(p, j)'
    <3>1. u \in InLibrary(p)' /\ th'[u].pc \in InheritPcs
      BY <1>4 DEF InLibrary, Proc, At, InheritPcs
    <3>2. \A j \in Slots : ~(0 > j)
      BY Given
    <3> QED
      BY <1>4, <3>1, <3>2 DEF Own
  <2>4. \A j \in Slots : Own(q0, j)
    BY <1>2 DEF Own, InLibrary, Proc, At
  <2> QED
    BY <2>1, <2>2, <2>3, <2>4
<1>10. LabelInv'
  BY <1>4, Given DEF IInv, LabelInv, Proc, At, OwnLabels
<1>11. ProcInv'
  <2> SUFFICES ASSUME NEW q \in Procs PROVE ProcOK(q)'
    BY DEF ProcInv
  <2>1. CASE q = p
    <3>1. EntryOK(p)'
      BY <1>4, <1>6 DEF EntryOK, Proc, At, OwnLabels
    <3>2. ApartOK(p)'
      BY <1>6 DEF ApartOK, Proc
    <3>3. TableOK(p)'
      BY <1>4, <1>5, <1>6, <1>8 DEF TableOK, Proc, At, Free, Named
    <3> QED
      BY <2>1, <3>1, <3>2, <3>3 DEF ProcOK
  <2>2. CASE q # p
    <3>1. /\ ProcOK(q) /\ tab'[q] = tab[q] /\ open'[q] = open[q]
          /\ \A v \in Threads : /\ th'[v].proc = q <=> th[v].proc = q
                                /\ th[v].proc = q => th'[v] = th[v]
      BY <1>5, <1>6, <2>2 DEF IInv, ProcInv
    <3>2. EntryOK(q)'
      BY <3>1 DEF ProcOK, EntryOK, Proc, At, Free, Named
    <3>3. ApartOK(q)'
      BY <3>1 DEF ProcOK, ApartOK, Proc, At
    <3>4. TableOK(q)'
      BY <3>1 DEF ProcOK, TableOK, Proc, At, Free, Named, Works
    <3> QED
      BY <3>2, <3>3, <3>4 DEF ProcOK
  <2> QED
    BY <2>1, <2>2
<1>12. SourceInv'
  <2> SUFFICES ASSUME NEW v \in Threads, NEW c \in Procs, NEW j \in Slots,
                      th'[v].proc = c, th'[v].pc \in InheritPcs, th'[v].i <= j,
                      tab'[c][j].pid # "free"
               PROVE  \E q \in Procs : Keeps(q, j)' /\ tab'[q][j] = tab'[c][j]
    BY DEF SourceInv, Proc, Free
  <2>1. CASE c = p
    <3>1. Keeps(q0, j)'
      <4>1. j \in open[q0]
        BY <1>5, <1>8, <2>1 DEF Free
      <4> QED
        BY <1>2, <1>5, <1>9, <4>1 DEF Keeps
    <3> QED
      BY <1>2, <1>5, <2>1, <3>1
  <2>2. CASE c # p
    <3>1. th'[v] = th[v] /\ tab'[c] = tab[c]
      BY <1>5, <1>6, <2>2
    <3>2. PICK q \in Procs : Keeps(q, j) /\ tab[q][j] = tab[c][j]
      BY <3>1 DEF IInv, SourceInv, Proc, Free
    <3>3. q # p
      BY <1>9, <3>2 DEF Keeps
    <3> QED
      BY <1>5, <1>9, <3>1, <3>2, <3>3 DEF Keeps
  <2> QED
    BY <2>1, <2>2
<1>13. CleanInv'
  <2> SUFFICES ASSUME NEW q \in Procs, NEW j \in Slots, tab'[q][j].pid # "service"
               PROVE  tab'[q][j].id = None
    BY DEF CleanInv, Named
  <2> QED
    BY <1>5 DEF IInv, CleanInv, Named
<1>14. ObjectInv'
  <2>1. \A q \in Procs, j \in Slots :
           HeldBefore(q, j) /\ (Runs(q) /\ Named(q, j) => StillKnown(tab[q][j].id))
    <3> SUFFICES ASSUME NEW q \in Procs, NEW j \in Slots
                 PROVE  HeldBefore(q, j) /\ (Runs(q) /\ Named(q, j) => StillKnown(tab[q][j].id))
      OBVIOUS
    <3>1. CASE q = p
      BY <1>9, <3>1 DEF HeldBefore, Holds
    <3>2. CASE q # p
      BY <1>5, <1>9, <3>2 DEF HeldBefore, Holds, Named, StillKnown
    <3> QED
      BY <3>1, <3>2
  <2>2. \A v \in Threads : th'[v].ans = th[v].ans
    BY <1>3, <1>4
  <2> QED
    BY <1>2, <2>1, <2>2, ObjectsKept
<1>15. TypeOK'
  BY <1>2, <1>4, <1>5, Parts, TypesAfter
<1> QED
  BY <1>10, <1>11, <1>12, <1>13, <1>14, <1>15 DEF IInv
-----------------------------------------------------------------------------
(* A step of a child's duplicate_all_pipes: from entry k to entry i, k or  *)
(* the next, or to the end.  It writes entry k if anything.           *)
Inherits(t, p, pc, k, i, src, ans) ==
    /\ th[t].i = k /\ th[t].pc \in InheritPcs
    /\ pc \in InheritPcs \cup {"idle"}
    /\ pc = "idle" => k = NPipes /\ src = -1
    /\ k <= i \/ pc = "idle"
    /\ src \in {-1, th[t].src}
    /\ pc = "renewed" => ans # None /\ i \in Slots /\ ~Free(p, i)
    /\ ans # None => pc = "renewed"
    /\ tab' \in [Procs -> [Slots -> Entry]] /\ open' = open
    /\ \A q \in Procs \ {p} : tab'[q] = tab[q]
    /\ \A j \in Slots : /\ tab'[p][j].pid = tab[p][j].pid
                        /\ j # k => tab'[p][j] = tab[p][j]
    /\ k \in Slots => \/ tab'[p][k] = tab[p][k]
                      \/ /\ i = k + 1 /\ tab'[p][k].pid = "service"
                         /\ tab'[p][k].id # None

(* What remains true, and how many of the child's entries are its own.     *)
Inherited(p, pc, k, i) ==
    /\ LabelInv' /\ ProcInv' /\ SourceInv' /\ CleanInv'
    /\ \A q \in Procs : Runs(q)' <=> Runs(q)
    /\ \A q \in Procs \ {p}, j \in Slots : Own(q, j)' <=> Own(q, j)
    /\ \A j \in Slots : /\ Own(p, j) <=> k > j
                        /\ Own(p, j)' <=> (pc = "idle" \/ i > j)
    /\ Runs(p)
    /\ \A j \in Slots : Free(p, j) \/ j \in open[p]

(* Such a step keeps everything but the objects.                           *)
LEMMA InheritKept ==
    ASSUME IInv, NEW t \in Threads, NEW p, NEW pc, NEW k \in 0 .. NPipes, NEW i \in 0 .. NPipes,
           NEW src, NEW ans,
           Moves(t, p, pc, i, src, ans), Inherits(t, p, pc, k, i, src, ans)
    PROVE  Inherited(p, pc, k, i)
<1> USE DEF Inherits
<1>1. /\ th'[t].proc = p /\ th[t].proc = p /\ p \in Procs /\ th'[t].pc = pc
      /\ th'[t].i = i /\ th'[t].src = src /\ th'[t].ans = ans
      /\ \A u \in Threads \ {t} : th'[u] = th[u]
  BY DEF Moves, Proc
<1>2. EntryOK(p) /\ ApartOK(p) /\ TableOK(p)
  BY <1>1 DEF IInv, ProcInv, ProcOK
<1>3. \A u \in Threads : /\ th[u].proc = p <=> u = t
                         /\ th'[u].proc = p <=> u = t
  BY <1>1, <1>2 DEF ApartOK, Proc
<1>4. \A q \in Procs : Runs(q)' <=> Runs(q)
  BY <1>1 DEF Runs, Proc
<1>5. \A u \in Threads, q \in Procs \ {p} : /\ th'[u].proc = q <=> th[u].proc = q
                                            /\ th[u].proc = q => th'[u] = th[u]
  BY <1>1
<1>6. \A q \in Procs \ {p}, j \in Slots : Own(q, j)' <=> Own(q, j)
  BY <1>5 DEF Own, InLibrary, Proc, At
<1>7. \A j \in Slots : /\ Own(p, j) <=> k > j
                       /\ Own(p, j)' <=> (pc = "idle" \/ i > j)
  <2>1. InLibrary(p) = {t}
    BY <1>1, <1>3 DEF InLibrary, Proc, At, InheritPcs
  <2>2. InLibrary(p)' = IF pc = "idle" THEN {} ELSE {t}
    BY <1>1, <1>3 DEF InLibrary, Proc, At
  <2> QED
    BY <1>1, <2>1, <2>2 DEF Own
<1>8. /\ Runs(p)
      /\ \A j \in Slots : /\ Free(p, j) \/ j \in open[p]
                          /\ j \in open[p] => tab[p][j].pid = "service" /\ Named(p, j)
  BY <1>1, <1>2 DEF TableOK, Runs, Proc
<1>9. LabelInv'
  BY <1>1, Given DEF IInv, LabelInv, Proc, At, OwnLabels, InheritPcs
<1>10. ASSUME NEW j \in Slots
       PROVE  tab'[p][j] = tab[p][j] \/ (j = k /\ i = k + 1 /\ tab'[p][j].pid = "service"
                                                /\ tab'[p][j].id # None)
  OBVIOUS
<1>11. ASSUME NEW q \in Procs PROVE ProcOK(q)'
  <2>1. CASE q = p
    <3>1. EntryOK(p)'
      <4>1. pc \notin OwnLabels \cup {"link", "ask", "store"} /\ (src # -1 => src \in open[p])
        BY <1>1, <1>2 DEF EntryOK, Proc, OwnLabels, InheritPcs
      <4> QED
        BY <1>1, <1>3, <4>1 DEF EntryOK, Proc, At, Free
    <3>2. ApartOK(p)'
      BY <1>3 DEF ApartOK, Proc
    <3>3. TableOK(p)'
      <4>1. pc # "deinit"
        BY DEF InheritPcs
      <4> QED
        BY <1>1, <1>3, <1>8, <1>10, <4>1 DEF TableOK, Proc, At, Free, Named
    <3> QED
      BY <2>1, <3>1, <3>2, <3>3 DEF ProcOK
  <2>2. CASE q # p
    <3>1. /\ ProcOK(q) /\ tab'[q] = tab[q] /\ open'[q] = open[q]
          /\ \A v \in Threads : /\ th'[v].proc = q <=> th[v].proc = q
                                /\ th[v].proc = q => th'[v] = th[v]
      BY <1>5, <2>2 DEF IInv, ProcInv
    <3>2. EntryOK(q)'
      BY <3>1 DEF ProcOK, EntryOK, Proc, At, Free, Named
    <3>3. ApartOK(q)'
      BY <3>1 DEF ProcOK, ApartOK, Proc, At
    <3>4. TableOK(q)'
      BY <3>1 DEF ProcOK, TableOK, Proc, At, Free, Named, Works
    <3> QED
      BY <3>2, <3>3, <3>4 DEF ProcOK
  <2> QED
    BY <2>1, <2>2
<1>12. SourceInv'
  <2> SUFFICES ASSUME NEW u \in Threads, NEW c \in Procs, NEW j \in Slots,
                      th'[u].proc = c, th'[u].pc \in InheritPcs, th'[u].i <= j,
                      tab'[c][j].pid # "free"
               PROVE  \E q \in Procs : Keeps(q, j)' /\ tab'[q][j] = tab'[c][j]
    BY DEF SourceInv, Proc, Free
  <2>1. CASE c = p
    <3>1. u = t /\ i <= j /\ k <= j /\ pc # "idle"
      BY <1>1, <1>3, <2>1, Given DEF InheritPcs
    <3>2. tab'[p][j] = tab[p][j]
      BY <1>10, <3>1, Given
    <3>3. PICK q \in Procs : Keeps(q, j) /\ tab[q][j] = tab[p][j]
      BY <1>1, <2>1, <3>1, <3>2 DEF IInv, SourceInv, Proc, Free
    <3>4. q # p
      BY <1>7, <3>1, <3>3, Given DEF Keeps
    <3> QED
      BY <1>4, <1>6, <2>1, <3>2, <3>3, <3>4 DEF Keeps
  <2>2. CASE c # p
    <3>1. th'[u] = th[u] /\ tab'[c] = tab[c]
      BY <1>5, <2>2
    <3>2. PICK q \in Procs : Keeps(q, j) /\ tab[q][j] = tab[c][j]
      BY <3>1 DEF IInv, SourceInv, Proc, Free
    <3>3. CASE q # p
      BY <1>4, <1>6, <3>1, <3>2, <3>3 DEF Keeps
    <3>4. CASE q = p
      <4>1. k > j
        BY <1>7, <3>2, <3>4 DEF Keeps
      <4>2. tab'[p][j] = tab[p][j] /\ (pc = "idle" \/ i > j)
        BY <4>1, Given
      <4> QED
        BY <1>4, <1>7, <3>1, <3>2, <3>4, <4>2 DEF Keeps
    <3> QED
      BY <3>3, <3>4
  <2> QED
    BY <2>1, <2>2
<1>13. CleanInv'
  <2> SUFFICES ASSUME NEW q \in Procs, NEW j \in Slots, tab'[q][j].pid # "service"
               PROVE  tab'[q][j].id = None
    BY DEF CleanInv, Named
  <2>1. tab'[q][j] = tab[q][j]
    BY <1>10
  <2> QED
    BY <2>1 DEF IInv, CleanInv, Named
<1> QED
  BY <1>4, <1>6, <1>7, <1>8, <1>9, <1>11, <1>12, <1>13 DEF ProcInv, Inherited
(* Steps of it that write nothing and ask for nothing: the lock is taken   *)
(* and, at the end, given back; a free entry is passed over.               *)
LEMMA InheritQuietInv ==
    ASSUME IInv, NEW t \in Threads, NEW p, NEW pc, NEW k \in 0 .. NPipes, NEW i \in 0 .. NPipes,
           NEW src,
           Moves(t, p, pc, i, src, None), Inherits(t, p, pc, k, i, src, None),
           th[t].ans = None, tab' = tab, live' = live, dying' = dying, failed' = failed,
           lck' \in [Procs -> Threads \cup {None}],
           i = k \/ (i = k + 1 /\ Free(p, k)) \/ pc = "idle"
    PROVE  IInv'
<1>1. /\ LabelInv' /\ ProcInv' /\ SourceInv' /\ CleanInv'
      /\ \A q \in Procs : Runs(q)' <=> Runs(q)
      /\ \A q \in Procs \ {p}, j \in Slots : Own(q, j)' <=> Own(q, j)
      /\ \A j \in Slots : /\ Own(p, j) <=> k > j
                          /\ Own(p, j)' <=> (pc = "idle" \/ i > j)
      /\ Runs(p)
  <2>1. Inherited(p, pc, k, i)
    BY InheritKept
  <2> QED
    BY <2>1 DEF Inherited
<1>2. /\ th' \in [Threads -> Thread] /\ th'[t].ans = None /\ p \in Procs
      /\ \A u \in Threads \ {t} : th'[u] = th[u]
      /\ pc = "idle" => k = NPipes
      /\ open' = open
  BY DEF Moves, Inherits
<1>3. \A j \in Slots : Named(p, j) /\ Own(p, j)' => Own(p, j)
  <2> SUFFICES ASSUME NEW j \in Slots, Named(p, j), Own(p, j)' PROVE k > j
    BY <1>1
  <2>1. CASE pc = "idle"
    BY <1>2, <2>1, Given
  <2>2. CASE i = k /\ pc # "idle"
    BY <1>1, <2>2
  <2>3. CASE i = k + 1 /\ Free(p, k) /\ pc # "idle"
    <3>1. j # k
      BY <1>2, <2>3 DEF IInv, CleanInv, Free
    <3>2. k + 1 > j
      BY <1>1, <2>3
    <3> QED
      BY <3>1, <3>2, Given
  <2> QED
    BY <2>1, <2>2, <2>3
<1>4. \A q \in Procs, j \in Slots :
         HeldBefore(q, j) /\ (Runs(q) /\ Named(q, j) => StillKnown(tab[q][j].id))
  BY <1>1, <1>3 DEF HeldBefore, Holds, Named, StillKnown
<1>5. ObjectInv'
  <2>1. \A u \in Threads : th'[u].ans = th[u].ans
    BY <1>2
  <2> QED
    BY <1>4, <2>1, ObjectsKept
<1>6. TypeOK'
  BY <1>2, Parts, TypesAfter
<1> QED
  BY <1>1, <1>5, <1>6 DEF IInv

(* duplicate_all_pipes takes the lock.                                     *)
LEMMA InheritInv ==
    ASSUME IInv, NEW t \in Threads, Inherit(t)
    PROVE  IInv'
<1>1. PICK p \in Procs, k \in 0 .. NPipes : p = Proc(t) /\ k = th[t].i
  BY Parts DEF Inherit, At, Thread
<1>2. /\ At(t, "inherit") /\ th[t] \in Thread
      /\ th' = [th EXCEPT ![t].pc = "renew"] /\ lck' = [lck EXCEPT ![p] = t]
      /\ UNCHANGED <<tab, open, live, dying, failed>>
      /\ th[t].ans = None
  BY <1>1, Parts DEF Inherit, At, IInv, LabelInv
<1>3. Moves(t, p, "renew", k, th[t].src, None)
  <2> DEFINE r == [th[t] EXCEPT !.pc = "renew"]
  <2>1. th' = [th EXCEPT ![t] = r]
    BY <1>2, Parts
  <2>2. /\ r \in Thread /\ r.proc = p /\ r.pc = "renew" /\ r.i = k /\ r.src = th[t].src
        /\ r.ans = None
    BY <1>1, <1>2 DEF Thread, Pcs, InheritPcs, Proc
  <2> HIDE DEF r
  <2> QED
    BY <1>1, <2>1, <2>2, Steps
<1>4. Inherits(t, p, "renew", k, k, th[t].src, None)
  BY <1>1, <1>2, Parts, Given DEF Inherits, At, InheritPcs
<1>5. lck' \in [Procs -> Threads \cup {None}]
  BY <1>2, Parts
<1> QED
  BY <1>2, <1>3, <1>4, <1>5, InheritQuietInv

(* It is done, or comes to an entry.  One that is not free names an object *)
(* that is alive, that of the process it comes from: the service refuses   *)
(* no duplicate of it.                                                     *)
LEMMA RenewInv ==
    ASSUME IInv, NEW t \in Threads, Renew(t)
    PROVE  IInv'
<1>1. PICK p \in Procs, k \in 0 .. NPipes : p = Proc(t) /\ k = th[t].i
  BY Parts DEF Renew, At, Thread
<1>2. /\ At(t, "renew") /\ th[t] \in Thread /\ UNCHANGED <<tab, open, dying, failed>>
      /\ th[t].ans = None /\ th[t].pc = "renew" /\ th[t].proc = p
  BY <1>1, Parts DEF Renew, At, IInv, LabelInv, Proc
<1>3. CASE k = NPipes
  <2>1. lck' = [lck EXCEPT ![p] = None] /\ th' = [th EXCEPT ![t] = Idle(p)] /\ live' = live
    BY <1>1, <1>3 DEF Renew
  <2>2. Moves(t, p, "idle", 0, -1, None)
    <3>1. /\ Idle(p) \in Thread /\ Idle(p).proc = p /\ Idle(p).pc = "idle" /\ Idle(p).i = 0
          /\ Idle(p).src = -1 /\ Idle(p).ans = None
      BY Given DEF Idle, Thread, Pcs
    <3> QED
      BY <1>1, <2>1, <3>1, Steps
  <2>3. Inherits(t, p, "idle", k, 0, -1, None)
    BY <1>1, <1>2, <1>3, Parts, Given DEF Inherits, At, InheritPcs
  <2>4. lck' \in [Procs -> Threads \cup {None}] /\ 0 \in 0 .. NPipes
    BY <2>1, Parts, Given
  <2> QED
    BY <1>2, <2>1, <2>2, <2>3, <2>4, InheritQuietInv
<1>4. CASE k # NPipes /\ Free(p, k)
  <2>1. lck' = lck /\ th' = [th EXCEPT ![t].i = k + 1] /\ live' = live
    BY <1>1, <1>4 DEF Renew, Free
  <2>2. k + 1 \in 0 .. NPipes /\ k \in Slots
    BY <1>4, Given
  <2>3. Moves(t, p, "renew", k + 1, th[t].src, None)
    <3> DEFINE r == [th[t] EXCEPT !.i = k + 1]
    <3>1. th' = [th EXCEPT ![t] = r]
      BY <2>1, Parts
    <3>2. /\ r \in Thread /\ r.proc = p /\ r.pc = "renew" /\ r.i = k + 1 /\ r.src = th[t].src
          /\ r.ans = None
      BY <1>1, <1>2, <2>2 DEF Thread, Proc, At
    <3> HIDE DEF r
    <3> QED
      BY <1>1, <3>1, <3>2, Steps
  <2>4. Inherits(t, p, "renew", k, k + 1, th[t].src, None)
    BY <1>1, <1>2, <1>4, Parts, Given DEF Inherits, At, InheritPcs
  <2> QED
    BY <1>2, <1>4, <2>1, <2>2, <2>3, <2>4, InheritQuietInv, Parts
<1>5. CASE k # NPipes /\ ~Free(p, k)
  <2>1. k \in Slots
    BY <1>5, Given
  <2>2. PICK q \in Procs : Keeps(q, k) /\ tab[q][k] = tab[p][k]
    BY <1>1, <1>2, <1>5, <2>1, Given DEF IInv, SourceInv, InheritPcs
  <2>3. tab[p][k].pid = "service" /\ tab[p][k].id \in live
    <3>1. tab[p][k].pid = "service" /\ Named(p, k)
      BY <1>1, <1>2, <1>5, <2>1 DEF IInv, ProcInv, ProcOK, TableOK, InheritPcs
    <3>2. Holds(q, k)
      BY <2>2, <3>1 DEF Holds, Keeps, Named
    <3> QED
      BY <2>1, <2>2, <3>1, <3>2 DEF IInv, ObjectInv, HeldInv
  <2>4. PICK a \in Ids \ live : /\ live' = live \cup ({a} \ {None})
                                /\ th' = [th EXCEPT ![t].pc = "renewed", ![t].ans = a]
    BY <1>1, <1>5, <2>3 DEF Renew, Free
  <2>5. lck' = lck /\ a # None /\ live' = live \cup {a}
    BY <1>1, <1>5, <2>4, Given DEF Renew
  <2>6. Moves(t, p, "renewed", k, th[t].src, a)
    <3> DEFINE r == [th[t] EXCEPT !.pc = "renewed", !.ans = a]
    <3>1. th' = [th EXCEPT ![t] = r]
      BY <2>4, Parts
    <3>2. /\ r \in Thread /\ r.proc = p /\ r.pc = "renewed" /\ r.i = k /\ r.src = th[t].src
          /\ r.ans = a
      BY <1>1, <1>2, <2>1 DEF Thread, Pcs, InheritPcs
    <3> HIDE DEF r
    <3> QED
      BY <1>1, <3>1, <3>2, Steps
  <2>7. Inherits(t, p, "renewed", k, k, th[t].src, a)
    BY <1>1, <1>2, <1>5, <2>1, <2>5, Parts, Given DEF Inherits, At, InheritPcs
  <2>8. /\ LabelInv' /\ ProcInv' /\ SourceInv' /\ CleanInv'
        /\ \A r \in Procs : Runs(r)' <=> Runs(r)
        /\ \A r \in Procs, j \in Slots : Own(r, j)' <=> Own(r, j)
    <3>1. /\ LabelInv' /\ ProcInv' /\ SourceInv' /\ CleanInv'
          /\ \A r \in Procs : Runs(r)' <=> Runs(r)
          /\ \A r \in Procs \ {p}, j \in Slots : Own(r, j)' <=> Own(r, j)
          /\ \A j \in Slots : /\ Own(p, j) <=> k > j
                              /\ Own(p, j)' <=> ("renewed" = "idle" \/ k > j)
      <4>1. Inherited(p, "renewed", k, k)
        BY <2>6, <2>7, InheritKept
      <4> QED
        BY <4>1 DEF Inherited
    <3> QED
      BY <3>1
  <2>9. \A r \in Procs, j \in Slots :
           HeldBefore(r, j) /\ (Runs(r) /\ Named(r, j) => StillKnown(tab[r][j].id))
    BY <1>2, <2>8 DEF HeldBefore, Holds, Named, StillKnown
  <2>10. /\ th' \in [Threads -> Thread] /\ th'[t].ans = a
         /\ \A u \in Threads \ {t} : th'[u].ans = th[u].ans
    BY <2>6 DEF Moves
  <2>11. ObjectInv'
    <3>1. dying' = dying
      BY <1>2
    <3> QED
      BY <1>2, <2>5, <2>9, <2>10, <3>1, ObjectBorn
  <2>12. TypeOK'
    BY <1>2, <2>5, <2>10, Parts, TypesAfter
  <2> QED
    BY <2>8, <2>11, <2>12 DEF IInv
<1> QED
  BY <1>3, <1>4, <1>5

(* The child stores its own object: the entry holds it from now on, and    *)
(* the process it comes from still has the other.                          *)
LEMMA RenewedInv ==
    ASSUME IInv, NEW t \in Threads, Renewed(t)
    PROVE  IInv'
<1>1. PICK p \in Procs, k \in Slots : p = Proc(t) /\ k = th[t].i
  BY Parts DEF Renewed, At, IInv, LabelInv
<1>2. /\ At(t, "renewed") /\ th[t] \in Thread /\ UNCHANGED <<lck, open, live, dying>>
      /\ th[t].ans # None /\ th[t].pc = "renewed" /\ th[t].proc = p
      /\ k \in 0 .. NPipes /\ k + 1 \in 0 .. NPipes
  BY <1>1, Parts, Given DEF Renewed, At, IInv, LabelInv, Proc
<1>3. /\ tab' = [tab EXCEPT ![p][k].id = th[t].ans] /\ failed' = failed
      /\ th' = [th EXCEPT ![t].pc = "renew", ![t].i = k + 1, ![t].ans = None]
  BY <1>1, <1>2 DEF Renewed
<1>4. ~Free(p, k) /\ tab[p][k].pid = "service" /\ Named(p, k)
  BY <1>1, <1>2 DEF IInv, ProcInv, ProcOK, EntryOK, TableOK, InheritPcs
<1>5. PICK q \in Procs : Keeps(q, k) /\ tab[q][k] = tab[p][k]
  BY <1>1, <1>2, <1>4, Given DEF IInv, SourceInv, InheritPcs
<1>6. /\ tab' \in [Procs -> [Slots -> Entry]]
      /\ tab'[p][k].pid = "service" /\ tab'[p][k].id = th[t].ans
      /\ \A r \in Procs \ {p} : tab'[r] = tab[r]
      /\ \A j \in Slots \ {k} : tab'[p][j] = tab[p][j]
  <2> DEFINE e == [tab[p][k] EXCEPT !.id = th[t].ans]
  <2>1. tab' = [tab EXCEPT ![p][k] = e]
    BY <1>3, Parts
  <2>2. tab[p][k] \in Entry /\ th[t].ans \in Ids \cup {None}
    BY <1>2, Parts DEF Thread
  <2>3. e \in Entry /\ e.pid = "service" /\ e.id = th[t].ans
    BY <1>4, <2>2 DEF Entry
  <2> HIDE DEF e
  <2> QED
    BY <2>1, <2>3, Parts
<1>7. Moves(t, p, "renew", k + 1, th[t].src, None)
  <2> DEFINE r == [th[t] EXCEPT !.pc = "renew", !.i = k + 1, !.ans = None]
  <2>1. th' = [th EXCEPT ![t] = r]
    BY <1>3, Parts
  <2>2. /\ r \in Thread /\ r.proc = p /\ r.pc = "renew" /\ r.i = k + 1 /\ r.src = th[t].src
        /\ r.ans = None
    BY <1>1, <1>2 DEF Thread, Pcs, InheritPcs
  <2> HIDE DEF r
  <2> QED
    BY <1>1, <2>1, <2>2, Steps
<1>8. Inherits(t, p, "renew", k, k + 1, th[t].src, None)
  <2>1. \A j \in Slots : tab'[p][j].pid = tab[p][j].pid
    BY <1>4, <1>6
  <2> QED
    BY <1>1, <1>2, <1>6, <2>1, Given DEF Inherits, At, InheritPcs
<1>9. /\ LabelInv' /\ ProcInv' /\ SourceInv' /\ CleanInv'
      /\ \A r \in Procs : Runs(r)' <=> Runs(r)
      /\ \A r \in Procs \ {p}, j \in Slots : Own(r, j)' <=> Own(r, j)
      /\ \A j \in Slots : /\ Own(p, j) <=> k > j
                          /\ Own(p, j)' <=> ("renew" = "idle" \/ k + 1 > j)
      /\ Runs(p)
  <2>1. Inherited(p, "renew", k, k + 1)
    BY <1>2, <1>7, <1>8, InheritKept
  <2> QED
    BY <2>1 DEF Inherited
<1>10. q # p
  <2>1. ~(k > k)
    BY <1>1, Given
  <2> QED
    BY <1>5, <1>9, <2>1 DEF Keeps
<1>11. ASSUME NEW r \in Procs, NEW j \in Slots, ~(r = p /\ j = k)
       PROVE  tab'[r][j] = tab[r][j] /\ HeldBefore(r, j)
  <2>1. tab'[r][j] = tab[r][j]
    BY <1>6, <1>11
  <2>2. CASE r = p
    <3>1. k + 1 > j /\ j # k => k > j
      BY Given
    <3> QED
      BY <1>9, <1>11, <2>1, <2>2, <3>1 DEF HeldBefore, Holds, Named
  <2>3. CASE r # p
    BY <1>9, <2>1, <2>3 DEF HeldBefore, Holds, Named
  <2> QED
    BY <2>1, <2>2, <2>3
<1>12. \A r \in Procs, j \in Slots : Runs(r) /\ Named(r, j) => StillKnown(tab[r][j].id)
  <2> SUFFICES ASSUME NEW r \in Procs, NEW j \in Slots, Runs(r)
               PROVE  \E r1 \in Procs, j1 \in Slots : Runs(r1)' /\ tab'[r1][j1].id = tab[r][j].id
    BY DEF StillKnown
  <2>1. CASE r = p /\ j = k
    <3>1. Runs(q)' /\ tab'[q][k] = tab[p][k]
      BY <1>5, <1>6, <1>9, <1>10 DEF Keeps
    <3> QED
      BY <2>1, <3>1
  <2>2. CASE ~(r = p /\ j = k)
    BY <1>9, <1>11, <2>2
  <2> QED
    BY <2>1, <2>2
<1>13. /\ th' \in [Threads -> Thread] /\ th'[t].ans = None
       /\ \A u \in Threads \ {t} : th'[u].ans = th[u].ans
  BY <1>7 DEF Moves
<1>14. ObjectInv'
  <2>1. live' = live /\ dying' = dying /\ Runs(p)' /\ tab'[p][k].id = th[t].ans
    BY <1>2, <1>6, <1>9
  <2>2. \A r \in Procs, j \in Slots : ~(r = p /\ j = k) => HeldBefore(r, j)
    BY <1>11
  <2> QED
    BY <1>2, <1>12, <1>13, <2>1, <2>2, ObjectStored
<1>15. TypeOK'
  BY <1>2, <1>3, <1>6, <1>13, Parts, TypesAfter
<1> QED
  BY <1>9, <1>14, <1>15 DEF IInv
-----------------------------------------------------------------------------
(* The invariant holds at first, when nobody has anything.                 *)
LEMMA InitIInv == Init => IInv
<1> SUFFICES ASSUME Init PROVE IInv
  OBVIOUS
<1>1. /\ \A t \in Threads : /\ th[t] \in Thread /\ th[t].pc = "idle" /\ th[t].src = -1
                            /\ th[t].ans = None
      /\ th \in [Threads -> Thread]
  <2>1. \A p \in {Main, None} : /\ Idle(p) \in Thread /\ Idle(p).pc = "idle"
                                /\ Idle(p).src = -1 /\ Idle(p).ans = None
    BY Given DEF Idle, Thread, Pcs
  <2> QED
    BY <2>1 DEF Init
<1>2. /\ tab \in [Procs -> [Slots -> Entry]]
      /\ \A p \in Procs, i \in Slots : tab[p][i].pid = "free" /\ tab[p][i].id = None
  <2>1. Closed \in Entry /\ Closed.pid = "free" /\ Closed.id = None
    BY DEF Closed, Entry
  <2> QED
    BY <2>1 DEF Init
<1>3. TypeOK
  BY <1>1, <1>2, Types DEF Init
<1>4. CleanInv /\ LabelInv
  BY <1>1, <1>2 DEF CleanInv, LabelInv, Named, At, OwnLabels
<1>5. ASSUME NEW p \in Procs PROVE ProcOK(p)
  <2>1. EntryOK(p) /\ ApartOK(p)
    BY <1>1 DEF EntryOK, ApartOK, At, OwnLabels, InheritPcs
  <2>2. TableOK(p)
    BY <1>1, <1>2 DEF TableOK, At, Free, Init, InheritPcs
  <2> QED
    BY <2>1, <2>2 DEF ProcOK
<1>6. SourceInv
  BY <1>1 DEF SourceInv, InheritPcs
<1>7. ObjectInv
  BY <1>1, <1>2 DEF ObjectInv, HeldInv, CarriedInv, DyingInv, KnownInv, Holds, Named, Init
<1> QED
  BY <1>3, <1>4, <1>5, <1>6, <1>7 DEF IInv, ProcInv

(* Every call of a careful program keeps it.                               *)
LEMMA CallInv ==
    ASSUME IInv, Careful, NEW t \in Threads, Call(t)
    PROVE  IInv'
<1>1. CASE create_pipe(t)
  BY <1>1, create_pipeInv
<1>2. CASE duplicate_pipe(t)
  BY <1>2, duplicate_pipeInv
<1>3. CASE destroy_pipe(t)
  BY <1>3, destroy_pipeInv
<1>4. CASE fork(t)
  BY <1>4, forkInv
<1>5. CASE exit(t)
  BY <1>5, exitInv
<1>6. CASE popup(t) \/ popup_exit(t)
  BY <1>6, popupInv
<1> QED
  BY <1>1, <1>2, <1>3, <1>4, <1>5, <1>6 DEF Call

(* Every step in the library does.                                         *)
LEMMA LibraryInv ==
    ASSUME IInv, NEW t \in Threads, Step(t)
    PROVE  IInv'
<1>1. CASE Look(t)
  BY <1>1, LookInv
<1>2. CASE Claim(t)
  BY <1>2, ClaimInv, ClaimLostInv
<1>3. CASE LockAssert(t)
  BY <1>3, LockAssertInv
<1>4. CASE Resolve(t)
  BY <1>4, ResolveInv
<1>5. CASE FollowLink(t)
  BY <1>5, FollowLinkInv
<1>6. CASE Undo(t)
  BY <1>6, UndoInv
<1>7. CASE service_create_pipe(t) \/ service_duplicate_pipe(t)
  BY <1>7, AnswerInv
<1>8. CASE Store(t)
  BY <1>8, StoreInv, StoreNoneInv
<1>9. CASE Destroy(t)
  BY <1>9, DestroyInv
<1>10. CASE Inherit(t)
  BY <1>10, InheritInv
<1>11. CASE Renew(t)
  BY <1>11, RenewInv
<1>12. CASE Renewed(t)
  BY <1>12, RenewedInv
<1>13. CASE _vfs_deinit(t)
  BY <1>13, deinitStepInv, deinitEndInv
<1> QED
  BY <1>1, <1>2, <1>3, <1>4, <1>5, <1>6, <1>7, <1>8, <1>9, <1>10, <1>11, <1>12, <1>13 DEF Step

(* And so do the services, and a step that changes nothing.                *)
LEMMA StepIInv ==
    ASSUME Careful
    PROVE  IInv /\ [Next]_vars => IInv'
<1> SUFFICES ASSUME IInv, [Next]_vars PROVE IInv'
  OBVIOUS
<1>1. ASSUME NEW t \in Threads, Call(t) PROVE IInv'
  BY <1>1, CallInv
<1>2. ASSUME NEW t \in Threads, Step(t) PROVE IInv'
  BY <1>2, LibraryInv
<1>3. ASSUME NEW a \in Ids, service_destroy_pipe(a) PROVE IInv'
  BY <1>3, DestroyedInv
<1>4. CASE UNCHANGED vars
  <2> USE <1>4 DEF vars
  <2>1. TypeOK' /\ CleanInv' /\ LabelInv'
    BY DEF IInv, TypeOK, CleanInv, LabelInv, Named, Proc, At
  <2>2. ProcInv'
    <3> SUFFICES ASSUME NEW p \in Procs PROVE ProcOK(p)'
      BY DEF ProcInv
    <3>1. EntryOK(p)' /\ ApartOK(p)'
      BY DEF IInv, ProcInv, ProcOK, EntryOK, ApartOK, Named, Free, Proc, At
    <3>2. TableOK(p)'
      BY DEF IInv, ProcInv, ProcOK, TableOK, Named, Free, Proc, At, Works
    <3> QED
      BY <3>1, <3>2 DEF ProcOK
  <2>3. SourceInv'
    BY DEF IInv, SourceInv, Keeps, Runs, Own, InLibrary, Free, Proc, At
  <2>4. ObjectInv'
    <3>1. \A q \in Procs, j \in Slots :
             HeldBefore(q, j) /\ (Runs(q) /\ Named(q, j) => StillKnown(tab[q][j].id))
      BY DEF HeldBefore, Holds, Named, StillKnown, Runs, Own, InLibrary, Proc, At
    <3> QED
      BY <3>1, ObjectsKept
  <2> QED
    BY <2>1, <2>2, <2>3, <2>4 DEF IInv
<1> QED
  BY <1>1, <1>2, <1>3, <1>4 DEF Next

(* The invariant of every execution.                                       *)
LEMMA AlwaysIInv ==
    ASSUME Careful
    PROVE  Spec => []IInv
<1>1. Init => IInv
  BY InitIInv
<1>2. IInv /\ [Next]_vars => IInv'
  BY StepIInv
<1> QED
  BY <1>1, <1>2, PTL DEF Spec

-----------------------------------------------------------------------------
(* Usable speaks of the same pipes as Keeps.                               *)
LEMMA UsableKept ==
    ASSUME IInv
    PROVE  /\ \A p : p \in Running <=> p \in Procs /\ Runs(p)
           /\ \A u \in Usable : /\ u[1] \in Procs /\ u[2] \in Slots /\ Keeps(u[1], u[2])
                                /\ u = <<u[1], u[2]>>
<1>1. \A p : p \in Running <=> p \in Procs /\ Runs(p)
  <2>1. \A t \in Threads : Proc(t) \in Procs \cup {None}
    BY Parts DEF Proc, Thread
  <2> QED
    BY <2>1, Given DEF Running, Runs
<1>2. \A u \in Usable : /\ u[1] \in Running /\ u[2] \in Slots /\ u = <<u[1], u[2]>>
                        /\ u[2] \in open[u[1]] /\ Own(u[1], u[2])
  BY DEF Usable
<1> QED
  BY <1>1, <1>2 DEF Keeps

(* A pipe that a program may use has a live object of its own, that nobody *)
(* is about to destroy; no object is destroyed twice, and none is left     *)
(* without a pipe: for careful programs and any number of processes,       *)
(* threads, table entries and objects.                                     *)
THEOREM PipesAreCorrect ==
    ASSUME Careful
    PROVE  Spec => []PipesCorrect
<1>1. IInv => PipesCorrect
  <2> SUFFICES ASSUME IInv PROVE PipesCorrect
    OBVIOUS
  <2>1. ASSUME NEW u \in Usable
        PROVE  /\ tab[u[1]][u[2]].pid = "service" /\ Holds(u[1], u[2])
               /\ u[1] \in Procs /\ u[2] \in Slots /\ u = <<u[1], u[2]>>
    BY UsableKept DEF IInv, ProcInv, ProcOK, TableOK, Keeps, Holds, Runs
  <2>2. ASSUME NEW u \in Usable, NEW w \in Usable \ {u}
        PROVE  tab[w[1]][w[2]].id # tab[u[1]][u[2]].id
    BY <2>1 DEF IInv, ObjectInv, HeldInv
  <2>3. ASSUME NEW u \in Usable
        PROVE  tab[u[1]][u[2]].id \in live /\ dying[tab[u[1]][u[2]].id] = 0
    BY <2>1 DEF IInv, ObjectInv, HeldInv
  <2>4. ASSUME NEW a \in Ids PROVE dying[a] <= IF a \in live THEN 1 ELSE 0
    BY Parts DEF IInv, ObjectInv, DyingInv
  <2>5. NoDangling
    BY <2>1, <2>2, <2>3, <2>4 DEF NoDangling
  <2>6. NoOrphan
    <3> SUFFICES ASSUME NEW a \in live, dying[a] = 0, \A t \in Threads : th[t].ans # a
                 PROVE  \E p \in Running, i \in Slots : tab[p][i].pid = "service" /\ tab[p][i].id = a
      <4>1. \A a \in live : dying[a] \in Nat
        BY Parts
      <4> QED
        BY <4>1 DEF NoOrphan
    <3>1. PICK p \in Procs, i \in Slots : Runs(p) /\ tab[p][i].id = a
      BY DEF IInv, ObjectInv, KnownInv
    <3>2. a # None
      BY Parts, Given
    <3> QED
      BY <3>1, <3>2, UsableKept DEF IInv, CleanInv, Named
  <2> QED
    BY <2>5, <2>6 DEF PipesCorrect, IInv
<1>2. Spec => []IInv
  BY AlwaysIInv
<1> QED
  BY <1>1, <1>2, PTL
-----------------------------------------------------------------------------
(* No step changes an entry that somebody has: who writes an entry has     *)
(* taken it, or has just found it free, or inherits it.                    *)
LEMMA EntryUntouched ==
    ASSUME IInv, Careful, Next, NEW q \in Procs, NEW j \in Slots, Keeps(q, j)
    PROVE  tab'[q][j] = tab[q][j]
<1>1. /\ EntryOK(q) /\ TableOK(q) /\ Runs(q) /\ j \in open[q] /\ Own(q, j)
      /\ tab[q][j].pid = "service" /\ Named(q, j)
      /\ tab \in [Procs -> [Slots -> Entry]] /\ th \in [Threads -> Thread]
  BY Parts DEF IInv, ProcInv, ProcOK, TableOK, Keeps, Runs
<1>2. ASSUME NEW a \in Ids, service_destroy_pipe(a) PROVE tab' = tab
  BY <1>2 DEF service_destroy_pipe
<1>3. ASSUME NEW t \in Threads, Call(t) PROVE tab'[q][j] = tab[q][j]
  <2>1. CASE fork(t)
    <3>1. PICK p \in Procs : (\A v \in Threads : Proc(v) # p) /\ tab' = [tab EXCEPT ![p] = tab[Proc(t)]]
      BY <2>1 DEF fork
    <3>2. p # q
      BY <1>1, <3>1 DEF Runs
    <3> QED
      BY <1>1, <3>1, <3>2
  <2>2. CASE ~fork(t)
    BY <1>3, <2>2 DEF Call, create_pipe, duplicate_pipe, destroy_pipe, exit, popup, popup_exit
  <2> QED
    BY <2>1, <2>2
<1>4. ASSUME NEW t \in Threads, Step(t), tab' # tab PROVE tab'[q][j] = tab[q][j]
  <2>1. CASE Proc(t) = q /\ th[t].i = j
    <3>1. ~(th[t].pc \in OwnLabels) /\ ~At(t, "deinit")
      BY <1>1, <2>1 DEF EntryOK, TableOK
    <3>2. ~At(t, "renewed")
      <4>1. At(t, "renewed") => t \in InLibrary(q) /\ th[t].pc \in InheritPcs
        BY <2>1 DEF InLibrary, At, InheritPcs
      <4>2. ~(th[t].i > j)
        BY <2>1, Given
      <4> QED
        BY <1>1, <4>1, <4>2 DEF Own
    <3>3. ~Claim(t)
      BY <1>1, <1>4, <2>1 DEF Claim
    <3> QED
      BY <1>4, <3>1, <3>2, <3>3 DEF Step, Look, LockAssert, Resolve, FollowLink, Undo,
          service_create_pipe, service_duplicate_pipe, Store, Destroy, Inherit, Renew, Renewed,
          _vfs_deinit, OwnLabels, At
  <2>2. CASE ~(Proc(t) = q /\ th[t].i = j)
    <3>1. PICK p \in Procs \cup {None}, k \in 0 .. NPipes : p = Proc(t) /\ k = th[t].i
      BY <1>1 DEF Proc, Thread
    <3>2. CASE Claim(t)
      BY <1>1, <1>4, <2>2, <3>1, <3>2 DEF Claim
    <3>3. CASE Resolve(t)
      BY <1>1, <2>2, <3>1, <3>3 DEF Resolve
    <3>4. CASE Undo(t)
      BY <1>1, <2>2, <3>1, <3>4 DEF Undo
    <3>5. CASE Store(t)
      BY <1>1, <2>2, <3>1, <3>5 DEF Store
    <3>6. CASE Destroy(t)
      BY <1>1, <2>2, <3>1, <3>6 DEF Destroy, Close
    <3>7. CASE Renewed(t)
      BY <1>1, <2>2, <3>1, <3>7 DEF Renewed
    <3>8. CASE _vfs_deinit(t)
      BY <1>1, <1>4, <2>2, <3>1, <3>8 DEF _vfs_deinit, Close
    <3> QED
      BY <1>4, <3>2, <3>3, <3>4, <3>5, <3>6, <3>7, <3>8 DEF Step, Look, LockAssert, FollowLink,
          service_create_pipe, service_duplicate_pipe, Inherit, Renew
  <2> QED
    BY <2>1, <2>2
<1> QED
  BY <1>2, <1>3, <1>4 DEF Next

(* A pipe names the same object from the moment a program may use it until *)
(* the program closes it, whatever other threads search, open, fork or     *)
(* fail to open meanwhile: for careful programs and any instance.          *)
THEOREM EntriesAreKept ==
    ASSUME Careful
    PROVE  Spec => EntryKept
<1>1. IInv /\ [Next]_vars
        => [\A u \in Usable : u \in Usable' => tab'[u[1]][u[2]] = tab[u[1]][u[2]]]_vars
  <2> SUFFICES ASSUME IInv, Next, NEW u \in Usable
               PROVE  tab'[u[1]][u[2]] = tab[u[1]][u[2]]
    OBVIOUS
  <2>1. u[1] \in Procs /\ u[2] \in Slots /\ Keeps(u[1], u[2])
    BY UsableKept
  <2> QED
    BY <2>1, EntryUntouched
<1>2. Spec => []IInv
  BY AlwaysIInv
<1> QED
  BY <1>1, <1>2, PTL DEF Spec, EntryKept
=============================================================================
