----------------------------- MODULE KernelMap -----------------------------
(* The window through which the kernel sees frames that are not mapped       *)
(* anyway (kernel/arch/i386/mmu/vmem.c: kernel_map, kernel_map_nc and        *)
(* kernel_unmap).  Threads of the kernel look for free entries of kpt        *)
(* without its lock, and a single frame is even entered without it.          *)
EXTENDS Integers, FiniteSets

CONSTANTS
  Threads,
  Entries,     \* number of entries of kpt
  Lengths      \* numbers of pages that are asked for

VARIABLES
  kpt,         \* the page mapped: <<whose mapping, its how manyeth page>>
  kpt_lock,
  call,        \* [pc, nc: of kernel_map_nc, n: pages, i]
  at,          \* where a thread has its mapping, None
  overlaid     \* history: has a frame been swapped in between Test and Fill?

vars == <<kpt, kpt_lock, call, at, overlaid>>

None == -1
Nobody == "nobody"
MAP_NP == <<Nobody, 0>>
Idle == [pc |-> "idle", nc |-> FALSE, n |-> 0, i |-> 0]

Init ==
  /\ kpt = [e \in 0 .. Entries - 1 |-> MAP_NP]
  /\ kpt_lock = Nobody
  /\ call = [t \in Threads |-> Idle] /\ at = [t \in Threads |-> None]
  /\ overlaid = FALSE

(* Behind the table is the stack of the start-up code, which holds zeros.    *)
EntryAt(e) == IF e < Entries THEN kpt[e] ELSE MAP_NP

Enter(t, nc, n) ==
  /\ call[t] = Idle /\ at[t] = None
  /\ call' = [call EXCEPT ![t] = [pc |-> "look", nc |-> nc, n |-> n, i |-> 0]]
  /\ UNCHANGED <<kpt, kpt_lock, at, overlaid>>

Look(t) ==
  LET c == call[t]
  IN  /\ c.pc = "look" /\ c.i < Entries
      /\ call' = [call EXCEPT ![t] =
           IF kpt[c.i] # MAP_NP THEN [c EXCEPT !.i = @ + 1]
           ELSE [c EXCEPT !.pc = IF c.nc /\ c.n = 1 THEN "swap" ELSE "take"]]
      /\ UNCHANGED <<kpt, kpt_lock, at, overlaid>>

(* The thread owns n entries from i on and returns.                          *)
Mapped(t) ==
  LET c == call[t]
  IN  /\ kpt' = [e \in 0 .. Entries - 1 |->
                  IF e - c.i \in 0 .. c.n - 1 THEN <<t, e - c.i>> ELSE kpt[e]]
      /\ at' = [at EXCEPT ![t] = c.i]
      /\ call' = [call EXCEPT ![t] = [Idle EXCEPT !.n = c.n]]

(* Entry e is one that another thread has seen free and is about to fill.    *)
Tested(t, e) == \E u \in Threads \ {t} :
  call[u].pc = "fill" /\ e \in call[u].i .. call[u].i + call[u].n - 1

(* kernel_map_nc of one frame: __sync_bool_compare_and_swap, without the     *)
(* lock that the others hold.                                                *)
Swap(t) ==
  /\ call[t].pc = "swap"
  /\ \/ /\ kpt[call[t].i] = MAP_NP /\ Mapped(t)
        /\ overlaid' = (overlaid \/ Tested(t, call[t].i))
     \/ /\ kpt[call[t].i] # MAP_NP
        /\ call' = [call EXCEPT ![t].pc = "look", ![t].i = @ + 1]
        /\ UNCHANGED <<kpt, at, overlaid>>
  /\ UNCHANGED kpt_lock

Take(t) ==
  /\ call[t].pc = "take" /\ kpt_lock = Nobody
  /\ kpt_lock' = t
  /\ call' = [call EXCEPT ![t].pc = "test"]
  /\ UNCHANGED <<kpt, at, overlaid>>

(* j: how many entries from i on are free, at most n.                        *)
FreeFrom(c) ==
  CHOOSE j \in 0 .. c.n :
    /\ \A k \in 0 .. j - 1 : EntryAt(c.i + k) = MAP_NP
    /\ j = c.n \/ EntryAt(c.i + j) # MAP_NP

(* The entry behind the ones needed has to be free as well.                  *)
Test(t) ==
  LET c == call[t]
      j == FreeFrom(c)
      free == EntryAt(c.i + j) = MAP_NP
  IN  /\ c.pc = "test"
      /\ kpt_lock' = IF free THEN t ELSE Nobody
      /\ call' = [call EXCEPT ![t] =
           IF free THEN [c EXCEPT !.pc = "fill"]
           ELSE [c EXCEPT !.pc = "look", !.i = @ + j + 1]]
      /\ UNCHANGED <<kpt, at, overlaid>>

Fill(t) == call[t].pc = "fill" /\ kpt_lock' = Nobody /\ Mapped(t) /\ UNCHANGED overlaid

kernel_unmap(t) ==
  /\ call[t].pc = "idle" /\ at[t] # None /\ kpt_lock = Nobody
  /\ kpt' = [e \in 0 .. Entries - 1 |->
              IF e - at[t] \in 0 .. call[t].n - 1 THEN MAP_NP ELSE kpt[e]]
  /\ at' = [at EXCEPT ![t] = None]
  /\ call' = [call EXCEPT ![t] = Idle]
  /\ UNCHANGED <<kpt_lock, overlaid>>

Next == \E t \in Threads :
  \/ \E nc \in BOOLEAN, n \in Lengths : Enter(t, nc, n)
  \/ Look(t) \/ Swap(t) \/ Take(t) \/ Test(t) \/ Fill(t) \/ kernel_unmap(t)

Spec == Init /\ [][Next]_vars

------------------------------------------------------------------------------
Extent(t) == IF at[t] = None THEN {} ELSE at[t] .. at[t] + call[t].n - 1

(* A mapping lies in the window,                                             *)
Inside == \A t \in Threads : \A e \in Extent(t) : e < Entries

(* shows its own frames for as long as it exists,                            *)
Shown == \A t \in Threads : \A e \in Extent(t) :
  e < Entries => kpt[e] = <<t, e - at[t]>>

(* and its entries are free afterwards,                                      *)
NothingLeft == \A e \in 0 .. Entries - 1 :
  kpt[e] = MAP_NP \/ \E t \in Threads : e \in Extent(t)

(* whoever else maps and unmaps in between (kernel_map, kernel_map_nc,       *)
(* kernel_unmap), until a frame has been swapped into entries that another   *)
(* thread had tested and not yet filled.                                     *)
Correct == overlaid \/ (Inside /\ Shown /\ NothingLeft)
=============================================================================
