-------------------------------- MODULE Heap --------------------------------
(* The heap of a process (lib/common/stdlib/malloc.c, free.c, realloc.c):    *)
(* blocks of a header and its contents, and a list of the free ones by       *)
(* address.  Addresses and sizes count units of 16 bytes; a header is one    *)
(* unit.  Threads run under __heap_lock, but grow the heap and give back     *)
(* what they do not need after they released it.  Left out by the constant   *)
(* Calm: aligned_alloc of a free block that is aligned already, which stays  *)
(* on the list of free blocks.                                               *)
EXTENDS Integers, FiniteSets, FiniteSetsExt, Sequences, SequencesExt

CONSTANTS
  Threads,
  Sizes,      \* sizes that are requested
  Aligns,     \* alignments that are requested
  MaxBrk,     \* bound: units that the heap grows to
  Calm

VARIABLES
  brk,        \* end of the heap
  free_list,  \* __first_free: sequence of [at, size]
  live,       \* blocks that were handed out
  pc,         \* per thread: "idle", "grow", "give"
  want,       \* per thread: the size of a malloc that found no block
  give        \* per thread: blocks that it still has to free

vars == <<brk, free_list, live, pc, want, give>>

Block(at, size) == [at |-> at, size |-> size]
End(b) == b.at + 1 + b.size

Init ==
  /\ brk = 0
  /\ free_list = <<>>
  /\ live = {}
  /\ pc = [t \in Threads |-> "idle"]
  /\ want = [t \in Threads |-> 0]
  /\ give = [t \in Threads |-> <<>>]

------------------------------------------------------------------------------
(* malloc *)

Fits(size) == SelectInSeq(free_list, LAMBDA b : b.size >= size)

(* The first block that is large enough is split when the rest can hold a    *)
(* header and something more.                                                *)
Split(b, size) ==
  IF b.size - size < 2 THEN [taken |-> b, rest |-> <<>>]
  ELSE [taken |-> Block(b.at, size),
        rest  |-> <<Block(b.at + size + 1, b.size - size - 1)>>]

malloc(t, size, old) ==
  LET i == Fits(size)
      s == Split(free_list[i], size)
  IN  /\ pc[t] = "idle"
      /\ give' = [give EXCEPT ![t] = old]
      /\ IF i = 0
         THEN /\ pc' = [pc EXCEPT ![t] = "grow"]
              /\ want' = [want EXCEPT ![t] = size]
              /\ live' = live \ ToSet(old)
              /\ UNCHANGED free_list
         ELSE /\ free_list' = SubSeq(free_list, 1, i - 1) \o s.rest
                               \o SubSeq(free_list, i + 1, Len(free_list))
              /\ live' = (live \ ToSet(old)) \cup {s.taken}
              /\ pc' = [pc EXCEPT ![t] = IF old = <<>> THEN "idle" ELSE "give"]
              /\ UNCHANGED want
      /\ UNCHANGED brk

(* malloc after it released the lock: sbrk. *)
Grow(t) ==
  /\ pc[t] = "grow"
  /\ brk + want[t] + 1 <= MaxBrk
  /\ brk' = brk + want[t] + 1
  /\ live' = live \cup {Block(brk, want[t])}
  /\ want' = [want EXCEPT ![t] = 0]
  /\ pc' = [pc EXCEPT ![t] = IF give[t] = <<>> THEN "idle" ELSE "give"]
  /\ UNCHANGED <<free_list, give>>

------------------------------------------------------------------------------
(* free *)

(* Faulty: only neighbours behind the first pair are joined.                 *)
join_memoryOnce(list) ==
  LET touch == {i \in 1 .. Len(list) - 1 : End(list[i]) = list[i + 1].at}
      i     == Min(touch)
  IN  IF touch = {} THEN list
      ELSE SubSeq(list, 1, i - 1)
           \o <<Block(list[i].at, list[i].size + list[i + 1].size + 1)>>
           \o SubSeq(list, i + 2, Len(list))

(* join_memory: neighbours on the list become one block. *)
join_memory(list) ==
  FoldLeft(LAMBDA done, b :
             IF done # <<>> /\ End(Last(done)) = b.at
             THEN Append(Front(done), Block(Last(done).at, Last(done).size + b.size + 1))
             ELSE Append(done, b),
           <<>>, list)

(* A block in the list before the first one with a higher address. *)
Insert(list, b) ==
  LET below == SelectSeq(list, LAMBDA c : c.at < b.at)
  IN  join_memory(below \o <<b>> \o SubSeq(list, Len(below) + 1, Len(list)))

free(t, b) ==
  /\ pc[t] = "idle" /\ b \in live
  /\ live' = live \ {b}
  /\ free_list' = Insert(free_list, b)
  /\ UNCHANGED <<brk, pc, want, give>>

(* What a thread does not need any more: the old block of a realloc, the     *)
(* ends of an aligned block.                                                 *)
Give(t) ==
  /\ pc[t] = "give"
  /\ free_list' = Insert(free_list, Head(give[t]))
  /\ give' = [give EXCEPT ![t] = Tail(@)]
  /\ pc' = [pc EXCEPT ![t] = IF Len(give[t]) = 1 THEN "idle" ELSE "give"]
  /\ UNCHANGED <<brk, live, want>>

(* realloc: the same block when it is large enough. *)
realloc(t, b, size) ==
  /\ b \in live
  /\ b.size < size
  /\ malloc(t, size, <<b>>)

------------------------------------------------------------------------------
(* aligned_alloc *)

(* Units from a header to the first aligned address behind it that leaves    *)
(* room for another block in between.                                        *)
AlignSpace(at, align) ==
  LET s == align - (at % align)
  IN  IF s # 1 /\ s < 3 THEN s + align ELSE s

AlignFits(align, size) ==
  SelectInSeq(free_list, LAMBDA b : b.size >= AlignSpace(b.at, align) + size)

Rest(at, size) == IF size < 1 THEN <<>> ELSE <<Block(at, size)>>

(* A free block: what comes before stays on the list with a smaller size,    *)
(* what comes behind is freed after the lock was released.                   *)
AlignedFromList(t, align, size) ==
  LET i     == AlignFits(align, size)
      b     == free_list[i]
      space == AlignSpace(b.at, align)
      left  == b.size - space - size
      at    == b.at + space - 1
      mine  == Block(at, IF left < 1 THEN b.size - space + 1 ELSE size)
  IN  /\ pc[t] = "idle" /\ i # 0
      /\ IF space = 1
         THEN /\ ~Calm
              /\ live' = live \cup {Block(b.at, IF b.size - size < 2 THEN b.size ELSE size)}
              /\ free_list' = [free_list EXCEPT ![i].size =
                                 IF b.size - size < 2 THEN @ ELSE size]
              /\ give' = [give EXCEPT ![t] =
                   IF b.size - size < 2 THEN <<>>
                   ELSE <<Block(b.at + 1 + size, b.size - size - 1)>>]
         ELSE /\ live' = live \cup {mine}
              /\ free_list' = [free_list EXCEPT ![i].size = space - 2]
              /\ give' = [give EXCEPT ![t] = Rest(at + 1 + size, left)]
      /\ pc' = [pc EXCEPT ![t] = IF give'[t] = <<>> THEN "idle" ELSE "give"]
      /\ UNCHANGED <<brk, want>>

(* No free block is large enough: the heap grows by as much as an aligned    *)
(* block can need.                                                           *)
AlignedFromSbrk(t, align, size) ==
  LET bsize == size + 3 + align
      space == AlignSpace(brk, align)
      at    == brk + space - 1
      left  == bsize - space - size
  IN  /\ pc[t] = "idle" /\ AlignFits(align, size) = 0
      /\ brk + bsize <= MaxBrk
      /\ brk' = brk + bsize
      /\ IF space = 1
         THEN /\ live' = live \cup {Block(brk, bsize - 1)}
              /\ UNCHANGED <<pc, give>>
         ELSE /\ live' = live \cup {Block(at, IF left < 2 THEN bsize - space ELSE size)}
              /\ give' = [give EXCEPT ![t] =
                   <<Block(brk, space - 2)>>
                   \o (IF left < 2 THEN <<>> ELSE <<Block(at + 1 + size, left - 1)>>)]
              /\ pc' = [pc EXCEPT ![t] = "give"]
      /\ UNCHANGED <<free_list, want>>

Next ==
  \E t \in Threads :
    \/ Grow(t) \/ Give(t)
    \/ \E b \in live : free(t, b) \/ \E size \in Sizes : realloc(t, b, size)
    \/ \E size \in Sizes :
         \/ malloc(t, size, <<>>)
         \/ \E align \in Aligns :
              AlignedFromList(t, align, size) \/ AlignedFromSbrk(t, align, size)

Spec == Init /\ [][Next]_vars

------------------------------------------------------------------------------
(* Whatever the threads do, every unit of the heap belongs to exactly one    *)
(* block: one that the program owns, a free one, or one that a thread is     *)
(* about to free; the list of free blocks is sorted and no two of its blocks *)
(* touch, so free memory is not lost in pieces (free.c, join_memory).        *)
Correct ==
  LET giving == UNION {ToSet(give[t]) : t \in Threads}
      all    == live \cup ToSet(free_list) \cup giving
  IN  /\ \A b \in all : b.size >= 1 /\ End(b) <= brk
      /\ \A b, c \in all : b = c \/ End(b) <= c.at \/ End(c) <= b.at
      /\ live \cap ToSet(free_list) = {} /\ giving \cap (live \cup ToSet(free_list)) = {}
      /\ MapThenSumSet(LAMBDA b : b.size + 1, all) = brk
      /\ \A i \in 1 .. Len(free_list) - 1 : End(free_list[i]) < free_list[i + 1].at
==============================================================================
