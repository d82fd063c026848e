------------------------------ MODULE UserMap ------------------------------
(* Where shared memory, and whatever else a process has mapped for it, goes  *)
(* in its address space (kernel/arch/i386/mmu/vmem.c: vmmc_user_map_sg,      *)
(* vmmc_map_user_page_unlocked, vmmc_user_unmap).  All of it runs under the  *)
(* lock of the context.                                                      *)
EXTENDS Integers, FiniteSets

CONSTANTS
  PdFirst, PdLast,  \* USER_MAP_BASE >> 22 (even) and KERNEL_BASE >> 22
  PerTable,         \* entries of a page table, a power of two
  Lengths,          \* numbers of pages that are asked for
  MaxAreas,         \* how many areas a process has at most
  Calm              \* no area ends where a page table ends, and no search
                    \* where an odd one does

VARIABLES
  pd,      \* page tables: who has a page, 0: not present; Away: no table
  areas    \* what the process was told: <<number, start, pages>>

vars == <<pd, areas>>

Away == [k \in {} |-> 0]
Pds == PdFirst .. PdLast - 1
Table == 0 .. PerTable - 1

Init == pd = [d \in Pds |-> Away] /\ areas = {}

(* current_block_size and pti behind table d, with size pages before it: the *)
(* loop over a table ends as soon as there are enough.                       *)
Scan(d, size, pages) ==
  LET after[k \in 0 .. PerTable] ==
        IF k = 0 THEN size
        ELSE IF pd[d][k - 1] # 0 THEN 0 ELSE after[k - 1] + 1
      enough == {k \in 0 .. PerTable : after[k] >= pages}
      pti == IF enough = {} THEN PerTable
             ELSE CHOOSE k \in enough : \A m \in enough : k <= m
  IN  IF pd[d] = Away THEN [size |-> size + PerTable, pti |-> PerTable]
      ELSE [size |-> after[pti], pti |-> pti]

Block(pages) ==
  LET block[d \in PdFirst - 1 .. PdLast - 1] ==
        IF d < PdFirst THEN [size |-> 0, pti |-> 0]
        ELSE Scan(d, block[d - 1].size, pages)
      enough == {d \in Pds : block[d].size >= pages}
  IN  IF enough = {} THEN [pdi |-> PdLast, size |-> 0, pti |-> 0]
      ELSE LET d == CHOOSE d \in enough : \A m \in enough : d <= m
           IN  [pdi |-> d, size |-> block[d].size, pti |-> block[d].pti]

(* (pdi << 22) | (pti << 12): an or, where pti may be a whole table.         *)
End(b) ==
  IF b.pti = PerTable /\ b.pdi % 2 = 1 THEN b.pdi * PerTable
  ELSE b.pdi * PerTable + b.pti

Start(b) == End(b) - b.size

(* vmmc_map_user_page_unlocked: a missing table is made first.               *)
MapPages(start, pages, a) ==
  [d \in Pds |->
     LET mine == {k \in Table : d * PerTable + k \in start .. start + pages - 1}
     IN  IF mine = {} THEN pd[d]
         ELSE [k \in Table |-> IF k \in mine THEN a
                               ELSE IF pd[d] = Away THEN 0 ELSE pd[d][k]]]

vmmc_user_map_sg(pages) == \E a \in 1 .. MaxAreas :
  LET b == Block(pages)
      start == Start(b)
  IN  /\ a \notin {x[1] : x \in areas}
      /\ 1 .. a - 1 \subseteq {x[1] : x \in areas}
      /\ b.size >= pages
      /\ Calm => /\ ~(b.pti = PerTable /\ b.pdi % 2 = 1)
                 /\ (start + pages) % PerTable # 0
      /\ pd' = MapPages(start, pages, a)
      /\ areas' = areas \union {<<a, start, pages>>}

(* In the last table the end is taken modulo the size of a table.            *)
PtiStart(d, start) == IF d > start \div PerTable THEN 0 ELSE start % PerTable
PtiEnd(d, end) ==
  IF d < (end + PerTable - 1) \div PerTable - 1 THEN PerTable ELSE end % PerTable

Unmapped(d, start, end) ==
  IF pd[d] = Away \/ d \notin start \div PerTable .. (end + PerTable - 1) \div PerTable - 1
  THEN pd[d]
  ELSE IF PtiStart(d, start) = 0 /\ PtiEnd(d, end) = PerTable THEN Away
  ELSE [k \in Table |->
          IF k \in PtiStart(d, start) .. PtiEnd(d, end) - 1 THEN 0 ELSE pd[d][k]]

vmmc_user_unmap(x) ==
  /\ pd' = [d \in Pds |-> Unmapped(d, x[2], x[2] + x[3])]
  /\ areas' = areas \ {x}

Next ==
  \/ \E n \in Lengths : vmmc_user_map_sg(n)
  \/ \E x \in areas : vmmc_user_unmap(x)

Spec == Init /\ [][Next]_vars

------------------------------------------------------------------------------
(* Every area lies between USER_MAP_BASE and KERNEL_BASE and shows its own   *)
(* pages, over areas that span page tables and come and go, and no page is   *)
(* left present behind an area that is gone (vmmc_user_map_sg,               *)
(* vmmc_user_unmap).                                                         *)
Correct ==
  LET owners(n) == {x[1] : x \in {y \in areas : n - y[2] \in 0 .. y[3] - 1}}
  IN  /\ \A x \in areas : x[2] >= PdFirst * PerTable /\ x[2] + x[3] <= PdLast * PerTable
      /\ \A d \in Pds, k \in Table :
           owners(d * PerTable + k) =
             IF pd[d] = Away \/ pd[d][k] = 0 THEN {} ELSE {pd[d][k]}
=============================================================================
