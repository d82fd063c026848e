-------------------------------- MODULE Lists -------------------------------
(* The lists of the CDI (lib/common/cdi/lists.c): a chain of elements, and   *)
(* the element that was accessed last with its index, from which the next    *)
(* access walks on.  The lists of the repository are used in two ways: the   *)
(* drivers of network cards keep queues (append, pop), and all others walk   *)
(* from the first element on (push, pop, get 0, 1, ..., remove what was      *)
(* found).  Between the two, or with calls in any order, the cached element  *)
(* can be one that was freed.                                                *)
EXTENDS Integers, Sequences, SequencesExt, FiniteSets

CONSTANTS
  Elements,   \* blocks of memory that elements can be stored in
  Uses        \* the ways in which lists are used: "queue", "walk", "any"

VARIABLES
  use,
  chain,      \* the elements, first to last
  cached,     \* the element accessed last, or NoElement; perhaps freed
  index,      \* its index: cached_index, counted as in a 64-bit size_t
  at,         \* a loop over the list is at this index; -1: there is none
  wrong       \* an access returned or changed another element than asked for

vars == <<use, chain, cached, index, at, wrong>>

NoElement == "none"
MaxIndex  == Cardinality(Elements) + 1
Huge      == 1000                        \* 2^64: -1 is Huge - 1
Sized(n)  == n % Huge

(* cdi_list_create *)
Empty == [chain |-> <<>>, cached |-> NoElement, index |-> 0]

Init ==
  /\ use \in Uses
  /\ chain = Empty.chain /\ cached = Empty.cached /\ index = Empty.index
  /\ at = -1
  /\ wrong = FALSE

Fresh == Elements \ ToSet(chain)

(* What a walk to index i arrives at: from the cached element when it is not *)
(* behind i and known, else from the first.  "freed": it starts from freed   *)
(* memory.                                                                   *)
Walk(i, known) ==
  LET from == IF cached = NoElement THEN Len(chain)
              ELSE CHOOSE k \in 0 .. Len(chain) - 1 : chain[k + 1] = cached
      to   == IF known THEN from + i - index ELSE i
  IN  IF known /\ cached # NoElement /\ cached \notin ToSet(chain) THEN "freed"
      ELSE IF to < Len(chain) THEN chain[to + 1] ELSE NoElement

(* What is at index i of the list. *)
ElementAt(i) == IF i < Len(chain) THEN chain[i + 1] ELSE NoElement

------------------------------------------------------------------------------
cdi_list_push(e) ==
  /\ e \in Fresh /\ use # "queue"
  /\ chain' = <<e>> \o chain
  /\ index' = Sized(index + 1)
  /\ at' = -1
  /\ UNCHANGED <<use, cached, wrong>>

cdi_list_pop ==
  /\ chain' = IF chain = <<>> THEN chain ELSE Tail(chain)
  /\ index' = IF index = 0 THEN 0 ELSE index - 1
  /\ at' = -1
  /\ UNCHANGED <<use, cached, wrong>>

cdi_list_get(i) ==
  LET ele == Walk(i, index # 0 /\ i >= index)
  IN  /\ use # "queue"
      /\ use = "any" \/ i = at + 1 \/ i = 0
      /\ wrong' = (wrong \/ ele # ElementAt(i))
      /\ IF ele \in {NoElement, "freed"}
         THEN at' = -1 /\ UNCHANGED <<cached, index>>
         ELSE at' = i /\ cached' = ele /\ index' = i
      /\ UNCHANGED <<use, chain>>

(* cdi_list_insert; at index 0 it is cdi_list_push. *)
cdi_list_insert(i, e) ==
  LET ele == IF i = 0 THEN NoElement ELSE Walk(i - 1, index # 0 /\ i > index)
  IN  /\ e \in Fresh
      /\ use = "any" \/ (use = "queue" /\ i = Len(chain))
      /\ wrong' = (wrong \/ (i > 0 /\ ele # ElementAt(i - 1)))
      /\ IF i = 0 THEN chain' = <<e>> \o chain /\ index' = Sized(index + 1) /\ UNCHANGED cached
         ELSE IF ele \in {NoElement, "freed"} THEN UNCHANGED <<chain, cached, index>>
         ELSE /\ chain' = InsertAt(chain, i + 1, e)
              /\ cached' = IF i > 1 THEN ele ELSE cached
              /\ index' = IF i > 1 THEN i - 1
                          ELSE IF index # 0 THEN Sized(index + 1) ELSE index
      /\ at' = -1
      /\ UNCHANGED use

(* cdi_list_remove; at index 0 it is cdi_list_pop. *)
cdi_list_remove(i) ==
  LET ele == IF i = 0 THEN NoElement ELSE Walk(i - 1, index # 0 /\ i > index)
  IN  /\ use = "any" \/ (use = "walk" /\ i = at)
      /\ i < Len(chain)
      /\ wrong' = (wrong \/ (i > 0 /\ ele # ElementAt(i - 1)))
      /\ IF i = 0
         THEN chain' = Tail(chain) /\ index' = (IF index = 0 THEN 0 ELSE index - 1) /\ UNCHANGED cached
         ELSE /\ chain' = RemoveAt(chain, i + 1)
              /\ cached' = IF i = 1 THEN cached ELSE ele
              /\ index' = IF i = 1 THEN Sized(index - 1) ELSE i - 1
      /\ at' = -1
      /\ UNCHANGED use

(* cdi_list_destroy, and another list in its place. *)
cdi_list_destroy ==
  /\ chain' = Empty.chain /\ cached' = Empty.cached /\ index' = Empty.index
  /\ at' = -1
  /\ UNCHANGED <<use, wrong>>

Next ==
  \/ \E e \in Elements : cdi_list_push(e)
  \/ cdi_list_pop
  \/ \E i \in 0 .. MaxIndex :
       \/ cdi_list_get(i)
       \/ \E e \in Elements : cdi_list_insert(i, e)
       \/ cdi_list_remove(i)
  \/ cdi_list_destroy

Spec == Init /\ [][Next]_vars

------------------------------------------------------------------------------
(* Every access returns, or changes the list at, the element at the index    *)
(* that the caller names, whatever was accessed before (include/common/cdi/  *)
(* lists.h).                                                                 *)
Correct == ~wrong
==============================================================================
