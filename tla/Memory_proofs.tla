---------------------------- MODULE Memory_proofs ----------------------------
(***************************************************************************)
(* Proofs about Memory for any number of address spaces, frames and page   *)
(* kinds.                                                                  *)
(*                                                                         *)
(* The argument: the count of a frame is the number of table entries that  *)
(* name it (Count) and of the users of the shared object (ShmUsers).       *)
(* Every operation changes the entries of one address space, fork those of *)
(* the new one; the lemmas about Count say by how much the number of       *)
(* entries then changes, those about the frame map what pmm_alloc, pmm_use *)
(* and pmm_free make of the counts.                                        *)
(*                                                                         *)
(* FramesAreExact, PagesArePrivate and SharedIsCounted are the results.    *)
(* They leave out what the code gets wrong (Apart: vmmc_user_unmap of an   *)
(* area that ends where a page table ends, fork of a process with shared   *)
(* memory) and, for the users of a shared memory object, the calls that    *)
(* forget one (Closing: exec and exit without vmmc_close_shm).  The last   *)
(* result, MappingsAreOwn, is about KernelMap.                             *)
(***************************************************************************)
EXTENDS Memory, TLAPS, FiniteSetTheorems, WellFoundedInduction

(* The pages that have frames of their own: all but the mapping area.      *)
Real == Kinds \ {"map"}

Byte  == [n : 0 .. MaxUsers, cow : BOOLEAN]
Map   == [bitmap : [Frames -> Byte], look_from_here : Frames]
Entry == [st : {"none", "lazy", "present"}, frame : Frames \cup {-1}, rw : BOOLEAN]

(* Where the search starts in a frame map.                                 *)
Low(pm) == \A f \in Frames : Zero(pm, f) => f >= pm.look_from_here

(* The entry of page p of s in table q names frame f; how many of the pages *)
(* P of s do; how many entries of the address spaces l do, and how many    *)
(* users of the shared memory object are in f.                             *)
Has(q, s, p, f) == q[s][p].st = "present" /\ q[s][p].frame = f
InOf(q, s, P, f) == Cardinality({p \in P : Has(q, s, p, f)})
Count(q, l, f) == Cardinality({sp \in l \X Real : Has(q, sp[1], sp[2], f)})
ShmUsers(g, f) == IF g.frame = f THEN g.users + (IF g.kept THEN 1 ELSE 0) ELSE 0
Bit(b) == IF b THEN 1 ELSE 0

(* The inductive invariant.  CountsExact and LookIsLow in these words.     *)
Books == \A f \in Frames : pmm.bitmap[f].n = Count(pt, live, f) + ShmUsers(sg, f)

EntryInv ==
    \A s \in Spaces, p \in Kinds : /\ pt[s][p].st = "present" => pt[s][p].frame \in Frames
                                   /\ pt[s][p].st = "lazy" => p = "heritage"

GrownInv == \A s \in grown : "heap" \in Kinds /\ pt[s]["heap"].st = "present"

(* Who has the object mapped is among its users, and so is who made it;    *)
(* users who left without closing it remain.                               *)
ShmInv ==
    /\ sg.st = "none" => sg = NoShm
    /\ sg.kept => sg.users = 0
    /\ sg.kept \/ sg.users > 0 => sg.frame \in Frames
    /\ Cardinality(sg.by) + Bit(sg.maker) <= sg.users
    /\ sg.by # {} => "map" \in Kinds
    /\ Opens = {} => sg = NoShm
    /\ "map" \in Kinds =>
          \A s \in Spaces : /\ pt[s]["map"].st = "present" <=> s \in sg.by
                            /\ pt[s]["map"].st = "present" => pt[s]["map"].frame = sg.frame

(* Frames are marked by fork only.                                         *)
CowInv == ~Forking => \A f \in Frames : ~pmm.bitmap[f].cow

IInv == TypeOK /\ Low(pmm) /\ Books /\ EntryInv /\ GrownInv /\ ShmInv /\ CowInv

(* The hypotheses: the heap and the mapping area do not end with a page    *)
(* table, and nobody forks while memory is shared on purpose.              *)
Apart == Edge \cap {"heap", "map"} = {} /\ (Opens = {} \/ ~Forking)

Tables == [Spaces -> [Kinds -> Entry]]
Shms == [st : {"none", "live"}, frame : Frames \cup {-1}, users : Nat, kept : BOOLEAN,
         maker : BOOLEAN, by : SUBSET Spaces]
Data ==
    /\ panic \in {"no", "exhausted", "free", "use"}
    /\ mem \in [Frames -> Values] /\ wrote \in [Spaces -> [Kinds -> Values]]

(* Table r is table q with entry e for page p of s.                        *)
Sets(q, r, s, p, e) ==
    /\ r \in Tables /\ r[s][p] = e
    /\ \A x \in Spaces, k \in Kinds : x # s \/ k # p => r[x][k] = q[x][k]

(* They differ in this page at most, of those that have frames of their own.*)
SameBut(q, r, l, s, p) == \A x \in l, k \in Real : x # s \/ k # p => r[x][k] = q[x][k]

(* The frame map changes by as much as page p of s does; by as much as the *)
(* shared memory object does.                                              *)
Balanced(s, p) ==
    \A f \in Frames : pmm'.bitmap[f].n + Bit(Has(pt, s, p, f)) =
                      pmm.bitmap[f].n + Bit(Has(pt', s, p, f))
ShmBalanced ==
    \A f \in Frames : pmm'.bitmap[f].n + ShmUsers(sg, f) = pmm.bitmap[f].n + ShmUsers(sg', f)

-----------------------------------------------------------------------------
(* What the assumption says, and that everything is finite.                *)
LEMMA Given ==
    /\ NSpaces \in Nat /\ MemEntries \in Nat /\ MaxUsers \in Nat /\ MaxUsers > 0 /\ MemEntries > 0
    /\ Spaces \subseteq Nat /\ Frames \subseteq Nat /\ -1 \notin Frames /\ 0 \in Frames
    /\ 0 \in Values /\ Real \subseteq Kinds /\ "map" \notin Real
BY MemoryAssumption DEF Spaces, Frames, Real

(* Sets of pages, of kinds of pages and of spaces are finite.              *)
LEMMA Finite ==
    /\ \A S \in SUBSET (Spaces \X Kinds) : IsFiniteSet(S) /\ Cardinality(S) \in Nat
    /\ \A S \in SUBSET Kinds : IsFiniteSet(S) /\ Cardinality(S) \in Nat
    /\ \A S \in SUBSET Spaces : IsFiniteSet(S) /\ Cardinality(S) \in 0 .. NSpaces
<1>1. IsFiniteSet(Spaces) /\ Cardinality(Spaces) = NSpaces
  BY Given, FS_Interval DEF Spaces
<1>2. IsFiniteSet(Kinds)
  <2>1. IsFiniteSet({"stack"} \cup {"heap"} \cup {"heritage"} \cup {"map"})
    BY FS_Singleton, FS_Union
  <2>2. Kinds \in SUBSET ({"stack"} \cup {"heap"} \cup {"heritage"} \cup {"map"})
    BY MemoryAssumption
  <2> QED
    BY <2>1, <2>2, FS_Subset
<1>3. IsFiniteSet(Spaces \X Kinds)
  BY <1>1, <1>2, FS_Product
<1>4. \A S \in SUBSET Spaces : IsFiniteSet(S) /\ Cardinality(S) \in 0 .. NSpaces
  <2> SUFFICES ASSUME NEW S \in SUBSET Spaces
               PROVE  IsFiniteSet(S) /\ Cardinality(S) \in 0 .. NSpaces
    OBVIOUS
  <2>1. IsFiniteSet(S) /\ Cardinality(S) <= NSpaces
    BY <1>1, FS_Subset
  <2>2. Cardinality(S) \in Nat
    BY <2>1, FS_CardinalityType
  <2> QED
    BY <2>1, <2>2, Given
<1>5. \A S \in SUBSET (Spaces \X Kinds) : IsFiniteSet(S) /\ Cardinality(S) \in Nat
  BY <1>3, FS_Subset, FS_CardinalityType
<1>6. \A S \in SUBSET Kinds : IsFiniteSet(S) /\ Cardinality(S) \in Nat
  BY <1>2, FS_Subset, FS_CardinalityType
<1> QED
  BY <1>4, <1>5, <1>6

(* Min of a set of natural numbers is its smallest element.                *)
LEMMA MinIsLeast ==
    ASSUME NEW S \in SUBSET Nat, S # {}
    PROVE  Min(S) \in S /\ \A x \in S : Min(S) <= x
<1> DEFINE R == OpToRel(<, Nat)
<1>1. IsWellFoundedOn(R, Nat)
  BY NatLessThanWellFounded
<1>2. R = {ss \in Nat \X Nat : ss[1] < ss[2]}
  BY Zenon DEF OpToRel
<1> HIDE DEF R
<1>3. PICK m \in S : \A x \in S : ~(<<x, m>> \in R)
  BY <1>1, WFMin
<1>4. \A x \in S : m <= x
  <2>1. ASSUME NEW x \in S, x < m PROVE FALSE
    <3>1. <<x, m>> \in {ss \in Nat \X Nat : ss[1] < ss[2]}
      BY <2>1
    <3> QED
      BY <1>2, <1>3, <3>1
  <2> QED
    BY <2>1
<1> QED
  BY <1>4 DEF Min

-----------------------------------------------------------------------------
(* pmm_alloc: the lowest frame that is free.                               *)
LEMMA Alloc ==
    ASSUME NEW pm \in Map, Low(pm), Candidates(pm) # {}, NEW f, f = Min(Candidates(pm))
    PROVE  /\ f \in Frames /\ pm.bitmap[f].n = 0 /\ ~pm.bitmap[f].cow
           /\ pmm_alloc(pm) \in Map /\ Low(pmm_alloc(pm))
           /\ pmm_alloc(pm).bitmap[f].n = 1 /\ ~pmm_alloc(pm).bitmap[f].cow
           /\ \A g \in Frames \ {f} : pmm_alloc(pm).bitmap[g] = pm.bitmap[g]
<1>1. Candidates(pm) \in SUBSET Nat
  BY Given DEF Candidates
<1>2. f \in Candidates(pm) /\ \A g \in Candidates(pm) : f <= g
  BY <1>1, MinIsLeast
<1>3. f \in Frames /\ Zero(pm, f) /\ f >= pm.look_from_here
  BY <1>2 DEF Candidates
<1>4. pmm_alloc(pm) = [bitmap |-> [pm.bitmap EXCEPT ![f].n = 1], look_from_here |-> f]
  BY DEF pmm_alloc
<1>5. /\ pmm_alloc(pm).bitmap \in [Frames -> Byte] /\ pmm_alloc(pm).look_from_here = f
      /\ pmm_alloc(pm).bitmap[f].n = 1 /\ pmm_alloc(pm).bitmap[f].cow = pm.bitmap[f].cow
      /\ \A g \in Frames \ {f} : pmm_alloc(pm).bitmap[g] = pm.bitmap[g]
  <2> DEFINE b == [pm.bitmap[f] EXCEPT !.n = 1]
  <2>1. b \in Byte /\ b.n = 1 /\ b.cow = pm.bitmap[f].cow
    BY <1>3, Given DEF Map, Byte
  <2>2. pmm_alloc(pm).bitmap = [pm.bitmap EXCEPT ![f] = b] /\ pmm_alloc(pm).look_from_here = f
    BY <1>4 DEF Map
  <2> HIDE DEF b
  <2> QED
    BY <1>3, <2>1, <2>2 DEF Map
<1>6. pmm_alloc(pm) \in Map
  BY <1>3, <1>4, <1>5 DEF Map
<1>7. Low(pmm_alloc(pm))
  <2> SUFFICES ASSUME NEW g \in Frames, Zero(pmm_alloc(pm), g) PROVE g >= f
    BY <1>5 DEF Low
  <2>1. g # f
    BY <1>5 DEF Zero
  <2>2. g \in Candidates(pm)
    BY <1>5, <2>1 DEF Zero, Candidates, Low
  <2> QED
    BY <1>1, <1>2, <2>2
<1> QED
  BY <1>3, <1>5, <1>6, <1>7 DEF Zero

(* pmm_free: counts go down, and the search starts no later than at what   *)
(* has become free.                                                        *)
LEMMA Free ==
    ASSUME NEW pm \in Map, Low(pm), NEW drop \in [Frames -> Nat], FreeAsserts(pm, drop)
    PROVE  /\ pmm_free(pm, drop) \in Map /\ Low(pmm_free(pm, drop))
           /\ \A f \in Frames : /\ pmm_free(pm, drop).bitmap[f].n = pm.bitmap[f].n - drop[f]
                                /\ pmm_free(pm, drop).bitmap[f].cow = pm.bitmap[f].cow
<1> DEFINE b == Freed(pm, drop)
<1> DEFINE low == {f \in Frames : drop[f] > 0 /\ b[f] = [n |-> 0, cow |-> FALSE]}
<1> DEFINE L == {pm.look_from_here} \cup low
<1>1. pmm_free(pm, drop) = [bitmap |-> b, look_from_here |-> Min(L)]
  BY DEF pmm_free
<1>2. /\ b \in [Frames -> Byte]
      /\ \A f \in Frames : b[f].n = pm.bitmap[f].n - drop[f] /\ b[f].cow = pm.bitmap[f].cow
  <2> SUFFICES ASSUME NEW f \in Frames
               PROVE  /\ [pm.bitmap[f] EXCEPT !.n = @ - drop[f]] \in Byte
                      /\ [pm.bitmap[f] EXCEPT !.n = @ - drop[f]].n = pm.bitmap[f].n - drop[f]
                      /\ [pm.bitmap[f] EXCEPT !.n = @ - drop[f]].cow = pm.bitmap[f].cow
    BY DEF Freed
  <2>1. pm.bitmap[f] \in Byte /\ drop[f] \in Nat /\ drop[f] <= pm.bitmap[f].n
    BY DEF Map, FreeAsserts
  <2> QED
    BY <2>1, Given DEF Byte
<1>3. L \in SUBSET Nat /\ L \in SUBSET Frames /\ L # {}
  BY Given DEF Map
<1>4. Min(L) \in L /\ \A x \in L : Min(L) <= x
  BY <1>3, MinIsLeast
<1>5. pmm_free(pm, drop) \in Map
  BY <1>1, <1>2, <1>3, <1>4 DEF Map
<1>6. Low(pmm_free(pm, drop))
  <2> SUFFICES ASSUME NEW g \in Frames, b[g] = [n |-> 0, cow |-> FALSE] PROVE g >= Min(L)
    BY <1>1 DEF Low, Zero
  <2>1. CASE drop[g] > 0
    BY <1>3, <1>4, <2>1
  <2>2. CASE ~(drop[g] > 0)
    <3>1. drop[g] = 0 /\ pm.bitmap[g] \in Byte /\ b[g].n = 0 /\ ~b[g].cow
      BY <2>2 DEF Map
    <3>2. pm.bitmap[g].n = 0 /\ ~pm.bitmap[g].cow
      BY <1>2, <3>1 DEF Byte
    <3>3. Zero(pm, g)
      BY <3>1, <3>2 DEF Zero, Byte
    <3>4. g >= pm.look_from_here /\ pm.look_from_here >= Min(L)
      BY <1>3, <1>4, <3>3 DEF Low
    <3> QED
      BY <1>3, <1>4, <3>4, Given DEF Map
  <2> QED
    BY <2>1, <2>2
<1> QED
  BY <1>1, <1>2, <1>5, <1>6

(* pmm_use: counts go up, but for no frame that is free.                   *)
LEMMA Use ==
    ASSUME NEW pm \in Map, Low(pm), NEW add \in [Frames -> Nat], UseAsserts(pm, add)
    PROVE  /\ pmm_use(pm, add) \in Map /\ Low(pmm_use(pm, add))
           /\ \A f \in Frames : /\ pmm_use(pm, add).bitmap[f].n = pm.bitmap[f].n + add[f]
                                /\ pmm_use(pm, add).bitmap[f].cow = pm.bitmap[f].cow
<1> DEFINE b == [f \in Frames |-> [pm.bitmap[f] EXCEPT !.n = @ + add[f]]]
<1>1. /\ pmm_use(pm, add).bitmap = b /\ pmm_use(pm, add).look_from_here = pm.look_from_here
      /\ pmm_use(pm, add) = [bitmap |-> b, look_from_here |-> pm.look_from_here]
  BY DEF pmm_use, Map
<1>2. /\ b \in [Frames -> Byte]
      /\ \A f \in Frames : b[f].n = pm.bitmap[f].n + add[f] /\ b[f].cow = pm.bitmap[f].cow
  <2> SUFFICES ASSUME NEW f \in Frames
               PROVE  /\ [pm.bitmap[f] EXCEPT !.n = @ + add[f]] \in Byte
                      /\ [pm.bitmap[f] EXCEPT !.n = @ + add[f]].n = pm.bitmap[f].n + add[f]
                      /\ [pm.bitmap[f] EXCEPT !.n = @ + add[f]].cow = pm.bitmap[f].cow
    OBVIOUS
  <2>1. pm.bitmap[f] \in Byte /\ add[f] \in Nat
    BY DEF Map
  <2>2. pm.bitmap[f].n + add[f] \in 0 .. MaxUsers
    BY <2>1, Given DEF UseAsserts, Byte
  <2> QED
    BY <2>1, <2>2 DEF Byte
<1>3. pmm_use(pm, add) \in Map
  BY <1>1, <1>2 DEF Map
<1>4. Low(pmm_use(pm, add))
  <2> SUFFICES ASSUME NEW f \in Frames, b[f] = [n |-> 0, cow |-> FALSE]
               PROVE  f >= pm.look_from_here
    BY <1>1 DEF Low, Zero
  <2>1. pm.bitmap[f] \in Byte /\ add[f] \in Nat /\ b[f].n = 0 /\ ~b[f].cow
    BY DEF Map
  <2>2. pm.bitmap[f].n = 0 /\ ~pm.bitmap[f].cow
    BY <1>2, <2>1 DEF Byte
  <2>3. Zero(pm, f)
    BY <2>1, <2>2 DEF Zero, Byte
  <2> QED
    BY <2>3 DEF Low
<1> QED
  BY <1>1, <1>2, <1>3, <1>4

(* pmm_mark_cow with either flag.                                          *)
MarkFacts(pm, r, F, flag) ==
    /\ r \in Map /\ Low(r)
    /\ \A f \in Frames : /\ r.bitmap[f].n = pm.bitmap[f].n
                         /\ r.bitmap[f].cow <=> IF f \in F THEN flag ELSE pm.bitmap[f].cow

Marked(pm, F) == pmm_mark_cow(pm, F, TRUE)
Unmarked(pm, f) == pmm_mark_cow(pm, {f}, FALSE)

(* Marking frames makes none of them free.                                 *)
LEMMA Mark ==
    ASSUME NEW pm \in Map, Low(pm), NEW F \in SUBSET Frames
    PROVE  MarkFacts(pm, Marked(pm, F), F, TRUE)
<1> DEFINE b == [f \in Frames |-> IF f \in F THEN [pm.bitmap[f] EXCEPT !.cow = TRUE]
                                  ELSE pm.bitmap[f]]
<1>1. Marked(pm, F) = [bitmap |-> b, look_from_here |-> pm.look_from_here]
  <2>1. Marked(pm, F) = [pm EXCEPT !.bitmap = b]
    BY DEF Marked, pmm_mark_cow
  <2> HIDE DEF b
  <2> QED
    BY <2>1 DEF Map
<1>2. \A f \in Frames : /\ b[f] \in Byte /\ b[f].n = pm.bitmap[f].n
                        /\ b[f].cow = IF f \in F THEN TRUE ELSE pm.bitmap[f].cow
  BY DEF Map, Byte
<1>3. \A f \in Frames : b[f] = [n |-> 0, cow |-> FALSE] => Zero(pm, f)
  <2> SUFFICES ASSUME NEW f \in Frames, b[f] = [n |-> 0, cow |-> FALSE] PROVE Zero(pm, f)
    OBVIOUS
  <2>1. pm.bitmap[f] \in Byte /\ pm.bitmap[f].n = 0 /\ ~pm.bitmap[f].cow
    BY <1>2 DEF Map
  <2> QED
    BY <2>1 DEF Zero, Byte
<1> DEFINE r == Marked(pm, F)
<1>0. b \in [Frames -> Byte]
  BY <1>2
<1> HIDE DEF b
<1>4. r.bitmap = b /\ r.look_from_here = pm.look_from_here
  BY <1>1
<1>5. r \in Map
  BY <1>0, <1>1 DEF Map
<1> HIDE DEF r
<1>6. Low(r)
  BY <1>3, <1>4 DEF Low, Zero
<1> QED
  BY <1>2, <1>4, <1>5, <1>6 DEF MarkFacts, r

(* Taking the mark from a frame with users does not make it free.          *)
LEMMA Unmark ==
    ASSUME NEW pm \in Map, Low(pm), NEW g \in Frames, pm.bitmap[g].n > 0
    PROVE  MarkFacts(pm, Unmarked(pm, g), {g}, FALSE)
<1> DEFINE b == [f \in Frames |-> IF f \in {g} THEN [pm.bitmap[f] EXCEPT !.cow = FALSE]
                                  ELSE pm.bitmap[f]]
<1>1. Unmarked(pm, g) = [bitmap |-> b, look_from_here |-> pm.look_from_here]
  <2>1. Unmarked(pm, g) = [pm EXCEPT !.bitmap = b]
    BY DEF Unmarked, pmm_mark_cow
  <2> HIDE DEF b
  <2> QED
    BY <2>1 DEF Map
<1>2. \A f \in Frames : /\ b[f] \in Byte /\ b[f].n = pm.bitmap[f].n
                        /\ b[f].cow = IF f \in {g} THEN FALSE ELSE pm.bitmap[f].cow
  BY DEF Map, Byte
<1>3. \A f \in Frames : b[f] = [n |-> 0, cow |-> FALSE] => Zero(pm, f)
  <2> SUFFICES ASSUME NEW f \in Frames, b[f] = [n |-> 0, cow |-> FALSE] PROVE Zero(pm, f)
    OBVIOUS
  <2>1. f # g
    BY <1>2
  <2> QED
    BY <2>1 DEF Zero
<1> DEFINE r == Unmarked(pm, g)
<1>0. b \in [Frames -> Byte]
  BY <1>2
<1> HIDE DEF b
<1>4. r.bitmap = b /\ r.look_from_here = pm.look_from_here
  BY <1>1
<1>5. r \in Map
  BY <1>0, <1>1 DEF Map
<1> HIDE DEF r
<1>6. Low(r)
  BY <1>3, <1>4 DEF Low, Zero
<1> QED
  BY <1>2, <1>4, <1>5, <1>6 DEF MarkFacts, r

-----------------------------------------------------------------------------
(* The pages of s among P that are in f are counted one by one.            *)
LEMMA InSplit ==
    ASSUME NEW q, NEW s, NEW P \in SUBSET Kinds, NEW p \in P, NEW f
    PROVE  /\ InOf(q, s, P, f) = InOf(q, s, P \ {p}, f) + Bit(Has(q, s, p, f))
           /\ InOf(q, s, P, f) \in Nat /\ InOf(q, s, P \ {p}, f) \in Nat
<1> DEFINE A == {k \in P \ {p} : Has(q, s, k, f)}
<1> DEFINE B == {k \in P : Has(q, s, k, f)}
<1>1. A \in SUBSET Kinds /\ B \in SUBSET Kinds /\ p \notin A
  OBVIOUS
<1>2. IsFiniteSet(A) /\ Cardinality(A) \in Nat /\ Cardinality(B) \in Nat
  BY <1>1, Finite
<1>3. CASE Has(q, s, p, f)
  <2>1. B = A \cup {p}
    BY <1>3
  <2>2. Cardinality(B) = Cardinality(A) + 1
    BY <1>1, <1>2, <2>1, FS_AddElement
  <2> QED
    BY <1>2, <1>3, <2>2 DEF InOf, Bit
<1>4. CASE ~Has(q, s, p, f)
  <2>1. B = A
    BY <1>4
  <2> QED
    BY <1>2, <1>4, <2>1 DEF InOf, Bit
<1> QED
  BY <1>3, <1>4

(* The entries of l are those of s and those of the others.                *)
LEMMA CountSplit ==
    ASSUME NEW q, NEW l \in SUBSET Spaces, NEW s \in l, NEW f
    PROVE  /\ Count(q, l, f) = Count(q, l \ {s}, f) + InOf(q, s, Real, f)
           /\ Count(q, l, f) \in Nat /\ Count(q, l \ {s}, f) \in Nat
           /\ InOf(q, s, Real, f) \in Nat
<1> DEFINE A == {sp \in l \X Real : Has(q, sp[1], sp[2], f)}
<1> DEFINE B == {sp \in (l \ {s}) \X Real : Has(q, sp[1], sp[2], f)}
<1> DEFINE C == {p \in Real : Has(q, s, p, f)}
<1> DEFINE D == {sp \in {s} \X Real : Has(q, sp[1], sp[2], f)}
<1>0. Real \subseteq Kinds
  BY Given
<1>1. A \in SUBSET (Spaces \X Kinds) /\ B \in SUBSET (Spaces \X Kinds)
      /\ D \in SUBSET (Spaces \X Kinds) /\ C \in SUBSET Kinds
  BY <1>0
<1>2. /\ IsFiniteSet(A) /\ IsFiniteSet(B) /\ IsFiniteSet(D) /\ IsFiniteSet(C)
      /\ Cardinality(A) \in Nat /\ Cardinality(B) \in Nat /\ Cardinality(C) \in Nat
  BY <1>1, Finite
<1>3. A = B \cup D /\ B \cap D = {}
  OBVIOUS
<1>4. Cardinality(A) = Cardinality(B) + Cardinality(D)
  <2>1. Cardinality(A) = Cardinality(B) + Cardinality(D) - Cardinality({})
    BY <1>2, <1>3, FS_Union
  <2>2. Cardinality({}) = 0 /\ Cardinality(D) \in Nat
    BY <1>2, FS_EmptySet, FS_CardinalityType
  <2> QED
    BY <1>2, <2>1, <2>2
<1>5. Cardinality(D) = Cardinality(C)
  <2> DEFINE h == [p \in C |-> <<s, p>>]
  <2>1. h \in Bijection(C, D)
    <3>1. h \in [C -> D] /\ \A x, y \in C : h[x] = h[y] => x = y
      OBVIOUS
    <3>2. \A y \in D : \E x \in C : h[x] = y
      <4> SUFFICES ASSUME NEW y \in D PROVE \E x \in C : h[x] = y
        OBVIOUS
      <4>1. y = <<s, y[2]>> /\ y[2] \in C
        OBVIOUS
      <4> QED
        BY <4>1
    <3> QED
      BY <3>1, <3>2 DEF Bijection, Injection, Surjection, IsInjective
  <2>2. ExistsBijection(C, D)
    BY <2>1 DEF ExistsBijection
  <2> QED
    BY <1>2, <2>2, FS_Bijection
<1> QED
  BY <1>2, <1>4, <1>5 DEF Count, InOf

(* Tables that agree on l count the same there.                            *)
LEMMA CountSame ==
    ASSUME NEW q, NEW r, NEW l, NEW f, \A s \in l, p \in Real : q[s][p] = r[s][p]
    PROVE  Count(q, l, f) = Count(r, l, f)
<1>1. {sp \in l \X Real : Has(q, sp[1], sp[2], f)} = {sp \in l \X Real : Has(r, sp[1], sp[2], f)}
  BY DEF Has
<1> QED
  BY <1>1 DEF Count

(* A change to one page of one address space.                              *)
LEMMA OnePage ==
    ASSUME NEW q, NEW r, NEW l \in SUBSET Spaces, NEW s \in l, NEW p \in Real, NEW f,
           SameBut(q, r, l, s, p)
    PROVE  /\ Count(r, l, f) + Bit(Has(q, s, p, f)) = Count(q, l, f) + Bit(Has(r, s, p, f))
           /\ Count(r, l, f) \in Nat /\ Count(q, l, f) \in Nat
<1>1. Count(r, l \ {s}, f) = Count(q, l \ {s}, f)
  BY CountSame DEF SameBut
<1>2. InOf(r, s, Real \ {p}, f) = InOf(q, s, Real \ {p}, f)
  <2>1. {k \in Real \ {p} : Has(r, s, k, f)} = {k \in Real \ {p} : Has(q, s, k, f)}
    BY DEF Has, SameBut
  <2> QED
    BY <2>1 DEF InOf
<1>3. /\ InOf(q, s, Real, f) = InOf(q, s, Real \ {p}, f) + Bit(Has(q, s, p, f))
      /\ InOf(r, s, Real, f) = InOf(r, s, Real \ {p}, f) + Bit(Has(r, s, p, f))
      /\ InOf(q, s, Real \ {p}, f) \in Nat /\ InOf(r, s, Real \ {p}, f) \in Nat
  BY InSplit, Given
<1>4. /\ Count(q, l, f) = Count(q, l \ {s}, f) + InOf(q, s, Real, f)
      /\ Count(r, l, f) = Count(r, l \ {s}, f) + InOf(r, s, Real, f)
      /\ Count(q, l \ {s}, f) \in Nat /\ Count(r, l, f) \in Nat /\ Count(q, l, f) \in Nat
  BY CountSplit
<1>5. Bit(Has(q, s, p, f)) \in Nat /\ Bit(Has(r, s, p, f)) \in Nat
  BY DEF Bit
<1> QED
  BY <1>1, <1>2, <1>3, <1>4, <1>5

(* Where the count is zero there is no page, where it is one there is one. *)
LEMMA CountMeans ==
    ASSUME NEW q, NEW l \in SUBSET Spaces, NEW f, NEW s \in l, NEW p \in Real, Has(q, s, p, f)
    PROVE  /\ Count(q, l, f) \in Nat /\ Count(q, l, f) > 0
           /\ Count(q, l, f) = 1 => \A x \in l, k \in Real : Has(q, x, k, f) => x = s /\ k = p
<1> DEFINE A == {sp \in l \X Real : Has(q, sp[1], sp[2], f)}
<1>1. A \in SUBSET (Spaces \X Kinds) /\ <<s, p>> \in A
  BY Given
<1>2. IsFiniteSet(A) /\ Cardinality(A) \in Nat
  BY <1>1, Finite
<1>3. Cardinality(A) # 0
  BY <1>1, <1>2, FS_EmptySet
<1>4. ASSUME Cardinality(A) = 1, NEW x \in l, NEW k \in Real, Has(q, x, k, f)
      PROVE  x = s /\ k = p
  <2>1. <<x, k>> \in A
    BY <1>4
  <2>2. PICK e : A = {e}
    BY <1>2, <1>4, FS_Singleton
  <2> QED
    BY <1>1, <2>1, <2>2
<1> QED
  BY <1>2, <1>3, <1>4 DEF Count

(* No page in f, and the count is zero.                                    *)
LEMMA CountNone ==
    ASSUME NEW q, NEW l, NEW f, \A s \in l, p \in Real : ~Has(q, s, p, f)
    PROVE  Count(q, l, f) = 0
<1>1. {sp \in l \X Real : Has(q, sp[1], sp[2], f)} = {}
  OBVIOUS
<1> QED
  BY <1>1, FS_EmptySet DEF Count

(* Counts are numbers.                                                     *)
LEMMA CountType ==
    ASSUME NEW q, NEW l \in SUBSET Spaces, NEW f
    PROVE  Count(q, l, f) \in Nat
<1>1. {sp \in l \X Real : Has(q, sp[1], sp[2], f)} \in SUBSET (Spaces \X Kinds)
  BY Given
<1> QED
  BY <1>1, Finite DEF Count

-----------------------------------------------------------------------------
(* What TypeOK says, in the terms of this module.                          *)
LEMMA Types ==
    ASSUME IInv
    PROVE  /\ pmm \in Map /\ pt \in Tables /\ live \in SUBSET Spaces /\ grown \in SUBSET live
           /\ sg \in Shms /\ sg.by \in SUBSET live /\ Data
BY DEF IInv, TypeOK, Map, Byte, Tables, Entry, Shms, Data

(* Entry f of a page table entry.                                          *)
LEMMA Entries ==
    /\ \A f \in Frames, w \in BOOLEAN : /\ Pte(f, w) \in Entry /\ Pte(f, w).st = "present"
                                        /\ Pte(f, w).frame = f /\ Pte(f, w).rw = w
    /\ None \in Entry /\ None.st = "none" /\ Lazy \in Entry /\ Lazy.st = "lazy"
BY DEF Pte, None, Lazy, Entry

(* An assignment to one entry.                                             *)
LEMMA SetEntry ==
    ASSUME NEW q \in Tables, NEW s \in Spaces, NEW p \in Kinds, NEW e \in Entry
    PROVE  Sets(q, [q EXCEPT ![s][p] = e], s, p, e)
BY DEF Sets, Tables

(* A step that changes neither frames nor pages.                           *)
LEMMA SameStep ==
    ASSUME IInv, UNCHANGED <<pmm, pt, live, sg>>, grown' \in SUBSET live, GrownInv', Data'
    PROVE  IInv'
<1>1. TypeOK'
  BY DEF IInv, TypeOK, Data
<1> QED
  BY <1>1 DEF IInv, Low, Zero, Books, EntryInv, ShmInv, CowInv

(* A step that changes one page.                                           *)
LEMMA PageStep ==
    ASSUME IInv, NEW s \in live, NEW p \in Real, NEW e \in Entry, Sets(pt, pt', s, p, e),
           Balanced(s, p), UNCHANGED <<live, sg>>, pmm' \in Map, Low(pmm'),
           e.st = "present" => e.frame \in Frames, e.st = "lazy" => p = "heritage",
           grown' \in SUBSET live, GrownInv', CowInv', Data'
    PROVE  IInv'
<1>1. /\ pmm \in Map /\ pt \in Tables /\ live \in SUBSET Spaces /\ sg \in Shms
      /\ sg.by \in SUBSET live /\ s \in Spaces /\ p \in Kinds /\ p # "map"
  BY Types, Given
<1>2. TypeOK'
  BY <1>1 DEF TypeOK, Sets, Tables, Entry, Map, Byte, Shms, Data
<1>3. Books'
  <2> SUFFICES ASSUME NEW f \in Frames
               PROVE  pmm'.bitmap[f].n = Count(pt', live, f) + ShmUsers(sg, f)
    BY DEF Books
  <2>1. SameBut(pt, pt', live, s, p)
    BY <1>1, Given DEF Sets, SameBut
  <2>3. /\ Count(pt', live, f) + Bit(Has(pt, s, p, f)) = Count(pt, live, f) + Bit(Has(pt', s, p, f))
        /\ Count(pt', live, f) \in Nat /\ Count(pt, live, f) \in Nat
    BY <1>1, <2>1, OnePage
  <2>4. pmm'.bitmap[f].n + Bit(Has(pt, s, p, f)) = pmm.bitmap[f].n + Bit(Has(pt', s, p, f))
    BY DEF Balanced
  <2>5. pmm.bitmap[f].n = Count(pt, live, f) + ShmUsers(sg, f)
    BY DEF IInv, Books
  <2>6. /\ pmm'.bitmap[f].n \in Nat /\ pmm.bitmap[f].n \in Nat /\ ShmUsers(sg, f) \in Nat
        /\ Bit(Has(pt, s, p, f)) \in Nat /\ Bit(Has(pt', s, p, f)) \in Nat
    BY <1>1 DEF Map, Byte, ShmUsers, Bit, Shms
  <2> QED
    BY <2>3, <2>4, <2>5, <2>6
<1>4. EntryInv'
  BY <1>1 DEF EntryInv, Sets, IInv
<1>5. ShmInv'
  BY <1>1 DEF ShmInv, Sets, IInv
<1> QED
  BY <1>2, <1>3, <1>4, <1>5 DEF IInv

(* A step that changes shared memory and the mapping area only.            *)
LEMMA ShmStep ==
    ASSUME IInv, UNCHANGED <<live, grown>>, pmm' \in Map, Low(pmm'), pt' \in Tables,
           \A x \in Spaces, k \in Real : pt'[x][k] = pt[x][k], ShmBalanced,
           sg' \in Shms, sg'.by \in SUBSET live, ShmInv', EntryInv', CowInv', Data'
    PROVE  IInv'
<1>1. /\ pmm \in Map /\ pt \in Tables /\ live \in SUBSET Spaces /\ grown \in SUBSET live
      /\ sg \in Shms
  BY Types
<1>2. TypeOK'
  BY <1>1 DEF TypeOK, Tables, Entry, Map, Byte, Shms, Data
<1>3. Books'
  <2> SUFFICES ASSUME NEW f \in Frames
               PROVE  pmm'.bitmap[f].n = Count(pt', live, f) + ShmUsers(sg', f)
    BY DEF Books
  <2>1. Count(pt', live, f) = Count(pt, live, f)
    BY <1>1, CountSame
  <2>2. pmm'.bitmap[f].n + ShmUsers(sg, f) = pmm.bitmap[f].n + ShmUsers(sg', f)
    BY DEF ShmBalanced
  <2>3. pmm.bitmap[f].n = Count(pt, live, f) + ShmUsers(sg, f)
    BY DEF IInv, Books
  <2>4. /\ pmm'.bitmap[f].n \in Nat /\ pmm.bitmap[f].n \in Nat /\ ShmUsers(sg, f) \in Nat
        /\ ShmUsers(sg', f) \in Nat
    BY <1>1 DEF Map, Byte, ShmUsers, Shms
  <2>5. Count(pt, live, f) \in Int
    BY <2>3, <2>4, CountType, <1>1
  <2> QED
    BY <2>1, <2>2, <2>3, <2>4, <2>5
<1>4. GrownInv'
  <2> SUFFICES ASSUME NEW s \in grown PROVE "heap" \in Kinds /\ pt'[s]["heap"].st = "present"
    BY DEF GrownInv
  <2>1. "heap" \in Kinds /\ pt[s]["heap"].st = "present" /\ s \in Spaces
    BY <1>1 DEF IInv, GrownInv
  <2>2. "heap" \in Real
    BY <2>1 DEF Real
  <2> QED
    BY <2>1, <2>2
<1> QED
  BY <1>2, <1>3, <1>4 DEF IInv

(* What is left of the contents.                                           *)
LEMMA ContentsKept ==
    ASSUME NEW pm, NEW m \in [Frames -> Values]
    PROVE  /\ Contents(pm, m) \in [Frames -> Values]
           /\ \A f \in Frames : pm.bitmap[f].n # 0 => Contents(pm, m)[f] = m[f]
BY Given DEF Contents

(* Nothing of the shared memory object is in a frame before there is one.  *)
LEMMA NoUsers == \A f \in Frames : ShmUsers(NoShm, f) = 0
BY Given DEF ShmUsers, NoShm

-----------------------------------------------------------------------------
(* The processes started at boot have a stack each.                        *)
LEMMA InitIInv == Init => IInv
<1> SUFFICES ASSUME Init PROVE IInv
  OBVIOUS
<1>0. /\ NBoot \in 1 .. NSpaces /\ NBoot <= MemEntries /\ 0 \in Values /\ live \in SUBSET Spaces
      /\ NSpaces \in Nat /\ MemEntries \in Nat /\ NBoot \in Nat
  BY MemoryAssumption DEF Init, Spaces
<1>1. \A s \in live : s - 1 \in Frames /\ s \in Nat /\ s >= 1 /\ s <= NBoot
  BY <1>0 DEF Init, Frames
<1>2. /\ pt \in Tables
      /\ \A s \in Spaces, p \in Kinds : /\ pt[s][p].st = "present" <=> s \in live /\ p = "stack"
                                        /\ pt[s][p].st = "present" => pt[s][p].frame = s - 1
                                        /\ pt[s][p].st = "lazy" => p = "heritage"
  <2>1. \A s \in Spaces, p \in Kinds :
           pt[s][p] = IF s \in live THEN IF p = "stack" THEN Pte(s - 1, TRUE)
                                         ELSE IF p = "heritage" THEN Lazy ELSE None
                      ELSE None
    BY DEF Init, Fresh
  <2>2. \A s \in Spaces, p \in Kinds :
           /\ pt[s][p] \in Entry
           /\ pt[s][p].st = "present" <=> s \in live /\ p = "stack"
           /\ pt[s][p].st = "present" => pt[s][p].frame = s - 1
           /\ pt[s][p].st = "lazy" => p = "heritage"
    <3> SUFFICES ASSUME NEW s \in Spaces, NEW p \in Kinds
                 PROVE  /\ pt[s][p] \in Entry
                        /\ pt[s][p].st = "present" <=> s \in live /\ p = "stack"
                        /\ pt[s][p].st = "present" => pt[s][p].frame = s - 1
                        /\ pt[s][p].st = "lazy" => p = "heritage"
      OBVIOUS
    <3>1. CASE s \in live /\ p = "stack"
      <4>1. PICK f \in Frames : f = s - 1
        BY <1>1, <3>1
      <4>2. pt[s][p] = Pte(f, TRUE)
        BY <2>1, <3>1, <4>1
      <4>3. pt[s][p] \in Entry /\ pt[s][p].st = "present" /\ pt[s][p].frame = f
        BY <4>2, Entries
      <4> QED
        BY <3>1, <4>1, <4>3
    <3>2. CASE ~(s \in live /\ p = "stack")
      <4>1. (pt[s][p] = Lazy /\ p = "heritage") \/ pt[s][p] = None
        BY <2>1, <3>2
      <4> QED
        BY <3>2, <4>1, Entries
    <3> QED
      BY <3>1, <3>2
  <2>3. pt = [s \in Spaces |-> [p \in Kinds |-> pt[s][p]]]
    BY DEF Init
  <2>4. pt \in [Spaces -> [Kinds -> Entry]]
    BY <2>2, <2>3
  <2> QED
    BY <2>2, <2>4 DEF Tables
<1>3. /\ pmm \in Map /\ pmm.look_from_here = 0 /\ sg = NoShm
      /\ \A f \in Frames : pmm.bitmap[f].n = IF "stack" \in Kinds /\ f < NBoot THEN 1 ELSE 0
  BY Given DEF Init, Map, Byte
<1>4. Books
  <2> SUFFICES ASSUME NEW f \in Frames
               PROVE  pmm.bitmap[f].n = Count(pt, live, f)
    <3>1. \A g \in Frames : ShmUsers(sg, g) = 0 /\ Count(pt, live, g) \in Nat
      BY <1>0, <1>3, NoUsers, CountType
    <3> QED
      BY <1>3, <3>1 DEF Books
  <2>1. CASE "stack" \in Kinds /\ f < NBoot
    <3> DEFINE A == {sp \in live \X Real : Has(pt, sp[1], sp[2], f)}
    <3>1. f + 1 \in live /\ f + 1 \in Spaces /\ "stack" \in Real /\ f \in Nat
      BY <1>0, <2>1, Given DEF Init, Spaces, Real
    <3>2. <<f + 1, "stack">> \in A
      BY <1>2, <2>1, <3>1 DEF Has
    <3>3. \A sp \in A : sp[1] = f + 1 /\ sp[2] = "stack" /\ sp = <<sp[1], sp[2]>>
      <4> SUFFICES ASSUME NEW sp \in A
                   PROVE  sp[1] = f + 1 /\ sp[2] = "stack" /\ sp = <<sp[1], sp[2]>>
        OBVIOUS
      <4>1. sp[1] \in live /\ sp[2] \in Real /\ sp = <<sp[1], sp[2]>> /\ Has(pt, sp[1], sp[2], f)
        OBVIOUS
      <4>2. sp[2] = "stack" /\ sp[1] - 1 = f
        BY <1>0, <1>2, <4>1, Given DEF Has
      <4> QED
        BY <1>1, <3>1, <4>1, <4>2
    <3>4. A = {<<f + 1, "stack">>}
      BY <3>2, <3>3
    <3> QED
      BY <1>3, <2>1, <3>4, FS_Singleton DEF Count
  <2>2. CASE ~("stack" \in Kinds /\ f < NBoot)
    <3>1. \A s \in live, p \in Real : ~Has(pt, s, p, f)
      <4> SUFFICES ASSUME NEW s \in live, NEW p \in Real, Has(pt, s, p, f) PROVE FALSE
        OBVIOUS
      <4>1. p \in Kinds /\ s \in Spaces /\ p = "stack" /\ s - 1 = f
        BY <1>0, <1>2, Given DEF Has
      <4> QED
        BY <1>0, <1>1, <2>2, <4>1
    <3> QED
      BY <1>3, <2>2, <3>1, CountNone
  <2> QED
    BY <2>1, <2>2
<1>5. Low(pmm)
  BY <1>3, Given DEF Low
<1>6. EntryInv
  BY <1>0, <1>1, <1>2 DEF EntryInv
<1>7. ShmInv /\ sg \in [st : {"none", "live"}, frame : Frames \cup {-1}, users : Nat,
                        kept : BOOLEAN, maker : BOOLEAN, by : SUBSET live]
  <2>1. /\ sg.st = "none" /\ ~sg.kept /\ sg.users = 0 /\ sg.by = {} /\ ~sg.maker /\ sg.frame = -1
        /\ sg = [st |-> "none", frame |-> -1, users |-> 0, kept |-> FALSE, maker |-> FALSE, by |-> {}]
    BY <1>3 DEF NoShm
  <2>2. Cardinality({}) = 0
    BY FS_EmptySet
  <2>3. \A s \in Spaces : "map" \in Kinds => pt[s]["map"].st # "present"
    BY <1>2
  <2> QED
    BY <1>3, <2>1, <2>2, <2>3 DEF ShmInv, Bit
<1>8. TypeOK
  BY <1>0, <1>2, <1>3, <1>7 DEF Init, TypeOK, Tables, Entry, Map, Byte
<1> QED
  BY <1>4, <1>5, <1>6, <1>7, <1>8 DEF Init, IInv, GrownInv, CowInv

-----------------------------------------------------------------------------
(* A failed assertion stops the kernel as it is.                           *)
LEMMA HaltIInv ==
    ASSUME IInv, NEW why \in {"exhausted", "free", "use"}, Halt(why)
    PROVE  IInv'
BY SameStep, Types DEF Halt, IInv, GrownInv, Data

(* vmmc_do_lazy_map enters a frame that was free.                          *)
LEMMA LazyIInv ==
    ASSUME IInv, NEW s \in Spaces, NEW p \in Kinds, vmmc_do_lazy_map(s, p)
    PROVE  IInv'
<1>1. CASE Candidates(pmm) = {}
  BY <1>1, HaltIInv DEF vmmc_do_lazy_map
<1>2. CASE Candidates(pmm) # {}
  <2>1. PICK f : f = Min(Candidates(pmm))
    OBVIOUS
  <2>2. /\ s \in live /\ pt[s][p].st = "lazy" /\ pmm' = pmm_alloc(pmm)
        /\ pt' = [pt EXCEPT ![s][p] = Pte(f, TRUE)]
        /\ mem' = IF p = "heritage" THEN [mem EXCEPT ![f] = 0] ELSE mem
        /\ wrote' = [wrote EXCEPT ![s][p] = mem'[f]] /\ UNCHANGED <<live, grown, sg, panic>>
    BY <1>2, <2>1 DEF vmmc_do_lazy_map
  <2>3. pmm \in Map /\ pt \in Tables /\ live \in SUBSET Spaces /\ grown \in SUBSET live /\ Data
    BY Types
  <2>4. Low(pmm)
    BY DEF IInv
  <2>5. /\ f \in Frames /\ pmm.bitmap[f].n = 0 /\ pmm' \in Map /\ Low(pmm')
        /\ pmm'.bitmap[f].n = 1 /\ ~pmm'.bitmap[f].cow
        /\ \A g \in Frames \ {f} : pmm'.bitmap[g] = pmm.bitmap[g]
    BY <1>2, <2>1, <2>2, <2>3, <2>4, Alloc
  <2>6. p = "heritage" /\ p \in Real
    BY <2>2 DEF IInv, EntryInv, Real
  <2>7. Pte(f, TRUE) \in Entry /\ Pte(f, TRUE).st = "present" /\ Pte(f, TRUE).frame = f
    BY <2>5, Entries
  <2>8. Sets(pt, pt', s, p, Pte(f, TRUE))
    BY <2>2, <2>3, <2>7, SetEntry
  <2>9. Balanced(s, p)
    <3> SUFFICES ASSUME NEW g \in Frames
                 PROVE  pmm'.bitmap[g].n + Bit(Has(pt, s, p, g)) =
                        pmm.bitmap[g].n + Bit(Has(pt', s, p, g))
      BY DEF Balanced
    <3>1. ~Has(pt, s, p, g) /\ (Has(pt', s, p, g) <=> g = f)
      BY <2>2, <2>7, <2>8 DEF Has, Sets
    <3> QED
      BY <2>3, <2>5, <3>1 DEF Bit, Map, Byte
  <2>10. Data'
    <3>1. mem' \in [Frames -> Values]
      BY <2>2, <2>3, Given DEF Data
    <3>2. mem'[f] \in Values
      BY <2>5, <3>1
    <3> QED
      BY <2>2, <2>3, <3>1, <3>2 DEF Data
  <2>11. GrownInv'
    BY <2>2, <2>3, <2>6, <2>8 DEF GrownInv, IInv, Sets
  <2>12. CowInv'
    BY <2>5 DEF CowInv, IInv
  <2> QED
    BY <2>2, <2>3, <2>5, <2>6, <2>7, <2>8, <2>9, <2>10, <2>11, <2>12, PageStep
<1> QED
  BY <1>1, <1>2

(* Store changes contents.                                                 *)
LEMMA StoreIInv ==
    ASSUME IInv, NEW s \in Spaces, NEW p \in Kinds, NEW v \in Values, Store(s, p, v)
    PROVE  IInv'
<1>1. Data'
  BY Types DEF Store, Data
<1> QED
  BY <1>1, SameStep, Types DEF Store, GrownInv, IInv

(* A page that can take a copy-on-write fault has a frame of its own kind: *)
(* shared memory is not marked.                                            *)
LEMMA MarkedIsReal ==
    ASSUME IInv, Apart, NEW s \in Spaces, NEW p \in Kinds, pt[s][p].st = "present",
           pmm.bitmap[pt[s][p].frame].cow
    PROVE  p \in Real
<1>1. pt[s][p].frame \in Frames
  BY DEF IInv, EntryInv
<1>2. Forking /\ Opens = {}
  BY <1>1 DEF IInv, CowInv, Apart
<1>3. sg.by = {}
  BY <1>2 DEF IInv, ShmInv, NoShm
<1> QED
  BY <1>3 DEF IInv, ShmInv, Real

(* The frame of a page of its own kind has a user.                         *)
LEMMA PageIsCounted ==
    ASSUME IInv, NEW s \in live, NEW p \in Real, pt[s][p].st = "present"
    PROVE  /\ pt[s][p].frame \in Frames /\ pmm.bitmap[pt[s][p].frame].n > 0
           /\ pmm.bitmap[pt[s][p].frame].n \in Nat
<1>1. pmm \in Map /\ pt \in Tables /\ live \in SUBSET Spaces /\ sg \in Shms
  BY Types
<1>2. PICK f \in Frames : f = pt[s][p].frame
  BY <1>1, Given DEF IInv, EntryInv
<1>3. Has(pt, s, p, f)
  BY <1>2 DEF Has
<1>4. Count(pt, live, f) \in Nat /\ Count(pt, live, f) > 0
  BY <1>1, <1>3, CountMeans
<1>5. pmm.bitmap[f].n = Count(pt, live, f) + ShmUsers(sg, f) /\ ShmUsers(sg, f) \in Nat
  BY <1>1 DEF IInv, Books, ShmUsers, Shms
<1> QED
  BY <1>2, <1>4, <1>5

(* One frame out of all.                                                   *)
LEMMA OneFrame ==
    ASSUME NEW f \in Frames
    PROVE  One(f) \in [Frames -> Nat] /\ \A g \in Frames : One(f)[g] = IF g = f THEN 1 ELSE 0
BY DEF One

(* vmmc_do_cow moves the page to a frame that was free, or keeps it.       *)
LEMMA CowIInv ==
    ASSUME IInv, Apart, NEW s \in Spaces, NEW p \in Kinds, vmmc_do_cow(s, p)
    PROVE  IInv'
<1>1. /\ s \in live /\ pt[s][p].st = "present" /\ pmm.bitmap[pt[s][p].frame].cow
      /\ pmm \in Map /\ pt \in Tables /\ live \in SUBSET Spaces /\ grown \in SUBSET live /\ Data
  BY Types DEF vmmc_do_cow, Present, FrameOf
<1>2. p \in Real
  BY <1>1, MarkedIsReal
<1>3. PICK old \in Frames : old = FrameOf(s, p) /\ pmm.bitmap[old].n > 0 /\ pmm.bitmap[old].n \in Nat
  BY <1>1, <1>2, PageIsCounted DEF FrameOf
<1>4. CASE LastUser(old)
  <2> DEFINE e == [pt[s][p] EXCEPT !.rw = TRUE]
  <2>1. /\ pt' = [pt EXCEPT ![s][p] = e] /\ pmm' = pmm_mark_cow(pmm, {old}, FALSE)
        /\ UNCHANGED <<live, grown, sg, panic, mem, wrote>>
    BY <1>1, <1>3, <1>4 DEF vmmc_do_cow, Tables
  <2>2. e \in Entry /\ e.st = "present" /\ e.frame = pt[s][p].frame
    <3>1. pt[s][p] \in Entry
      BY <1>1 DEF Tables
    <3> QED
      BY <1>1, <3>1 DEF Entry
  <2> HIDE DEF e
  <2>3. Sets(pt, pt', s, p, e)
    BY <1>1, <2>1, <2>2, SetEntry
  <2>4. Low(pmm) /\ CowInv /\ GrownInv
    BY DEF IInv
  <2>5. /\ pmm' \in Map /\ Low(pmm')
        /\ \A f \in Frames : /\ pmm'.bitmap[f].n = pmm.bitmap[f].n
                             /\ pmm'.bitmap[f].cow => pmm.bitmap[f].cow
    <3>1. MarkFacts(pmm, pmm', {old}, FALSE)
      <4>1. pmm' = Unmarked(pmm, old)
        BY <2>1 DEF Unmarked
      <4> QED
        BY <1>1, <1>3, <2>4, <4>1, Unmark
    <3> QED
      BY <3>1 DEF MarkFacts
  <2>6. Balanced(s, p)
    BY <1>1, <2>2, <2>3, <2>5 DEF Balanced, Has, Sets
  <2>7. CowInv' /\ Data'
    BY <1>1, <2>1, <2>4, <2>5 DEF CowInv, Data
  <2>8. GrownInv'
    BY <1>1, <2>1, <2>2, <2>3, <2>4 DEF GrownInv, Sets
  <2> QED
    BY <1>1, <1>2, <1>3, <2>1, <2>2, <2>3, <2>5, <2>6, <2>7, <2>8, PageStep DEF FrameOf
<1>5. CASE ~LastUser(old) /\ Candidates(pmm) = {}
  BY <1>3, <1>5, HaltIInv DEF vmmc_do_cow
<1>6. CASE ~LastUser(old) /\ Candidates(pmm) # {}
  <2>1. PICK new : new = Min(Candidates(pmm))
    OBVIOUS
  <2>2. /\ pt' = [pt EXCEPT ![s][p] = Pte(new, TRUE)] /\ mem' = [mem EXCEPT ![new] = mem[old]]
        /\ pmm' = pmm_free(pmm_alloc(pmm), One(old))
        /\ UNCHANGED <<live, grown, sg, panic, wrote>>
    BY <1>3, <1>6, <2>1 DEF vmmc_do_cow
  <2>3. Low(pmm) /\ CowInv /\ GrownInv
    BY DEF IInv
  <2> DEFINE pm == pmm_alloc(pmm)
  <2>4. /\ new \in Frames /\ pmm.bitmap[new].n = 0 /\ pm \in Map /\ Low(pm)
        /\ pm.bitmap[new].n = 1 /\ ~pm.bitmap[new].cow
        /\ \A g \in Frames \ {new} : pm.bitmap[g] = pmm.bitmap[g]
    BY <1>1, <1>6, <2>1, <2>3, Alloc
  <2>5. pmm' = pmm_free(pm, One(old))
    BY <2>2
  <2> HIDE DEF pm
  <2>6. new # old
    BY <1>3, <2>4
  <2>7. FreeAsserts(pm, One(old))
    <3> SUFFICES ASSUME NEW f \in Frames PROVE One(old)[f] <= pm.bitmap[f].n
      BY DEF FreeAsserts
    <3>1. pm.bitmap[f].n \in Nat
      BY <2>4 DEF Map, Byte
    <3> QED
      BY <1>3, <2>4, <2>6, <3>1, OneFrame
  <2>8. /\ pmm' \in Map /\ Low(pmm')
        /\ \A f \in Frames : /\ pmm'.bitmap[f].n = pm.bitmap[f].n - One(old)[f]
                             /\ pmm'.bitmap[f].cow = pm.bitmap[f].cow
    BY <2>4, <2>5, <2>7, OneFrame, Free
  <2>9. Pte(new, TRUE) \in Entry /\ Pte(new, TRUE).st = "present" /\ Pte(new, TRUE).frame = new
    BY <2>4, Entries
  <2>10. Sets(pt, pt', s, p, Pte(new, TRUE))
    BY <1>1, <2>2, <2>9, SetEntry
  <2>11. Balanced(s, p)
    <3> SUFFICES ASSUME NEW g \in Frames
                 PROVE  pmm'.bitmap[g].n + Bit(Has(pt, s, p, g)) =
                        pmm.bitmap[g].n + Bit(Has(pt', s, p, g))
      BY DEF Balanced
    <3>1. (Has(pt, s, p, g) <=> g = old) /\ (Has(pt', s, p, g) <=> g = new)
      BY <1>1, <1>3, <2>9, <2>10 DEF Has, Sets, FrameOf
    <3>2. pmm'.bitmap[g].n = pm.bitmap[g].n - (IF g = old THEN 1 ELSE 0)
      BY <2>8, OneFrame
    <3>3. pmm.bitmap[g].n \in Nat /\ pm.bitmap[g].n \in Nat
      BY <1>1, <2>4 DEF Map, Byte
    <3> QED
      BY <2>4, <2>6, <3>1, <3>2, <3>3 DEF Bit
  <2>12. CowInv'
    BY <2>3, <2>4, <2>8 DEF CowInv
  <2>13. GrownInv'
    BY <1>1, <2>2, <2>3, <2>9, <2>10 DEF GrownInv, Sets
  <2>14. Data'
    BY <1>1, <2>2 DEF Data
  <2> QED
    BY <1>1, <1>2, <2>2, <2>4, <2>8, <2>9, <2>10, <2>11, <2>12, <2>13, <2>14, PageStep
<1> QED
  BY <1>4, <1>5, <1>6

(* context_sbrk upwards enters a frame that was free, or finds a page.     *)
LEMMA SbrkUpIInv ==
    ASSUME IInv, NEW s \in Spaces, context_sbrk_up(s)
    PROVE  IInv'
<1>1. /\ s \in live /\ "heap" \in Kinds /\ "heap" \in Real /\ pmm \in Map /\ pt \in Tables
      /\ live \in SUBSET Spaces /\ grown \in SUBSET live /\ Data /\ Low(pmm) /\ CowInv /\ GrownInv
  BY Types DEF context_sbrk_up, IInv, Real
<1>2. CASE Present(s, "heap")
  <2>1. grown' = grown \cup {s} /\ UNCHANGED <<pmm, pt, live, sg, panic, mem, wrote>>
    BY <1>2 DEF context_sbrk_up
  <2>2. GrownInv' /\ Data'
    BY <1>1, <1>2, <2>1 DEF GrownInv, Present, Data
  <2> QED
    BY <1>1, <2>1, <2>2, SameStep
<1>3. CASE ~Present(s, "heap") /\ Candidates(pmm) = {}
  BY <1>3, HaltIInv DEF context_sbrk_up
<1>4. CASE ~Present(s, "heap") /\ Candidates(pmm) # {}
  <2>1. PICK f : f = Min(Candidates(pmm))
    OBVIOUS
  <2>2. /\ grown' = grown \cup {s} /\ pmm' = pmm_alloc(pmm)
        /\ pt' = [pt EXCEPT ![s]["heap"] = Pte(f, TRUE)]
        /\ wrote' = [wrote EXCEPT ![s]["heap"] = mem[f]]
        /\ UNCHANGED <<live, sg, panic, mem>>
    BY <1>4, <2>1 DEF context_sbrk_up
  <2>3. /\ f \in Frames /\ pmm.bitmap[f].n = 0 /\ pmm' \in Map /\ Low(pmm')
        /\ pmm'.bitmap[f].n = 1 /\ ~pmm'.bitmap[f].cow
        /\ \A g \in Frames \ {f} : pmm'.bitmap[g] = pmm.bitmap[g]
    BY <1>1, <1>4, <2>1, <2>2, Alloc
  <2>4. Pte(f, TRUE) \in Entry /\ Pte(f, TRUE).st = "present" /\ Pte(f, TRUE).frame = f
    BY <2>3, Entries
  <2>5. Sets(pt, pt', s, "heap", Pte(f, TRUE))
    BY <1>1, <2>2, <2>4, SetEntry
  <2>6. Balanced(s, "heap")
    <3> SUFFICES ASSUME NEW g \in Frames
                 PROVE  pmm'.bitmap[g].n + Bit(Has(pt, s, "heap", g)) =
                        pmm.bitmap[g].n + Bit(Has(pt', s, "heap", g))
      BY DEF Balanced
    <3>1. ~Has(pt, s, "heap", g) /\ (Has(pt', s, "heap", g) <=> g = f)
      BY <1>4, <2>4, <2>5 DEF Has, Sets, Present
    <3> QED
      BY <1>1, <2>3, <3>1 DEF Bit, Map, Byte
  <2>7. Data'
    BY <1>1, <2>2, <2>3 DEF Data
  <2>8. GrownInv'
    BY <1>1, <2>2, <2>4, <2>5 DEF GrownInv, Sets
  <2>9. CowInv' /\ grown' \in SUBSET live
    BY <1>1, <2>2, <2>3 DEF CowInv
  <2> QED
    BY <1>1, <2>2, <2>3, <2>4, <2>5, <2>6, <2>7, <2>8, <2>9, PageStep
<1> QED
  BY <1>2, <1>3, <1>4

(* Where no page lies at the end of a page table, unmapping unmaps.        *)
LEMMA Unmap ==
    ASSUME Apart, pt \in Tables, NEW s \in Spaces, NEW p \in Kinds, p \in {"heap", "map"}
    PROVE  Sets(pt, vmmc_user_unmap(s, p), s, p, None)
<1>1. vmmc_user_unmap(s, p) = [pt EXCEPT ![s][p] = None]
  BY DEF Apart, vmmc_user_unmap
<1> QED
  <2>1. None \in Entry
    BY Entries
  <2>2. Sets(pt, [pt EXCEPT ![s][p] = None], s, p, None)
    BY <2>1, SetEntry
  <2> QED
    BY <1>1, <2>2

(* context_sbrk downwards gives the frame back and unmaps the page.        *)
LEMMA SbrkDownIInv ==
    ASSUME IInv, Apart, NEW s \in Spaces, context_sbrk_down(s)
    PROVE  IInv'
<1>1. /\ s \in grown /\ s \in live /\ pmm \in Map /\ pt \in Tables
      /\ live \in SUBSET Spaces /\ grown \in SUBSET live /\ Data /\ Low(pmm) /\ CowInv /\ GrownInv
  BY Types DEF context_sbrk_down, IInv
<1>2. "heap" \in Kinds /\ "heap" \in Real /\ pt[s]["heap"].st = "present"
  BY <1>1 DEF GrownInv, Real
<1>3. PICK f \in Frames : f = FrameOf(s, "heap")
  BY <1>1, <1>2, PageIsCounted DEF FrameOf
<1>4. CASE ~FreeAsserts(pmm, One(f))
  BY <1>3, <1>4, HaltIInv DEF context_sbrk_down
<1>5. CASE FreeAsserts(pmm, One(f))
  <2>1. /\ grown' = grown \ {s} /\ pmm' = pmm_free(pmm, One(f))
        /\ pt' = vmmc_user_unmap(s, "heap") /\ wrote' = [wrote EXCEPT ![s]["heap"] = 0]
        /\ mem' = Contents(pmm', mem) /\ UNCHANGED <<live, sg, panic>>
    BY <1>3, <1>5 DEF context_sbrk_down
  <2>2. /\ pmm' \in Map /\ Low(pmm')
        /\ \A g \in Frames : /\ pmm'.bitmap[g].n = pmm.bitmap[g].n - One(f)[g]
                             /\ pmm'.bitmap[g].cow = pmm.bitmap[g].cow
    BY <1>1, <1>5, <2>1, OneFrame, Free
  <2>3. Sets(pt, pt', s, "heap", None)
    BY <1>1, <1>2, <2>1, Unmap
  <2>4. Balanced(s, "heap")
    <3> SUFFICES ASSUME NEW g \in Frames
                 PROVE  pmm'.bitmap[g].n + Bit(Has(pt, s, "heap", g)) =
                        pmm.bitmap[g].n + Bit(Has(pt', s, "heap", g))
      BY DEF Balanced
    <3>1. (Has(pt, s, "heap", g) <=> g = f) /\ ~Has(pt', s, "heap", g)
      BY <1>2, <1>3, <2>3, Entries DEF Has, Sets, FrameOf
    <3>2. pmm'.bitmap[g].n = pmm.bitmap[g].n - (IF g = f THEN 1 ELSE 0)
      BY <2>2, OneFrame
    <3>3. pmm.bitmap[g].n \in Nat
      BY <1>1 DEF Map, Byte
    <3> QED
      BY <3>1, <3>2, <3>3 DEF Bit
  <2>5. Data'
    BY <1>1, <2>1, Given, ContentsKept DEF Data
  <2>6. GrownInv'
    BY <1>1, <2>1, <2>3 DEF GrownInv, Sets
  <2>7. CowInv' /\ grown' \in SUBSET live
    BY <1>1, <2>1, <2>2 DEF CowInv
  <2> QED
    BY <1>1, <1>2, <2>1, <2>2, <2>3, <2>4, <2>5, <2>6, <2>7, Entries, PageStep
<1> QED
  BY <1>4, <1>5
-----------------------------------------------------------------------------
(* The users who have the object open.                                     *)
LEMMA Openers ==
    ASSUME IInv
    PROVE  /\ IsFiniteSet(sg.by) /\ Cardinality(sg.by) \in Nat /\ sg.users \in Nat
           /\ Cardinality(sg.by) + Bit(sg.maker) <= sg.users
           /\ Bit(sg.maker) \in {0, 1} /\ (Bit(sg.maker) = 1 <=> sg.maker)
           /\ \A s \in sg.by : /\ IsFiniteSet(sg.by \ {s}) /\ sg.users > 0
                               /\ Cardinality(sg.by \ {s}) = Cardinality(sg.by) - 1
           /\ \A s \in Spaces \ sg.by : /\ IsFiniteSet(sg.by \cup {s})
                                        /\ Cardinality(sg.by \cup {s}) = Cardinality(sg.by) + 1
<1>1. sg \in Shms /\ sg.by \in SUBSET Spaces
  BY Types DEF Shms
<1>2. IsFiniteSet(sg.by) /\ Cardinality(sg.by) \in Nat
  BY <1>1, Finite
<1>3. Cardinality(sg.by) + Bit(sg.maker) <= sg.users /\ sg.users \in Nat
  BY <1>1 DEF IInv, ShmInv, Shms
<1>4. Bit(sg.maker) \in {0, 1} /\ (Bit(sg.maker) = 1 <=> sg.maker)
  BY DEF Bit
<1>5. ASSUME NEW s \in sg.by
      PROVE  /\ IsFiniteSet(sg.by \ {s}) /\ sg.users > 0
             /\ Cardinality(sg.by \ {s}) = Cardinality(sg.by) - 1
  <2>1. /\ IsFiniteSet(sg.by \ {s})
        /\ Cardinality(sg.by \ {s}) = Cardinality(sg.by) - 1
    BY <1>2, FS_RemoveElement
  <2>2. Cardinality(sg.by) # 0
    BY <1>2, FS_EmptySet
  <2> QED
    BY <1>2, <1>3, <1>4, <2>1, <2>2
<1>6. ASSUME NEW s \in Spaces \ sg.by
      PROVE  /\ IsFiniteSet(sg.by \cup {s})
             /\ Cardinality(sg.by \cup {s}) = Cardinality(sg.by) + 1
  BY <1>2, FS_AddElement
<1> QED
  BY <1>2, <1>3, <1>4, <1>5, <1>6

(* vmmc_create_shm: an object without a frame.                             *)
LEMMA CreateIInv ==
    ASSUME IInv, vmmc_create_shm
    PROVE  IInv'
<1>1. /\ Opens # {} /\ sg = NoShm /\ sg' = [NoShm EXCEPT !.st = "live"]
      /\ UNCHANGED <<pmm, pt, live, grown, panic, mem, wrote>>
  BY DEF vmmc_create_shm, IInv, ShmInv
<1>2. /\ sg'.st = "live" /\ sg'.frame = -1 /\ sg'.users = 0 /\ ~sg'.kept /\ ~sg'.maker
      /\ sg'.by = {} /\ sg.by = {} /\ sg' \in Shms /\ sg.frame = -1
  BY <1>1 DEF NoShm, Shms
<1>3. Cardinality({}) = 0
  BY FS_EmptySet
<1>4. ShmInv'
  BY <1>1, <1>2, <1>3 DEF IInv, ShmInv, Bit
<1>5. ShmBalanced
  BY <1>1, <1>2, Given DEF ShmBalanced, ShmUsers
<1>6. Low(pmm') /\ CowInv' /\ EntryInv' /\ Data' /\ pmm \in Map /\ pt \in Tables
  BY <1>1, Types DEF IInv, CowInv, EntryInv, Data
<1> QED
  BY <1>1, <1>2, <1>4, <1>5, <1>6, ShmStep

(* vmmc_make_shm: the heap page's frame has one user more, the object.     *)
LEMMA MakeIInv ==
    ASSUME IInv, NEW s \in Spaces, vmmc_make_shm(s)
    PROVE  IInv'
<1>1. /\ Opens # {} /\ sg = NoShm /\ s \in live /\ "heap" \in Real /\ pt[s]["heap"].st = "present"
      /\ pmm \in Map /\ Low(pmm) /\ pt \in Tables /\ CowInv /\ EntryInv /\ Data
  BY Types DEF vmmc_make_shm, IInv, ShmInv, Real, Present
<1>2. PICK f \in Frames : f = FrameOf(s, "heap")
  BY <1>1, PageIsCounted DEF FrameOf
<1>3. CASE ~UseAsserts(pmm, One(f))
  BY <1>2, <1>3, HaltIInv DEF vmmc_make_shm
<1>4. CASE UseAsserts(pmm, One(f))
  <2>1. /\ pmm' = pmm_use(pmm, One(f))
        /\ sg' = [st |-> "live", frame |-> f, users |-> 1, kept |-> FALSE,
                  maker |-> TRUE, by |-> {}]
        /\ UNCHANGED <<pt, live, grown, panic, mem, wrote>>
    BY <1>2, <1>4 DEF vmmc_make_shm
  <2>2. /\ sg'.st = "live" /\ sg'.frame = f /\ sg'.users = 1 /\ ~sg'.kept /\ sg'.maker
        /\ sg'.by = {} /\ sg.by = {} /\ sg' \in Shms
    BY <1>1, <2>1 DEF NoShm, Shms
  <2>3. /\ pmm' \in Map /\ Low(pmm')
        /\ \A g \in Frames : /\ pmm'.bitmap[g].n = pmm.bitmap[g].n + One(f)[g]
                             /\ pmm'.bitmap[g].cow = pmm.bitmap[g].cow
    BY <1>1, <1>4, <2>1, OneFrame, Use
  <2>4. Cardinality({}) = 0
    BY FS_EmptySet
  <2>5. ShmInv'
    BY <1>1, <2>1, <2>2, <2>4 DEF IInv, ShmInv, Bit
  <2>6. ShmBalanced
    <3> SUFFICES ASSUME NEW g \in Frames
                 PROVE  pmm'.bitmap[g].n + ShmUsers(sg, g) = pmm.bitmap[g].n + ShmUsers(sg', g)
      BY DEF ShmBalanced
    <3>1. ShmUsers(sg, g) = 0 /\ ShmUsers(sg', g) = IF g = f THEN 1 ELSE 0
      BY <1>1, <2>2, NoUsers DEF ShmUsers
    <3>2. pmm.bitmap[g].n \in Nat
      BY <1>1 DEF Map, Byte
    <3> QED
      BY <2>3, <3>1, <3>2, OneFrame
  <2>7. CowInv' /\ EntryInv' /\ Data'
    BY <1>1, <2>1, <2>3 DEF CowInv, EntryInv, Data
  <2> QED
    BY <1>1, <2>1, <2>2, <2>3, <2>5, <2>6, <2>7, ShmStep
<1> QED
  BY <1>3, <1>4

(* vmmc_open_shm: the opener is counted, but for the first one of an object *)
(* that was kept alive.                                                    *)
LEMMA OpenIInv ==
    ASSUME IInv, NEW s \in Spaces, NEW mode \in Opens, vmmc_open_shm(s, mode)
    PROVE  IInv'
<1>1. /\ s \in live /\ "map" \in Kinds /\ pt[s]["map"].st = "none" /\ sg.st = "live"
      /\ pmm \in Map /\ Low(pmm) /\ pt \in Tables /\ CowInv /\ EntryInv /\ Data
      /\ sg \in Shms /\ live \in SUBSET Spaces
  BY Types DEF vmmc_open_shm, IInv
<1>2. CASE ~sg.kept /\ sg.users # 0 /\ ~UseAsserts(pmm, One(sg.frame))
  BY <1>2, HaltIInv DEF vmmc_open_shm
<1>3. CASE ~sg.kept /\ sg.users = 0 /\ Candidates(pmm) = {}
  BY <1>3, HaltIInv DEF vmmc_open_shm
<1>4. CASE /\ ~(~sg.kept /\ sg.users # 0 /\ ~UseAsserts(pmm, One(sg.frame)))
           /\ ~(~sg.kept /\ sg.users = 0 /\ Candidates(pmm) = {})
  <2>1. PICK f : f = IF sg.kept \/ sg.users # 0 THEN sg.frame ELSE Min(Candidates(pmm))
    OBVIOUS
  <2>2. /\ pmm' = IF sg.kept THEN pmm ELSE IF sg.users # 0 THEN Opened(f) ELSE pmm_alloc(pmm)
        /\ sg' = [sg EXCEPT !.frame = f, !.users = @ + 1, !.kept = FALSE, !.by = @ \cup {s}]
        /\ pt' = [pt EXCEPT ![s]["map"] = Pte(f, mode = "rw")]
        /\ UNCHANGED <<live, grown, panic, mem, wrote>>
    BY <1>4, <2>1 DEF vmmc_open_shm
  <2>3. s \notin sg.by
    BY <1>1 DEF IInv, ShmInv
  <2>4. /\ f \in Frames /\ pmm' \in Map /\ Low(pmm') /\ CowInv' /\ (sg.by # {} => f = sg.frame)
        /\ \A g \in Frames : pmm'.bitmap[g].n + ShmUsers(sg, g) =
               pmm.bitmap[g].n + (IF g = f THEN sg.users + 1 ELSE 0)
    <3>1. ASSUME sg.by # {} PROVE sg.users # 0
      <4>1. PICK x : x \in sg.by
        BY <3>1
      <4>2. sg.users > 0
        BY <4>1, Openers, Zenon
      <4> QED
        BY <4>2
    <3>2. \A g \in Frames : pmm.bitmap[g].n \in Nat
      BY <1>1 DEF Map, Byte
    <3>3. sg.users \in Nat
      BY Openers
    <3>4. CASE sg.kept
      <4>1. f = sg.frame /\ pmm' = pmm /\ sg.users = 0 /\ f \in Frames
        BY <2>1, <2>2, <3>4 DEF IInv, ShmInv
      <4> QED
        BY <1>1, <3>2, <3>4, <4>1 DEF ShmUsers, CowInv
    <3>5. CASE ~sg.kept /\ sg.users # 0
      <4>1. f = sg.frame /\ pmm' = pmm_use(pmm, One(f)) /\ UseAsserts(pmm, One(f))
        BY <1>4, <2>1, <2>2, <3>5 DEF Opened
      <4>2. f \in Frames
        BY <3>3, <3>5, <4>1 DEF IInv, ShmInv
      <4>3. /\ pmm' \in Map /\ Low(pmm')
            /\ \A g \in Frames : /\ pmm'.bitmap[g].n = pmm.bitmap[g].n + One(f)[g]
                                 /\ pmm'.bitmap[g].cow = pmm.bitmap[g].cow
        BY <1>1, <4>1, <4>2, OneFrame, Use
      <4>4. ASSUME NEW g \in Frames
            PROVE  pmm'.bitmap[g].n + ShmUsers(sg, g) =
                   pmm.bitmap[g].n + (IF g = f THEN sg.users + 1 ELSE 0)
        <5>1. ShmUsers(sg, g) = IF g = f THEN sg.users ELSE 0
          BY <3>3, <3>5, <4>1 DEF ShmUsers
        <5>2. pmm'.bitmap[g].n = pmm.bitmap[g].n + (IF g = f THEN 1 ELSE 0)
          BY <4>2, <4>3, OneFrame
        <5> QED
          BY <3>2, <3>3, <5>1, <5>2
      <4>5. CowInv'
        BY <1>1, <4>3 DEF CowInv
      <4> QED
        BY <4>1, <4>2, <4>3, <4>4, <4>5
    <3>6. CASE ~sg.kept /\ sg.users = 0
      <4>1. f = Min(Candidates(pmm)) /\ pmm' = pmm_alloc(pmm) /\ Candidates(pmm) # {}
        BY <1>4, <2>1, <2>2, <3>6
      <4>2. /\ f \in Frames /\ pmm.bitmap[f].n = 0 /\ pmm' \in Map /\ Low(pmm')
            /\ pmm'.bitmap[f].n = 1 /\ ~pmm'.bitmap[f].cow
            /\ \A g \in Frames \ {f} : pmm'.bitmap[g] = pmm.bitmap[g]
        BY <1>1, <4>1, Alloc
      <4>3. \A g \in Frames : ShmUsers(sg, g) = 0
        BY <3>6 DEF ShmUsers
      <4>4. CowInv'
        BY <1>1, <4>2 DEF CowInv
      <4> QED
        BY <3>1, <3>2, <3>6, <4>2, <4>3, <4>4
    <3> QED
      BY <3>4, <3>5, <3>6
  <2>5. /\ sg'.st = "live" /\ sg'.frame = f /\ sg'.users = sg.users + 1 /\ ~sg'.kept
        /\ sg'.maker = sg.maker /\ sg'.by = sg.by \cup {s} /\ sg' \in Shms
        /\ sg'.by \in SUBSET live
    <3>1. sg.by \in SUBSET live
      BY Types
    <3>2. sg' = [st |-> sg.st, frame |-> f, users |-> sg.users + 1, kept |-> FALSE,
                 maker |-> sg.maker, by |-> sg.by \cup {s}]
      BY <1>1, <2>2 DEF Shms
    <3>3. /\ sg.st = "live" /\ f \in Frames /\ sg.users \in Nat /\ sg.maker \in BOOLEAN
          /\ sg.by \cup {s} \in SUBSET Spaces /\ sg.by \cup {s} \in SUBSET live
      BY <1>1, <2>4, <3>1 DEF Shms
    <3>4. sg' \in Shms
      BY <3>2, <3>3 DEF Shms
    <3> QED
      BY <3>2, <3>3, <3>4
  <2>6. PICK e \in Entry : pt' = [pt EXCEPT ![s]["map"] = e] /\ e.st = "present" /\ e.frame = f
    <3> DEFINE e == [st |-> "present", frame |-> f, rw |-> mode = "rw"]
    <3>1. pt' = [pt EXCEPT ![s]["map"] = e]
      BY <2>2 DEF Pte
    <3>2. e \in Entry /\ e.st = "present" /\ e.frame = f
      BY <2>4 DEF Entry
    <3> HIDE DEF e
    <3> QED
      BY <3>1, <3>2
  <2>7. Sets(pt, pt', s, "map", e)
    BY <1>1, <2>6, SetEntry
  <2>8. ShmBalanced
    <3> SUFFICES ASSUME NEW g \in Frames
                 PROVE  pmm'.bitmap[g].n + ShmUsers(sg, g) = pmm.bitmap[g].n + ShmUsers(sg', g)
      BY DEF ShmBalanced
    <3>1. ShmUsers(sg', g) = IF g = f THEN sg.users + 1 ELSE 0
      <4>1. sg.users \in Nat
        BY Openers
      <4> QED
        BY <2>5, <4>1 DEF ShmUsers
    <3> QED
      BY <2>4, <3>1
  <2>9. ShmInv'
    <3>1. Cardinality(sg'.by) + Bit(sg'.maker) <= sg'.users /\ sg'.users > 0
      <4>1. Cardinality(sg.by \cup {s}) = Cardinality(sg.by) + 1
        BY <2>3, Openers
      <4>2. Bit(sg'.maker) = Bit(sg.maker)
        BY <2>5 DEF Bit
      <4> QED
        BY <2>5, <4>1, <4>2, Openers
    <3>2. ASSUME NEW x \in Spaces
          PROVE  /\ pt'[x]["map"].st = "present" <=> x \in sg'.by
                 /\ pt'[x]["map"].st = "present" => pt'[x]["map"].frame = sg'.frame
      BY <1>1, <2>4, <2>5, <2>6, <2>7 DEF Sets, IInv, ShmInv
    <3> QED
      BY <1>1, <2>4, <2>5, <3>1, <3>2 DEF ShmInv
  <2>10. EntryInv' /\ Data'
    BY <1>1, <2>2, <2>4, <2>6, <2>7 DEF EntryInv, Sets, Data
  <2>11. pt' \in Tables /\ \A x \in Spaces, k \in Real : pt'[x][k] = pt[x][k]
    BY <2>7, Given DEF Sets
  <2> QED
    BY <2>2, <2>4, <2>5, <2>8, <2>9, <2>10, <2>11, ShmStep
<1> QED
  BY <1>2, <1>3, <1>4

(* The common end of vmmc_close_shm and vmmc_unmake_shm for the users b    *)
(* that then have the object open, and k = 1 if who made it still uses it. *)
Drops(b, k) == \E destroy, maker \in BOOLEAN : Drop(destroy, maker, b) /\ Bit(maker) = k

DropFacts(b, k) ==
    /\ pmm' \in Map /\ Low(pmm') /\ CowInv' /\ ShmBalanced /\ mem' \in [Frames -> Values]
    /\ sg' \in Shms /\ sg'.by = b /\ Bit(sg'.maker) = k /\ sg'.users = sg.users - 1
    /\ sg'.st = "none" => sg' = NoShm
    /\ sg'.kept => sg'.users = 0
    /\ sg'.kept \/ sg'.users > 0 => sg'.frame \in Frames
    /\ b # {} => sg'.frame = sg.frame

(* One user less: the frame has one less, or the object is kept alive.     *)
LEMMA DropLemma ==
    ASSUME IInv, sg.st = "live", FreeAsserts(pmm, One(sg.frame)),
           NEW b \in SUBSET sg.by, NEW k \in {0, 1}, Cardinality(b) + k + 1 <= sg.users, Drops(b, k)
    PROVE  DropFacts(b, k)
<1>1. /\ pmm \in Map /\ Low(pmm) /\ CowInv /\ mem \in [Frames -> Values] /\ sg \in Shms
      /\ b \in SUBSET Spaces /\ Opens # {}
  <2>1. sg # NoShm
    BY DEF NoShm
  <2> QED
    BY <2>1, Types DEF IInv, Data, Shms, ShmInv
<1>2. IsFiniteSet(b) /\ Cardinality(b) \in Nat /\ sg.users \in Nat
  BY <1>1, Finite DEF Shms
<1>3. sg.users > 0 /\ ~sg.kept /\ sg.frame \in Frames
  BY <1>2 DEF IInv, ShmInv
<1>4. PICK f \in Frames : f = sg.frame
  BY <1>3
<1>5. PICK destroy \in BOOLEAN, maker \in BOOLEAN :
         /\ pmm' = IF sg.users = 1 /\ ~destroy THEN pmm ELSE pmm_free(pmm, One(sg.frame))
         /\ mem' = Contents(pmm', mem)
         /\ sg' = IF sg.users = 1 /\ destroy THEN NoShm
                  ELSE [sg EXCEPT !.users = @ - 1, !.kept = (sg.users = 1), !.maker = maker, !.by = b]
         /\ Bit(maker) = k
  <2>1. PICK destroy \in BOOLEAN, maker \in BOOLEAN : Drop(destroy, maker, b) /\ Bit(maker) = k
    BY Zenon DEF Drops
  <2>2. /\ pmm' = IF sg.users = 1 /\ ~destroy THEN pmm ELSE pmm_free(pmm, One(sg.frame))
        /\ mem' = Contents(pmm', mem)
        /\ sg' = IF sg.users = 1 /\ destroy THEN NoShm
                 ELSE [sg EXCEPT !.users = @ - 1, !.kept = (sg.users = 1), !.maker = maker, !.by = b]
    BY <2>1, Zenon DEF Drop, KeepAlive
  <2> QED
    BY <2>1, <2>2, Zenon
<1>6. mem' \in [Frames -> Values]
  BY <1>1, <1>5, ContentsKept
<1>7. ShmUsers(sg, f) = sg.users /\ \A g \in Frames \ {f} : ShmUsers(sg, g) = 0
  BY <1>1, <1>3, <1>4 DEF ShmUsers, Shms
<1>8. \A g \in Frames : pmm.bitmap[g].n \in Nat
  BY <1>1 DEF Map, Byte
<1>9. ASSUME ~(sg.users = 1 /\ ~destroy)
      PROVE  /\ pmm' \in Map /\ Low(pmm') /\ CowInv'
             /\ \A g \in Frames : pmm'.bitmap[g].n = pmm.bitmap[g].n - (IF g = f THEN 1 ELSE 0)
  <2>1. pmm' = pmm_free(pmm, One(f))
    BY <1>4, <1>5, <1>9
  <2>2. /\ pmm' \in Map /\ Low(pmm')
        /\ \A g \in Frames : /\ pmm'.bitmap[g].n = pmm.bitmap[g].n - One(f)[g]
                             /\ pmm'.bitmap[g].cow = pmm.bitmap[g].cow
    BY <1>1, <1>4, <2>1, OneFrame, Free
  <2>3. \A g \in Frames : pmm'.bitmap[g].n = pmm.bitmap[g].n - (IF g = f THEN 1 ELSE 0)
    BY <2>2, OneFrame
  <2>4. CowInv'
    BY <1>1, <2>2 DEF CowInv
  <2> QED
    BY <2>2, <2>3, <2>4
<1>10. CASE sg.users = 1 /\ destroy
  <2>1. sg' = NoShm /\ pmm' \in Map /\ Low(pmm') /\ CowInv'
        /\ \A g \in Frames : pmm'.bitmap[g].n = pmm.bitmap[g].n - (IF g = f THEN 1 ELSE 0)
    BY <1>5, <1>9, <1>10
  <2>2. b = {} /\ k = 0
    BY <1>2, <1>10, FS_EmptySet
  <2>3. /\ sg' \in Shms /\ sg'.by = {} /\ ~sg'.maker /\ sg'.users = 0 /\ ~sg'.kept
    BY <2>1 DEF NoShm, Shms
  <2>4. ShmBalanced
    BY <1>7, <1>8, <1>10, <2>1, NoUsers DEF ShmBalanced
  <2> QED
    BY <1>6, <1>10, <2>1, <2>2, <2>3, <2>4 DEF DropFacts, Bit
<1>11. CASE ~(sg.users = 1 /\ destroy)
  <2>1. sg' = [st |-> sg.st, frame |-> f, users |-> sg.users - 1, kept |-> (sg.users = 1),
               maker |-> maker, by |-> b]
    BY <1>1, <1>4, <1>5, <1>11 DEF Shms
  <2>2. sg.users - 1 \in Nat
    BY <1>2, <1>3
  <2>3. /\ sg' \in Shms /\ sg'.st = "live" /\ sg'.frame = f /\ sg'.users = sg.users - 1
        /\ (sg'.kept <=> sg.users = 1) /\ sg'.by = b /\ sg'.maker = maker
    BY <1>1, <2>1, <2>2 DEF Shms
  <2>4. Bit(sg'.maker) = k
    BY <1>5, <2>3 DEF Bit
  <2>5. ShmUsers(sg', f) = (IF sg.users = 1 THEN 1 ELSE sg.users - 1)
        /\ \A g \in Frames \ {f} : ShmUsers(sg', g) = 0
    BY <1>2, <2>3 DEF ShmUsers
  <2>6. ShmBalanced /\ pmm' \in Map /\ Low(pmm') /\ CowInv'
    <3>1. CASE sg.users = 1
      <4>1. pmm' = pmm
        BY <1>5, <1>11, <3>1
      <4>2. CowInv'
        BY <1>1, <4>1 DEF CowInv
      <4>3. ASSUME NEW g \in Frames PROVE ShmUsers(sg', g) = ShmUsers(sg, g)
        BY <1>7, <2>5, <3>1
      <4> QED
        BY <1>1, <4>1, <4>2, <4>3 DEF ShmBalanced
    <3>2. CASE sg.users # 1
      <4>1. /\ pmm' \in Map /\ Low(pmm') /\ CowInv'
            /\ \A g \in Frames : pmm'.bitmap[g].n = pmm.bitmap[g].n - (IF g = f THEN 1 ELSE 0)
        BY <1>9, <3>2
      <4>2. ShmBalanced
        BY <1>2, <1>7, <1>8, <2>5, <3>2, <4>1 DEF ShmBalanced
      <4> QED
        BY <4>1, <4>2
    <3> QED
      BY <3>1, <3>2
  <2> QED
    BY <1>1, <1>2, <1>4, <1>6, <2>3, <2>4, <2>6 DEF DropFacts
<1> QED
  BY <1>10, <1>11

(* What vmmc_close_shm leaves, if it is not stopped.                       *)
LEMMA CloseDone ==
    ASSUME IInv, NEW s \in Spaces, NEW destroy \in BOOLEAN, vmmc_close_shm(s, destroy)
    PROVE  /\ s \in sg.by /\ "map" \in Kinds /\ Opens # {} /\ sg.st = "live"
           /\ \/ Halt("free")
              \/ /\ DropFacts(sg.by \ {s}, Bit(sg.maker)) /\ pt' = vmmc_user_unmap(s, "map")
                 /\ UNCHANGED <<live, grown, panic, wrote>>
<1>1. /\ s \in sg.by /\ "map" \in Kinds /\ Opens # {} /\ sg.st = "live" /\ sg \in Shms
  <2>1. s \in sg.by
    BY DEF vmmc_close_shm
  <2>2. sg # NoShm /\ sg \in Shms
    BY <2>1, Types DEF NoShm
  <2> QED
    BY <2>1, <2>2, Types DEF IInv, ShmInv, Shms
<1>2. CASE ~FreeAsserts(pmm, One(sg.frame))
  BY <1>1, <1>2 DEF vmmc_close_shm
<1>3. CASE FreeAsserts(pmm, One(sg.frame))
  <2>1. /\ Drops(sg.by \ {s}, Bit(sg.maker)) /\ pt' = vmmc_user_unmap(s, "map")
        /\ UNCHANGED <<live, grown, panic, wrote>>
    BY <1>1, <1>3 DEF vmmc_close_shm, Drops, Shms
  <2>2. Cardinality(sg.by \ {s}) + Bit(sg.maker) + 1 <= sg.users /\ Bit(sg.maker) \in {0, 1}
    BY <1>1, Openers
  <2>3. DropFacts(sg.by \ {s}, Bit(sg.maker))
    BY <1>1, <1>3, <2>1, <2>2, DropLemma
  <2> QED
    BY <1>1, <2>1, <2>3
<1> QED
  BY <1>2, <1>3

(* vmmc_close_shm: one user less, and the page is unmapped.                *)
LEMMA CloseIInv ==
    ASSUME IInv, Apart, NEW s \in Spaces, NEW destroy \in BOOLEAN, vmmc_close_shm(s, destroy)
    PROVE  IInv'
<1>1. /\ s \in sg.by /\ "map" \in Kinds /\ Opens # {}
      /\ \/ Halt("free")
         \/ /\ DropFacts(sg.by \ {s}, Bit(sg.maker)) /\ pt' = vmmc_user_unmap(s, "map")
            /\ UNCHANGED <<live, grown, panic, wrote>>
  BY CloseDone, Zenon
<1>2. /\ pmm \in Map /\ pt \in Tables /\ EntryInv /\ Data /\ sg \in Shms
      /\ live \in SUBSET Spaces /\ sg.by \in SUBSET live
  BY Types DEF IInv
<1>3. CASE Halt("free")
  BY <1>3, HaltIInv
<1>4. CASE /\ DropFacts(sg.by \ {s}, Bit(sg.maker)) /\ pt' = vmmc_user_unmap(s, "map")
           /\ UNCHANGED <<live, grown, panic, wrote>>
  <2>2. Cardinality(sg.by \ {s}) + Bit(sg.maker) + 1 <= sg.users
    BY <1>1, Openers
  <2>4. Sets(pt, pt', s, "map", None)
    BY <1>1, <1>2, <1>4, Unmap
  <2>5. Cardinality(sg'.by) + Bit(sg'.maker) <= sg'.users
    <3>1. Cardinality(sg.by \ {s}) \in Nat /\ sg.users \in Nat /\ Bit(sg.maker) \in Nat
      BY <1>2, Finite DEF Shms, Bit
    <3> QED
      BY <1>4, <2>2, <3>1 DEF DropFacts
  <2>6. ASSUME NEW x \in Spaces
        PROVE  /\ pt'[x]["map"].st = "present" <=> x \in sg'.by
               /\ pt'[x]["map"].st = "present" => pt'[x]["map"].frame = sg'.frame
    <3>1. /\ pt[x]["map"].st = "present" <=> x \in sg.by
          /\ pt[x]["map"].st = "present" => pt[x]["map"].frame = sg.frame
      BY <1>1 DEF IInv, ShmInv
    <3>2. sg'.by = sg.by \ {s} /\ (sg.by \ {s} # {} => sg'.frame = sg.frame)
      BY <1>4 DEF DropFacts
    <3>3. CASE x = s
      <4>1. pt'[s]["map"] = None
        BY <2>4 DEF Sets
      <4> QED
        BY <3>2, <3>3, <4>1, Entries
    <3>4. CASE x # s
      <4>1. pt'[x]["map"] = pt[x]["map"]
        BY <1>1, <1>2, <2>4, <3>4 DEF Sets
      <4> QED
        BY <3>1, <3>2, <3>4, <4>1
    <3> QED
      BY <3>3, <3>4
  <2>7. ShmInv'
    BY <1>1, <1>4, <2>5, <2>6 DEF ShmInv, DropFacts
  <2>8. EntryInv' /\ Data' /\ sg'.by \in SUBSET live
    BY <1>1, <1>2, <1>4, <2>4, Entries DEF EntryInv, Sets, Data, DropFacts
  <2>9. pt' \in Tables /\ \A x \in Spaces, k \in Real : pt'[x][k] = pt[x][k]
    BY <2>4, Given DEF Sets
  <2> QED
    BY <1>4, <2>7, <2>8, <2>9, ShmStep DEF DropFacts
<1> QED
  BY <1>1, <1>3, <1>4

(* What vmmc_unmake_shm leaves, if it is not stopped.                      *)
LEMMA UnmakeDone ==
    ASSUME IInv, NEW destroy \in BOOLEAN, vmmc_unmake_shm(destroy)
    PROVE  /\ sg.maker /\ Opens # {}
           /\ \/ Halt("free")
              \/ DropFacts(sg.by, 0) /\ UNCHANGED <<pt, live, grown, panic, wrote>>
<1>1. sg.st = "live" /\ sg.maker /\ Opens # {} /\ sg \in Shms
  <2>1. sg.st = "live" /\ sg.maker
    BY DEF vmmc_unmake_shm
  <2>2. sg # NoShm
    BY <2>1 DEF NoShm
  <2> QED
    BY <2>1, <2>2, Types DEF IInv, ShmInv
<1>2. CASE ~FreeAsserts(pmm, One(sg.frame))
  BY <1>1, <1>2 DEF vmmc_unmake_shm
<1>3. CASE FreeAsserts(pmm, One(sg.frame))
  <2>1. Drops(sg.by, 0) /\ UNCHANGED <<pt, live, grown, panic, wrote>>
    BY <1>1, <1>3 DEF vmmc_unmake_shm, Drops, Bit
  <2>2. Cardinality(sg.by) + 0 + 1 <= sg.users
    <3>1. Bit(sg.maker) = 1
      BY <1>1 DEF Bit
    <3>2. /\ Cardinality(sg.by) \in Nat /\ sg.users \in Nat
          /\ Cardinality(sg.by) + Bit(sg.maker) <= sg.users
      BY Openers, Zenon
    <3> QED
      BY <3>1, <3>2
  <2>3. DropFacts(sg.by, 0)
    BY <1>1, <1>3, <2>1, <2>2, DropLemma
  <2> QED
    BY <1>1, <2>1, <2>3
<1> QED
  BY <1>2, <1>3

(* vmmc_unmake_shm: who made the object is no longer one of its users.     *)
LEMMA UnmakeIInv ==
    ASSUME IInv, NEW destroy \in BOOLEAN, vmmc_unmake_shm(destroy)
    PROVE  IInv'
<1>1. /\ sg.maker /\ Opens # {}
      /\ \/ Halt("free")
         \/ DropFacts(sg.by, 0) /\ UNCHANGED <<pt, live, grown, panic, wrote>>
  BY UnmakeDone, Zenon
<1>2. /\ pmm \in Map /\ pt \in Tables /\ EntryInv /\ Data /\ sg \in Shms
      /\ live \in SUBSET Spaces /\ sg.by \in SUBSET live
  BY Types DEF IInv
<1>3. CASE Halt("free")
  BY <1>3, HaltIInv
<1>4. CASE DropFacts(sg.by, 0) /\ UNCHANGED <<pt, live, grown, panic, wrote>>
  <2>1. Cardinality(sg'.by) + Bit(sg'.maker) <= sg'.users
    <3>1. Cardinality(sg.by) \in Nat /\ sg.users \in Nat /\ Bit(sg.maker) = 1
      BY <1>1, <1>2, Finite DEF Shms, Bit
    <3>2. Cardinality(sg.by) + Bit(sg.maker) <= sg.users
      BY Openers, Zenon
    <3> QED
      BY <1>4, <3>1, <3>2 DEF DropFacts
  <2>2. ASSUME NEW x \in Spaces, "map" \in Kinds
        PROVE  /\ pt'[x]["map"].st = "present" <=> x \in sg'.by
               /\ pt'[x]["map"].st = "present" => pt'[x]["map"].frame = sg'.frame
    BY <1>4, <2>2 DEF IInv, ShmInv, DropFacts
  <2>3. ShmInv'
    BY <1>1, <1>4, <2>1, <2>2 DEF IInv, ShmInv, DropFacts
  <2>4. EntryInv' /\ Data' /\ sg'.by \in SUBSET live
    BY <1>2, <1>4 DEF EntryInv, Data, DropFacts
  <2> QED
    BY <1>2, <1>4, <2>3, <2>4, ShmStep DEF DropFacts
<1> QED
  BY <1>1, <1>3, <1>4

-----------------------------------------------------------------------------
(* Who leaves an address space no longer has the object open there, but    *)
(* remains one of its users.                                               *)
LeaveFacts(s) ==
    /\ sg' \in Shms /\ sg'.by = sg.by \ {s} /\ sg'.frame = sg.frame
    /\ sg'.users = sg.users /\ (sg'.kept <=> sg.kept) /\ (sg'.maker <=> sg.maker)
    /\ sg'.st = "none" => sg' = NoShm
    /\ Opens = {} => sg' = NoShm
    /\ Cardinality(sg'.by) + Bit(sg'.maker) <= sg'.users
    /\ \A f \in Frames : ShmUsers(sg', f) = ShmUsers(sg, f)

(* The object's users when an address space is emptied.                    *)
LEMMA Leave ==
    ASSUME IInv, NEW s \in Spaces, sg' = [sg EXCEPT !.by = @ \ {s}]
    PROVE  LeaveFacts(s)
<1>1. sg \in Shms
  BY Types
<1>2. /\ sg' = [st |-> sg.st, frame |-> sg.frame, users |-> sg.users, kept |-> sg.kept,
                maker |-> sg.maker, by |-> sg.by \ {s}]
      /\ sg' \in Shms /\ sg'.by = sg.by \ {s} /\ sg'.frame = sg.frame /\ sg'.users = sg.users
      /\ (sg'.kept <=> sg.kept) /\ (sg'.maker <=> sg.maker) /\ sg'.st = sg.st
  BY <1>1 DEF Shms
<1>3. Cardinality(sg'.by) + Bit(sg'.maker) <= sg'.users
  <2>1. Bit(sg'.maker) = Bit(sg.maker)
    BY <1>2 DEF Bit
  <2>2. CASE s \in sg.by
    <3>1. Cardinality(sg'.by) = Cardinality(sg.by) - 1
      BY <1>2, <2>2, Openers
    <3> QED
      BY <1>2, <2>1, <3>1, Openers
  <2>3. CASE s \notin sg.by
    <3>1. sg'.by = sg.by
      BY <1>2, <2>3
    <3> QED
      BY <1>2, <2>1, <3>1, Openers
  <2> QED
    BY <2>2, <2>3
<1>4. ASSUME sg = NoShm PROVE sg' = NoShm
  BY <1>2, <1>4 DEF NoShm
<1>5. (sg'.st = "none" => sg' = NoShm) /\ (Opens = {} => sg' = NoShm)
  BY <1>2, <1>4 DEF IInv, ShmInv
<1>6. \A f \in Frames : ShmUsers(sg', f) = ShmUsers(sg, f)
  BY <1>2 DEF ShmUsers
<1> QED
  BY <1>2, <1>3, <1>5, <1>6 DEF LeaveFacts

(* The frame map changes by as much as the entries of s do.                *)
SpaceBalanced(s) ==
    \A f \in Frames : pmm'.bitmap[f].n + InOf(pt, s, Real, f) =
                      pmm.bitmap[f].n + InOf(pt', s, Real, f)

SpaceKept(s) ==
    /\ \A p \in Kinds : /\ pt'[s][p].st = "present" => pt'[s][p].frame \in Frames /\ p # "map"
                        /\ pt'[s][p].st = "lazy" => p = "heritage"
    /\ \A x \in Spaces \ {s} : pt'[x] = pt[x]

(* A step that empties and refills one address space, which may be gone    *)
(* afterwards.                                                             *)
LEMMA SpaceStep ==
    ASSUME IInv, NEW s \in live, pt' \in Tables, SpaceKept(s), SpaceBalanced(s), LeaveFacts(s),
           live' = live \/ (live' = live \ {s} /\ \A f \in Frames : InOf(pt', s, Real, f) = 0),
           grown' = grown \ {s}, pmm' \in Map, Low(pmm'), CowInv', Data'
    PROVE  IInv'
<1>1. /\ pmm \in Map /\ pt \in Tables /\ live \in SUBSET Spaces /\ grown \in SUBSET live
      /\ sg \in Shms /\ sg.by \in SUBSET live
  BY Types
<1>2. live' \in SUBSET Spaces /\ grown' \in SUBSET live' /\ sg' \in Shms /\ sg'.by \in SUBSET live'
  BY <1>1 DEF LeaveFacts
<1>3. TypeOK'
  BY <1>2 DEF TypeOK, Tables, Entry, Map, Byte, Shms, Data
<1>4. Books'
  <2> SUFFICES ASSUME NEW f \in Frames
               PROVE  pmm'.bitmap[f].n = Count(pt', live', f) + ShmUsers(sg', f)
    BY DEF Books
  <2>1. Count(pt', live \ {s}, f) = Count(pt, live \ {s}, f)
    BY <1>1, CountSame DEF SpaceKept
  <2>2. /\ Count(pt, live, f) = Count(pt, live \ {s}, f) + InOf(pt, s, Real, f)
        /\ Count(pt', live, f) = Count(pt', live \ {s}, f) + InOf(pt', s, Real, f)
        /\ InOf(pt, s, Real, f) \in Nat /\ InOf(pt', s, Real, f) \in Nat
        /\ Count(pt, live \ {s}, f) \in Nat
    BY <1>1, CountSplit
  <2>3. Count(pt', live', f) = Count(pt, live \ {s}, f) + InOf(pt', s, Real, f)
    BY <2>1, <2>2
  <2>4. /\ pmm.bitmap[f].n = Count(pt, live, f) + ShmUsers(sg, f)
        /\ ShmUsers(sg', f) = ShmUsers(sg, f)
        /\ pmm'.bitmap[f].n + InOf(pt, s, Real, f) = pmm.bitmap[f].n + InOf(pt', s, Real, f)
    BY DEF IInv, Books, LeaveFacts, SpaceBalanced
  <2>5. /\ pmm'.bitmap[f].n \in Nat /\ pmm.bitmap[f].n \in Nat /\ ShmUsers(sg, f) \in Nat
    BY <1>1 DEF Map, Byte, ShmUsers, Shms
  <2> QED
    BY <2>2, <2>3, <2>4, <2>5
<1>5. EntryInv'
  <2> SUFFICES ASSUME NEW x \in Spaces, NEW p \in Kinds
               PROVE  /\ pt'[x][p].st = "present" => pt'[x][p].frame \in Frames
                      /\ pt'[x][p].st = "lazy" => p = "heritage"
    BY DEF EntryInv
  <2> QED
    BY DEF SpaceKept, IInv, EntryInv
<1>6. GrownInv'
  BY <1>1 DEF GrownInv, IInv, SpaceKept
<1>7. ShmInv'
  <2>1. ASSUME NEW x \in Spaces, "map" \in Kinds
        PROVE  /\ pt'[x]["map"].st = "present" <=> x \in sg'.by
               /\ pt'[x]["map"].st = "present" => pt'[x]["map"].frame = sg'.frame
    <3>1. /\ pt[x]["map"].st = "present" <=> x \in sg.by
          /\ pt[x]["map"].st = "present" => pt[x]["map"].frame = sg.frame
      BY <2>1 DEF IInv, ShmInv
    <3>2. sg'.by = sg.by \ {s} /\ sg'.frame = sg.frame
      BY DEF LeaveFacts
    <3>3. CASE x = s
      BY <2>1, <3>2, <3>3 DEF SpaceKept
    <3>4. CASE x # s
      BY <3>1, <3>2, <3>4 DEF SpaceKept
    <3> QED
      BY <3>3, <3>4
  <2> QED
    BY <2>1 DEF IInv, ShmInv, LeaveFacts
<1> QED
  BY <1>3, <1>4, <1>5, <1>6, <1>7 DEF IInv

(* destroy_vmm_context gives every frame back.                             *)
LEMMA DestroyIInv ==
    ASSUME IInv, NEW s \in Spaces, destroy_vmm_context(s)
    PROVE  IInv'
<1>1. /\ s \in live /\ pmm \in Map /\ pt \in Tables /\ Data /\ Low(pmm) /\ CowInv
      /\ live \in SUBSET Spaces
  BY Types DEF destroy_vmm_context, IInv
<1>2. PICK drop : drop = Cleared(s, FALSE)
  OBVIOUS
<1>3. CASE ~FreeAsserts(pmm, drop)
  BY <1>2, <1>3, HaltIInv DEF destroy_vmm_context
<1>4. CASE FreeAsserts(pmm, drop)
  <2>1. /\ pmm' = pmm_free(pmm, drop) /\ pt' = [pt EXCEPT ![s] = [p \in Kinds |-> None]]
        /\ live' = live \ {s} /\ grown' = grown \ {s}
        /\ wrote' = [wrote EXCEPT ![s] = [p \in Kinds |-> 0]]
        /\ sg' = [sg EXCEPT !.by = @ \ {s}] /\ mem' = Contents(pmm', mem) /\ panic' = panic
    BY <1>2, <1>4 DEF destroy_vmm_context
  <2>2. drop \in [Frames -> Nat] /\ \A f \in Frames : drop[f] = InOf(pt, s, Real, f)
    <3>1. drop = [f \in Frames |-> InOf(pt, s, Real, f)]
      BY <1>2 DEF Cleared, In, InOf, Has, Present, FrameOf, Real
    <3>2. \A f \in Frames : InOf(pt, s, Real, f) \in Nat
      BY <1>1, CountSplit
    <3> QED
      BY <3>1, <3>2
  <2>3. /\ pmm' \in Map /\ Low(pmm')
        /\ \A f \in Frames : /\ pmm'.bitmap[f].n = pmm.bitmap[f].n - drop[f]
                             /\ pmm'.bitmap[f].cow = pmm.bitmap[f].cow
    BY <1>1, <1>4, <2>1, <2>2, Free
  <2>4. /\ pt' \in Tables /\ \A p \in Kinds : pt'[s][p].st = "none"
        /\ \A x \in Spaces \ {s} : pt'[x] = pt[x]
    BY <1>1, <2>1, Entries DEF Tables
  <2>5. \A f \in Frames : InOf(pt', s, Real, f) = 0
    <3> SUFFICES ASSUME NEW f \in Frames PROVE InOf(pt', s, Real, f) = 0
      OBVIOUS
    <3>1. {p \in Real : Has(pt', s, p, f)} = {}
      BY <2>4, Given DEF Has
    <3> QED
      BY <3>1, FS_EmptySet DEF InOf
  <2>6. SpaceBalanced(s)
    <3> SUFFICES ASSUME NEW f \in Frames
                 PROVE  pmm'.bitmap[f].n + InOf(pt, s, Real, f) =
                        pmm.bitmap[f].n + InOf(pt', s, Real, f)
      BY DEF SpaceBalanced
    <3>1. pmm.bitmap[f].n \in Nat
      BY <1>1 DEF Map, Byte
    <3> QED
      BY <2>2, <2>3, <2>5, <3>1
  <2>7. SpaceKept(s)
    BY <2>4 DEF SpaceKept
  <2>8. LeaveFacts(s)
    BY <2>1, Leave
  <2>9. CowInv' /\ Data'
    BY <1>1, <2>1, <2>3, Given, ContentsKept DEF CowInv, Data
  <2> QED
    BY <1>1, <2>1, <2>3, <2>4, <2>5, <2>6, <2>7, <2>8, <2>9, SpaceStep
<1> QED
  BY <1>3, <1>4

(* The pages in f, the inherited one apart.                                *)
LEMMA Inherited ==
    ASSUME NEW q, NEW s, NEW f
    PROVE  /\ InOf(q, s, Real, f) = InOf(q, s, Real \ {"heritage"}, f)
                   + (IF "heritage" \in Kinds THEN Bit(Has(q, s, "heritage", f)) ELSE 0)
           /\ InOf(q, s, Real \ {"heritage"}, f) \in Nat /\ InOf(q, s, Real, f) \in Nat
<1>1. CASE "heritage" \in Kinds
  <2>1. "heritage" \in Real /\ Real \in SUBSET Kinds
    BY <1>1, Given DEF Real
  <2> QED
    BY <1>1, <2>1, InSplit
<1>2. CASE "heritage" \notin Kinds
  <2>1. Real \ {"heritage"} = Real
    BY <1>2, Given
  <2>2. {p \in Real : Has(q, s, p, f)} \in SUBSET Kinds
    BY Given
  <2>3. InOf(q, s, Real, f) \in Nat
    BY <2>2, Finite DEF InOf
  <2> QED
    <3>1. InOf(q, s, Real \ {"heritage"}, f) = InOf(q, s, Real, f)
      BY <2>1, Zenon
    <3> QED
      BY <1>2, <2>3, <3>1
<1> QED
  BY <1>1, <1>2

(* exec frees all but what is inherited, and takes a frame for the stack.  *)
LEMMA ExecIInv ==
    ASSUME IInv, NEW s \in Spaces, exec(s)
    PROVE  IInv'
<1>1. /\ s \in live /\ pmm \in Map /\ pt \in Tables /\ Data /\ Low(pmm) /\ CowInv
      /\ live \in SUBSET Spaces
  BY Types DEF exec, IInv
<1>2. PICK drop : drop = Cleared(s, TRUE)
  OBVIOUS
<1>3. PICK pm : pm = pmm_free(pmm, drop)
  OBVIOUS
<1>4. PICK new : new = Min(Candidates(pm))
  OBVIOUS
<1>5. CASE ~FreeAsserts(pmm, drop)
  BY <1>2, <1>5, HaltIInv DEF exec
<1>6. CASE FreeAsserts(pmm, drop) /\ "stack" \in Kinds /\ Candidates(pm) = {}
  BY <1>2, <1>3, <1>6, HaltIInv DEF exec
<1>7. CASE FreeAsserts(pmm, drop) /\ ~("stack" \in Kinds /\ Candidates(pm) = {})
  <2>1. /\ pmm' = IF "stack" \in Kinds THEN pmm_alloc(pm) ELSE pm
        /\ pt' = [pt EXCEPT ![s] = [p \in Kinds |->
                    CASE p = "stack" -> Pte(new, TRUE) [] p = "heritage" -> pt[s][p]
                      [] OTHER -> None]]
        /\ grown' = grown \ {s} /\ sg' = [sg EXCEPT !.by = @ \ {s}]
        /\ mem' = Contents(pmm', mem)
        /\ wrote' = [wrote EXCEPT ![s] = [p \in Kinds |->
                       CASE p = "stack" -> mem'[new] [] p = "heritage" -> wrote[s][p]
                         [] OTHER -> 0]]
        /\ UNCHANGED <<live, panic>>
    BY <1>2, <1>3, <1>4, <1>7 DEF exec
  <2>2. drop \in [Frames -> Nat] /\ \A f \in Frames : drop[f] = InOf(pt, s, Real \ {"heritage"}, f)
    <3>1. Kinds \ ({"map"} \cup {"heritage"}) = Real \ {"heritage"}
      BY DEF Real
    <3>2. drop = [f \in Frames |-> InOf(pt, s, Real \ {"heritage"}, f)]
      BY <1>2, <3>1 DEF Cleared, In, InOf, Has, Present, FrameOf
    <3>3. \A f \in Frames : InOf(pt, s, Real \ {"heritage"}, f) \in Nat
      BY Inherited
    <3> QED
      BY <3>2, <3>3
  <2>3. /\ pm \in Map /\ Low(pm)
        /\ \A f \in Frames : /\ pm.bitmap[f].n = pmm.bitmap[f].n - drop[f]
                             /\ pm.bitmap[f].cow = pmm.bitmap[f].cow
    BY <1>1, <1>3, <1>7, <2>2, Free
  <2>4. /\ "stack" \in Kinds => new \in Frames /\ pm.bitmap[new].n = 0
        /\ pmm' \in Map /\ Low(pmm') /\ CowInv'
        /\ \A f \in Frames : pmm'.bitmap[f].n =
               pm.bitmap[f].n + (IF "stack" \in Kinds /\ f = new THEN 1 ELSE 0)
    <3>0. \A f \in Frames : pm.bitmap[f].n \in Nat
      BY <2>3 DEF Map, Byte
    <3>1. CASE "stack" \in Kinds
      <4>1. pmm' = pmm_alloc(pm) /\ Candidates(pm) # {}
        BY <1>7, <2>1, <3>1
      <4>2. /\ new \in Frames /\ pm.bitmap[new].n = 0 /\ pmm' \in Map /\ Low(pmm')
            /\ pmm'.bitmap[new].n = 1 /\ ~pmm'.bitmap[new].cow
            /\ \A g \in Frames \ {new} : pmm'.bitmap[g] = pm.bitmap[g]
        BY <1>4, <2>3, <4>1, Alloc
      <4>3. CowInv'
        BY <1>1, <2>3, <4>2 DEF CowInv
      <4> QED
        BY <3>0, <3>1, <4>2, <4>3
    <3>2. CASE "stack" \notin Kinds
      <4>1. pmm' = pm
        BY <2>1, <3>2
      <4>2. CowInv'
        BY <1>1, <2>3, <4>1 DEF CowInv
      <4> QED
        BY <2>3, <3>0, <3>2, <4>1, <4>2
    <3> QED
      BY <3>1, <3>2
  <2>5. ASSUME NEW p \in Kinds
        PROVE  /\ p = "stack" => /\ pt'[s][p] \in Entry /\ pt'[s][p].st = "present"
                                 /\ pt'[s][p].frame = new
               /\ p = "heritage" => pt'[s][p] = pt[s][p]
               /\ p \notin {"stack", "heritage"} => pt'[s][p] = None
    <3>1. pt'[s][p] = CASE p = "stack" -> Pte(new, TRUE) [] p = "heritage" -> pt[s][p]
                        [] OTHER -> None
      BY <1>1, <2>1 DEF Tables
    <3>2. p = "stack" => /\ Pte(new, TRUE) \in Entry /\ Pte(new, TRUE).st = "present"
                         /\ Pte(new, TRUE).frame = new
      BY <2>4, Entries
    <3>3. CASE p = "stack"
      BY <3>1, <3>2, <3>3
    <3>4. CASE p = "heritage"
      BY <3>1, <3>4
    <3>5. CASE p \notin {"stack", "heritage"}
      BY <3>1, <3>5
    <3> QED
      BY <3>3, <3>4, <3>5
  <2>6. pt' \in Tables /\ \A x \in Spaces \ {s} : pt'[x] = pt[x]
    <3>1. PICK row : row = [p \in Kinds |->
                    CASE p = "stack" -> Pte(new, TRUE) [] p = "heritage" -> pt[s][p]
                      [] OTHER -> None]
      OBVIOUS
    <3>2. pt' = [pt EXCEPT ![s] = row] /\ pt'[s] = row
      BY <1>1, <2>1, <3>1 DEF Tables
    <3>3. \A p \in Kinds : row[p] \in Entry
      <4>1. \A p \in Kinds : pt[s][p] \in Entry
        BY <1>1 DEF Tables
      <4> QED
        BY <2>5, <3>2, <4>1, Entries
    <3>4. row \in [Kinds -> Entry]
      BY <3>1, <3>3
    <3> QED
      BY <1>1, <3>2, <3>4 DEF Tables
  <2>7. SpaceKept(s)
    <3> SUFFICES ASSUME NEW p \in Kinds
                 PROVE  /\ pt'[s][p].st = "present" => pt'[s][p].frame \in Frames /\ p # "map"
                        /\ pt'[s][p].st = "lazy" => p = "heritage"
      BY <2>6 DEF SpaceKept
    <3>1. CASE p = "stack"
      BY <2>4, <2>5, <3>1
    <3>2. CASE p = "heritage"
      BY <2>5, <3>2 DEF IInv, EntryInv
    <3>3. CASE p \notin {"stack", "heritage"}
      BY <2>5, <3>3, Entries
    <3> QED
      BY <3>1, <3>2, <3>3
  <2>8. SpaceBalanced(s)
    <3> SUFFICES ASSUME NEW f \in Frames
                 PROVE  pmm'.bitmap[f].n + InOf(pt, s, Real, f) =
                        pmm.bitmap[f].n + InOf(pt', s, Real, f)
      BY DEF SpaceBalanced
    <3>1. InOf(pt', s, Real \ {"heritage"}, f) = IF "stack" \in Kinds /\ f = new THEN 1 ELSE 0
      <4>1. ASSUME NEW p \in Real \ {"heritage"}
            PROVE  Has(pt', s, p, f) <=> p = "stack" /\ f = new
        <5>1. p \in Kinds /\ p # "heritage"
          BY Given
        <5>2. CASE p = "stack"
          BY <2>5, <5>1, <5>2 DEF Has
        <5>3. CASE p # "stack"
          BY <2>5, <5>1, <5>3, Entries DEF Has
        <5> QED
          BY <5>2, <5>3
      <4>2. CASE "stack" \in Kinds /\ f = new
        <5>1. {p \in Real \ {"heritage"} : Has(pt', s, p, f)} = {"stack"}
          BY <4>1, <4>2 DEF Real
        <5> QED
          BY <4>2, <5>1, FS_Singleton DEF InOf
      <4>3. CASE ~("stack" \in Kinds /\ f = new)
        <5>1. {p \in Real \ {"heritage"} : Has(pt', s, p, f)} = {}
          BY <4>1, <4>3, Given
        <5> QED
          BY <4>3, <5>1, FS_EmptySet DEF InOf
      <4> QED
        BY <4>2, <4>3
    <3>2. "heritage" \in Kinds => (Has(pt', s, "heritage", f) <=> Has(pt, s, "heritage", f))
      BY <2>5 DEF Has
    <3> DEFINE h == IF "heritage" \in Kinds THEN Bit(Has(pt, s, "heritage", f)) ELSE 0
    <3>3. /\ InOf(pt, s, Real, f) = InOf(pt, s, Real \ {"heritage"}, f) + h
          /\ InOf(pt, s, Real \ {"heritage"}, f) \in Nat
      BY Inherited
    <3>4. InOf(pt', s, Real, f) = InOf(pt', s, Real \ {"heritage"}, f) + h
      <4>1. InOf(pt', s, Real, f) = InOf(pt', s, Real \ {"heritage"}, f)
                + (IF "heritage" \in Kinds THEN Bit(Has(pt', s, "heritage", f)) ELSE 0)
        BY Inherited
      <4> QED
        BY <3>2, <4>1 DEF Bit
    <3>5. h \in Nat /\ pmm.bitmap[f].n \in Nat
      BY <1>1 DEF Bit, Map, Byte
    <3> HIDE DEF h
    <3>6. pmm'.bitmap[f].n = pmm.bitmap[f].n - InOf(pt, s, Real \ {"heritage"}, f)
                                 + InOf(pt', s, Real \ {"heritage"}, f)
      BY <2>2, <2>3, <2>4, <3>1, Zenon
    <3>7. InOf(pt', s, Real \ {"heritage"}, f) \in Nat
      BY <3>1
    <3> QED
      BY <3>3, <3>4, <3>5, <3>6, <3>7
  <2>9. LeaveFacts(s)
    BY <2>1, Leave
  <2>10. Data'
    <3>1. mem' \in [Frames -> Values]
      BY <1>1, <2>1, ContentsKept DEF Data
    <3>2. \A p \in Kinds : /\ wrote[s][p] \in Values
                           /\ p = "stack" => mem'[new] \in Values
      BY <1>1, <2>4, <3>1 DEF Data
    <3>3. [p \in Kinds |-> CASE p = "stack" -> mem'[new] [] p = "heritage" -> wrote[s][p]
                             [] OTHER -> 0] \in [Kinds -> Values]
      BY <3>2, Given
    <3>4. wrote' \in [Spaces -> [Kinds -> Values]]
      BY <1>1, <2>1, <3>3 DEF Data
    <3> QED
      BY <1>1, <2>1, <3>1, <3>4 DEF Data
  <2> QED
    BY <1>1, <2>1, <2>4, <2>6, <2>7, <2>8, <2>9, <2>10, SpaceStep
<1> QED
  BY <1>5, <1>6, <1>7

(* Tables whose entries name the same frames count the same.               *)
LEMMA CountHas ==
    ASSUME NEW q, NEW r, NEW l, NEW f, \A s \in l, p \in Real : Has(q, s, p, f) <=> Has(r, s, p, f)
    PROVE  Count(q, l, f) = Count(r, l, f)
<1>1. {sp \in l \X Real : Has(q, sp[1], sp[2], f)} = {sp \in l \X Real : Has(r, sp[1], sp[2], f)}
  OBVIOUS
<1> QED
  BY <1>1 DEF Count

(* While shared memory is never opened the mapping area is empty.          *)
LEMMA NoMap ==
    ASSUME IInv, Opens = {}, NEW s \in Spaces, NEW f
    PROVE  /\ sg = NoShm /\ sg.by = {} /\ ("map" \in Kinds => pt[s]["map"].st # "present")
           /\ InOf(pt, s, Kinds, f) = InOf(pt, s, Real, f)
<1>1. sg = NoShm /\ sg.by = {}
  BY DEF IInv, ShmInv, NoShm
<1>2. "map" \in Kinds => pt[s]["map"].st # "present"
  BY <1>1 DEF IInv, ShmInv
<1>3. {p \in Kinds : Has(pt, s, p, f)} = {p \in Real : Has(pt, s, p, f)}
  BY <1>2 DEF Has, Real
<1> QED
  BY <1>1, <1>2, <1>3 DEF InOf

(* fork enters every frame of the parent once more, and marks it.          *)
LEMMA ForkIInv ==
    ASSUME IInv, Apart, NEW s \in Spaces, fork(s)
    PROVE  IInv'
<1>1. /\ s \in live /\ pmm \in Map /\ pt \in Tables /\ Data /\ Low(pmm) /\ Forking
      /\ live \in SUBSET Spaces /\ Spaces \ live # {} /\ Opens = {} /\ grown \in SUBSET live
      /\ sg \in Shms
  BY Types DEF fork, IInv, Apart
<1>2. PICK d : d = Min(Spaces \ live)
  OBVIOUS
<1>3. d \in Spaces \ live
  <2>1. Spaces \ live \in SUBSET Nat
    BY Given
  <2> QED
    BY <1>1, <1>2, <2>1, MinIsLeast
<1>4. PICK add : add = [f \in Frames |-> In(s, Kinds, f)]
  OBVIOUS
<1>5. CASE ~UseAsserts(pmm, add)
  BY <1>4, <1>5, HaltIInv DEF fork
<1>6. CASE UseAsserts(pmm, add)
  <2>1. /\ pmm' = CloneFrames(s, pmm)
        /\ pt' = [pt EXCEPT ![s] = vmmc_clone(s), ![d] = vmmc_clone(s)]
        /\ live' = live \cup {d} /\ grown' = IF s \in grown THEN grown \cup {d} ELSE grown
        /\ wrote' = [wrote EXCEPT ![d] = wrote[s]] /\ UNCHANGED <<sg, panic, mem>>
    BY <1>2, <1>4, <1>6 DEF fork
  <2>2. add \in [Frames -> Nat] /\ \A f \in Frames : add[f] = InOf(pt, s, Real, f)
    <3>1. \A f \in Frames : add[f] = InOf(pt, s, Kinds, f)
      BY <1>4 DEF In, InOf, Has, Present, FrameOf
    <3>2. \A f \in Frames : InOf(pt, s, Kinds, f) = InOf(pt, s, Real, f)
      BY <1>1, NoMap
    <3>3. \A f \in Frames : InOf(pt, s, Real, f) \in Nat
      BY <1>1, CountSplit
    <3> QED
      BY <1>4, <3>1, <3>2, <3>3
  <2>3. PICK F \in SUBSET Frames : F = {FrameOf(s, p) : p \in {k \in Kinds : Present(s, k)}}
    BY DEF IInv, EntryInv, FrameOf, Present
  <2>4. PICK pm : pm = pmm_use(pmm, add)
    OBVIOUS
  <2>5. /\ pm \in Map /\ Low(pm)
        /\ \A f \in Frames : /\ pm.bitmap[f].n = pmm.bitmap[f].n + add[f]
                             /\ pm.bitmap[f].cow = pmm.bitmap[f].cow
    BY <1>1, <1>6, <2>2, <2>4, Use
  <2>6. /\ pmm' \in Map /\ Low(pmm')
        /\ \A f \in Frames : pmm'.bitmap[f].n = pmm.bitmap[f].n + InOf(pt, s, Real, f)
    <3>1. pmm' = Marked(pm, F)
      BY <1>4, <2>1, <2>3, <2>4 DEF CloneFrames, Marked
    <3>2. MarkFacts(pm, pmm', F, TRUE)
      BY <2>5, <3>1, Mark
    <3> QED
      BY <2>2, <2>5, <3>2 DEF MarkFacts
  <2>7. PICK row : row = vmmc_clone(s)
    OBVIOUS
  <2>8. /\ row \in [Kinds -> Entry]
        /\ \A p \in Kinds : /\ row[p].st = pt[s][p].st
                            /\ row[p].st = "present" => row[p].frame = pt[s][p].frame
    <3>1. ASSUME NEW p \in Kinds
          PROVE  /\ row[p] \in Entry /\ row[p].st = pt[s][p].st
                 /\ row[p].st = "present" => row[p].frame = pt[s][p].frame
      <4>1. CASE Present(s, p)
        <5>1. PICK f \in Frames : f = FrameOf(s, p)
          BY <4>1 DEF Present, FrameOf, IInv, EntryInv
        <5>2. row[p] = Pte(f, FALSE)
          BY <2>7, <4>1, <5>1 DEF vmmc_clone
        <5>3. row[p] \in Entry /\ row[p].st = "present" /\ row[p].frame = f
          BY <5>1, <5>2 DEF Pte, Entry
        <5> QED
          BY <4>1, <5>1, <5>3 DEF Present, FrameOf
      <4>2. CASE ~Present(s, p)
        <5>1. row[p] = pt[s][p]
          BY <2>7, <4>2 DEF vmmc_clone
        <5> QED
          BY <1>1, <4>2, <5>1 DEF Present, Tables
      <4> QED
        BY <4>1, <4>2
    <3>2. row = [p \in Kinds |-> row[p]]
      BY <2>7 DEF vmmc_clone
    <3> QED
      BY <3>1, <3>2
  <2>9. /\ pt' \in Tables /\ pt'[s] = row /\ pt'[d] = row
        /\ \A x \in Spaces \ {s, d} : pt'[x] = pt[x]
    <3>1. pt' = [pt EXCEPT ![s] = row, ![d] = row]
      BY <2>1, <2>7
    <3> QED
      BY <1>1, <1>3, <2>8, <3>1 DEF Tables
  <2>10. live' \in SUBSET Spaces /\ grown' \in SUBSET live' /\ sg.by = {} /\ sg = NoShm
    BY <1>1, <1>3, <2>1, NoMap
  <2>11. Data'
    BY <1>1, <1>3, <2>1 DEF Data
  <2>12. TypeOK'
    <3>1. sg' = sg /\ sg.by \in SUBSET live'
      BY <2>1, <2>10
    <3> QED
      BY <1>1, <2>6, <2>9, <2>10, <2>11, <3>1 DEF TypeOK, Tables, Entry, Map, Byte, Shms, Data
  <2>13. Books'
    <3> SUFFICES ASSUME NEW f \in Frames
                 PROVE  pmm'.bitmap[f].n = Count(pt', live', f) + ShmUsers(sg, f)
      BY <2>1 DEF Books
    <3>1. \A x \in live, p \in Real : Has(pt', x, p, f) <=> Has(pt, x, p, f)
      <4> SUFFICES ASSUME NEW x \in live, NEW p \in Real
                   PROVE  Has(pt', x, p, f) <=> Has(pt, x, p, f)
        OBVIOUS
      <4>1. CASE x = s
        BY <2>8, <2>9, <4>1, Given DEF Has
      <4>2. CASE x # s
        BY <1>1, <1>3, <2>9, <4>2 DEF Has
      <4> QED
        BY <4>1, <4>2
    <3>2. Count(pt', live, f) = Count(pt, live, f)
      BY <3>1, CountHas
    <3>3. InOf(pt', d, Real, f) = InOf(pt, s, Real, f)
      <4>1. {p \in Real : Has(pt', d, p, f)} = {p \in Real : Has(pt, s, p, f)}
        BY <2>8, <2>9, Given DEF Has
      <4> QED
        BY <4>1 DEF InOf
    <3>4. live' \ {d} = live /\ d \in live'
      BY <1>3, <2>1
    <3>5. /\ Count(pt', live', f) = Count(pt', live' \ {d}, f) + InOf(pt', d, Real, f)
          /\ InOf(pt', d, Real, f) \in Nat
      BY <2>10, <3>4, CountSplit
    <3>6. Count(pt', live', f) = Count(pt, live, f) + InOf(pt, s, Real, f)
      BY <3>2, <3>3, <3>4, <3>5, Zenon
    <3>7. /\ pmm.bitmap[f].n = Count(pt, live, f) + ShmUsers(sg, f)
          /\ pmm.bitmap[f].n \in Nat /\ ShmUsers(sg, f) \in Nat
      BY <1>1 DEF IInv, Books, Map, Byte, ShmUsers, Shms
    <3>8. Count(pt, live, f) \in Nat
      BY <1>1, CountType
    <3> QED
      BY <2>6, <3>3, <3>5, <3>6, <3>7, <3>8
  <2>14. EntryInv'
    <3> SUFFICES ASSUME NEW x \in Spaces, NEW p \in Kinds
                 PROVE  /\ pt'[x][p].st = "present" => pt'[x][p].frame \in Frames
                        /\ pt'[x][p].st = "lazy" => p = "heritage"
      BY DEF EntryInv
    <3>1. CASE x \in {s, d}
      BY <2>8, <2>9, <3>1 DEF IInv, EntryInv
    <3>2. CASE x \notin {s, d}
      BY <2>9, <3>2 DEF IInv, EntryInv
    <3> QED
      BY <3>1, <3>2
  <2>15. GrownInv'
    <3> SUFFICES ASSUME NEW x \in grown'
                 PROVE  "heap" \in Kinds /\ pt'[x]["heap"].st = "present"
      BY DEF GrownInv
    <3>1. CASE x \in {s, d}
      <4>1. s \in grown
        BY <1>1, <1>3, <2>1, <3>1
      <4> QED
        BY <2>8, <2>9, <3>1, <4>1 DEF IInv, GrownInv
    <3>2. CASE x \notin {s, d}
      <4>1. x \in grown /\ x \in Spaces
        BY <1>1, <2>1, <3>2
      <4> QED
        BY <2>9, <3>2, <4>1 DEF IInv, GrownInv
    <3> QED
      BY <3>1, <3>2
  <2>16. ShmInv'
    <3>1. ASSUME NEW x \in Spaces, "map" \in Kinds PROVE pt'[x]["map"].st # "present"
      <4>1. pt[x]["map"].st # "present" /\ pt[s]["map"].st # "present"
        BY <1>1, <3>1, NoMap
      <4>2. CASE x \in {s, d}
        BY <2>8, <2>9, <3>1, <4>1, <4>2
      <4>3. CASE x \notin {s, d}
        BY <2>9, <4>1, <4>3
      <4> QED
        BY <4>2, <4>3
    <3> QED
      BY <2>1, <2>10, <3>1 DEF IInv, ShmInv
  <2> QED
    BY <1>1, <2>6, <2>12, <2>13, <2>14, <2>15, <2>16 DEF IInv, CowInv
<1> QED
  BY <1>5, <1>6

-----------------------------------------------------------------------------
(* Every step keeps the invariant.                                         *)
LEMMA NextIInv ==
    ASSUME IInv, Apart, [Next]_vars
    PROVE  IInv'
<1>1. CASE UNCHANGED vars
  BY <1>1, SameStep, Types DEF vars, IInv, GrownInv, Data
<1>2. CASE Next
  <2>1. CASE vmmc_create_shm
    BY <2>1, CreateIInv
  <2>2. CASE \E destroy \in BOOLEAN : vmmc_unmake_shm(destroy)
    BY <2>2, UnmakeIInv, Zenon
  <2>3. ASSUME NEW s \in Spaces, fork(s) PROVE IInv'
    BY <2>3, ForkIInv
  <2>4. ASSUME NEW s \in Spaces, exec(s) PROVE IInv'
    BY <2>4, ExecIInv
  <2>5. ASSUME NEW s \in Spaces, destroy_vmm_context(s) PROVE IInv'
    BY <2>5, DestroyIInv
  <2>6. ASSUME NEW s \in Spaces, context_sbrk_up(s) PROVE IInv'
    BY <2>6, SbrkUpIInv
  <2>7. ASSUME NEW s \in Spaces, context_sbrk_down(s) PROVE IInv'
    BY <2>7, SbrkDownIInv
  <2>8. ASSUME NEW s \in Spaces, vmmc_make_shm(s) PROVE IInv'
    BY <2>8, MakeIInv
  <2>9. ASSUME NEW s \in Spaces, NEW mode \in Opens, vmmc_open_shm(s, mode) PROVE IInv'
    BY <2>9, OpenIInv
  <2>10. ASSUME NEW s \in Spaces, NEW destroy \in BOOLEAN, vmmc_close_shm(s, destroy) PROVE IInv'
    BY <2>10, CloseIInv, Zenon
  <2>11. ASSUME NEW s \in Spaces, NEW p \in Kinds, vmmc_do_lazy_map(s, p) PROVE IInv'
    BY <2>11, LazyIInv
  <2>12. ASSUME NEW s \in Spaces, NEW p \in Kinds, vmmc_do_cow(s, p) PROVE IInv'
    BY <2>12, CowIInv
  <2>13. ASSUME NEW s \in Spaces, NEW p \in Kinds, NEW v \in Values, Store(s, p, v) PROVE IInv'
    BY <2>13, StoreIInv
  <2> QED
    BY <1>2, <2>1, <2>2, <2>3, <2>4, <2>5, <2>6, <2>7, <2>8, <2>9, <2>10, <2>11, <2>12, <2>13,
       Zenon DEF Next
<1> QED
  BY <1>1, <1>2

(* The invariant is CountsExact and LookIsLow in other words.              *)
LEMMA IInvFrames == IInv => FramesExact
<1> SUFFICES ASSUME IInv PROVE FramesExact
  OBVIOUS
<1>1. ASSUME NEW f \in Frames
      PROVE  pmm.bitmap[f].n =
                 Cardinality({sp \in live \X (Kinds \ {"map"}) :
                                Present(sp[1], sp[2]) /\ FrameOf(sp[1], sp[2]) = f})
                 + (IF sg.frame = f THEN sg.users + (IF sg.kept THEN 1 ELSE 0) ELSE 0)
  BY DEF IInv, Books, Count, Has, Real, ShmUsers, Present, FrameOf
<1> QED
  BY <1>1 DEF IInv, FramesExact, CountsExact, LookIsLow, Low

(* pmm_alloc, pmm_use and pmm_free are balanced over lazy mapping, copy on *)
(* write, fork, exec, the end of an address space, sbrk and shared memory: *)
(* the count of a frame is exactly the number of pages in it and users of  *)
(* the shared memory object, and no free frame is missed by the search.    *)
THEOREM FramesAreExact ==
    ASSUME Apart
    PROVE  Spec => []FramesExact
<1>1. Init => IInv
  BY InitIInv
<1>2. IInv /\ [Next]_vars => IInv'
  BY NextIInv
<1> QED
  BY <1>1, <1>2, IInvFrames, PTL DEF Spec
-----------------------------------------------------------------------------
(***************************************************************************)
(* Nobody sees what another one stores, while no memory is shared on       *)
(* purpose.  The argument: a step leaves a page in its frame with its      *)
(* contents (PageKept), or puts it in a frame that has then one user       *)
(* (PageNew); by Books, a frame with one user holds one page.              *)
(***************************************************************************)
PageKept(x, k) ==
    /\ x \in live /\ pt[x][k].st = "present" /\ pt'[x][k].frame = pt[x][k].frame
    /\ pt'[x][k].rw => pt[x][k].rw
    /\ wrote'[x][k] = wrote[x][k] /\ mem'[pt[x][k].frame] = mem[pt[x][k].frame]

PageNew(x, k) ==
    pmm'.bitmap[pt'[x][k].frame].n = 1 /\ mem'[pt'[x][k].frame] = wrote'[x][k]

Steady == \A x \in live', k \in Real : pt'[x][k].st = "present" => PageKept(x, k) \/ PageNew(x, k)

(* Two entries of q for one frame are the same one, if one can write.      *)
Alone(q, l) ==
    \A x, y \in l, k, j \in Real :
        /\ q[x][k].st = "present" /\ q[y][j].st = "present" /\ q[x][k].frame = q[y][j].frame
        /\ q[x][k].rw
        => x = y /\ k = j

(* The books without shared memory, before and after a step.               *)
LEMMA PlainBooks ==
    ASSUME IInv, Opens = {}
    PROVE  /\ \A f \in Frames : pmm.bitmap[f].n = Count(pt, live, f)
           /\ live \in SUBSET Spaces /\ pmm \in Map /\ sg = NoShm
           /\ \A x \in Spaces, k \in Kinds :
                 pt[x][k].st = "present" => pt[x][k].frame \in Frames /\ k \in Real
<1>1. live \in SUBSET Spaces /\ sg = NoShm /\ pmm \in Map
  BY Types DEF IInv, ShmInv
<1>2. ASSUME NEW f \in Frames PROVE pmm.bitmap[f].n = Count(pt, live, f)
  <2>1. pmm.bitmap[f].n = Count(pt, live, f) + ShmUsers(sg, f)
    BY DEF IInv, Books
  <2>2. ShmUsers(sg, f) = 0 /\ Count(pt, live, f) \in Nat
    BY <1>1, NoUsers, CountType
  <2> QED
    BY <2>1, <2>2
<1>3. ASSUME NEW x \in Spaces, NEW k \in Kinds, pt[x][k].st = "present"
      PROVE  pt[x][k].frame \in Frames /\ k \in Real
  <2>1. pt[x][k].frame \in Frames
    BY <1>3 DEF IInv, EntryInv
  <2>2. k # "map"
    BY <1>3, NoMap
  <2> QED
    BY <2>1, <2>2 DEF Real
<1> QED
  BY <1>1, <1>2, <1>3

(* The same after a step.                                                  *)
LEMMA PlainBooksNext ==
    ASSUME IInv', Opens = {}
    PROVE  /\ \A f \in Frames : pmm'.bitmap[f].n = Count(pt', live', f)
           /\ live' \in SUBSET Spaces /\ pmm' \in Map
           /\ \A x \in Spaces, k \in Kinds :
                 pt'[x][k].st = "present" => pt'[x][k].frame \in Frames /\ k \in Real
<1>1. live' \in SUBSET Spaces /\ sg' = NoShm /\ sg'.by = {} /\ pmm' \in Map
  BY DEF IInv, TypeOK, ShmInv, Map, Byte, NoShm
<1>2. ASSUME NEW f \in Frames PROVE pmm'.bitmap[f].n = Count(pt', live', f)
  <2>1. pmm'.bitmap[f].n = Count(pt', live', f) + ShmUsers(sg', f)
    BY DEF IInv, Books
  <2>2. ShmUsers(sg', f) = 0 /\ Count(pt', live', f) \in Nat
    BY <1>1, NoUsers, CountType
  <2> QED
    BY <2>1, <2>2
<1>3. ASSUME NEW x \in Spaces, NEW k \in Kinds, pt'[x][k].st = "present"
      PROVE  pt'[x][k].frame \in Frames /\ k \in Real
  <2>1. pt'[x][k].frame \in Frames
    BY <1>3 DEF IInv, EntryInv
  <2>2. k # "map"
    BY <1>1, <1>3 DEF IInv, ShmInv
  <2> QED
    BY <2>1, <2>2 DEF Real
<1> QED
  BY <1>1, <1>2, <1>3

(* A frame with one entry is counted once.                                 *)
LEMMA CountAlone ==
    ASSUME NEW q, NEW l \in SUBSET Spaces, NEW f, NEW s \in l, NEW p \in Real, Has(q, s, p, f),
           \A x \in l, k \in Real : Has(q, x, k, f) => x = s /\ k = p
    PROVE  Count(q, l, f) = 1
<1> DEFINE A == {sp \in l \X Real : Has(q, sp[1], sp[2], f)}
<1>1. A = {<<s, p>>}
  <2>1. ASSUME NEW sp \in A PROVE sp = <<s, p>>
    <3>1. sp = <<sp[1], sp[2]>> /\ sp[1] \in l /\ sp[2] \in Real /\ Has(q, sp[1], sp[2], f)
      OBVIOUS
    <3> QED
      BY <3>1
  <2>2. <<s, p>> \in A
    OBVIOUS
  <2> QED
    BY <2>1, <2>2
<1> QED
  BY <1>1, FS_Singleton DEF Count

(* Who can write is alone.                                                 *)
LEMMA PrivateAlone ==
    ASSUME IInv, Opens = {}, Private
    PROVE  Alone(pt, live)
<1> SUFFICES ASSUME NEW x \in live, NEW y \in live, NEW k \in Real, NEW j \in Real,
                    pt[x][k].st = "present", pt[y][j].st = "present",
                    pt[x][k].frame = pt[y][j].frame, pt[x][k].rw
             PROVE  x = y /\ k = j
  BY DEF Alone
<1>1. PICK f \in Frames : f = pt[x][k].frame /\ pmm.bitmap[f].n = Count(pt, live, f)
  BY PlainBooks, Given
<1>2. pmm.bitmap[f].n = 1
  BY <1>1, Given DEF Private, WritableIsPrivate, Present, FrameOf
<1>3. Has(pt, x, k, f) /\ Has(pt, y, j, f) /\ live \in SUBSET Spaces
  BY <1>1, PlainBooks DEF Has
<1>4. \A a \in live, i \in Real : Has(pt, a, i, f) => a = x /\ i = k
  <2>1. Count(pt, live, f) = 1
    BY <1>1, <1>2
  <2> QED
    BY <1>3, <2>1, CountMeans, Zenon
<1> QED
  BY <1>3, <1>4

(* Private follows from this and from the contents.                        *)
LEMMA AlonePrivate ==
    ASSUME IInv', Opens = {}, Alone(pt', live'),
           \A x \in live', k \in Real : pt'[x][k].st = "present" => mem'[pt'[x][k].frame] = wrote'[x][k]
    PROVE  Private'
<1>1. ASSUME NEW x \in live', NEW k \in Kinds, pt'[x][k].st = "present", pt'[x][k].rw
      PROVE  pmm'.bitmap[pt'[x][k].frame].n = 1
  <2>1. live' \in SUBSET Spaces /\ k \in Real
    BY <1>1, PlainBooksNext
  <2>2. PICK f \in Frames : f = pt'[x][k].frame /\ pmm'.bitmap[f].n = Count(pt', live', f)
    BY <1>1, <2>1, PlainBooksNext
  <2>3. Has(pt', x, k, f)
    BY <1>1, <2>2 DEF Has
  <2>4. \A y \in live', j \in Real : Has(pt', y, j, f) => y = x /\ j = k
    BY <1>1, <2>1, <2>2 DEF Alone, Has
  <2>5. Count(pt', live', f) = 1
    BY <2>1, <2>3, <2>4, CountAlone
  <2> QED
    BY <2>2, <2>5
<1>2. ASSUME NEW x \in live', NEW k \in Kinds, pt'[x][k].st = "present"
      PROVE  mem'[pt'[x][k].frame] = wrote'[x][k]
  BY <1>2, PlainBooksNext
<1> QED
  BY <1>1, <1>2 DEF Private, WritableIsPrivate, Isolation, Present, FrameOf

(* A step that leaves pages where they are, or makes them the only users.  *)
LEMMA PrivateStep ==
    ASSUME IInv, IInv', Opens = {}, Private, Steady
    PROVE  Private'
<1>1. Alone(pt, live) /\ live \in SUBSET Spaces /\ live' \in SUBSET Spaces
  BY PrivateAlone, PlainBooks, PlainBooksNext
<1>2. ASSUME NEW x \in live', NEW k \in Real, pt'[x][k].st = "present", PageNew(x, k),
             NEW y \in live', NEW j \in Real, pt'[y][j].st = "present",
             pt'[x][k].frame = pt'[y][j].frame
      PROVE  x = y /\ k = j
  <2>1. PICK f \in Frames : f = pt'[x][k].frame /\ pmm'.bitmap[f].n = Count(pt', live', f)
    BY <1>1, <1>2, PlainBooksNext, Given
  <2>2. pmm'.bitmap[f].n = 1 /\ Has(pt', x, k, f) /\ Has(pt', y, j, f)
    BY <1>2, <2>1 DEF PageNew, Has
  <2>3. \A a \in live', i \in Real : Has(pt', a, i, f) => a = x /\ i = k
    <3>1. Count(pt', live', f) = 1
      BY <2>1, <2>2
    <3> QED
      BY <1>1, <2>2, <3>1, CountMeans, Zenon
  <2> QED
    BY <2>2, <2>3
<1>3. Alone(pt', live')
  <2> SUFFICES ASSUME NEW x \in live', NEW y \in live', NEW k \in Real, NEW j \in Real,
                      pt'[x][k].st = "present", pt'[y][j].st = "present",
                      pt'[x][k].frame = pt'[y][j].frame, pt'[x][k].rw
               PROVE  x = y /\ k = j
    BY DEF Alone
  <2>1. CASE PageNew(x, k)
    BY <1>2, <2>1
  <2>2. CASE PageNew(y, j)
    BY <1>2, <2>2
  <2>3. CASE PageKept(x, k) /\ PageKept(y, j)
    <3>1. /\ x \in live /\ y \in live /\ pt[x][k].st = "present" /\ pt[y][j].st = "present"
          /\ pt[x][k].frame = pt[y][j].frame /\ pt[x][k].rw
      BY <2>3 DEF PageKept
    <3> QED
      BY <1>1, <3>1 DEF Alone
  <2> QED
    BY <2>1, <2>2, <2>3 DEF Steady
<1>4. ASSUME NEW x \in live', NEW k \in Real, pt'[x][k].st = "present"
      PROVE  mem'[pt'[x][k].frame] = wrote'[x][k]
  <2>1. CASE PageNew(x, k)
    BY <2>1 DEF PageNew
  <2>2. CASE PageKept(x, k)
    <3>1. mem[pt[x][k].frame] = wrote[x][k]
      BY <2>2, Given DEF PageKept, Private, Isolation, Present, FrameOf
    <3> QED
      BY <2>2, <3>1 DEF PageKept
  <2> QED
    BY <1>4, <2>1, <2>2 DEF Steady
<1> QED
  BY <1>3, <1>4, AlonePrivate

(* After a step, too, the frame of a page has a user.                      *)
LEMMA CountedNext ==
    ASSUME IInv', Opens = {}, NEW x \in live', NEW k \in Real, pt'[x][k].st = "present"
    PROVE  pt'[x][k].frame \in Frames /\ pmm'.bitmap[pt'[x][k].frame].n # 0
<1>1. PICK f \in Frames : f = pt'[x][k].frame /\ pmm'.bitmap[f].n = Count(pt', live', f)
  BY PlainBooksNext, Given
<1>2. Has(pt', x, k, f) /\ live' \in SUBSET Spaces
  BY <1>1, PlainBooksNext DEF Has
<1>3. Count(pt', live', f) \in Nat /\ Count(pt', live', f) > 0
  BY <1>2, CountMeans
<1> QED
  BY <1>1, <1>3

(* Where pages and contents stay, so does this.                            *)
LEMMA SamePrivate ==
    ASSUME Private, UNCHANGED <<pmm, pt, live, mem, wrote>>
    PROVE  Private'
BY DEF Private, WritableIsPrivate, Isolation, Present, FrameOf

(* vmmc_do_lazy_map: the frame was nobody's.                               *)
LEMMA LazyPrivate ==
    ASSUME IInv, IInv', Opens = {}, Private, NEW s \in Spaces, NEW p \in Kinds,
           vmmc_do_lazy_map(s, p)
    PROVE  Private'
<1>0. CASE Candidates(pmm) = {}
  BY <1>0, SamePrivate DEF vmmc_do_lazy_map, Halt
<1> SUFFICES ASSUME Candidates(pmm) # {} PROVE Private'
  BY <1>0
<1>1. PICK f : f = Min(Candidates(pmm))
  OBVIOUS
<1>2. /\ s \in live /\ pmm' = pmm_alloc(pmm) /\ pt' = [pt EXCEPT ![s][p] = Pte(f, TRUE)]
      /\ mem' = IF p = "heritage" THEN [mem EXCEPT ![f] = 0] ELSE mem
      /\ wrote' = [wrote EXCEPT ![s][p] = mem'[f]] /\ UNCHANGED <<live, grown, sg, panic>>
  BY <1>1 DEF vmmc_do_lazy_map
<1>3. pmm \in Map /\ pt \in Tables /\ live \in SUBSET Spaces /\ Data /\ Low(pmm)
  BY Types DEF IInv
<1>4. f \in Frames /\ pmm.bitmap[f].n = 0 /\ pmm'.bitmap[f].n = 1
  BY <1>1, <1>2, <1>3, Alloc
<1>5. /\ Pte(f, TRUE) \in Entry /\ Pte(f, TRUE).frame = f
      /\ Sets(pt, pt', s, p, Pte(f, TRUE))
  BY <1>2, <1>3, <1>4, Entries, SetEntry
<1>6. \A g \in Frames \ {f} : mem'[g] = mem[g]
  BY <1>2, <1>3 DEF Data
<1>7. Steady
  <2> SUFFICES ASSUME NEW x \in live', NEW k \in Real, pt'[x][k].st = "present"
               PROVE  PageKept(x, k) \/ PageNew(x, k)
    BY DEF Steady
  <2>1. CASE x = s /\ k = p
    <3>1. pt'[s][p].frame = f
      BY <1>5 DEF Sets
    <3>2. wrote'[s][p] = mem'[f]
      BY <1>2, <1>3 DEF Data
    <3> QED
      BY <1>4, <2>1, <3>1, <3>2 DEF PageNew
  <2>2. CASE ~(x = s /\ k = p)
    <3>1. x \in live /\ pt'[x][k] = pt[x][k] /\ k \in Kinds
      BY <1>2, <1>3, <1>5, <2>2, Given DEF Sets
    <3>2. pt[x][k].frame \in Frames /\ pt[x][k].frame # f
      BY <1>4, <3>1, PageIsCounted
    <3>3. wrote'[x][k] = wrote[x][k]
      BY <1>2, <1>3, <2>2, <3>1 DEF Data
    <3> QED
      BY <1>6, <3>1, <3>2, <3>3 DEF PageKept
  <2> QED
    BY <2>1, <2>2
<1> QED
  BY <1>7, PrivateStep

(* vmmc_do_cow: the only user keeps the frame, another one gets a copy.    *)
LEMMA CowPrivate ==
    ASSUME IInv, IInv', Opens = {}, Private, NEW s \in Spaces, NEW p \in Kinds,
           vmmc_do_cow(s, p)
    PROVE  Private'
<1>1. /\ s \in live /\ pt[s][p].st = "present" /\ p \in Real
      /\ pmm \in Map /\ pt \in Tables /\ live \in SUBSET Spaces /\ Data /\ Low(pmm)
  BY Types, PlainBooks DEF vmmc_do_cow, Present, IInv
<1>2. PICK old \in Frames : old = FrameOf(s, p) /\ pmm.bitmap[old].n > 0 /\ pmm.bitmap[old].n \in Nat
  BY <1>1, PageIsCounted DEF FrameOf
<1>3. mem[old] = wrote[s][p]
  BY <1>1, <1>2 DEF Private, Isolation, Present
<1>4. CASE LastUser(old)
  <2> DEFINE e == [pt[s][p] EXCEPT !.rw = TRUE]
  <2>1. /\ pt' = [pt EXCEPT ![s][p] = e] /\ pmm' = Unmarked(pmm, old)
        /\ UNCHANGED <<live, mem, wrote>>
    BY <1>1, <1>2, <1>4 DEF vmmc_do_cow, Tables, Unmarked
  <2>2. e \in Entry /\ e.frame = old
    <3>1. pt[s][p] \in Entry
      BY <1>1 DEF Tables
    <3> QED
      BY <1>2, <3>1 DEF Entry, FrameOf
  <2> HIDE DEF e
  <2>3. Sets(pt, pt', s, p, e)
    BY <1>1, <2>1, <2>2, SetEntry
  <2>4. pmm'.bitmap[old].n = 1
    <3>1. MarkFacts(pmm, pmm', {old}, FALSE)
      BY <1>1, <1>2, <2>1, Unmark
    <3> QED
      BY <1>4, <3>1 DEF MarkFacts, LastUser
  <2>5. Steady
    <3> SUFFICES ASSUME NEW x \in live', NEW k \in Real, pt'[x][k].st = "present"
                 PROVE  PageKept(x, k) \/ PageNew(x, k)
      BY DEF Steady
    <3>1. CASE x = s /\ k = p
      BY <1>3, <2>1, <2>2, <2>3, <2>4, <3>1 DEF PageNew, Sets
    <3>2. CASE ~(x = s /\ k = p)
      BY <1>1, <2>1, <2>3, <3>2, Given DEF PageKept, Sets
    <3> QED
      BY <3>1, <3>2
  <2> QED
    BY <2>5, PrivateStep
<1>5. CASE ~LastUser(old) /\ Candidates(pmm) = {}
  BY <1>2, <1>5, SamePrivate DEF vmmc_do_cow, Halt
<1>6. CASE ~LastUser(old) /\ Candidates(pmm) # {}
  <2>1. PICK new : new = Min(Candidates(pmm))
    OBVIOUS
  <2>2. /\ pt' = [pt EXCEPT ![s][p] = Pte(new, TRUE)] /\ mem' = [mem EXCEPT ![new] = mem[old]]
        /\ pmm' = pmm_free(pmm_alloc(pmm), One(old))
        /\ UNCHANGED <<live, grown, sg, panic, wrote>>
    BY <1>2, <1>6, <2>1 DEF vmmc_do_cow
  <2>3. new \in Frames /\ pmm.bitmap[new].n = 0 /\ new # old
    BY <1>1, <1>2, <1>6, <2>1, Alloc
  <2>4. /\ Pte(new, TRUE) \in Entry /\ Pte(new, TRUE).frame = new /\ Pte(new, TRUE).st = "present"
        /\ Sets(pt, pt', s, p, Pte(new, TRUE))
    BY <1>1, <2>2, <2>3, Entries, SetEntry
  <2>5. pmm'.bitmap[new].n = 1
    <3>1. \A x \in live, k \in Real : Has(pt', x, k, new) => x = s /\ k = p
      <4> SUFFICES ASSUME NEW x \in live, NEW k \in Real, Has(pt', x, k, new), ~(x = s /\ k = p)
                   PROVE  FALSE
        OBVIOUS
      <4>1. pt'[x][k] = pt[x][k]
        BY <1>1, <2>4, Given DEF Sets
      <4>2. pt[x][k].st = "present" /\ pt[x][k].frame = new
        BY <4>1 DEF Has
      <4> QED
        BY <2>3, <4>2, PageIsCounted
    <3>2. Has(pt', s, p, new)
      BY <2>4 DEF Has, Sets
    <3>3. Count(pt', live, new) = 1
      BY <1>1, <3>1, <3>2, CountAlone
    <3> QED
      BY <2>2, <2>3, <3>3, PlainBooksNext
  <2>6. Steady
    <3> SUFFICES ASSUME NEW x \in live', NEW k \in Real, pt'[x][k].st = "present"
                 PROVE  PageKept(x, k) \/ PageNew(x, k)
      BY DEF Steady
    <3>1. CASE x = s /\ k = p
      <4>1. pt'[s][p].frame = new
        BY <2>4 DEF Sets
      <4>2. mem'[new] = wrote'[s][p]
        BY <1>1, <1>3, <2>2, <2>3 DEF Data
      <4> QED
        BY <2>5, <3>1, <4>1, <4>2 DEF PageNew
    <3>2. CASE ~(x = s /\ k = p)
      <4>1. x \in live /\ pt'[x][k] = pt[x][k] /\ k \in Kinds
        BY <1>1, <2>2, <2>4, <3>2, Given DEF Sets
      <4>2. pt[x][k].frame \in Frames /\ pt[x][k].frame # new
        BY <2>3, <4>1, PageIsCounted
      <4>3. mem'[pt[x][k].frame] = mem[pt[x][k].frame]
        BY <1>1, <2>2, <4>2 DEF Data
      <4> QED
        BY <2>2, <4>1, <4>3 DEF PageKept
    <3> QED
      BY <3>1, <3>2
  <2> QED
    BY <2>6, PrivateStep
<1> QED
  BY <1>4, <1>5, <1>6

(* Store: who can write is alone in the frame.                             *)
LEMMA StorePrivate ==
    ASSUME IInv, IInv', Opens = {}, Private, NEW s \in Spaces, NEW p \in Kinds,
           NEW v \in Values, Store(s, p, v)
    PROVE  Private'
<1>1. /\ s \in live /\ pt[s][p].st = "present" /\ p \in Real /\ pt[s][p].rw
      /\ mem' = [mem EXCEPT ![FrameOf(s, p)] = v] /\ wrote' = [wrote EXCEPT ![s][p] = v]
      /\ live \in SUBSET Spaces /\ Data /\ UNCHANGED <<pmm, pt, live>>
  BY Types, PlainBooks DEF Store, Present
<1>2. PICK f \in Frames : f = pt[s][p].frame /\ mem' = [mem EXCEPT ![f] = v]
  BY <1>1, PlainBooks DEF FrameOf
<1>3. pmm'.bitmap[f].n = 1
  BY <1>1, <1>2 DEF Private, WritableIsPrivate, Present, FrameOf
<1>4. Alone(pt, live)
  BY PrivateAlone
<1>5. Steady
  <2> SUFFICES ASSUME NEW x \in live', NEW k \in Real, pt'[x][k].st = "present"
               PROVE  PageKept(x, k) \/ PageNew(x, k)
    BY DEF Steady
  <2>1. CASE x = s /\ k = p
    <3>1. mem'[f] = v /\ wrote'[s][p] = v
      BY <1>1, <1>2 DEF Data
    <3> QED
      BY <1>1, <1>2, <1>3, <2>1, <3>1 DEF PageNew
  <2>2. CASE ~(x = s /\ k = p)
    <3>1. x \in live /\ pt'[x][k] = pt[x][k] /\ k \in Kinds
      BY <1>1, Given
    <3>2. pt[x][k].frame \in Frames /\ pt[x][k].frame # f
      BY <1>1, <1>2, <1>4, <2>2, <3>1, PageIsCounted DEF Alone
    <3>3. mem'[pt[x][k].frame] = mem[pt[x][k].frame] /\ wrote'[x][k] = wrote[x][k]
      BY <1>1, <1>2, <2>2, <3>1, <3>2 DEF Data
    <3> QED
      BY <3>1, <3>3 DEF PageKept
  <2> QED
    BY <2>1, <2>2
<1> QED
  BY <1>5, PrivateStep

(* The pages of the other spaces keep their contents when frames without   *)
(* users are cleared.                                                      *)
LEMMA ContentsPrivate ==
    ASSUME IInv, IInv', Opens = {}, mem' = Contents(pmm', mem), NEW x \in live, x \in live',
           NEW k \in Real, pt'[x][k].st = "present", pt'[x][k] = pt[x][k],
           wrote'[x][k] = wrote[x][k]
    PROVE  PageKept(x, k)
<1>1. pt'[x][k].frame \in Frames /\ pmm'.bitmap[pt'[x][k].frame].n # 0
  BY CountedNext
<1>2. mem \in [Frames -> Values]
  BY Types DEF Data
<1>3. mem'[pt'[x][k].frame] = mem[pt'[x][k].frame]
  BY <1>1, <1>2, ContentsKept
<1> QED
  BY <1>3 DEF PageKept

(* destroy_vmm_context: the pages of the others stay.                      *)
LEMMA DestroyPrivate ==
    ASSUME IInv, IInv', Opens = {}, Private, NEW s \in Spaces, destroy_vmm_context(s)
    PROVE  Private'
<1>1. CASE ~FreeAsserts(pmm, Cleared(s, FALSE))
  BY <1>1, SamePrivate DEF destroy_vmm_context, Halt
<1>2. CASE FreeAsserts(pmm, Cleared(s, FALSE))
  <2>1. /\ pt' = [pt EXCEPT ![s] = [p \in Kinds |-> None]] /\ live' = live \ {s}
        /\ wrote' = [wrote EXCEPT ![s] = [p \in Kinds |-> 0]] /\ mem' = Contents(pmm', mem)
        /\ live \in SUBSET Spaces /\ pt \in Tables /\ Data
    BY <1>2, Types DEF destroy_vmm_context
  <2>2. Steady
    <3> SUFFICES ASSUME NEW x \in live', NEW k \in Real, pt'[x][k].st = "present"
                 PROVE  PageKept(x, k)
      BY DEF Steady
    <3>1. x \in live /\ x # s /\ k \in Kinds
      BY <2>1, Given
    <3>2. pt'[x][k] = pt[x][k] /\ wrote'[x][k] = wrote[x][k]
      BY <2>1, <3>1 DEF Tables, Data
    <3> QED
      BY <2>1, <3>1, <3>2, ContentsPrivate
  <2> QED
    BY <2>2, PrivateStep
<1> QED
  BY <1>1, <1>2

(* context_sbrk downwards: the other pages stay.                           *)
LEMMA SbrkDownPrivate ==
    ASSUME IInv, IInv', Apart, Opens = {}, Private, NEW s \in Spaces, context_sbrk_down(s)
    PROVE  Private'
<1>1. CASE ~FreeAsserts(pmm, One(FrameOf(s, "heap")))
  BY <1>1, SamePrivate DEF context_sbrk_down, Halt
<1>2. CASE FreeAsserts(pmm, One(FrameOf(s, "heap")))
  <2>1. /\ pt' = vmmc_user_unmap(s, "heap") /\ wrote' = [wrote EXCEPT ![s]["heap"] = 0]
        /\ mem' = Contents(pmm', mem) /\ UNCHANGED live /\ s \in grown
        /\ live \in SUBSET Spaces /\ pt \in Tables /\ Data
    BY <1>2, Types DEF context_sbrk_down
  <2>2. "heap" \in Kinds
    BY <2>1 DEF IInv, GrownInv
  <2>3. Sets(pt, pt', s, "heap", None)
    BY <2>1, <2>2, Unmap
  <2>4. Steady
    <3> SUFFICES ASSUME NEW x \in live', NEW k \in Real, pt'[x][k].st = "present"
                 PROVE  PageKept(x, k)
      BY DEF Steady
    <3>1. x \in live /\ k \in Kinds /\ ~(x = s /\ k = "heap")
      BY <2>1, <2>3, Given, Entries DEF Sets
    <3>2. pt'[x][k] = pt[x][k] /\ wrote'[x][k] = wrote[x][k]
      BY <2>1, <2>3, <3>1 DEF Sets, Data
    <3> QED
      BY <2>1, <3>1, <3>2, ContentsPrivate
  <2> QED
    BY <2>4, PrivateStep
<1> QED
  BY <1>1, <1>2

(* context_sbrk upwards: the frame was nobody's.                           *)
LEMMA SbrkUpPrivate ==
    ASSUME IInv, IInv', Opens = {}, Private, NEW s \in Spaces, context_sbrk_up(s)
    PROVE  Private'
<1>1. /\ s \in live /\ "heap" \in Kinds /\ "heap" \in Real /\ pmm \in Map /\ pt \in Tables
      /\ live \in SUBSET Spaces /\ Data /\ Low(pmm)
  BY Types DEF context_sbrk_up, IInv, Real
<1>2. CASE Present(s, "heap")
  BY <1>2, SamePrivate DEF context_sbrk_up
<1>3. CASE ~Present(s, "heap") /\ Candidates(pmm) = {}
  BY <1>3, SamePrivate DEF context_sbrk_up, Halt
<1>4. CASE ~Present(s, "heap") /\ Candidates(pmm) # {}
  <2>1. PICK f : f = Min(Candidates(pmm))
    OBVIOUS
  <2>2. /\ pmm' = pmm_alloc(pmm) /\ pt' = [pt EXCEPT ![s]["heap"] = Pte(f, TRUE)]
        /\ wrote' = [wrote EXCEPT ![s]["heap"] = mem[f]] /\ UNCHANGED <<live, mem>>
    BY <1>4, <2>1 DEF context_sbrk_up
  <2>3. f \in Frames /\ pmm.bitmap[f].n = 0 /\ pmm'.bitmap[f].n = 1
    BY <1>1, <1>4, <2>1, <2>2, Alloc
  <2>4. /\ Pte(f, TRUE) \in Entry /\ Pte(f, TRUE).frame = f
        /\ Sets(pt, pt', s, "heap", Pte(f, TRUE))
    BY <1>1, <2>2, <2>3, Entries, SetEntry
  <2>5. Steady
    <3> SUFFICES ASSUME NEW x \in live', NEW k \in Real, pt'[x][k].st = "present"
                 PROVE  PageKept(x, k) \/ PageNew(x, k)
      BY DEF Steady
    <3>1. CASE x = s /\ k = "heap"
      <4>1. pt'[s]["heap"].frame = f
        BY <2>4 DEF Sets
      <4>2. wrote'[s]["heap"] = mem'[f]
        BY <1>1, <2>2 DEF Data
      <4> QED
        BY <2>3, <3>1, <4>1, <4>2 DEF PageNew
    <3>2. CASE ~(x = s /\ k = "heap")
      <4>1. x \in live /\ pt'[x][k] = pt[x][k] /\ k \in Kinds
        BY <1>1, <2>2, <2>4, <3>2, Given DEF Sets
      <4>2. wrote'[x][k] = wrote[x][k]
        BY <1>1, <2>2, <3>2, <4>1 DEF Data
      <4> QED
        BY <2>2, <4>1, <4>2 DEF PageKept
    <3> QED
      BY <3>1, <3>2
  <2> QED
    BY <2>5, PrivateStep
<1> QED
  BY <1>2, <1>3, <1>4

(* What exec leaves, if it is not stopped: of its own pages the stack, the *)
(* only one in its frame, and the inherited one; those of the others.      *)
ExecDone(s) ==
    /\ sg' = [sg EXCEPT !.by = @ \ {s}] /\ live' = live /\ panic' = panic
    /\ mem' = Contents(pmm', mem)
    /\ \A k \in Real : pt'[s][k].st = "present" =>
          \/ pmm'.bitmap[pt'[s][k].frame].n = 1 /\ wrote'[s][k] = mem'[pt'[s][k].frame]
          \/ pt'[s][k] = pt[s][k] /\ wrote'[s][k] = wrote[s][k]
    /\ \A x \in Spaces \ {s} : pt'[x] = pt[x] /\ wrote'[x] = wrote[x]

(* exec is stopped or leaves this.                                         *)
LEMMA ExecOutcome ==
    ASSUME IInv, NEW s \in Spaces, exec(s)
    PROVE  Halt("free") \/ Halt("exhausted") \/ ExecDone(s)
<1>1. /\ s \in live /\ pmm \in Map /\ pt \in Tables /\ Data /\ Low(pmm)
      /\ live \in SUBSET Spaces
  BY Types DEF exec, IInv
<1>2. PICK drop : drop = Cleared(s, TRUE)
  OBVIOUS
<1>3. PICK pm : pm = pmm_free(pmm, drop)
  OBVIOUS
<1>4. PICK new : new = Min(Candidates(pm))
  OBVIOUS
<1>5. CASE ~FreeAsserts(pmm, drop)
  BY <1>2, <1>5 DEF exec
<1>6. CASE FreeAsserts(pmm, drop) /\ "stack" \in Kinds /\ Candidates(pm) = {}
  BY <1>2, <1>3, <1>6 DEF exec
<1>7. CASE FreeAsserts(pmm, drop) /\ ~("stack" \in Kinds /\ Candidates(pm) = {})
  <2>1. /\ pmm' = IF "stack" \in Kinds THEN pmm_alloc(pm) ELSE pm
        /\ pt' = [pt EXCEPT ![s] = [p \in Kinds |->
                    CASE p = "stack" -> Pte(new, TRUE) [] p = "heritage" -> pt[s][p]
                      [] OTHER -> None]]
        /\ mem' = Contents(pmm', mem)
        /\ wrote' = [wrote EXCEPT ![s] = [p \in Kinds |->
                       CASE p = "stack" -> mem'[new] [] p = "heritage" -> wrote[s][p]
                         [] OTHER -> 0]]
        /\ sg' = [sg EXCEPT !.by = @ \ {s}]
        /\ UNCHANGED <<live, panic>>
    BY <1>2, <1>3, <1>4, <1>7 DEF exec
  <2>2. drop \in [Frames -> Nat]
    <3>1. drop = [f \in Frames |-> InOf(pt, s, Kinds \ ({"map"} \cup {"heritage"}), f)]
      BY <1>2 DEF Cleared, In, InOf, Has, Present, FrameOf
    <3>2. \A f \in Frames : InOf(pt, s, Kinds \ ({"map"} \cup {"heritage"}), f) \in Nat
      BY Finite DEF InOf
    <3> QED
      BY <3>1, <3>2
  <2>3. "stack" \in Kinds => pmm'.bitmap[new].n = 1
    <3>1. pm \in Map /\ Low(pm)
      BY <1>1, <1>3, <1>7, <2>2, Free
    <3> QED
      BY <1>4, <1>7, <2>1, <3>1, Alloc
  <2>4. ASSUME NEW k \in Real, pt'[s][k].st = "present"
        PROVE  \/ pmm'.bitmap[pt'[s][k].frame].n = 1 /\ wrote'[s][k] = mem'[pt'[s][k].frame]
               \/ pt'[s][k] = pt[s][k] /\ wrote'[s][k] = wrote[s][k]
    <3>1. /\ k \in Kinds
          /\ pt'[s][k] = CASE k = "stack" -> Pte(new, TRUE) [] k = "heritage" -> pt[s][k]
                           [] OTHER -> None
          /\ wrote'[s][k] = CASE k = "stack" -> mem'[new] [] k = "heritage" -> wrote[s][k]
                              [] OTHER -> 0
      BY <1>1, <2>1, Given DEF Tables, Data
    <3>2. CASE k = "stack"
      <4>1. pt'[s][k].frame = new
        BY <3>1, <3>2 DEF Pte
      <4> QED
        BY <2>3, <3>1, <3>2, <4>1
    <3>3. CASE k = "heritage"
      BY <3>1, <3>3
    <3>4. CASE k \notin {"stack", "heritage"}
      <4>1. pt'[s][k] = None
        BY <3>1, <3>4
      <4> QED
        BY <2>4, <4>1, Entries
    <3> QED
      BY <3>2, <3>3, <3>4
  <2>5. \A x \in Spaces \ {s} : pt'[x] = pt[x] /\ wrote'[x] = wrote[x]
    BY <1>1, <2>1 DEF Tables, Data
  <2> QED
    BY <2>1, <2>4, <2>5 DEF ExecDone
<1> QED
  BY <1>5, <1>6, <1>7

(* exec: the new stack is in a frame that was nobody's; what is inherited  *)
(* stays.                                                                  *)
LEMMA ExecPrivate ==
    ASSUME IInv, IInv', Opens = {}, Private, NEW s \in Spaces, exec(s)
    PROVE  Private'
<1>1. CASE Halt("free") \/ Halt("exhausted")
  BY <1>1, SamePrivate DEF Halt
<1>2. CASE ExecDone(s)
  <2>1. live' = live /\ live \in SUBSET Spaces /\ mem' = Contents(pmm', mem)
    BY <1>2, Types DEF ExecDone
  <2>2. ASSUME NEW x \in live', NEW k \in Real, pt'[x][k].st = "present"
        PROVE  PageKept(x, k) \/ PageNew(x, k)
    <3>1. CASE pt'[x][k] = pt[x][k] /\ wrote'[x][k] = wrote[x][k]
      BY <2>1, <2>2, <3>1, ContentsPrivate
    <3>2. CASE pmm'.bitmap[pt'[x][k].frame].n = 1 /\ wrote'[x][k] = mem'[pt'[x][k].frame]
      BY <3>2 DEF PageNew
    <3> QED
      BY <1>2, <2>1, <2>2, <3>1, <3>2 DEF ExecDone
  <2> QED
    BY <2>2, PrivateStep DEF Steady
<1> QED
  BY <1>1, <1>2, ExecOutcome

(* fork: neither side can write what both have.                            *)
LEMMA ForkPrivate ==
    ASSUME IInv, IInv', Opens = {}, Private, NEW s \in Spaces, fork(s)
    PROVE  Private'
<1>1. /\ s \in live /\ pt \in Tables /\ Data /\ live \in SUBSET Spaces /\ Spaces \ live # {}
  BY Types DEF fork
<1>2. PICK d : d = Min(Spaces \ live)
  OBVIOUS
<1>3. d \in Spaces \ live
  <2>1. Spaces \ live \in SUBSET Nat
    BY Given
  <2> QED
    BY <1>1, <1>2, <2>1, MinIsLeast
<1>4. CASE ~UseAsserts(pmm, [f \in Frames |-> In(s, Kinds, f)])
  BY <1>4, SamePrivate DEF fork, Halt
<1>5. CASE UseAsserts(pmm, [f \in Frames |-> In(s, Kinds, f)])
  <2>1. PICK row : row = vmmc_clone(s)
    OBVIOUS
  <2>2. /\ pt' = [pt EXCEPT ![s] = row, ![d] = row] /\ live' = live \cup {d}
        /\ wrote' = [wrote EXCEPT ![d] = wrote[s]] /\ mem' = mem
    BY <1>2, <1>5, <2>1 DEF fork
  <2>3. ASSUME NEW p \in Kinds
        PROVE  /\ row[p].st = pt[s][p].st
               /\ row[p].st = "present" => row[p].frame = pt[s][p].frame /\ ~row[p].rw
    <3>1. row[p] = IF Present(s, p) THEN [st |-> "present", frame |-> FrameOf(s, p), rw |-> FALSE]
                   ELSE pt[s][p]
      BY <2>1 DEF vmmc_clone, Pte
    <3> QED
      BY <3>1 DEF Present, FrameOf
  <2>4. /\ pt'[s] = row /\ pt'[d] = row /\ s # d
        /\ \A x \in Spaces \ {s, d} : pt'[x] = pt[x] /\ wrote'[x] = wrote[x]
        /\ wrote'[s] = wrote[s] /\ wrote'[d] = wrote[s]
    BY <1>1, <1>3, <2>2 DEF Tables, Data
  <2>5. Alone(pt, live)
    BY PrivateAlone
  <2>6. ASSUME NEW x \in live', NEW k \in Real, pt'[x][k].st = "present"
        PROVE  \E o \in live : /\ pt[o][k].st = "present" /\ pt[o][k].frame = pt'[x][k].frame
                               /\ pt'[x][k].rw => x = o /\ x \notin {s, d} /\ pt[o][k].rw
                               /\ wrote'[x][k] = wrote[o][k] /\ (x \notin {s, d} => x = o)
    <3>1. CASE x \in {s, d}
      <4>1. pt'[x] = row /\ wrote'[x] = wrote[s]
        BY <2>4, <3>1
      <4>2. /\ pt[s][k].st = "present" /\ pt[s][k].frame = pt'[x][k].frame
            /\ ~pt'[x][k].rw /\ wrote'[x][k] = wrote[s][k]
        BY <2>3, <2>6, <4>1, Given
      <4> QED
        BY <1>1, <3>1, <4>2
    <3>2. CASE x \notin {s, d}
      <4>1. x \in live /\ pt'[x] = pt[x] /\ wrote'[x] = wrote[x]
        BY <1>1, <2>2, <2>4, <3>2
      <4> QED
        BY <2>6, <3>2, <4>1
    <3> QED
      BY <3>1, <3>2
  <2>7. Alone(pt', live')
    <3> SUFFICES ASSUME NEW x \in live', NEW y \in live', NEW k \in Real, NEW j \in Real,
                        pt'[x][k].st = "present", pt'[y][j].st = "present",
                        pt'[x][k].frame = pt'[y][j].frame, pt'[x][k].rw
                 PROVE  x = y /\ k = j
      BY DEF Alone
    <3>1. x \in live /\ x \notin {s, d} /\ pt[x][k].st = "present" /\ pt[x][k].rw
          /\ pt[x][k].frame = pt'[x][k].frame
      BY <2>6
    <3>2. PICK o \in live : /\ pt[o][j].st = "present" /\ pt[o][j].frame = pt'[y][j].frame
                            /\ y \notin {s, d} => y = o
                            /\ y \in {s, d} => o = s
      <4>1. CASE y \in {s, d}
        <5>1. pt[s][j].st = "present" /\ pt[s][j].frame = pt'[y][j].frame
          BY <2>3, <2>4, <4>1, Given
        <5> QED
          BY <1>1, <4>1, <5>1
      <4>2. CASE y \notin {s, d}
        BY <2>6, <4>2
      <4> QED
        BY <4>1, <4>2
    <3>3. x = o /\ k = j
      BY <2>5, <3>1, <3>2 DEF Alone
    <3> QED
      BY <3>1, <3>2, <3>3
  <2>8. \A x \in live', k \in Real : pt'[x][k].st = "present" => mem'[pt'[x][k].frame] = wrote'[x][k]
    <3> SUFFICES ASSUME NEW x \in live', NEW k \in Real, pt'[x][k].st = "present"
                 PROVE  mem'[pt'[x][k].frame] = wrote'[x][k]
      OBVIOUS
    <3>1. PICK o \in live : /\ pt[o][k].st = "present" /\ pt[o][k].frame = pt'[x][k].frame
                            /\ wrote'[x][k] = wrote[o][k]
      BY <2>6
    <3>2. mem[pt[o][k].frame] = wrote[o][k]
      BY <3>1, Given DEF Private, Isolation, Present, FrameOf
    <3> QED
      BY <2>2, <3>1, <3>2
  <2> QED
    BY <2>7, <2>8, AlonePrivate
<1> QED
  BY <1>4, <1>5

(* Every step keeps it.                                                    *)
LEMMA NextPrivate ==
    ASSUME IInv, IInv', Apart, Opens = {}, Private, [Next]_vars
    PROVE  Private'
<1>1. CASE UNCHANGED vars
  BY <1>1, SamePrivate DEF vars
<1>2. CASE Next
  <2>1. sg.st = "none" /\ sg.by = {}
    BY PlainBooks DEF NoShm
  <2>2. ASSUME NEW s \in Spaces, NEW p \in Kinds, vmmc_do_lazy_map(s, p) PROVE Private'
    BY <2>2, LazyPrivate
  <2>3. ASSUME NEW s \in Spaces, NEW p \in Kinds, vmmc_do_cow(s, p) PROVE Private'
    BY <2>3, CowPrivate
  <2>4. ASSUME NEW s \in Spaces, NEW p \in Kinds, NEW v \in Values, Store(s, p, v) PROVE Private'
    BY <2>4, StorePrivate
  <2>5. ASSUME NEW s \in Spaces, fork(s) PROVE Private'
    BY <2>5, ForkPrivate
  <2>6. ASSUME NEW s \in Spaces, exec(s) PROVE Private'
    BY <2>6, ExecPrivate
  <2>7. ASSUME NEW s \in Spaces, destroy_vmm_context(s) PROVE Private'
    BY <2>7, DestroyPrivate
  <2>8. ASSUME NEW s \in Spaces, context_sbrk_up(s) PROVE Private'
    BY <2>8, SbrkUpPrivate
  <2>9. ASSUME NEW s \in Spaces, context_sbrk_down(s) PROVE Private'
    BY <2>9, SbrkDownPrivate
  <2>10. ASSUME NEW s \in Spaces PROVE ~vmmc_make_shm(s)
    BY DEF vmmc_make_shm
  <2>11. ASSUME NEW s \in Spaces, NEW destroy \in BOOLEAN PROVE ~vmmc_close_shm(s, destroy)
    BY <2>1 DEF vmmc_close_shm
  <2>12. ~vmmc_create_shm
    BY DEF vmmc_create_shm
  <2>13. ASSUME NEW destroy \in BOOLEAN PROVE ~vmmc_unmake_shm(destroy)
    BY <2>1 DEF vmmc_unmake_shm
  <2> QED
    BY <1>2, <2>2, <2>3, <2>4, <2>5, <2>6, <2>7, <2>8, <2>9, <2>10, <2>11, <2>12, <2>13,
       Zenon DEF Next
<1> QED
  BY <1>1, <1>2

(* At boot every stack is in a frame of its own.                           *)
LEMMA InitPrivate ==
    ASSUME Init, Opens = {}
    PROVE  Private
<1>1. IInv
  BY InitIInv
<1>2. ASSUME NEW s \in live, NEW p \in Kinds, Present(s, p)
      PROVE  /\ p = "stack" /\ FrameOf(s, p) \in Frames /\ FrameOf(s, p) < NBoot
             /\ wrote[s][p] = 0
  <2>1. s \in 1 .. NBoot /\ s \in Spaces /\ NBoot \in Nat
    BY MemoryAssumption DEF Init, Spaces
  <2>2. pt[s][p] = IF p = "stack" THEN Pte(s - 1, TRUE) ELSE Fresh[p]
    BY <2>1 DEF Init
  <2>3. p = "stack"
    <3>1. Fresh[p] = Lazy \/ Fresh[p] = None
      BY DEF Fresh
    <3>2. pt[s][p].st = "present"
      BY <1>2 DEF Present
    <3> QED
      BY <2>2, <3>1, <3>2, Entries
  <2>4. FrameOf(s, p) = s - 1
    BY <2>2, <2>3 DEF FrameOf, Pte
  <2>5. FrameOf(s, p) \in Frames
    BY <1>1, <1>2, <2>1, PlainBooks DEF Present, FrameOf
  <2>6. wrote[s][p] = 0
    BY <2>1 DEF Init
  <2> QED
    BY <2>1, <2>3, <2>4, <2>5, <2>6
<1>3. WritableIsPrivate
  BY <1>2, Given DEF WritableIsPrivate, Init
<1>4. Isolation
  BY <1>2 DEF Isolation, Init
<1> QED
  BY <1>3, <1>4 DEF Private

(* Copy on write keeps processes apart, over fork, exec, the end of the    *)
(* others and frames used again: a page that can be written is the only    *)
(* one in its frame, and everyone reads what it, or an ancestor before the *)
(* fork, stored last.                                                      *)
THEOREM PagesArePrivate ==
    ASSUME Apart, Opens = {}
    PROVE  Spec => []Private
<1>1. Init => IInv /\ Private
  BY InitIInv, InitPrivate
<1>2. IInv /\ Private /\ [Next]_vars => IInv' /\ Private'
  BY NextIInv, NextPrivate
<1> QED
  BY <1>1, <1>2, PTL DEF Spec
-----------------------------------------------------------------------------
(***************************************************************************)
(* Shared memory without fork, when everyone closes what he has opened.    *)
(* Then no frame is in two pages (Sole), so that the count of the object's *)
(* frame stays in range: one page, that of the process that made the       *)
(* object, and the users, who are all known (ShmExact).                    *)
(***************************************************************************)
Sole ==
    \A x, y \in live, k, j \in Real :
        /\ pt[x][k].st = "present" /\ pt[y][j].st = "present" /\ pt[x][k].frame = pt[y][j].frame
        => x = y /\ k = j

ShmExact == Cardinality(sg.by) + Bit(sg.maker) = sg.users

SInv == Sole /\ ShmExact /\ UseAsserted

(* fork is left out, everyone closes, and there is a byte's room for all.  *)
Closing == ~Forking /\ Leavers = {} /\ "map" \in Kinds /\ NSpaces + 2 <= MaxUsers

(* A step that leaves pages in their frames, or in frames with one user.   *)
Moves ==
    \A x \in live', k \in Real : pt'[x][k].st = "present" =>
        \/ x \in live /\ pt[x][k].st = "present" /\ pt'[x][k].frame = pt[x][k].frame
        \/ pmm'.bitmap[pt'[x][k].frame].n = 1

(* A frame with one user is in one page at most.                           *)
LEMMA OneUser ==
    ASSUME IInv', NEW x \in live', NEW k \in Real, pt'[x][k].st = "present",
           pmm'.bitmap[pt'[x][k].frame].n = 1, NEW y \in live', NEW j \in Real,
           pt'[y][j].st = "present", pt'[x][k].frame = pt'[y][j].frame
    PROVE  x = y /\ k = j
<1>1. live' \in SUBSET Spaces /\ sg' \in Shms
  BY DEF IInv, TypeOK, Shms
<1>2. PICK f \in Frames : f = pt'[x][k].frame
  BY <1>1, Given DEF IInv, EntryInv
<1>3. Has(pt', x, k, f) /\ Has(pt', y, j, f)
  BY <1>2 DEF Has
<1>4. Count(pt', live', f) \in Nat /\ Count(pt', live', f) > 0
  BY <1>1, <1>3, CountMeans
<1>5. pmm'.bitmap[f].n = Count(pt', live', f) + ShmUsers(sg', f) /\ ShmUsers(sg', f) \in Nat
  BY <1>1 DEF IInv, Books, ShmUsers, Shms
<1>6. Count(pt', live', f) = 1
  BY <1>2, <1>4, <1>5
<1>7. \A a \in live', i \in Real : Has(pt', a, i, f) => a = x /\ i = k
  BY <1>1, <1>3, <1>6, CountMeans, Zenon
<1> QED
  BY <1>3, <1>7

(* A step that moves pages to frames without another user keeps Sole.      *)
LEMMA SoleStep ==
    ASSUME IInv', Sole, Moves
    PROVE  Sole'
<1> SUFFICES ASSUME NEW x \in live', NEW y \in live', NEW k \in Real, NEW j \in Real,
                    pt'[x][k].st = "present", pt'[y][j].st = "present",
                    pt'[x][k].frame = pt'[y][j].frame
             PROVE  x = y /\ k = j
  BY DEF Sole
<1>1. CASE pmm'.bitmap[pt'[x][k].frame].n = 1 \/ pmm'.bitmap[pt'[y][j].frame].n = 1
  BY <1>1, OneUser
<1>2. CASE ~(pmm'.bitmap[pt'[x][k].frame].n = 1 \/ pmm'.bitmap[pt'[y][j].frame].n = 1)
  <2>1. /\ x \in live /\ pt[x][k].st = "present" /\ pt'[x][k].frame = pt[x][k].frame
        /\ y \in live /\ pt[y][j].st = "present" /\ pt'[y][j].frame = pt[y][j].frame
    BY <1>2 DEF Moves
  <2>2. pt[x][k].frame = pt[y][j].frame
    BY <2>1
  <2> QED
    BY <2>1, <2>2 DEF Sole
<1> QED
  BY <1>1, <1>2

(* A frame is in one page at most.                                         *)
LEMMA SoleCount ==
    ASSUME IInv, Sole, NEW f \in Frames
    PROVE  Count(pt, live, f) \in {0, 1}
<1>1. live \in SUBSET Spaces
  BY Types
<1>2. CASE \E x \in live, k \in Real : Has(pt, x, k, f)
  <2>1. PICK x \in live, k \in Real : Has(pt, x, k, f)
    BY <1>2
  <2>2. \A y \in live, j \in Real : Has(pt, y, j, f) => y = x /\ j = k
    BY <2>1 DEF Has, Sole
  <2>3. Count(pt, live, f) = 1
    BY <1>1, <2>1, <2>2, CountAlone
  <2> QED
    BY <2>3
<1>3. CASE ~(\E x \in live, k \in Real : Has(pt, x, k, f))
  BY <1>3, CountNone
<1> QED
  BY <1>2, <1>3

(* A step that leaves the pages and the users of the object.               *)
LEMMA SameSInv ==
    ASSUME SInv, UNCHANGED <<pt, live, sg>>, panic' # "use"
    PROVE  SInv'
BY DEF SInv, Sole, ShmExact, UseAsserted

(* A step that changes the users of the object and the mapping area only.  *)
LEMMA UsersSInv ==
    ASSUME IInv, SInv, \A x \in Spaces, k \in Real : pt'[x][k] = pt[x][k], UNCHANGED <<live, panic>>,
           ShmExact'
    PROVE  SInv'
<1>1. live \in SUBSET Spaces
  BY Types
<1> QED
  BY <1>1 DEF SInv, Sole, UseAsserted

(* A step that moves pages.                                                *)
LEMMA MovesSInv ==
    ASSUME IInv', SInv, Moves, UNCHANGED panic, ShmExact'
    PROVE  SInv'
BY SoleStep DEF SInv, UseAsserted

(* vmmc_do_lazy_map: the frame was nobody's.                               *)
LEMMA LazySInv ==
    ASSUME IInv, IInv', SInv, NEW s \in Spaces, NEW p \in Kinds, vmmc_do_lazy_map(s, p)
    PROVE  SInv'
<1>1. CASE Candidates(pmm) = {}
  BY <1>1, SameSInv DEF vmmc_do_lazy_map, Halt
<1>2. CASE Candidates(pmm) # {}
  <2>1. PICK f : f = Min(Candidates(pmm))
    OBVIOUS
  <2>2. /\ pmm' = pmm_alloc(pmm) /\ pt' = [pt EXCEPT ![s][p] = Pte(f, TRUE)]
        /\ UNCHANGED <<live, sg, panic>>
    BY <1>2, <2>1 DEF vmmc_do_lazy_map
  <2>3. pmm \in Map /\ pt \in Tables /\ live \in SUBSET Spaces /\ Low(pmm)
    BY Types DEF IInv
  <2>4. f \in Frames /\ pmm'.bitmap[f].n = 1
    BY <1>2, <2>1, <2>2, <2>3, Alloc
  <2>5. /\ Pte(f, TRUE) \in Entry /\ Pte(f, TRUE).frame = f
        /\ Sets(pt, pt', s, p, Pte(f, TRUE))
    BY <2>2, <2>3, <2>4, Entries, SetEntry
  <2>6. Moves
    <3> SUFFICES ASSUME NEW x \in live, NEW k \in Real, pt'[x][k].st = "present"
                 PROVE  \/ pt[x][k].st = "present" /\ pt'[x][k].frame = pt[x][k].frame
                        \/ pmm'.bitmap[pt'[x][k].frame].n = 1
      BY <2>2 DEF Moves
    <3>1. CASE x = s /\ k = p
      BY <2>4, <2>5, <3>1 DEF Sets
    <3>2. CASE ~(x = s /\ k = p)
      <4>1. pt'[x][k] = pt[x][k]
        BY <2>3, <2>5, <3>2, Given DEF Sets
      <4> QED
        BY <4>1
    <3> QED
      BY <3>1, <3>2
  <2>7. ShmExact'
    BY <2>2 DEF SInv, ShmExact
  <2> QED
    BY <2>2, <2>6, <2>7, MovesSInv
<1> QED
  BY <1>1, <1>2

(* Without fork there are no faults on marked pages.                       *)
LEMMA NoCow ==
    ASSUME IInv, ~Forking, NEW s \in Spaces, NEW p \in Kinds
    PROVE  ~vmmc_do_cow(s, p)
BY DEF IInv, CowInv, EntryInv, vmmc_do_cow, Present, FrameOf

(* context_sbrk upwards: the frame was nobody's.                           *)
LEMMA SbrkUpSInv ==
    ASSUME IInv, IInv', SInv, NEW s \in Spaces, context_sbrk_up(s)
    PROVE  SInv'
<1>1. CASE Present(s, "heap")
  <2>1. UNCHANGED <<pt, live, sg, panic>>
    BY <1>1 DEF context_sbrk_up
  <2> QED
    BY <2>1, SameSInv DEF SInv, UseAsserted
<1>2. CASE ~Present(s, "heap") /\ Candidates(pmm) = {}
  BY <1>2, SameSInv DEF context_sbrk_up, Halt
<1>3. CASE ~Present(s, "heap") /\ Candidates(pmm) # {}
  <2>1. PICK f : f = Min(Candidates(pmm))
    OBVIOUS
  <2>2. /\ pmm' = pmm_alloc(pmm) /\ pt' = [pt EXCEPT ![s]["heap"] = Pte(f, TRUE)]
        /\ UNCHANGED <<live, sg, panic>> /\ "heap" \in Kinds
    BY <1>3, <2>1 DEF context_sbrk_up
  <2>3. pmm \in Map /\ pt \in Tables /\ live \in SUBSET Spaces /\ Low(pmm)
    BY Types DEF IInv
  <2>4. f \in Frames /\ pmm'.bitmap[f].n = 1
    BY <1>3, <2>1, <2>2, <2>3, Alloc
  <2>5. /\ Pte(f, TRUE) \in Entry /\ Pte(f, TRUE).frame = f
        /\ Sets(pt, pt', s, "heap", Pte(f, TRUE))
    BY <2>2, <2>3, <2>4, Entries, SetEntry
  <2>6. Moves
    <3> SUFFICES ASSUME NEW x \in live, NEW k \in Real, pt'[x][k].st = "present"
                 PROVE  \/ pt[x][k].st = "present" /\ pt'[x][k].frame = pt[x][k].frame
                        \/ pmm'.bitmap[pt'[x][k].frame].n = 1
      BY <2>2 DEF Moves
    <3>1. CASE x = s /\ k = "heap"
      BY <2>4, <2>5, <3>1 DEF Sets
    <3>2. CASE ~(x = s /\ k = "heap")
      <4>1. pt'[x][k] = pt[x][k]
        BY <2>3, <2>5, <3>2, Given DEF Sets
      <4> QED
        BY <4>1
    <3> QED
      BY <3>1, <3>2
  <2>7. ShmExact'
    BY <2>2 DEF SInv, ShmExact
  <2> QED
    BY <2>2, <2>6, <2>7, MovesSInv
<1> QED
  BY <1>1, <1>2, <1>3

(* context_sbrk downwards: one page less.                                  *)
LEMMA SbrkDownSInv ==
    ASSUME IInv, IInv', Apart, SInv, NEW s \in Spaces, context_sbrk_down(s)
    PROVE  SInv'
<1>1. CASE ~FreeAsserts(pmm, One(FrameOf(s, "heap")))
  BY <1>1, SameSInv DEF context_sbrk_down, Halt
<1>2. CASE FreeAsserts(pmm, One(FrameOf(s, "heap")))
  <2>1. /\ pt' = vmmc_user_unmap(s, "heap") /\ UNCHANGED <<live, sg, panic>> /\ s \in grown
        /\ live \in SUBSET Spaces /\ pt \in Tables
    BY <1>2, Types DEF context_sbrk_down
  <2>2. "heap" \in Kinds
    BY <2>1 DEF IInv, GrownInv
  <2>3. Sets(pt, pt', s, "heap", None)
    BY <2>1, <2>2, Unmap
  <2>4. Moves
    BY <2>1, <2>3, Given, Entries DEF Moves, Sets
  <2>5. ShmExact'
    BY <2>1 DEF SInv, ShmExact
  <2> QED
    BY <2>1, <2>4, <2>5, MovesSInv
<1> QED
  BY <1>1, <1>2

(* Who has closed what he had opened changes nothing when he leaves.       *)
LEMMA ClosedLeaves ==
    ASSUME IInv, SInv, "map" \in Kinds, NEW s \in Spaces, Closed(s), sg' = [sg EXCEPT !.by = @ \ {s}]
    PROVE  ShmExact'
<1>1. LeaveFacts(s)
  BY Leave
<1>2. s \notin sg.by
  BY DEF IInv, ShmInv, Closed, Present
<1>3. sg'.by = sg.by
  BY <1>1, <1>2 DEF LeaveFacts
<1>4. Bit(sg'.maker) = Bit(sg.maker) /\ sg'.users = sg.users
  BY <1>1 DEF LeaveFacts, Bit
<1> QED
  BY <1>3, <1>4 DEF SInv, ShmExact

(* exec: the new stack is in a frame that was nobody's.                    *)
LEMMA ExecSInv ==
    ASSUME IInv, IInv', Closing, SInv, NEW s \in Spaces, exec(s)
    PROVE  SInv'
<1>1. CASE Halt("free") \/ Halt("exhausted")
  BY <1>1, SameSInv DEF Halt
<1>2. CASE ExecDone(s)
  <2>1. /\ s \in live /\ Closed(s) /\ live \in SUBSET Spaces /\ UNCHANGED <<live, panic>>
        /\ sg' = [sg EXCEPT !.by = @ \ {s}] /\ "map" \in Kinds
    BY <1>2, Types DEF exec, Closing, ExecDone
  <2>2. ShmExact'
    BY <2>1, ClosedLeaves
  <2>3. Moves
    <3> SUFFICES ASSUME NEW x \in live, NEW k \in Real, pt'[x][k].st = "present"
                 PROVE  \/ pt[x][k].st = "present" /\ pt'[x][k].frame = pt[x][k].frame
                        \/ pmm'.bitmap[pt'[x][k].frame].n = 1
      BY <2>1 DEF Moves
    <3>1. CASE x = s
      BY <1>2, <3>1 DEF ExecDone
    <3>2. CASE x # s
      BY <1>2, <2>1, <3>2 DEF ExecDone
    <3> QED
      BY <3>1, <3>2
  <2> QED
    BY <2>1, <2>2, <2>3, MovesSInv
<1> QED
  BY <1>1, <1>2, ExecOutcome

(* destroy_vmm_context: its pages are gone.                                *)
LEMMA DestroySInv ==
    ASSUME IInv, IInv', Closing, SInv, NEW s \in Spaces, destroy_vmm_context(s)
    PROVE  SInv'
<1>1. CASE ~FreeAsserts(pmm, Cleared(s, FALSE))
  BY <1>1, SameSInv DEF destroy_vmm_context, Halt
<1>2. CASE FreeAsserts(pmm, Cleared(s, FALSE))
  <2>1. /\ pt' = [pt EXCEPT ![s] = [p \in Kinds |-> None]] /\ live' = live \ {s}
        /\ Closed(s) /\ live \in SUBSET Spaces /\ pt \in Tables /\ panic' = panic
        /\ sg' = [sg EXCEPT !.by = @ \ {s}] /\ "map" \in Kinds
    BY <1>2, Types DEF destroy_vmm_context, Closing
  <2>2. ShmExact'
    BY <2>1, ClosedLeaves
  <2>3. Moves
    BY <2>1 DEF Moves, Tables
  <2> QED
    BY <2>1, <2>2, <2>3, MovesSInv
<1> QED
  BY <1>1, <1>2

(* vmmc_make_shm: the heap page's frame had one user.                      *)
LEMMA MakeSInv ==
    ASSUME IInv, Closing, SInv, NEW s \in Spaces, vmmc_make_shm(s)
    PROVE  SInv'
<1>1. /\ sg = NoShm /\ s \in live /\ "heap" \in Real /\ pt[s]["heap"].st = "present"
      /\ NSpaces \in Nat /\ MaxUsers \in Nat /\ NSpaces >= 1 /\ MaxUsers >= 2
  BY Given, MemoryAssumption DEF vmmc_make_shm, IInv, ShmInv, Real, Present, Closing
<1>2. PICK f \in Frames : f = FrameOf(s, "heap") /\ pmm.bitmap[f].n > 0 /\ pmm.bitmap[f].n \in Nat
  BY <1>1, PageIsCounted DEF FrameOf
<1>3. pmm.bitmap[f].n = 1
  <2>1. Count(pt, live, f) \in {0, 1}
    BY SoleCount DEF SInv
  <2>2. pmm.bitmap[f].n = Count(pt, live, f) + ShmUsers(sg, f)
    BY DEF IInv, Books
  <2>3. ShmUsers(sg, f) = 0
    BY <1>1, NoUsers
  <2> QED
    BY <1>2, <2>1, <2>2, <2>3
<1>4. UseAsserts(pmm, One(f))
  <2> SUFFICES ASSUME NEW g \in Frames, One(f)[g] > 0
               PROVE  pmm.bitmap[g].n \in 1 .. MaxUsers - One(f)[g]
    BY DEF UseAsserts
  <2>1. g = f /\ One(f)[g] = 1
    BY OneFrame
  <2> QED
    BY <1>1, <1>3, <2>1
<1>5. /\ sg' = [st |-> "live", frame |-> f, users |-> 1, kept |-> FALSE, maker |-> TRUE, by |-> {}]
      /\ UNCHANGED <<pt, live, panic>>
  BY <1>2, <1>4 DEF vmmc_make_shm
<1>6. ShmExact'
  <2>1. Cardinality({}) = 0
    BY FS_EmptySet
  <2> QED
    BY <1>5, <2>1 DEF ShmExact, Bit
<1> QED
  BY <1>5, <1>6, UsersSInv

(* The object's frame has no more users than there are address spaces, and *)
(* the process that made it.                                               *)
LEMMA RoomForOne ==
    ASSUME IInv, Closing, SInv, NEW s \in Spaces \ sg.by, ~sg.kept, sg.users # 0
    PROVE  UseAsserts(pmm, One(sg.frame))
<1>1. /\ NSpaces \in Nat /\ MaxUsers \in Nat /\ NSpaces + 2 <= MaxUsers /\ sg \in Shms
      /\ sg.users \in Nat /\ sg.users > 0 /\ pmm \in Map
  BY Given, Types DEF Closing, Shms
<1>2. PICK f \in Frames : f = sg.frame
  BY <1>1 DEF IInv, ShmInv
<1>3. sg.users <= NSpaces
  <2>1. Cardinality(sg.by \cup {s}) = Cardinality(sg.by) + 1 /\ Cardinality(sg.by) \in Nat
        /\ Bit(sg.maker) \in {0, 1}
    BY Openers
  <2>2. Cardinality(sg.by \cup {s}) \in 0 .. NSpaces
    BY <1>1, Finite DEF Shms
  <2>3. Cardinality(sg.by) + Bit(sg.maker) = sg.users
    BY DEF SInv, ShmExact
  <2> QED
    BY <1>1, <2>1, <2>2, <2>3
<1>4. pmm.bitmap[f].n \in 1 .. MaxUsers - 1
  <2>1. Count(pt, live, f) \in {0, 1}
    BY SoleCount DEF SInv
  <2>2. pmm.bitmap[f].n = Count(pt, live, f) + ShmUsers(sg, f)
    BY DEF IInv, Books
  <2>3. ShmUsers(sg, f) = sg.users
    BY <1>1, <1>2 DEF ShmUsers
  <2> QED
    BY <1>1, <1>3, <2>1, <2>2, <2>3
<1> SUFFICES ASSUME NEW g \in Frames, One(f)[g] > 0
             PROVE  pmm.bitmap[g].n \in 1 .. MaxUsers - One(f)[g]
  BY <1>2 DEF UseAsserts
<1>5. g = f /\ One(f)[g] = 1
  BY OneFrame
<1> QED
  BY <1>4, <1>5

(* vmmc_open_shm: one user more.                                           *)
LEMMA OpenSInv ==
    ASSUME IInv, Closing, SInv, NEW s \in Spaces, NEW mode \in Opens, vmmc_open_shm(s, mode)
    PROVE  SInv'
<1>1. /\ "map" \in Kinds /\ pt[s]["map"].st = "none" /\ sg.st = "live" /\ pt \in Tables
      /\ sg \in Shms
  BY Types DEF vmmc_open_shm
<1>2. s \notin sg.by
  BY <1>1 DEF IInv, ShmInv
<1>3. ~(~sg.kept /\ sg.users # 0 /\ ~UseAsserts(pmm, One(sg.frame)))
  BY <1>2, RoomForOne
<1>4. CASE ~sg.kept /\ sg.users = 0 /\ Candidates(pmm) = {}
  BY <1>4, SameSInv DEF vmmc_open_shm, Halt
<1>5. CASE ~(~sg.kept /\ sg.users = 0 /\ Candidates(pmm) = {})
  <2>1. PICK f : f = IF sg.kept \/ sg.users # 0 THEN sg.frame ELSE Min(Candidates(pmm))
    OBVIOUS
  <2>2. /\ sg' = [sg EXCEPT !.frame = f, !.users = @ + 1, !.kept = FALSE, !.by = @ \cup {s}]
        /\ pt' = [pt EXCEPT ![s]["map"] = Pte(f, mode = "rw")] /\ UNCHANGED <<live, panic>>
    BY <1>3, <1>5, <2>1 DEF vmmc_open_shm
  <2>3. \A x \in Spaces, k \in Real : pt'[x][k] = pt[x][k]
    BY <1>1, <2>2 DEF Tables, Real
  <2>4. sg'.users = sg.users + 1 /\ sg'.by = sg.by \cup {s} /\ sg'.maker = sg.maker
    BY <1>1, <2>2 DEF Shms
  <2>5. ShmExact'
    <3>1. Cardinality(sg.by \cup {s}) = Cardinality(sg.by) + 1 /\ Cardinality(sg.by) \in Nat
      BY <1>2, Openers
    <3>2. Bit(sg'.maker) = Bit(sg.maker) /\ Bit(sg.maker) \in Nat
      BY <2>4 DEF Bit
    <3> QED
      BY <2>4, <3>1, <3>2 DEF SInv, ShmExact
  <2> QED
    BY <2>2, <2>3, <2>5, UsersSInv
<1> QED
  BY <1>4, <1>5

(* vmmc_close_shm: one user less.                                          *)
LEMMA CloseSInv ==
    ASSUME IInv, Apart, SInv, NEW s \in Spaces, NEW destroy \in BOOLEAN, vmmc_close_shm(s, destroy)
    PROVE  SInv'
<1>1. /\ s \in sg.by /\ "map" \in Kinds
      /\ \/ Halt("free")
         \/ /\ DropFacts(sg.by \ {s}, Bit(sg.maker)) /\ pt' = vmmc_user_unmap(s, "map")
            /\ UNCHANGED <<live, grown, panic, wrote>>
  BY CloseDone, Zenon
<1>2. CASE Halt("free")
  BY <1>2, SameSInv DEF Halt
<1>3. CASE /\ DropFacts(sg.by \ {s}, Bit(sg.maker)) /\ pt' = vmmc_user_unmap(s, "map")
           /\ UNCHANGED <<live, grown, panic, wrote>>
  <2>1. pt \in Tables
    BY Types
  <2>2. Sets(pt, pt', s, "map", None)
    BY <1>1, <1>3, <2>1, Unmap
  <2>3. \A x \in Spaces, k \in Real : pt'[x][k] = pt[x][k]
    BY <2>2, Given DEF Sets
  <2>4. ShmExact'
    <3>1. /\ Cardinality(sg.by \ {s}) = Cardinality(sg.by) - 1 /\ Cardinality(sg.by) \in Nat
          /\ sg.users \in Nat /\ Bit(sg.maker) \in {0, 1}
      BY <1>1, Openers
    <3> QED
      BY <1>3, <3>1 DEF DropFacts, SInv, ShmExact
  <2> QED
    BY <1>3, <2>3, <2>4, UsersSInv
<1> QED
  BY <1>1, <1>2, <1>3

(* vmmc_unmake_shm: the process that made it is a user less.               *)
LEMMA UnmakeSInv ==
    ASSUME IInv, SInv, NEW destroy \in BOOLEAN, vmmc_unmake_shm(destroy)
    PROVE  SInv'
<1>1. sg.maker /\ (Halt("free") \/ (DropFacts(sg.by, 0) /\ UNCHANGED <<pt, live, grown, panic, wrote>>))
  BY UnmakeDone, Zenon
<1>2. CASE Halt("free")
  BY <1>2, SameSInv DEF Halt
<1>3. CASE DropFacts(sg.by, 0) /\ UNCHANGED <<pt, live, grown, panic, wrote>>
  <2>1. ShmExact'
    <3>1. Cardinality(sg.by) \in Nat /\ sg.users \in Nat /\ Bit(sg.maker) = 1
      BY <1>1, Openers DEF Bit
    <3> QED
      BY <1>3, <3>1 DEF DropFacts, SInv, ShmExact
  <2> QED
    BY <1>3, <2>1, UsersSInv
<1> QED
  BY <1>1, <1>2, <1>3

(* Every step keeps it.                                                    *)
LEMMA NextSInv ==
    ASSUME IInv, IInv', Apart, Closing, SInv, [Next]_vars
    PROVE  SInv'
<1>1. CASE UNCHANGED vars
  BY <1>1, SameSInv DEF vars, SInv, UseAsserted
<1>2. CASE Next
  <2>1. ASSUME NEW s \in Spaces, NEW p \in Kinds, vmmc_do_lazy_map(s, p) PROVE SInv'
    BY <2>1, LazySInv
  <2>2. ASSUME NEW s \in Spaces, NEW p \in Kinds PROVE ~vmmc_do_cow(s, p)
    BY NoCow DEF Closing
  <2>3. ASSUME NEW s \in Spaces, NEW p \in Kinds, NEW v \in Values, Store(s, p, v) PROVE SInv'
    BY <2>3, SameSInv DEF Store, SInv, UseAsserted
  <2>4. ASSUME NEW s \in Spaces PROVE ~fork(s)
    BY DEF fork, Closing
  <2>5. ASSUME NEW s \in Spaces, exec(s) PROVE SInv'
    BY <2>5, ExecSInv
  <2>6. ASSUME NEW s \in Spaces, destroy_vmm_context(s) PROVE SInv'
    BY <2>6, DestroySInv
  <2>7. ASSUME NEW s \in Spaces, context_sbrk_up(s) PROVE SInv'
    BY <2>7, SbrkUpSInv
  <2>8. ASSUME NEW s \in Spaces, context_sbrk_down(s) PROVE SInv'
    BY <2>8, SbrkDownSInv
  <2>9. ASSUME NEW s \in Spaces, vmmc_make_shm(s) PROVE SInv'
    BY <2>9, MakeSInv
  <2>10. ASSUME NEW s \in Spaces, NEW mode \in Opens, vmmc_open_shm(s, mode) PROVE SInv'
    BY <2>10, OpenSInv
  <2>11. ASSUME NEW s \in Spaces, NEW destroy \in BOOLEAN, vmmc_close_shm(s, destroy) PROVE SInv'
    BY <2>11, CloseSInv, Zenon
  <2>12. ASSUME vmmc_create_shm PROVE SInv'
    <3>1. /\ sg' = [NoShm EXCEPT !.st = "live"] /\ UNCHANGED <<pt, live, panic>>
      BY <2>12 DEF vmmc_create_shm
    <3>2. sg'.by = {} /\ ~sg'.maker /\ sg'.users = 0
      BY <3>1 DEF NoShm
    <3>3. ShmExact'
      BY <3>2, FS_EmptySet DEF ShmExact, Bit
    <3> QED
      BY <3>1, <3>3, UsersSInv
  <2>13. ASSUME NEW destroy \in BOOLEAN, vmmc_unmake_shm(destroy) PROVE SInv'
    BY <2>13, UnmakeSInv, Zenon
  <2> QED
    BY <1>2, <2>1, <2>2, <2>3, <2>4, <2>5, <2>6, <2>7, <2>8, <2>9, <2>10, <2>11, <2>12, <2>13,
       Zenon DEF Next
<1> QED
  BY <1>1, <1>2

(* At boot every stack is in a frame of its own, and there is no object.   *)
LEMMA InitSInv == Init => SInv
<1> SUFFICES ASSUME Init PROVE SInv
  OBVIOUS
<1>1. ASSUME NEW s \in live, NEW p \in Real, pt[s][p].st = "present"
      PROVE  p = "stack" /\ s \in Nat /\ pt[s][p].frame = s - 1
  <2>1. s \in 1 .. NBoot /\ s \in Spaces /\ NBoot \in Nat /\ p \in Kinds
    BY MemoryAssumption, Given DEF Init, Spaces
  <2>2. pt[s][p] = IF p = "stack" THEN Pte(s - 1, TRUE) ELSE Fresh[p]
    BY <2>1 DEF Init
  <2>3. p = "stack"
    <3>1. Fresh[p] = Lazy \/ Fresh[p] = None
      BY <2>1 DEF Fresh
    <3> QED
      BY <1>1, <2>2, <3>1, Entries
  <2> QED
    BY <2>1, <2>2, <2>3 DEF Pte
<1>2. Sole
  <2> SUFFICES ASSUME NEW x \in live, NEW y \in live, NEW k \in Real, NEW j \in Real,
                      pt[x][k].st = "present", pt[y][j].st = "present",
                      pt[x][k].frame = pt[y][j].frame
               PROVE  x = y /\ k = j
    BY DEF Sole
  <2>1. x \in Nat /\ y \in Nat /\ x - 1 = y - 1 /\ k = "stack" /\ j = "stack"
    BY <1>1
  <2> QED
    BY <2>1
<1>3. ShmExact
  BY FS_EmptySet DEF Init, NoShm, ShmExact, Bit
<1> QED
  BY <1>2, <1>3 DEF SInv, UseAsserted, Init

(* What the users of the object can rely on, from the books.               *)
LEMMA IInvShared ==
    ASSUME IInv, SInv, "map" \in Kinds
    PROVE  SharedCorrect
<1>1. pmm \in Map /\ live \in SUBSET Spaces /\ sg \in Shms
  BY Types
<1>2. ASSUME sg.kept \/ sg.users > 0
      PROVE  sg.frame \in Frames /\ pmm.bitmap[sg.frame].n > 0 /\ pmm.bitmap[sg.frame].n >= sg.users
  <2>1. PICK f \in Frames : f = sg.frame
    BY <1>2 DEF IInv, ShmInv
  <2>2. pmm.bitmap[f].n = Count(pt, live, f) + ShmUsers(sg, f) /\ Count(pt, live, f) \in Nat
    BY <1>1, CountType DEF IInv, Books
  <2>3. ShmUsers(sg, f) = sg.users + (IF sg.kept THEN 1 ELSE 0) /\ sg.users \in Nat
    BY <1>1, <2>1 DEF ShmUsers, Shms
  <2> QED
    BY <1>2, <2>1, <2>2, <2>3
<1>3. ASSUME NEW s \in live, pt[s]["map"].st = "present"
      PROVE  /\ s \in sg.by /\ FrameOf(s, "map") = sg.frame
             /\ pmm.bitmap[sg.frame].n >= Cardinality(sg.by)
  <2>1. s \in sg.by /\ FrameOf(s, "map") = sg.frame
    BY <1>1, <1>3 DEF IInv, ShmInv, FrameOf
  <2>2. /\ sg.users > 0 /\ sg.users \in Nat /\ Cardinality(sg.by) \in Nat
        /\ Cardinality(sg.by) + Bit(sg.maker) <= sg.users /\ Bit(sg.maker) \in {0, 1}
    BY <2>1, Openers
  <2>3. pmm.bitmap[sg.frame].n >= sg.users /\ pmm.bitmap[sg.frame].n \in Nat
    BY <1>1, <1>2, <2>2 DEF Map, Byte
  <2> QED
    BY <2>1, <2>2, <2>3
<1>4. Cardinality(sg.by) + (IF sg.maker THEN 1 ELSE 0) = sg.users
  BY DEF SInv, ShmExact, Bit
<1>5. MappingsCounted
  BY <1>2, <1>3, <1>4 DEF MappingsCounted
<1> QED
  BY <1>5 DEF SharedCorrect, SInv

(* Shared memory lasts for as long as somebody uses it, if nobody forks    *)
(* and everyone closes what he has opened: whoever has the object mapped,  *)
(* and the process that made it, is counted among its users, its frame is  *)
(* not given to anyone else, and the counts stay in the range that pmm_use *)
(* asserts.                                                                *)
THEOREM SharedIsCounted ==
    ASSUME Apart, Closing
    PROVE  Spec => []SharedCorrect
<1>1. Init => IInv /\ SInv
  BY InitIInv, InitSInv
<1>2. IInv /\ SInv /\ [Next]_vars => IInv' /\ SInv'
  BY NextIInv, NextSInv
<1>3. IInv /\ SInv => SharedCorrect
  BY IInvShared DEF Closing
<1> QED
  BY <1>1, <1>2, <1>3, PTL DEF Spec

-----------------------------------------------------------------------------
(***************************************************************************)
(* The window of the kernel.                                               *)
(***************************************************************************)
CONSTANTS Threads, Slots, Lengths                    \* of KernelMap
VARIABLES kpt, kpt_lock, call, at, overlaid

K == INSTANCE KernelMap WITH Entries <- Slots

-----------------------------------------------------------------------------
(* Nobody is not a thread, and lengths are positive.                       *)
Window ==
    /\ K!Nobody \notin Threads
    /\ Slots \in Nat /\ Lengths \subseteq Nat \ {0}

Call == [pc : {"idle", "look", "swap", "take", "test", "fill"}, nc : BOOLEAN, n : Nat, i : Nat]

WindowType ==
    /\ kpt \in [0 .. Slots - 1 -> (Threads \cup {K!Nobody}) \X Nat]
    /\ call \in [Threads -> Call]
    /\ at \in [Threads -> Nat \cup {K!None}]

(* Who is between Take and the end of Fill has the lock; whoever has found *)
(* entries keeps them; a mapping is not given up by mapping again.         *)
LockInv ==
    \A t \in Threads :
        /\ call[t].pc \in {"test", "fill"} => kpt_lock = t
        /\ call[t].pc = "swap" => call[t].n = 1
        /\ call[t].pc = "swap" => call[t].i < Slots
        /\ call[t].pc # "idle" => at[t] = K!None
        /\ call[t].pc = "fill" =>
              \A e \in call[t].i .. call[t].i + call[t].n - 1 : e < Slots => kpt[e] = K!MAP_NP

(* All this as long as no frame has been swapped into entries that another *)
(* thread had found and not yet filled.                                    *)
WindowInv == WindowType /\ LockInv /\ K!Shown /\ K!NothingLeft

(* FreeFrom counts the free entries: if the one behind them is free, then  *)
(* there are as many as were asked for.                                    *)
LEMMA FreeFromFacts ==
    ASSUME Window, WindowType, NEW t \in Threads, NEW j, j = K!FreeFrom(call[t])
    PROVE  /\ j \in Nat /\ j <= call[t].n
           /\ \A k \in 0 .. j - 1 : K!EntryAt(call[t].i + k) = K!MAP_NP
           /\ j = call[t].n \/ K!EntryAt(call[t].i + j) # K!MAP_NP
<1> DEFINE n == call[t].n
           IsFree(k) == K!EntryAt(call[t].i + k) = K!MAP_NP
           S == {k \in 0 .. n : k = n \/ ~IsFree(k)}
           Fits(k) == (\A l \in 0 .. k - 1 : IsFree(l)) /\ (k = n \/ ~IsFree(k))
<1>1. n \in Nat
  BY DEF WindowType, Call
<1>2. n \in S /\ S \in SUBSET Nat
  BY <1>1
<1>3. Min(S) \in S /\ \A k \in S : Min(S) <= k
  BY <1>2, MinIsLeast
<1>4. PICK m \in S : \A k \in S : m <= k
  BY <1>3
<1>5. m \in 0 .. n /\ Fits(m)
  <2>1. m \in 0 .. n /\ (m = n \/ ~IsFree(m))
    BY <1>4
  <2>2. ASSUME NEW l \in 0 .. m - 1 PROVE IsFree(l)
    <3>1. l \in 0 .. n /\ ~(m <= l)
      BY <1>1, <2>1
    <3>2. l \notin S
      BY <1>4, <3>1
    <3> QED
      BY <3>1, <3>2
  <2> QED
    BY <2>1, <2>2
<1>6. j = CHOOSE k \in 0 .. n : Fits(k)
  BY Zenon DEF K!FreeFrom
<1>7. j \in 0 .. n /\ Fits(j)
  <2> HIDE DEF Fits
  <2> QED
    BY <1>5, <1>6
<1> QED
  BY <1>1, <1>7

(* A thread that enters its mapping into free entries.                     *)
LEMMA Entered ==
    ASSUME Window, WindowInv, NEW t \in Threads, K!Mapped(t), call[t].pc # "idle",
           \A e \in call[t].i .. call[t].i + call[t].n - 1 : e < Slots => kpt[e] = K!MAP_NP,
           kpt_lock' = kpt_lock \/ kpt_lock = t,
           \A u \in Threads \ {t} : call[u].pc = "fill" =>
              \A e \in call[u].i .. call[u].i + call[u].n - 1 :
                 ~(e - call[t].i \in 0 .. call[t].n - 1)
    PROVE  WindowInv'
<1> DEFINE i == call[t].i   n == call[t].n
<1>1. /\ i \in Nat /\ n \in Nat /\ Slots \in Nat /\ K!Nobody \notin Threads
      /\ at[t] = K!None
      /\ kpt' = [e \in 0 .. Slots - 1 |-> IF e - i \in 0 .. n - 1 THEN <<t, e - i>> ELSE kpt[e]]
      /\ at' = [at EXCEPT ![t] = i]
      /\ call' = [call EXCEPT ![t] = [K!Idle EXCEPT !.n = n]]
  BY DEF Window, WindowInv, WindowType, Call, LockInv, K!Mapped
<1>2. call'[t] \in Call /\ call'[t].pc = "idle" /\ call'[t].n = n
  BY <1>1 DEF WindowInv, WindowType, K!Idle, Call
<1>3. \A u \in Threads \ {t} : call'[u] = call[u] /\ at'[u] = at[u]
  BY <1>1 DEF WindowInv, WindowType
<1>4. WindowType'
  <2>1. kpt' \in [0 .. Slots - 1 -> (Threads \cup {K!Nobody}) \X Nat]
    <3>1. ASSUME NEW e \in 0 .. Slots - 1
          PROVE  (IF e - i \in 0 .. n - 1 THEN <<t, e - i>> ELSE kpt[e])
                 \in (Threads \cup {K!Nobody}) \X Nat
      <4>1. kpt[e] \in (Threads \cup {K!Nobody}) \X Nat
        BY <3>1 DEF WindowInv, WindowType
      <4> HIDE DEF i, n
      <4> QED
        BY <1>1, <4>1
    <3> QED
      BY <1>1, <3>1
  <2>2. call' \in [Threads -> Call]
    <3>1. [K!Idle EXCEPT !.n = n] \in Call
      BY <1>1, <1>2 DEF WindowInv, WindowType
    <3> QED
      BY <1>1, <3>1 DEF WindowInv, WindowType, Call
  <2>3. at' \in [Threads -> Nat \cup {K!None}]
    BY <1>1 DEF WindowInv, WindowType
  <2> QED
    BY <2>1, <2>2, <2>3 DEF WindowType, Call
(* The entries belong to nobody else.                                      *)
<1>5. ASSUME NEW u \in Threads \ {t}, NEW e \in K!Extent(u), e < Slots
      PROVE  ~(e - i \in 0 .. n - 1) /\ e \in 0 .. Slots - 1 /\ kpt[e] = <<u, e - at[u]>>
  <2>1. kpt[e] = <<u, e - at[u]>>
    BY <1>5 DEF WindowInv, K!Shown
  <2>2. e \in 0 .. Slots - 1
    BY <1>1, <1>5 DEF WindowInv, WindowType, K!Extent
  <2>3. kpt[e] # K!MAP_NP
    BY <1>1, <2>1 DEF K!MAP_NP
  <2> HIDE DEF i, n
  <2>4. ~(e \in i .. i + n - 1)
    BY <1>5, <2>3 DEF i, n
  <2> QED
    BY <1>1, <2>1, <2>2, <2>4
<1>6. K!Shown'
  <2> SUFFICES ASSUME NEW u \in Threads, NEW e \in K!Extent(u)', e < Slots
               PROVE  kpt'[e] = <<u, e - at'[u]>>
    BY DEF K!Shown
  <2>1. CASE u = t
    <3>1. at'[t] = i /\ i # K!None
      BY <1>1 DEF WindowInv, WindowType, K!None
    <3>2. e \in i .. i + n - 1
      BY <1>2, <2>1, <3>1 DEF K!Extent
    <3> HIDE DEF i, n
    <3> QED
      BY <1>1, <2>1, <3>1, <3>2
  <2>2. CASE u # t
    <3>1. e \in K!Extent(u)
      BY <1>3, <2>2 DEF K!Extent
    <3> QED
      BY <1>1, <1>3, <1>5, <2>2, <3>1
  <2> QED
    BY <2>1, <2>2
<1>7. K!NothingLeft'
  <2> SUFFICES ASSUME NEW e \in 0 .. Slots - 1, kpt'[e] # K!MAP_NP
               PROVE  \E u \in Threads : e \in K!Extent(u)'
    BY DEF K!NothingLeft, K!MAP_NP
  <2>1. CASE e - i \in 0 .. n - 1
    <3>1. at'[t] = i /\ i # K!None
      BY <1>1 DEF WindowInv, WindowType, K!None
    <3>2. e \in at'[t] .. at'[t] + call'[t].n - 1
      BY <1>1, <1>2, <2>1, <3>1
    <3>3. e \in K!Extent(t)'
      BY <3>1, <3>2 DEF K!Extent
    <3> QED
      BY <3>3
  <2>2. CASE ~(e - i \in 0 .. n - 1)
    <3>1. kpt[e] # K!MAP_NP
      BY <1>1, <2>2
    <3>2. PICK u \in Threads : e \in K!Extent(u)
      BY <3>1 DEF WindowInv, K!NothingLeft
    <3>3. u # t
      BY <1>1, <3>2 DEF K!Extent
    <3>4. e \in K!Extent(u)'
      BY <1>3, <3>2, <3>3 DEF K!Extent
    <3> QED
      BY <3>4
  <2> QED
    BY <2>1, <2>2
<1>8. LockInv'
  <2> SUFFICES ASSUME NEW u \in Threads PROVE
        /\ call'[u].pc \in {"test", "fill"} => kpt_lock' = u
        /\ call'[u].pc = "swap" => call'[u].n = 1
        /\ call'[u].pc = "swap" => call'[u].i < Slots
        /\ call'[u].pc # "idle" => at'[u] = K!None
        /\ call'[u].pc = "fill" =>
              \A e \in call'[u].i .. call'[u].i + call'[u].n - 1 : e < Slots => kpt'[e] = K!MAP_NP
    BY DEF LockInv, K!MAP_NP
  <2>1. CASE u = t
    BY <1>2, <2>1
  <2>2. CASE u # t
    <3>1. call'[u] = call[u] /\ at'[u] = at[u]
      BY <1>3, <2>2
    <3>2. call[u].pc \in {"test", "fill"} => kpt_lock' = u
      BY <2>2 DEF WindowInv, LockInv
    <3>3. ASSUME call[u].pc = "fill", NEW e \in call[u].i .. call[u].i + call[u].n - 1, e < Slots
          PROVE  kpt'[e] = K!MAP_NP
      <4>1. kpt[e] = K!MAP_NP /\ ~(e - i \in 0 .. n - 1)
        BY <2>2, <3>3 DEF WindowInv, LockInv
      <4>2. e \in 0 .. Slots - 1
        <5>1. call[u].i \in Nat /\ call[u].n \in Nat
          BY <2>2 DEF WindowInv, WindowType, Call
        <5>2. Slots \in Nat /\ e \in call[u].i .. call[u].i + call[u].n - 1 /\ e < Slots
          BY <1>1, <3>3
        <5> QED
          BY ONLY <5>1, <5>2
      <4> QED
        BY <1>1, <4>1, <4>2
    <3> QED
      BY <2>2, <3>1, <3>2, <3>3 DEF WindowInv, LockInv
  <2> QED
    BY <2>1, <2>2
<1> QED
  BY <1>4, <1>6, <1>7, <1>8 DEF WindowInv

(* A thread that only looks, or takes the lock.                            *)
LEMMA Searching ==
    ASSUME Window, WindowInv, NEW t \in Threads, NEW c \in Call,
           call' = [call EXCEPT ![t] = c], UNCHANGED <<kpt, at>>, at[t] = K!None,
           c.pc \notin {"idle", "fill"},
           c.pc = "swap" => c.n = 1 /\ c.i < Slots,
           c.pc = "test" => kpt_lock' = t,
           kpt_lock' = kpt_lock \/ kpt_lock = t \/ kpt_lock = K!Nobody
    PROVE  WindowInv'
<1>1. /\ call'[t] = c /\ \A u \in Threads \ {t} : call'[u] = call[u]
      /\ call' \in [Threads -> Call] /\ K!Nobody \notin Threads
  BY DEF WindowInv, WindowType, Window
<1>2. WindowType'
  BY <1>1 DEF WindowInv, WindowType
<1>3. \A u \in Threads : K!Extent(u)' = K!Extent(u)
  BY <1>1 DEF K!Extent
<1>4. K!Shown'
  BY <1>3 DEF WindowInv, K!Shown
<1>5. K!NothingLeft'
  BY <1>3 DEF WindowInv, K!NothingLeft, K!MAP_NP
<1>6. LockInv'
  <2> SUFFICES ASSUME NEW u \in Threads PROVE
        /\ call'[u].pc \in {"test", "fill"} => kpt_lock' = u
        /\ call'[u].pc = "swap" => call'[u].n = 1
        /\ call'[u].pc = "swap" => call'[u].i < Slots
        /\ call'[u].pc # "idle" => at'[u] = K!None
        /\ call'[u].pc = "fill" =>
              \A e \in call'[u].i .. call'[u].i + call'[u].n - 1 : e < Slots => kpt'[e] = K!MAP_NP
    BY DEF LockInv, K!MAP_NP
  <2>1. CASE u = t
    BY <1>1, <2>1
  <2>2. CASE u # t
    BY <1>1, <2>2 DEF WindowInv, LockInv
  <2> QED
    BY <2>1, <2>2
<1> QED
  BY <1>2, <1>4, <1>5, <1>6 DEF WindowInv

(* The thread that holds the lock has seen that its entries are free.      *)
LEMMA Found ==
    ASSUME Window, WindowInv, NEW t \in Threads, kpt_lock = t, kpt_lock' = t,
           call' = [call EXCEPT ![t] = [@ EXCEPT !.pc = "fill"]], UNCHANGED <<kpt, at>>,
           at[t] = K!None,
           \A e \in call[t].i .. call[t].i + call[t].n - 1 : e < Slots => kpt[e] = K!MAP_NP
    PROVE  WindowInv'
<1> DEFINE c == [call[t] EXCEPT !.pc = "fill"]
<1>1. /\ call' = [call EXCEPT ![t] = c] /\ c \in Call /\ call[t] \in Call
      /\ c.pc = "fill" /\ c.n = call[t].n /\ c.i = call[t].i
  BY DEF WindowInv, WindowType, Call
<1> HIDE DEF c
<1>2. /\ call'[t] = c /\ \A u \in Threads \ {t} : call'[u] = call[u]
      /\ call' \in [Threads -> Call]
  BY <1>1 DEF WindowInv, WindowType
<1>3. WindowType'
  BY <1>2 DEF WindowInv, WindowType
<1>4. \A u \in Threads : K!Extent(u)' = K!Extent(u)
  BY <1>2 DEF K!Extent
<1>5. K!Shown'
  BY <1>4 DEF WindowInv, K!Shown
<1>6. K!NothingLeft'
  BY <1>4 DEF WindowInv, K!NothingLeft, K!MAP_NP
<1>7. LockInv'
  <2> SUFFICES ASSUME NEW u \in Threads PROVE
        /\ call'[u].pc \in {"test", "fill"} => kpt_lock' = u
        /\ call'[u].pc = "swap" => call'[u].n = 1
        /\ call'[u].pc = "swap" => call'[u].i < Slots
        /\ call'[u].pc # "idle" => at'[u] = K!None
        /\ call'[u].pc = "fill" =>
              \A e \in call'[u].i .. call'[u].i + call'[u].n - 1 : e < Slots => kpt'[e] = K!MAP_NP
    BY DEF LockInv, K!MAP_NP
  <2>1. CASE u = t
    BY <1>1, <1>2, <2>1
  <2>2. CASE u # t
    BY <1>2, <2>2 DEF WindowInv, LockInv
  <2> QED
    BY <2>1, <2>2
<1> QED
  BY <1>3, <1>5, <1>6, <1>7 DEF WindowInv

(* kernel_unmap frees what the thread has, and nothing else.               *)
LEMMA Unmapped ==
    ASSUME Window, WindowInv, NEW t \in Threads, K!kernel_unmap(t)
    PROVE  WindowInv'
<1> DEFINE a == at[t]   n == call[t].n
<1>1. /\ a \in Nat /\ n \in Nat /\ Slots \in Nat /\ K!Nobody \notin Threads
      /\ kpt_lock = K!Nobody /\ kpt_lock' = kpt_lock /\ a # K!None
      /\ kpt' = [e \in 0 .. Slots - 1 |-> IF e - a \in 0 .. n - 1 THEN K!MAP_NP ELSE kpt[e]]
      /\ at' = [at EXCEPT ![t] = K!None]
      /\ call' = [call EXCEPT ![t] = K!Idle]
  BY DEF Window, WindowInv, WindowType, Call, K!kernel_unmap
<1>2. K!Idle \in Call /\ K!Idle.pc = "idle" /\ K!MAP_NP \in (Threads \cup {K!Nobody}) \X Nat
  BY DEF K!Idle, Call, K!MAP_NP
<1>3. /\ call'[t].pc = "idle" /\ at'[t] = K!None
      /\ \A u \in Threads \ {t} : call'[u] = call[u] /\ at'[u] = at[u]
      /\ call' \in [Threads -> Call] /\ at' \in [Threads -> Nat \cup {K!None}]
  BY <1>1, <1>2 DEF WindowInv, WindowType
<1>4. WindowType'
  <2>1. kpt' \in [0 .. Slots - 1 -> (Threads \cup {K!Nobody}) \X Nat]
    <3>1. \A e \in 0 .. Slots - 1 : kpt[e] \in (Threads \cup {K!Nobody}) \X Nat
      BY DEF WindowInv, WindowType
    <3> HIDE DEF a, n
    <3> QED
      BY <1>1, <1>2, <3>1
  <2> QED
    BY <1>3, <2>1 DEF WindowType
<1>5. \A u \in Threads \ {t} : K!Extent(u)' = K!Extent(u)
  BY <1>3 DEF K!Extent
<1>6. K!Extent(t) = a .. a + n - 1 /\ K!Extent(t)' = {}
  BY <1>1, <1>3 DEF K!Extent
<1>7. K!Shown'
  <2> SUFFICES ASSUME NEW u \in Threads, NEW e \in K!Extent(u)', e < Slots
               PROVE  kpt'[e] = <<u, e - at'[u]>>
    BY DEF K!Shown
  <2>1. u # t /\ e \in K!Extent(u)
    BY <1>5, <1>6
  <2>2. kpt[e] = <<u, e - at[u]>> /\ at[u] # K!None /\ e \in 0 .. Slots - 1
    BY <1>1, <2>1 DEF WindowInv, WindowType, K!Shown, K!Extent
  <2>3. e \notin K!Extent(t)
    <3>1. e \in K!Extent(t) => kpt[e] = <<t, e - at[t]>>
      BY DEF WindowInv, K!Shown
    <3> QED
      BY <2>1, <2>2, <3>1
  <2> HIDE DEF a, n
  <2>4. ~(e - a \in 0 .. n - 1)
    BY <1>1, <1>6, <2>2, <2>3
  <2> QED
    BY <1>1, <1>3, <2>1, <2>2, <2>4
<1>8. K!NothingLeft'
  <2> SUFFICES ASSUME NEW e \in 0 .. Slots - 1, kpt'[e] # K!MAP_NP
               PROVE  \E u \in Threads : e \in K!Extent(u)'
    BY DEF K!NothingLeft, K!MAP_NP
  <2> HIDE DEF a, n
  <2>1. ~(e - a \in 0 .. n - 1) /\ kpt[e] # K!MAP_NP
    BY <1>1
  <2>2. PICK u \in Threads : e \in K!Extent(u)
    BY <2>1 DEF WindowInv, K!NothingLeft
  <2>3. u # t
    BY <1>1, <1>6, <2>1, <2>2
  <2>4. e \in K!Extent(u)'
    BY <1>5, <2>2, <2>3
  <2> QED
    BY <2>4
<1>9. LockInv'
  <2> SUFFICES ASSUME NEW u \in Threads PROVE
        /\ call'[u].pc \in {"test", "fill"} => kpt_lock' = u
        /\ call'[u].pc = "swap" => call'[u].n = 1
        /\ call'[u].pc = "swap" => call'[u].i < Slots
        /\ call'[u].pc # "idle" => at'[u] = K!None
        /\ call'[u].pc = "fill" =>
              \A e \in call'[u].i .. call'[u].i + call'[u].n - 1 : e < Slots => kpt'[e] = K!MAP_NP
    BY DEF LockInv, K!MAP_NP
  <2>1. CASE u = t
    BY <1>3, <2>1
  <2>2. CASE u # t
    <3>1. call'[u] = call[u] /\ at'[u] = at[u] /\ kpt_lock # u
      BY <1>1, <1>3, <2>2
    <3> QED
      BY <3>1, <1>1 DEF WindowInv, LockInv
  <2> QED
    BY <2>1, <2>2
<1> QED
  BY <1>4, <1>7, <1>8, <1>9 DEF WindowInv

(* Every step of a thread is one of these.                                 *)
LEMMA WindowStep ==
    ASSUME Window, WindowInv, [K!Next]_(K!vars), ~overlaid'
    PROVE  WindowInv'
<1>0. Slots \in Nat /\ Lengths \subseteq Nat \ {0} /\ K!Nobody \notin Threads
  BY DEF Window
<1>1. CASE UNCHANGED K!vars
  BY <1>1 DEF K!vars, WindowInv, WindowType, LockInv, K!Shown, K!NothingLeft, K!Extent, K!MAP_NP
<1>2. ASSUME NEW t \in Threads, NEW nc \in BOOLEAN, NEW n \in Lengths, K!Enter(t, nc, n)
      PROVE  WindowInv'
  <2> DEFINE c == [pc |-> "look", nc |-> nc, n |-> n, i |-> 0]
  <2>1. c \in Call /\ c.pc = "look"
    BY <1>0 DEF Call
  <2>2. /\ call' = [call EXCEPT ![t] = c] /\ UNCHANGED <<kpt, at, kpt_lock>> /\ at[t] = K!None
    BY <1>2 DEF K!Enter
  <2> HIDE DEF c
  <2> QED
    BY <2>1, <2>2, Searching
<1>3. ASSUME NEW t \in Threads, K!Look(t) PROVE WindowInv'
  <2>1. /\ call[t] \in Call /\ call[t].pc = "look" /\ call[t].i < Slots /\ at[t] = K!None
        /\ UNCHANGED <<kpt, at, kpt_lock>>
    BY <1>3 DEF K!Look, WindowInv, WindowType, LockInv
  <2>2. CASE kpt[call[t].i] # K!MAP_NP
    <3> DEFINE c == [call[t] EXCEPT !.i = @ + 1]
    <3>1. c \in Call /\ c.pc = "look"
      BY <2>1 DEF Call
    <3>2. call' = [call EXCEPT ![t] = c]
      BY <1>3, <2>2 DEF K!Look
    <3> HIDE DEF c
    <3> QED
      BY <2>1, <3>1, <3>2, Searching
  <2>3. CASE kpt[call[t].i] = K!MAP_NP
    <3> DEFINE p == IF call[t].nc /\ call[t].n = 1 THEN "swap" ELSE "take"
               c == [call[t] EXCEPT !.pc = p]
    <3>1. p \in {"swap", "take"} /\ (p = "swap" => call[t].n = 1)
      OBVIOUS
    <3>2. c \in Call /\ c.pc = p /\ c.n = call[t].n /\ c.i = call[t].i
      <4> HIDE DEF p
      <4> QED
        BY <2>1, <3>1 DEF Call
    <3>3. call' = [call EXCEPT ![t] = c]
      BY <1>3, <2>3 DEF K!Look
    <3> HIDE DEF p, c
    <3> QED
      BY <2>1, <3>1, <3>2, <3>3, Searching
  <2> QED
    BY <2>2, <2>3
<1>4. ASSUME NEW t \in Threads, K!Swap(t) PROVE WindowInv'
  <2>1. /\ call[t] \in Call /\ call[t].pc = "swap" /\ call[t].i < Slots /\ at[t] = K!None
        /\ call[t].n = 1 /\ kpt_lock' = kpt_lock
    BY <1>0, <1>4 DEF K!Swap, WindowInv, WindowType, LockInv
  <2>2. CASE /\ kpt[call[t].i] = K!MAP_NP /\ K!Mapped(t)
             /\ overlaid' = (overlaid \/ K!Tested(t, call[t].i))
    <3>1. \A e \in call[t].i .. call[t].i + call[t].n - 1 : e < Slots => kpt[e] = K!MAP_NP
      <4>1. call[t].i \in Nat
        BY <2>1 DEF Call
      <4>2. \A e \in call[t].i .. call[t].i + call[t].n - 1 : e = call[t].i
        BY <2>1, <4>1
      <4> QED
        BY <2>2, <4>2
    <3>2. ASSUME NEW u \in Threads \ {t}, call[u].pc = "fill",
                 NEW e \in call[u].i .. call[u].i + call[u].n - 1
          PROVE  ~(e - call[t].i \in 0 .. call[t].n - 1)
      <4>1. call[t].i \in Nat /\ call[u].i \in Nat /\ call[u].n \in Nat
        BY <2>1 DEF WindowInv, WindowType, Call
      <4>2. e # call[t].i
        BY <2>2, <3>2 DEF K!Tested
      <4> QED
        BY <2>1, <3>2, <4>1, <4>2
    <3> QED
      BY <2>1, <2>2, <3>1, <3>2, Entered
  <2>3. CASE call' = [call EXCEPT ![t].pc = "look", ![t].i = @ + 1] /\ UNCHANGED <<kpt, at>>
    <3> DEFINE c == [call[t] EXCEPT !.pc = "look", !.i = @ + 1]
    <3>1. c \in Call /\ c.pc = "look"
      <4> DEFINE x == call[t].i + 1
                 d == [[call[t] EXCEPT !.pc = "look"] EXCEPT !.i = x]
      <4>1. x \in Nat
        BY <2>1 DEF Call
      <4> HIDE DEF x
      <4>2. d \in Call /\ d.pc = "look"
        BY <2>1, <4>1 DEF Call
      <4>3. c = d
        BY <2>1 DEF x, Call
      <4> QED
        BY <4>2, <4>3
    <3>2. call' = [call EXCEPT ![t] = c]
      BY <2>3 DEF WindowInv, WindowType
    <3> HIDE DEF c
    <3> QED
      BY <2>1, <2>3, <3>1, <3>2, Searching
  <2> QED
    BY <1>4, <2>2, <2>3 DEF K!Swap
<1>5. ASSUME NEW t \in Threads, K!Take(t) PROVE WindowInv'
  <2> DEFINE c == [call[t] EXCEPT !.pc = "test"]
  <2>1. /\ call[t] \in Call /\ at[t] = K!None /\ kpt_lock = K!Nobody /\ kpt_lock' = t
        /\ call' = [call EXCEPT ![t] = c] /\ UNCHANGED <<kpt, at>>
    BY <1>5 DEF K!Take, WindowInv, WindowType, LockInv
  <2>2. c \in Call /\ c.pc = "test"
    BY <2>1 DEF Call
  <2> HIDE DEF c
  <2> QED
    BY <2>1, <2>2, Searching
<1>6. ASSUME NEW t \in Threads, K!Test(t) PROVE WindowInv'
  <2>1. PICK j : j = K!FreeFrom(call[t])
    OBVIOUS
  <2>2. /\ call[t] \in Call /\ call[t].pc = "test" /\ at[t] = K!None /\ kpt_lock = t
        /\ UNCHANGED <<kpt, at>>
    BY <1>6 DEF K!Test, WindowInv, WindowType, LockInv
  <2>3. /\ j \in Nat /\ j <= call[t].n
        /\ \A k \in 0 .. j - 1 : K!EntryAt(call[t].i + k) = K!MAP_NP
        /\ j = call[t].n \/ K!EntryAt(call[t].i + j) # K!MAP_NP
    BY <2>1, FreeFromFacts DEF WindowInv
  <2>4. CASE K!EntryAt(call[t].i + j) = K!MAP_NP
    <3>1. kpt_lock' = t /\ call' = [call EXCEPT ![t] = [call[t] EXCEPT !.pc = "fill"]]
      BY <1>6, <2>1, <2>4 DEF K!Test
    <3>2. j = call[t].n
      BY <2>3, <2>4
    <3>3. ASSUME NEW e \in call[t].i .. call[t].i + call[t].n - 1, e < Slots
          PROVE  kpt[e] = K!MAP_NP
      <4>1. call[t].i \in Nat /\ call[t].n \in Nat
        BY <2>2 DEF Call
      <4>2. e - call[t].i \in 0 .. j - 1 /\ call[t].i + (e - call[t].i) = e
        BY <2>3, <3>2, <3>3, <4>1
      <4>3. K!EntryAt(e) = K!MAP_NP
        BY <2>3, <4>2
      <4> QED
        BY <3>3, <4>3 DEF K!EntryAt
    <3> QED
      BY <2>2, <3>1, <3>3, Found
  <2>5. CASE K!EntryAt(call[t].i + j) # K!MAP_NP
    <3> DEFINE c == [call[t] EXCEPT !.pc = "look", !.i = @ + j + 1]
    <3>1. kpt_lock' = K!Nobody /\ call' = [call EXCEPT ![t] = c]
      BY <1>6, <2>1, <2>5 DEF K!Test
    <3>2. c \in Call /\ c.pc = "look"
      <4> DEFINE x == call[t].i + j + 1
                 d == [[call[t] EXCEPT !.pc = "look"] EXCEPT !.i = x]
      <4>1. x \in Nat
        BY <2>2, <2>3 DEF Call
      <4> HIDE DEF x
      <4>2. d \in Call /\ d.pc = "look"
        BY <2>2, <4>1 DEF Call
      <4>3. c = d
        BY <2>2 DEF x, Call
      <4> QED
        BY <4>2, <4>3
    <3> HIDE DEF c
    <3> QED
      BY <2>2, <3>1, <3>2, Searching
  <2> QED
    BY <2>4, <2>5
<1>7. ASSUME NEW t \in Threads, K!Fill(t) PROVE WindowInv'
  <2>1. call[t].pc = "fill" /\ kpt_lock' = K!Nobody /\ K!Mapped(t)
    BY <1>7 DEF K!Fill
  <2>2. kpt_lock = t /\ \A e \in call[t].i .. call[t].i + call[t].n - 1 : e < Slots => kpt[e] = K!MAP_NP
    BY <2>1 DEF WindowInv, LockInv
  <2>3. \A u \in Threads \ {t} : call[u].pc # "fill"
    BY <2>2 DEF WindowInv, LockInv
  <2> QED
    BY <2>1, <2>2, <2>3, Entered
<1>8. ASSUME NEW t \in Threads, K!kernel_unmap(t) PROVE WindowInv'
  BY <1>8, Unmapped
<1> QED
  BY <1>1, <1>2, <1>3, <1>4, <1>5, <1>6, <1>7, <1>8 DEF K!Next

(* At first every entry is free.                                           *)
LEMMA WindowInitial ==
    ASSUME Window, K!Init
    PROVE  WindowInv
<1>1. K!Idle \in Call /\ K!Idle.pc = "idle" /\ K!MAP_NP \in (Threads \cup {K!Nobody}) \X Nat
  BY DEF K!Idle, Call, K!MAP_NP
<1>2. /\ kpt = [e \in 0 .. Slots - 1 |-> K!MAP_NP]
      /\ call = [t \in Threads |-> K!Idle] /\ at = [t \in Threads |-> K!None]
  BY DEF K!Init
<1> QED
  BY <1>1, <1>2 DEF WindowInv, WindowType, LockInv, K!Shown, K!NothingLeft, K!Extent

(* For any number of threads and entries: whoever has mapped frames sees   *)
(* these in every entry of the window that it was given, whoever maps and  *)
(* unmaps in between, and no entry is taken that nobody has, until a       *)
(* single frame, which kernel_map_nc enters without the lock, has been     *)
(* swapped in between another thread's test of the entries and its filling *)
(* them (kernel_map, kernel_map_nc, kernel_unmap).                         *)
THEOREM MappingsAreOwn ==
    ASSUME Window
    PROVE  K!Spec => [](overlaid \/ (K!Shown /\ K!NothingLeft))
<1>1. K!Init => overlaid \/ WindowInv
  BY WindowInitial
<1>2. (overlaid \/ WindowInv) /\ [K!Next]_(K!vars) => (overlaid \/ WindowInv)'
  <2> SUFFICES ASSUME overlaid \/ WindowInv, [K!Next]_(K!vars), ~overlaid'
               PROVE  WindowInv'
    OBVIOUS
  <2>1. ~overlaid
    <3>1. ASSUME NEW t \in Threads, K!Swap(t) PROVE ~overlaid
      BY Zenon, <3>1 DEF K!Swap
    <3>2. ASSUME NEW t \in Threads,
                 \/ \E nc \in BOOLEAN, n \in Lengths : K!Enter(t, nc, n)
                 \/ K!Look(t) \/ K!Take(t) \/ K!Test(t) \/ K!Fill(t) \/ K!kernel_unmap(t)
          PROVE  ~overlaid
      <4>1. overlaid' = overlaid
        BY <3>2 DEF K!Enter, K!Look, K!Take, K!Test, K!Fill, K!kernel_unmap
      <4> QED
        BY Zenon, <4>1
    <3>3. CASE UNCHANGED K!vars
      BY Zenon, <3>3 DEF K!vars
    <3> QED
      BY Zenon, <3>1, <3>2, <3>3 DEF K!Next
  <2> QED
    BY <2>1, WindowStep
<1>3. overlaid \/ WindowInv => overlaid \/ (K!Shown /\ K!NothingLeft)
  BY DEF WindowInv
<1> QED
  BY <1>1, <1>2, <1>3, PTL DEF K!Spec
=============================================================================
