---------------------------- MODULE Cache_proofs ----------------------------
(***************************************************************************)
(* Proofs about Cache for a device of any size, any number of struct       *)
(* block's, any length of the read buffer and any set of block contents:   *)
(* the cache is transparent, and what is marked and written is durable.    *)
(***************************************************************************)
EXTENDS Cache, TLAPS, SequenceTheorems

SlotType == [num : Blocks \cup {-1}, data : Values,
             ref : 0 .. MaxRefs, dirty : BOOLEAN, mod : BOOLEAN]

(* Nobody writes into a block that he does not hold.                       *)
WritersHold == \A s \in Slots : blk[s].ref = 0 => ~blk[s].mod

(* A slot holds what its block was last given.                             *)
SlotsTrue ==
    \A s \in Slots : InUse(s) /\ blk[s].num \notin lost => blk[s].data = truth[blk[s].num]

(* No slot of b has anything about block n that the device has not.        *)
Settled(b, n) == \A s \in Slots : b[s].num = n => ~b[s].dirty /\ ~b[s].mod

(* Where no slot is ahead of it, the read buffer is right as well.         *)
BufferTrue ==
    \A n \in Blocks \ lost : n \in DOMAIN rb /\ Settled(blk, n) => rb[n] = truth[n]

DeviceTrue == \A n \in Blocks \ lost : Settled(blk, n) => disk[n] = truth[n]

IInv == TypeOK /\ WritersHold /\ SlotsTrue /\ BufferTrue /\ DeviceTrue

-----------------------------------------------------------------------------
(* RemoveFirst takes one entry out of a list that has each at most once.   *)
LEMMA RemoveFirstFacts ==
    ASSUME NEW S, NEW q \in Seq(S), IsInjective(q), NEW e
    PROVE  /\ RemoveFirst(q, e) \in Seq(S)
           /\ IsInjective(RemoveFirst(q, e))
           /\ ToSet(RemoveFirst(q, e)) = ToSet(q) \ {e}
<1>1. CASE ~\E i \in 1 .. Len(q) : q[i] = e
  BY <1>1 DEF RemoveFirst, ToSet
<1>2. ASSUME NEW k \in 1 .. Len(q), q[k] = e
      PROVE  /\ RemoveFirst(q, e) \in Seq(S)
             /\ IsInjective(RemoveFirst(q, e))
             /\ ToSet(RemoveFirst(q, e)) = ToSet(q) \ {e}
  <2> DEFINE r == RemoveAt(q, k)
  <2>1. {i \in 1 .. Len(q) : q[i] = e} = {k}
    BY <1>2 DEF IsInjective
  <2>2. SelectInSeq(q, LAMBDA v : v = e) = k
    BY <2>1 DEF SelectInSeq, Min
  <2>3. RemoveFirst(q, e) = r
    BY <1>2, <2>2 DEF RemoveFirst
  <2>4. /\ r \in Seq(S) /\ DOMAIN r = 1 .. Len(q) - 1
        /\ \A i \in 1 .. Len(q) - 1 : r[i] = IF i < k THEN q[i] ELSE q[i + 1]
    <3> DEFINE front == SubSeq(q, 1, k - 1)
               rear == SubSeq(q, k + 1, Len(q))
    <3>1. front \in Seq(S) /\ Len(front) = k - 1 /\ \A i \in 1 .. k - 1 : front[i] = q[i]
      OBVIOUS
    <3>2. /\ rear \in Seq(S) /\ Len(rear) = Len(q) - k
          /\ \A i \in 1 .. Len(q) - k : rear[i] = q[k + i]
      OBVIOUS
    <3>3. r = front \o rear
      BY DEF RemoveAt
    <3> HIDE DEF front, rear, r
    <3>4. /\ r \in Seq(S) /\ Len(r) = Len(q) - 1
          /\ \A i \in 1 .. Len(q) - 1 : r[i] = IF i <= k - 1 THEN front[i] ELSE rear[i - (k - 1)]
      <4>1. /\ r \in Seq(S) /\ Len(r) = Len(front) + Len(rear)
            /\ \A i \in 1 .. Len(front) + Len(rear) :
                  r[i] = IF i <= Len(front) THEN front[i] ELSE rear[i - Len(front)]
        BY <3>1, <3>2, <3>3, ConcatProperties
      <4>2. Len(front) = k - 1 /\ Len(front) + Len(rear) = Len(q) - 1
        BY <3>1, <3>2
      <4> QED
        BY <4>1, <4>2
    <3>5. ASSUME NEW i \in 1 .. Len(q) - 1, i >= k
          PROVE  rear[i - (k - 1)] = q[i + 1]
      <4>1. i - (k - 1) \in 1 .. Len(q) - k
        BY <3>5
      <4> QED
        BY <3>2, <4>1
    <3>6. ASSUME NEW i \in 1 .. Len(q) - 1
          PROVE  r[i] = IF i < k THEN q[i] ELSE q[i + 1]
      <4>1. CASE i < k
        <5>1. i \in 1 .. k - 1
          BY <4>1
        <5> QED
          BY <3>1, <3>4, <4>1, <5>1
      <4>2. CASE i >= k
        <5>1. ~(i <= k - 1) /\ ~(i < k)
          BY <4>2
        <5> QED
          BY <3>4, <3>5, <5>1
      <4> QED
        BY <4>1, <4>2
    <3>7. DOMAIN r = 1 .. Len(q) - 1
      BY <3>4
    <3> QED
      BY <3>4, <3>6, <3>7
  <2> HIDE DEF r
  <2>5. /\ r \in Seq(S) /\ Len(r) = Len(q) - 1
        /\ \A i \in 1 .. Len(q) - 1 : r[i] = IF i < k THEN q[i] ELSE q[i + 1]
    BY <2>4
  <2>6. IsInjective(r)
    <3>1. ASSUME NEW i \in 1 .. Len(q) - 1, NEW j \in 1 .. Len(q) - 1, r[i] = r[j]
          PROVE  i = j
      <4>1. CASE i < k /\ j < k
        BY <2>4, <3>1, <4>1 DEF IsInjective
      <4>2. CASE i < k /\ j >= k
        BY <2>4, <3>1, <4>2 DEF IsInjective
      <4>3. CASE i >= k /\ j < k
        BY <2>4, <3>1, <4>3 DEF IsInjective
      <4>4. CASE i >= k /\ j >= k
        BY <2>4, <3>1, <4>4 DEF IsInjective
      <4> QED
        BY <4>1, <4>2, <4>3, <4>4
    <3> QED
      BY <2>4, <3>1 DEF IsInjective
  <2>7. ToSet(r) \subseteq ToSet(q) \ {e}
    BY <1>2, <2>5 DEF ToSet, IsInjective
  <2>8. ASSUME NEW x \in ToSet(q) \ {e}
        PROVE  x \in ToSet(r)
    <3>1. PICK i \in 1 .. Len(q) : q[i] = x /\ i # k
      BY <1>2 DEF ToSet
    <3>2. CASE i < k
      BY <2>5, <3>1, <3>2 DEF ToSet
    <3>3. CASE i > k
      <4>1. i - 1 \in 1 .. Len(q) - 1 /\ r[i - 1] = x
        BY <2>5, <3>1, <3>3
      <4> QED
        BY <2>5, <4>1 DEF ToSet
    <3> QED
      BY <3>1, <3>2, <3>3
  <2> QED
    BY <2>3, <2>5, <2>6, <2>7, <2>8
<1> QED
  BY <1>1, <1>2

(* So does Append put one in.                                              *)
LEMMA TouchedFacts ==
    ASSUME lru \in Seq(Slots), IsInjective(lru), NEW s \in Slots
    PROVE  /\ Touched(s) \in Seq(Slots)
           /\ IsInjective(Touched(s))
           /\ ToSet(Touched(s)) = ToSet(lru) \cup {s}
<1> DEFINE r == RemoveFirst(lru, s)
<1>1. r \in Seq(Slots) /\ IsInjective(r) /\ ToSet(r) = ToSet(lru) \ {s}
  BY RemoveFirstFacts
<1> HIDE DEF r
<1>2. /\ Append(r, s) \in Seq(Slots) /\ DOMAIN Append(r, s) = 1 .. Len(r) + 1
      /\ Append(r, s)[Len(r) + 1] = s
      /\ \A i \in 1 .. Len(r) : Append(r, s)[i] = r[i] /\ i \in DOMAIN r
      /\ DOMAIN r = 1 .. Len(r) /\ Len(r) \in Nat
  BY <1>1
<1>3. \A i \in 1 .. Len(r) : r[i] # s
  BY <1>1, <1>2 DEF ToSet
<1>4. IsInjective(Append(r, s))
  BY <1>1, <1>2, <1>3 DEF IsInjective
<1>5. ToSet(Append(r, s)) = ToSet(r) \cup {s}
  BY <1>2 DEF ToSet
<1> QED
  BY <1>1, <1>2, <1>4, <1>5 DEF Touched, r

-----------------------------------------------------------------------------
(* What syncing the slots D leaves of each slot, and what it tells the     *)
(* device and the read buffer about each block.                            *)
SyncFacts(st, D, F) ==
    /\ st.disk \in [Blocks -> Values]
    /\ DOMAIN st.rb = DOMAIN rb
    /\ \A n \in DOMAIN rb : st.rb[n] \in Values
    /\ st.blk \in [Slots -> SlotType]
    /\ \A s \in Slots :
          /\ st.blk[s].num = blk[s].num /\ st.blk[s].data = blk[s].data
          /\ st.blk[s].ref = blk[s].ref /\ st.blk[s].mod = blk[s].mod
          /\ st.blk[s].dirty <=> blk[s].dirty /\ s \notin D \ F
          /\ ~InUse(s) => st.blk[s] = Unused
    /\ \A n \in Blocks \ lost :
          Settled(st.blk, n) =>
              /\ st.disk[n] = truth[n]
              /\ n \in DOMAIN rb => st.rb[n] = truth[n]

(* cache_sync_block, called for every dirty block or for none: a block     *)
(* whose slot it leaves clean is on the device and in the read buffer.     *)
LEMMA SyncSafe ==
    ASSUME IInv, NEW D \in {Dirty, {}}, NEW F \in SUBSET D
    PROVE  SyncFacts(cache_sync_block(D, F), D, F)
<1> DEFINE st == cache_sync_block(D, F)
<1>1. D \subseteq Slots /\ \A s \in D : blk[s].dirty /\ InUse(s) /\ blk[s].num \in Blocks
  BY DEF Dirty, IInv, TypeOK, InUse, Unused
<1>2. \A n, S : {s \in S : blk[s].num = n} # {} =>
          (CHOOSE s \in {s \in S : blk[s].num = n} : TRUE) \in {s \in S : blk[s].num = n}
  OBVIOUS
<1>3. \A n \in Blocks : \A s, t \in Slots : blk[s].num = n /\ blk[t].num = n => s = t
  BY DEF IInv, TypeOK, InUse, Blocks
<1>4. st.disk \in [Blocks -> Values] /\ \A n \in Blocks :
          \/ st.disk[n] = disk[n] /\ \A s \in D \ F : blk[s].num # n
          \/ \E s \in D \ F : blk[s].num = n /\ st.disk[n] = blk[s].data
  BY <1>1, <1>2 DEF cache_sync_block, IInv, TypeOK
<1>5. DOMAIN st.rb = DOMAIN rb /\ \A n \in DOMAIN rb :
          \/ st.rb[n] = rb[n] /\ \A s \in D : blk[s].num # n
          \/ \E s \in D : blk[s].num = n /\ st.rb[n] = blk[s].data
  BY <1>1, <1>2 DEF cache_sync_block, IInv, TypeOK
<1>6. \A n \in DOMAIN rb : st.rb[n] \in Values
  BY <1>1, <1>5 DEF IInv, TypeOK
<1>7. /\ st.blk \in [Slots -> SlotType]
      /\ \A s \in Slots :
            /\ st.blk[s].num = blk[s].num /\ st.blk[s].data = blk[s].data
            /\ st.blk[s].ref = blk[s].ref /\ st.blk[s].mod = blk[s].mod
            /\ st.blk[s].dirty <=> blk[s].dirty /\ s \notin D \ F
            /\ ~InUse(s) => st.blk[s] = Unused
  <2>1. st.blk = [s \in Slots |-> IF s \in D \ F THEN [blk[s] EXCEPT !.dirty = FALSE] ELSE blk[s]]
    BY DEF cache_sync_block
  <2>2. blk \in [Slots -> SlotType] /\ \A s \in Slots : ~InUse(s) => blk[s] = Unused
    BY DEF IInv, TypeOK, SlotType
  <2> HIDE DEF st
  <2>3. ASSUME NEW s \in D \ F
        PROVE  st.blk[s] = [blk[s] EXCEPT !.dirty = FALSE] /\ s \in Slots /\ InUse(s)
    BY <1>1, <2>1
  <2>4. \A s \in Slots \ (D \ F) : st.blk[s] = blk[s]
    BY <2>1
  <2>5. ASSUME NEW s \in Slots
        PROVE  /\ st.blk[s] \in SlotType
               /\ st.blk[s].num = blk[s].num /\ st.blk[s].data = blk[s].data
               /\ st.blk[s].ref = blk[s].ref /\ st.blk[s].mod = blk[s].mod
               /\ st.blk[s].dirty <=> blk[s].dirty /\ s \notin D \ F
               /\ ~InUse(s) => st.blk[s] = Unused
    <3>1. CASE s \in D \ F
      <4>1. blk[s] \in SlotType /\ st.blk[s] = [blk[s] EXCEPT !.dirty = FALSE] /\ InUse(s)
        BY <2>2, <2>3, <3>1
      <4> QED
        BY <3>1, <4>1 DEF SlotType
    <3>2. CASE s \notin D \ F
      <4>1. st.blk[s] = blk[s] /\ blk[s] \in SlotType /\ (~InUse(s) => blk[s] = Unused)
        BY <2>2, <2>4, <3>2
      <4> QED
        BY <3>2, <4>1
    <3> QED
      BY <3>1, <3>2
  <2>6. st.blk \in [Slots -> SlotType]
    BY <2>1, <2>5
  <2> QED
    BY <2>5, <2>6
<1> HIDE DEF st
<1>8. ASSUME NEW n \in Blocks \ lost, Settled(st.blk, n)
      PROVE  /\ st.disk[n] = truth[n]
             /\ n \in DOMAIN rb => st.rb[n] = truth[n]
  <2>1. CASE \E s \in D \ F : blk[s].num = n
    <3>1. PICK s \in D \ F : blk[s].num = n
      BY <2>1
    <3>2. blk[s].data = truth[n]
      BY <1>1, <3>1 DEF IInv, SlotsTrue
    <3>3. \A t \in D : blk[t].num = n => t = s
      BY <1>1, <1>3, <3>1
    <3> QED
      BY <1>4, <1>5, <3>1, <3>2, <3>3
  <2>2. CASE ~\E s \in D \ F : blk[s].num = n
    <3>1. \A s \in D : blk[s].num # n
      BY <1>1, <1>7, <1>8, <2>2 DEF Settled
    <3>2. Settled(blk, n)
      BY <1>7, <1>8, <2>2 DEF Settled
    <3> QED
      BY <1>4, <1>5, <3>1, <3>2 DEF IInv, BufferTrue, DeviceTrue
  <2> QED
    BY <2>1, <2>2
<1> QED
  BY <1>4, <1>5, <1>6, <1>7, <1>8 DEF SyncFacts, st

(* The slot a missing block goes to is nobody's, and once the flags of a   *)
(* dirty one were dealt with the device has every block but the lost ones. *)
LEMMA EvictionSafe ==
    ASSUME IInv, NEW s \in Target, NEW F \in SUBSET MustSync(s),
           NEW n \in Blocks \ (lost \cup LostBy(F, s)),
           \A t \in Slots \ {s} :
              blk[t].num = n => ~cache_sync_block(MustSync(s), F).blk[t].dirty /\ ~blk[t].mod
    PROVE  /\ cache_sync_block(MustSync(s), F).disk[n] = truth[n]
           /\ n \in DOMAIN rb => cache_sync_block(MustSync(s), F).rb[n] = truth[n]
<1> DEFINE st == cache_sync_block(MustSync(s), F)
<1>1. s \in Slots /\ blk[s].ref = 0 /\ ~blk[s].mod
  BY DEF Target, Replaceable, InUse, Unused, IInv, TypeOK, WritersHold
<1>2. SyncFacts(st, MustSync(s), F)
  BY SyncSafe DEF MustSync
<1> HIDE DEF st
<1>3. blk[s].num = n => ~st.blk[s].dirty
  BY <1>1, <1>2 DEF SyncFacts, LostBy, MustSync, Dirty, IInv, TypeOK, Blocks
<1>4. Settled(st.blk, n)
  BY <1>1, <1>2, <1>3 DEF SyncFacts, Settled, st
<1> QED
  BY <1>2, <1>4 DEF SyncFacts, st

-----------------------------------------------------------------------------
(* At first every block is blank, on the device and for its users.         *)
LEMMA InitIInv == Init => IInv
<1> SUFFICES ASSUME Init PROVE IInv
  OBVIOUS
<1> USE CacheAssumption DEF Init
<1>1. TypeOK
  <2>1. Unused \in SlotType
    BY DEF Unused, SlotType
  <2>2. lru \in Seq(Slots) /\ ToSet(lru) = {} /\ IsInjective(lru)
    BY DEF ToSet, IsInjective
  <2>3. \A s \in Slots : blk[s] = Unused /\ ~InUse(s)
    BY DEF InUse, Unused
  <2> QED
    BY <2>1, <2>2, <2>3 DEF TypeOK, SlotType
<1>2. WritersHold /\ SlotsTrue
  BY DEF WritersHold, SlotsTrue, Unused, InUse
<1>3. BufferTrue /\ DeviceTrue
  BY DEF BufferTrue, DeviceTrue
<1> QED
  BY <1>1, <1>2, <1>3 DEF IInv

(* The slots and the list after a missing block n got slot s.              *)
SlotsOK ==
    /\ blk \in [Slots -> SlotType] /\ WritersHold
    /\ \A s, t \in Slots : InUse(s) /\ blk[s].num = blk[t].num => s = t
    /\ lru \in Seq(Slots) /\ ToSet(lru) = {s \in Slots : InUse(s)} /\ IsInjective(lru)
    /\ \A s \in Slots : ~InUse(s) => blk[s] = Unused

RenamedFacts(st, s, n, v, mod) ==
    /\ blk'[s].num = n /\ blk'[s].data = v /\ blk'[s].ref = 1
    /\ blk'[s].dirty = st.blk[s].dirty /\ blk'[s].mod = mod
    /\ \A t \in Slots \ {s} : blk'[t] = st.blk[t]

(* A slot that a block may be read into is held by nobody and has nothing  *)
(* left to write back.                                                     *)
LEMMA TargetIsFree ==
    ASSUME IInv, NEW s \in Target
    PROVE  s \in Slots /\ blk[s].ref = 0 /\ ~blk[s].mod
BY DEF Target, Replaceable, InUse, Unused, IInv, TypeOK, WritersHold

(* After a miss the slot stands for the new block, is the most recently    *)
(* used, and no other slot has changed its block.                          *)
LEMMA MissSlots ==
    ASSUME IInv, NEW n \in Blocks, Found(n) = {}, NEW s \in Target,
           NEW F \in SUBSET MustSync(s), NEW v \in Values, NEW mod \in BOOLEAN,
           blk' = Renamed(cache_sync_block(MustSync(s), F), s, n, v, mod),
           lru' = Touched(s)
    PROVE  SlotsOK' /\ RenamedFacts(cache_sync_block(MustSync(s), F), s, n, v, mod)
<1> DEFINE st == cache_sync_block(MustSync(s), F)
<1> USE CacheAssumption
<1>1. s \in Slots /\ blk[s].ref = 0 /\ n \in Int /\ n # -1
  BY TargetIsFree DEF Blocks
<1>2. SyncFacts(st, MustSync(s), F)
  BY SyncSafe DEF MustSync
<1>3. blk' = [st.blk EXCEPT ![s] = [@ EXCEPT !.num = n, !.data = v, !.ref = 1, !.mod = mod]]
  BY DEF Renamed
<1> HIDE DEF st
<1>4. blk'[s] = [st.blk[s] EXCEPT !.num = n, !.data = v, !.ref = 1, !.mod = mod]
  BY <1>1, <1>2, <1>3 DEF SyncFacts
<1>5. RenamedFacts(st, s, n, v, mod)
  BY <1>1, <1>2, <1>3, <1>4 DEF SyncFacts, SlotType, RenamedFacts
<1>6. blk'[s] \in SlotType
  <2>1. st.blk[s] \in SlotType /\ 1 \in 0 .. MaxRefs /\ n \in Blocks \cup {-1}
    BY <1>1, <1>2 DEF SyncFacts
  <2> QED
    BY <1>4, <2>1 DEF SlotType
<1>7. blk' \in [Slots -> SlotType]
  BY <1>2, <1>3, <1>4, <1>6 DEF SyncFacts
<1>8. \A t \in Slots \ {s} :
         /\ blk'[t].num = blk[t].num /\ blk'[t].ref = blk[t].ref
         /\ blk'[t].mod = blk[t].mod
         /\ blk'[t].num = -1 => blk'[t] = Unused
  <2>1. \A t \in Slots \ {s} :
           /\ blk'[t] = st.blk[t] /\ st.blk[t].num = blk[t].num
           /\ st.blk[t].ref = blk[t].ref /\ st.blk[t].mod = blk[t].mod
           /\ ~InUse(t) => st.blk[t] = Unused
    BY <1>1, <1>2, <1>5 DEF SyncFacts, RenamedFacts
  <2> QED
    BY <2>1 DEF InUse
<1>9. blk'[s].num = n /\ blk'[s].ref = 1
  BY <1>5 DEF RenamedFacts
<1>10. WritersHold'
  BY <1>8, <1>9 DEF WritersHold, IInv
<1>11. \A t, u \in Slots : blk'[t].num # -1 /\ blk'[t].num = blk'[u].num => t = u
  <2>1. \A t \in Slots : blk[t].num # n
    BY DEF Found
  <2> QED
    BY <1>1, <1>8, <1>9, <2>1 DEF IInv, TypeOK, InUse
<1>12. lru' \in Seq(Slots) /\ IsInjective(lru') /\ ToSet(lru') = ToSet(lru) \cup {s}
  BY <1>1, TouchedFacts DEF IInv, TypeOK
<1>13. ToSet(lru') = {t \in Slots : blk'[t].num # -1}
  <2>1. ToSet(lru) = {t \in Slots : blk[t].num # -1}
    BY DEF IInv, TypeOK, InUse
  <2> QED
    BY <1>1, <1>8, <1>9, <1>12, <2>1
<1> QED
  BY <1>1, <1>5, <1>7, <1>8, <1>9, <1>10, <1>11, <1>12, <1>13 DEF SlotsOK, InUse, st

(* After that the device and the read buffer have what no slot is ahead of *)
(* and, in any case, the missing block.                                    *)
LEMMA MissSafe ==
    ASSUME IInv, NEW n \in Blocks, Found(n) = {}, NEW s \in Target,
           NEW F \in SUBSET MustSync(s), NEW v \in Values, NEW mod \in BOOLEAN,
           RenamedFacts(cache_sync_block(MustSync(s), F), s, n, v, mod),
           NEW m \in Blocks \ (lost \cup LostBy(F, s)),
           m = n \/ Settled(blk', m)
    PROVE  /\ cache_sync_block(MustSync(s), F).disk[m] = truth[m]
           /\ m \in DOMAIN rb => cache_sync_block(MustSync(s), F).rb[m] = truth[m]
<1> DEFINE st == cache_sync_block(MustSync(s), F)
<1>1. SyncFacts(st, MustSync(s), F)
  BY SyncSafe DEF MustSync
<1> HIDE DEF st
<1>2. \A t \in Slots \ {s} : blk'[t] = st.blk[t] /\ st.blk[t].num = blk[t].num /\ st.blk[t].mod = blk[t].mod
  BY <1>1 DEF RenamedFacts, SyncFacts, st
<1>3. \A t \in Slots \ {s} : blk[t].num = m => ~st.blk[t].dirty /\ ~blk[t].mod
  <2>1. CASE m = n
    BY <2>1 DEF Found
  <2>2. CASE Settled(blk', m)
    BY <1>2, <2>2 DEF Settled
  <2> QED
    BY <2>1, <2>2
<1> QED
  BY <1>3, EvictionSafe DEF st

(* The slots that stay keep their data, and the new one has the right one. *)
LEMMA MissSlotsTrue ==
    ASSUME IInv, NEW n \in Blocks, NEW s \in Target,
           NEW F \in SUBSET MustSync(s), NEW v \in Values, NEW mod \in BOOLEAN,
           RenamedFacts(cache_sync_block(MustSync(s), F), s, n, v, mod),
           \A t \in Slots : blk[t].num # n,
           \A m \in Blocks \ {n} : truth'[m] = truth[m] /\ (m \in lost => m \in lost'),
           n \notin lost' => v = truth'[n]
    PROVE  SlotsTrue'
<1> DEFINE st == cache_sync_block(MustSync(s), F)
<1>1. SyncFacts(st, MustSync(s), F)
  BY SyncSafe DEF MustSync
<1> HIDE DEF st
<1>2. ASSUME NEW t \in Slots \ {s}, blk'[t].num # -1, blk'[t].num \notin lost'
      PROVE  blk'[t].data = truth'[blk'[t].num]
  <2>1. blk'[t].num = blk[t].num /\ blk'[t].data = blk[t].data
    BY <1>1 DEF RenamedFacts, SyncFacts, st
  <2>2. blk[t].num \in Blocks \ {n}
    BY <1>2, <2>1 DEF IInv, TypeOK
  <2> QED
    BY <1>2, <2>1, <2>2 DEF IInv, SlotsTrue, InUse
<1>3. blk'[s].num = n /\ blk'[s].data = v
  BY DEF RenamedFacts
<1> QED
  BY <1>2, <1>3 DEF SlotsTrue, InUse

(* GetMiss by way of one slot and one set of refused writes.               *)
GetMissAt(n, s, F) ==
    LET st == cache_sync_block(MustSync(s), F)
        b  == Buffer(st, n)
    IN  /\ Found(n) = {}
        /\ disk' = st.disk
        /\ rb' = b
        /\ blk' = Renamed(st, s, n, b[n], FALSE)
        /\ lru' = Touched(s)
        /\ lost' = lost \cup LostBy(F, s)
        /\ UNCHANGED <<truth, dangling>>

(* cdi_cache_block_get of a block that is read from the device or buffer.  *)
LEMMA GetMissIInv ==
    ASSUME IInv, NEW n \in Blocks, GetMiss(n)
    PROVE  IInv'
<1> USE CacheAssumption
<1>0. PICK s \in Target : \E F \in SUBSET MustSync(s) : GetMissAt(n, s, F)
  BY DEF GetMiss, GetMissAt
<1>1. PICK F \in SUBSET MustSync(s) :
         /\ Found(n) = {}
         /\ disk' = cache_sync_block(MustSync(s), F).disk
         /\ rb' = Buffer(cache_sync_block(MustSync(s), F), n)
         /\ blk' = Renamed(cache_sync_block(MustSync(s), F), s, n,
                           Buffer(cache_sync_block(MustSync(s), F), n)[n], FALSE)
         /\ lru' = Touched(s)
         /\ lost' = lost \cup LostBy(F, s)
         /\ UNCHANGED <<truth, dangling>>
  BY <1>0 DEF GetMissAt
<1> DEFINE st == cache_sync_block(MustSync(s), F)
           b == Buffer(st, n)
<1>2. SyncFacts(st, MustSync(s), F)
  BY SyncSafe DEF MustSync
<1>3. /\ n \in DOMAIN b /\ DOMAIN b \subseteq Blocks /\ \A m \in DOMAIN b : b[m] \in Values
      /\ \A m \in DOMAIN b : b[m] = st.disk[m] \/ (m \in DOMAIN rb /\ b[m] = st.rb[m])
  <2> HIDE DEF st
  <2>1. CASE n \in DOMAIN st.rb
    <3>1. b = st.rb
      BY <2>1 DEF Buffer
    <3> QED
      BY <1>2, <2>1, <3>1 DEF SyncFacts, IInv, TypeOK
  <2>2. CASE n \notin DOMAIN st.rb
    <3> DEFINE ahead == {m \in Blocks : n <= m /\ m < n + ReadBufSz}
    <3>1. b = [m \in ahead |-> st.disk[m]]
      BY <2>2 DEF Buffer
    <3>2. n \in ahead /\ ahead \subseteq Blocks
      BY DEF Blocks
    <3> HIDE DEF b, ahead
    <3> QED
      BY <1>2, <3>1, <3>2 DEF SyncFacts
  <2> QED
    BY <2>1, <2>2
<1>4. SlotsOK' /\ RenamedFacts(st, s, n, b[n], FALSE) /\ b[n] \in Values
  BY <1>1, <1>3, MissSlots
<1>5. ASSUME NEW m \in Blocks \ lost', m = n \/ Settled(blk', m)
      PROVE  /\ disk'[m] = truth[m]
             /\ m \in DOMAIN b => b[m] = truth[m]
  <2>0. m \in Blocks \ (lost \cup LostBy(F, s)) /\ Found(n) = {} /\ b[n] \in Values
    BY <1>1, <1>4
  <2> HIDE DEF b
  <2>1. /\ st.disk[m] = truth[m]
        /\ m \in DOMAIN rb => st.rb[m] = truth[m]
    <3>1. /\ RenamedFacts(cache_sync_block(MustSync(s), F), s, n, b[n], FALSE)
          /\ m = n \/ Settled(blk', m)
      BY <1>4, <1>5
    <3> QED
      <4>1. ASSUME NEW v \in Values, NEW mod \in BOOLEAN,
                   RenamedFacts(cache_sync_block(MustSync(s), F), s, n, v, mod)
            PROVE  /\ st.disk[m] = truth[m]
                   /\ m \in DOMAIN rb => st.rb[m] = truth[m]
        BY <2>0, <3>1, <4>1, MissSafe
      <4> HIDE DEF st
      <4> QED
        BY <2>0, <3>1, <4>1
  <2> USE DEF b
  <2> QED
    BY <1>1, <1>3, <2>1
<1>6. BufferTrue' /\ DeviceTrue'
  BY <1>1, <1>5 DEF BufferTrue, DeviceTrue
<1>7. SlotsTrue'
  <2>1. n \notin lost' => b[n] = truth'[n]
    BY <1>1, <1>3, <1>5
  <2>2. \A t \in Slots : blk[t].num # n
    BY <1>1 DEF Found
  <2> QED
    BY <1>1, <1>4, <2>1, <2>2, MissSlotsTrue
<1>8. lost' \subseteq Blocks
  BY <1>1 DEF LostBy, IInv, TypeOK, MustSync, Dirty, InUse, Unused
<1>9. TypeOK'
  <2>1. disk' \in [Blocks -> Values] /\ truth' \in [Blocks -> Values]
    BY <1>1, <1>2 DEF SyncFacts, IInv, TypeOK
  <2>2. DOMAIN rb' \subseteq Blocks /\ \A m \in DOMAIN rb' : rb'[m] \in Values
    BY <1>1, <1>3
  <2>3. dangling' \subseteq {"lru_first", "lru_last", "tree", "hints"}
    BY <1>1 DEF IInv, TypeOK
  <2> QED
    BY <1>4, <1>8, <2>1, <2>2, <2>3 DEF TypeOK, SlotsOK, SlotType
<1>10. WritersHold'
  BY <1>4 DEF SlotsOK
<1> QED
  BY <1>6, <1>7, <1>9, <1>10 DEF IInv

-----------------------------------------------------------------------------
(* A step of a user on the slot s of a block: the slot becomes w, which is *)
(* ahead of the device if it was before or if the data changed.            *)
LEMMA SlotStep ==
    ASSUME IInv, NEW s \in Slots, InUse(s), NEW w \in SlotType,
           blk' = [blk EXCEPT ![s] = w], w.num = blk[s].num, w.ref = 0 => ~w.mod,
           lru' \in {lru, Touched(s)}, UNCHANGED <<disk, rb, dangling>>,
           truth' \in [Blocks -> Values], lost' \subseteq Blocks,
           \A m \in Blocks \ {w.num} : truth'[m] = truth[m] /\ (m \in lost => m \in lost'),
           w.num \notin lost' => w.data = truth'[w.num],
           \/ w.dirty \/ w.mod
           \/ /\ ~blk[s].dirty /\ ~blk[s].mod
              /\ UNCHANGED <<truth, lost>>
    PROVE  IInv'
<1>1. /\ blk' \in [Slots -> SlotType] /\ blk'[s] = w
      /\ \A t \in Slots \ {s} : blk'[t] = blk[t]
      /\ \A t \in Slots : blk'[t].num = blk[t].num
  BY DEF IInv, TypeOK, SlotType
<1>2. \A t \in Slots : blk'[t].num # -1 <=> InUse(t)
  BY <1>1 DEF InUse
<1>3. lru' \in Seq(Slots) /\ IsInjective(lru') /\ ToSet(lru') = ToSet(lru)
  <2>1. lru \in Seq(Slots) /\ IsInjective(lru) /\ s \in ToSet(lru)
    BY DEF IInv, TypeOK
  <2>2. CASE lru' = Touched(s)
    <3>1. Touched(s) \in Seq(Slots) /\ IsInjective(Touched(s)) /\ ToSet(Touched(s)) = ToSet(lru) \cup {s}
      BY <2>1, TouchedFacts
    <3>2. ToSet(Touched(s)) = ToSet(lru)
      BY <2>1, <3>1
    <3> QED
      BY <2>2, <3>1, <3>2
  <2>3. CASE lru' = lru
    BY <2>1, <2>3
  <2> QED
    BY <2>2, <2>3
<1>4. TypeOK'
  <2>1. \A t, u \in Slots : blk'[t].num # -1 /\ blk'[t].num = blk'[u].num => t = u
    BY <1>1 DEF IInv, TypeOK, InUse
  <2>2. ToSet(lru') = {t \in Slots : blk'[t].num # -1}
    BY <1>2, <1>3 DEF IInv, TypeOK
  <2>3. \A t \in Slots : blk'[t].num = -1 => blk'[t] = Unused
    BY <1>1 DEF IInv, TypeOK, InUse
  <2> QED
    BY <1>1, <1>3, <2>1, <2>2, <2>3 DEF IInv, TypeOK, InUse, SlotType
<1>5. WritersHold'
  BY <1>1 DEF IInv, WritersHold
<1>6. SlotsTrue'
  <2>1. ASSUME NEW t \in Slots \ {s}, blk'[t].num # -1, blk'[t].num \notin lost'
        PROVE  blk'[t].data = truth'[blk'[t].num]
    <3>1. blk'[t] = blk[t] /\ InUse(t) /\ blk[t].num \in Blocks \ {w.num}
      BY <1>1, <2>1 DEF IInv, TypeOK, InUse
    <3> QED
      BY <2>1, <3>1 DEF IInv, SlotsTrue
  <2> QED
    BY <1>1, <2>1 DEF SlotsTrue, InUse
<1>7. ASSUME NEW m \in Blocks \ lost', Settled(blk', m)
      PROVE  m \notin lost /\ truth'[m] = truth[m] /\ Settled(blk, m)
  <2>1. \A t \in Slots : blk[t].num = m => ~blk'[t].dirty /\ ~blk'[t].mod
    BY <1>1, <1>7 DEF Settled
  <2>2. CASE m # w.num
    BY <1>1, <2>1, <2>2 DEF Settled
  <2>3. CASE m = w.num
    <3>1. ~blk[s].dirty /\ ~blk[s].mod /\ UNCHANGED <<truth, lost>>
      BY <1>1, <2>1, <2>3
    <3> QED
      BY <1>1, <1>7, <2>1, <3>1 DEF Settled
  <2> QED
    BY <2>2, <2>3
<1>8. BufferTrue' /\ DeviceTrue'
  BY <1>7 DEF IInv, BufferTrue, DeviceTrue
<1> QED
  BY <1>4, <1>5, <1>6, <1>8 DEF IInv

(* cdi_cache_block_get of a block that has a slot: one more reference.     *)
LEMMA GetHitIInv ==
    ASSUME IInv, NEW n \in Blocks, GetHit(n)
    PROVE  IInv'
<1> USE CacheAssumption
<1>1. PICK s \in Slots :
         /\ blk[s].num = n /\ blk[s].ref < MaxRefs
         /\ blk' = [blk EXCEPT ![s] = [blk[s] EXCEPT !.ref = @ + 1]]
         /\ lru' = Touched(s) /\ UNCHANGED <<disk, rb, truth, lost, dangling>>
  BY DEF GetHit, Found
<1> DEFINE w == [blk[s] EXCEPT !.ref = @ + 1]
<1>2. blk[s] \in SlotType /\ blk[s].ref \in 0 .. MaxRefs
  BY DEF IInv, TypeOK, SlotType
<1>3. /\ w \in SlotType /\ w.num = blk[s].num /\ w.ref = blk[s].ref + 1
      /\ w.data = blk[s].data /\ w.dirty = blk[s].dirty /\ w.mod = blk[s].mod
  BY <1>1, <1>2 DEF SlotType
<1> HIDE DEF w
<1>4. InUse(s) /\ w.ref # 0
  BY <1>1, <1>2, <1>3 DEF InUse, Blocks
<1>5. blk' = [blk EXCEPT ![s] = w] /\ lru' \in {lru, Touched(s)}
  BY <1>1 DEF w
<1>6. truth' \in [Blocks -> Values] /\ lost' \subseteq Blocks
  BY <1>1 DEF IInv, TypeOK
<1>7. w.num \notin lost' => w.data = truth'[w.num]
  BY <1>1, <1>3, <1>4 DEF IInv, SlotsTrue
<1> QED
  BY <1>1, <1>3, <1>4, <1>5, <1>6, <1>7, SlotStep

(* Only slots of a block are held, and they are of the type of a slot.     *)
LEMMA HeldIsUsed ==
    ASSUME IInv, NEW s \in Slots
    PROVE  /\ blk[s] \in SlotType /\ blk[s].ref \in 0 .. MaxRefs
           /\ blk[s].ref > 0 => InUse(s) /\ blk[s].num \in Blocks
BY DEF IInv, TypeOK, SlotType, InUse, Unused

(* A user writes into a block that he holds.                               *)
LEMMA ModifyIInv ==
    ASSUME IInv, NEW s \in Slots, NEW v \in Values, Modify(s, v)
    PROVE  IInv'
<1> DEFINE w == [blk[s] EXCEPT !.data = v, !.mod = TRUE]
<1>1. /\ blk[s] \in SlotType /\ blk[s].ref \in 0 .. MaxRefs
      /\ blk[s].ref > 0 /\ InUse(s) /\ blk[s].num \in Blocks
  BY HeldIsUsed DEF Modify
<1>2. /\ w \in SlotType /\ w.num = blk[s].num /\ w.ref = blk[s].ref
      /\ w.data = v /\ w.mod
  BY <1>1 DEF SlotType
<1>3. blk' = [blk EXCEPT ![s] = w] /\ lru' \in {lru, Touched(s)}
  BY <1>1 DEF Modify, IInv, TypeOK
<1> HIDE DEF w
<1>4. /\ truth' = [truth EXCEPT ![w.num] = v] /\ lost' = lost \ {w.num}
      /\ UNCHANGED <<disk, rb, dangling>>
  BY <1>2 DEF Modify
<1>5. /\ truth' \in [Blocks -> Values] /\ lost' \subseteq Blocks
      /\ \A m \in Blocks \ {w.num} : truth'[m] = truth[m] /\ (m \in lost => m \in lost')
      /\ truth'[w.num] = v
  BY <1>1, <1>2, <1>4 DEF IInv, TypeOK
<1>6. w.ref # 0 /\ (w.num \notin lost' => w.data = truth'[w.num])
  BY <1>1, <1>2, <1>5
<1> QED
  BY <1>1, <1>2, <1>3, <1>4, <1>5, <1>6, SlotStep

(* cdi_cache_block_dirty: what was modified is marked.                     *)
LEMMA DirtyIInv ==
    ASSUME IInv, NEW s \in Slots, cdi_cache_block_dirty(s)
    PROVE  IInv'
<1> DEFINE w == [blk[s] EXCEPT !.dirty = TRUE, !.mod = FALSE]
<1>1. /\ blk[s] \in SlotType /\ blk[s].ref \in 0 .. MaxRefs
      /\ blk[s].ref > 0 /\ InUse(s) /\ blk[s].num \in Blocks
  BY HeldIsUsed DEF cdi_cache_block_dirty
<1>2. /\ w \in SlotType /\ w.num = blk[s].num /\ w.ref = blk[s].ref
      /\ w.data = blk[s].data /\ w.dirty /\ ~w.mod
  BY <1>1 DEF SlotType
<1>3. blk' = [blk EXCEPT ![s] = w] /\ lru' \in {lru, Touched(s)}
  BY <1>1 DEF cdi_cache_block_dirty, IInv, TypeOK
<1> HIDE DEF w
<1>4. UNCHANGED <<disk, rb, truth, lost, dangling>>
  BY DEF cdi_cache_block_dirty
<1>5. /\ truth' \in [Blocks -> Values] /\ lost' \subseteq Blocks
      /\ w.num \notin lost' => w.data = truth'[w.num]
  BY <1>1, <1>2, <1>4 DEF IInv, TypeOK, SlotsTrue
<1>6. /\ w.ref = 0 => ~w.mod
      /\ w.dirty \/ w.mod
      /\ \A m \in Blocks \ {w.num} : truth'[m] = truth[m] /\ (m \in lost => m \in lost')
  BY <1>2, <1>4
<1> QED
  BY <1>1, <1>2, <1>3, <1>4, <1>5, <1>6, SlotStep

(* cdi_cache_block_release: nobody lets go of what he has not marked.      *)
LEMMA ReleaseIInv ==
    ASSUME IInv, NEW s \in Slots, cdi_cache_block_release(s)
    PROVE  IInv'
<1> DEFINE w == [blk[s] EXCEPT !.ref = @ - 1]
<1>1. /\ blk[s] \in SlotType /\ blk[s].ref \in 0 .. MaxRefs
      /\ blk[s].ref > 0 /\ InUse(s) /\ blk[s].num \in Blocks
      /\ blk[s].ref = 1 => ~blk[s].mod
  BY HeldIsUsed DEF cdi_cache_block_release
<1>2. blk[s].ref - 1 \in 0 .. MaxRefs
  BY <1>1, CacheAssumption
<1>3. /\ w \in SlotType /\ w.num = blk[s].num /\ w.ref = blk[s].ref - 1
      /\ w.data = blk[s].data /\ w.dirty = blk[s].dirty /\ w.mod = blk[s].mod
  BY <1>1, <1>2 DEF SlotType
<1>4. blk' = [blk EXCEPT ![s] = w] /\ lru' \in {lru, Touched(s)}
  BY <1>1 DEF cdi_cache_block_release, IInv, TypeOK
<1> HIDE DEF w
<1>5. UNCHANGED <<disk, rb, truth, lost, dangling>>
  BY DEF cdi_cache_block_release
<1>6. /\ truth' \in [Blocks -> Values] /\ lost' \subseteq Blocks
      /\ w.num \notin lost' => w.data = truth'[w.num]
  BY <1>1, <1>3, <1>5 DEF IInv, TypeOK, SlotsTrue
<1>7. w.ref = 0 => ~w.mod
  BY <1>1, <1>3
<1> QED
  BY <1>1, <1>3, <1>4, <1>5, <1>6, <1>7, SlotStep

(* GetNoread: the block is overwritten as a whole, in its slot or in a new *)
(* one.                                                                    *)
LEMMA GetNoreadIInv ==
    ASSUME IInv, NEW n \in Blocks, NEW v \in Values, GetNoread(n, v)
    PROVE  IInv'
<1> USE CacheAssumption
<1>1. /\ truth' = [truth EXCEPT ![n] = v] /\ truth' \in [Blocks -> Values]
      /\ truth'[n] = v /\ \A m \in Blocks \ {n} : truth'[m] = truth[m]
      /\ dangling' = dangling
  BY DEF GetNoread, IInv, TypeOK
<1>2. ASSUME NEW s \in Found(n), blk[s].ref < MaxRefs,
             blk' = [blk EXCEPT ![s].data = v, ![s].mod = TRUE, ![s].ref = @ + 1],
             lru' = Touched(s), lost' = lost \ {n}, UNCHANGED <<disk, rb>>
      PROVE  IInv'
  <2> DEFINE w == [blk[s] EXCEPT !.data = v, !.mod = TRUE, !.ref = @ + 1]
  <2>1. s \in Slots /\ blk[s].num = n /\ InUse(s)
    BY DEF Found, InUse, Blocks
  <2>2. blk[s] \in SlotType /\ blk[s].ref \in 0 .. MaxRefs
    BY <2>1, HeldIsUsed
  <2>3. /\ w \in SlotType /\ w.num = n /\ w.ref = blk[s].ref + 1
        /\ w.data = v /\ w.mod
    <3>1. blk[s].ref + 1 \in 0 .. MaxRefs
      BY <1>2, <2>2
    <3> QED
      BY <2>1, <2>2, <3>1 DEF SlotType
  <2>4. blk' = [blk EXCEPT ![s] = w] /\ lru' \in {lru, Touched(s)}
    <3>1. blk \in [Slots -> SlotType]
      BY DEF IInv, TypeOK, SlotType
    <3> QED
      BY <1>2, <2>1, <3>1
  <2> HIDE DEF w
  <2>5. lost' \subseteq Blocks /\ w.ref # 0
    BY <1>2, <2>2, <2>3 DEF IInv, TypeOK
  <2> QED
    BY <1>1, <1>2, <2>1, <2>3, <2>4, <2>5, SlotStep
<1>3. ASSUME NEW s \in Target, NEW F \in SUBSET MustSync(s), Found(n) = {},
             disk' = cache_sync_block(MustSync(s), F).disk,
             rb' = cache_sync_block(MustSync(s), F).rb,
             blk' = Renamed(cache_sync_block(MustSync(s), F), s, n, v, TRUE),
             lru' = Touched(s), lost' = (lost \cup LostBy(F, s)) \ {n}
      PROVE  IInv'
  <2> DEFINE st == cache_sync_block(MustSync(s), F)
  <2>1. SyncFacts(st, MustSync(s), F)
    BY SyncSafe DEF MustSync
  <2>2. SlotsOK' /\ RenamedFacts(st, s, n, v, TRUE)
    BY <1>3, MissSlots
  <2>3. ASSUME NEW m \in Blocks \ lost', Settled(blk', m)
        PROVE  /\ disk'[m] = truth'[m]
               /\ m \in DOMAIN rb' => rb'[m] = truth'[m]
    <3>1. s \in Slots /\ blk'[s].num = n /\ blk'[s].mod
      BY <2>2, TargetIsFree DEF RenamedFacts
    <3>2. m # n /\ m \in Blocks \ (lost \cup LostBy(F, s))
      BY <1>3, <2>3, <3>1 DEF Settled
    <3>3. /\ st.disk[m] = truth[m]
          /\ m \in DOMAIN rb => st.rb[m] = truth[m]
      <4>1. ASSUME NEW mod \in BOOLEAN,
                   RenamedFacts(cache_sync_block(MustSync(s), F), s, n, v, mod)
            PROVE  /\ st.disk[m] = truth[m]
                   /\ m \in DOMAIN rb => st.rb[m] = truth[m]
        <5>1. Found(n) = {} /\ Settled(blk', m)
          BY <1>3, <2>3
        <5> HIDE DEF st
        <5> QED
          BY <3>2, <4>1, <5>1, MissSafe DEF st
      <4> QED
        BY <2>2, <4>1
    <3> QED
      BY <1>1, <1>3, <2>1, <3>2, <3>3 DEF SyncFacts
  <2>4. BufferTrue' /\ DeviceTrue'
    BY <2>3 DEF BufferTrue, DeviceTrue
  <2>5. SlotsTrue'
    <3>1. \A t \in Slots : blk[t].num # n
      BY <1>3 DEF Found
    <3>2. \A m \in Blocks \ {n} : truth'[m] = truth[m] /\ (m \in lost => m \in lost')
      BY <1>1, <1>3
    <3> QED
      BY <1>1, <2>2, <3>1, <3>2, MissSlotsTrue
  <2>6. lost' \subseteq Blocks
    BY <1>3 DEF LostBy, IInv, TypeOK, MustSync, Dirty, InUse, Unused
  <2>7. TypeOK'
    <3>1. /\ disk' \in [Blocks -> Values] /\ DOMAIN rb' \subseteq Blocks
          /\ \A m \in DOMAIN rb' : rb'[m] \in Values
      BY <1>3, <2>1 DEF SyncFacts, IInv, TypeOK
    <3>2. dangling' \subseteq {"lru_first", "lru_last", "tree", "hints"}
      BY <1>1 DEF IInv, TypeOK
    <3> QED
      BY <1>1, <2>2, <2>6, <3>1, <3>2 DEF TypeOK, SlotsOK, SlotType
  <2> QED
    BY <2>2, <2>4, <2>5, <2>7 DEF IInv, SlotsOK
<1> QED
  BY <1>2, <1>3 DEF GetNoread

-----------------------------------------------------------------------------
(* GetReadFails by way of one slot and one set of refused writes.          *)
ReadFailsAt(n, s, F) ==
    LET st == cache_sync_block(MustSync(s), F) IN
    /\ disk' = st.disk
    /\ rb' = [m \in {} |-> Blank]
    /\ blk' = [st.blk EXCEPT ![s] = Unused]
    /\ lru' = RemoveFirst(lru, s)
    /\ lost' = lost \cup LostBy(F, s)
    /\ dangling' \subseteq {"lru_first", "lru_last", "tree", "hints"}
    /\ UNCHANGED truth

(* The device does not deliver: the slot is freed, and no other block is   *)
(* worse off.                                                              *)
LEMMA GetReadFailsIInv ==
    ASSUME IInv, NEW n \in Blocks, GetReadFails(n)
    PROVE  IInv'
<1> USE CacheAssumption
<1>0. PICK s \in Target : \E F \in SUBSET MustSync(s) : ReadFailsAt(n, s, F)
  BY DEF GetReadFails, ReadFailsAt
<1>1. PICK F \in SUBSET MustSync(s) : ReadFailsAt(n, s, F)
  BY <1>0
<1> DEFINE st == cache_sync_block(MustSync(s), F)
<1>2. SyncFacts(st, MustSync(s), F) /\ s \in Slots /\ blk[s].ref = 0
  BY SyncSafe, TargetIsFree DEF MustSync
<1>3. /\ disk' = st.disk /\ rb' = [m \in {} |-> Blank]
      /\ blk' = [st.blk EXCEPT ![s] = Unused]
      /\ lru' = RemoveFirst(lru, s) /\ lost' = lost \cup LostBy(F, s)
      /\ dangling' \subseteq {"lru_first", "lru_last", "tree", "hints"}
      /\ truth' = truth
  BY <1>1 DEF ReadFailsAt
<1> HIDE DEF st
<1>4. /\ blk'[s] = Unused
      /\ \A t \in Slots \ {s} :
            /\ blk'[t] = st.blk[t] /\ blk'[t].num = blk[t].num
            /\ blk'[t].data = blk[t].data /\ blk'[t].ref = blk[t].ref
            /\ blk'[t].mod = blk[t].mod /\ (~InUse(t) => blk'[t] = Unused)
  BY <1>2, <1>3 DEF SyncFacts
<1>5. /\ blk' \in [Slots -> SlotType] /\ Unused.num = -1
      /\ Unused.ref = 0 /\ ~Unused.mod
  <2>1. Unused \in SlotType
    BY DEF Unused, SlotType
  <2> QED
    BY <1>2, <1>3, <2>1 DEF SyncFacts, Unused
<1>6. lru' \in Seq(Slots) /\ IsInjective(lru') /\ ToSet(lru') = ToSet(lru) \ {s}
  BY <1>3, RemoveFirstFacts DEF IInv, TypeOK
<1>7. TypeOK'
  <2>1. \A t, u \in Slots : blk'[t].num # -1 /\ blk'[t].num = blk'[u].num => t = u
    BY <1>4, <1>5 DEF IInv, TypeOK, InUse
  <2>2. ToSet(lru') = {t \in Slots : blk'[t].num # -1}
    <3>1. ToSet(lru) = {t \in Slots : blk[t].num # -1}
      BY DEF IInv, TypeOK, InUse
    <3> QED
      BY <1>4, <1>5, <1>6, <3>1
  <2>3. \A t \in Slots : blk'[t].num = -1 => blk'[t] = Unused
    BY <1>4 DEF InUse
  <2>4. lost' \subseteq Blocks
    BY <1>3 DEF LostBy, IInv, TypeOK, MustSync, Dirty, InUse, Unused
  <2>5. disk' \in [Blocks -> Values] /\ truth' \in [Blocks -> Values]
    BY <1>2, <1>3 DEF SyncFacts, IInv, TypeOK
  <2>6. DOMAIN rb' = {}
    BY <1>3
  <2> QED
    BY <1>3, <1>5, <1>6, <2>1, <2>2, <2>3, <2>4, <2>5, <2>6 DEF TypeOK, InUse, SlotType
<1>8. WritersHold'
  BY <1>4, <1>5 DEF IInv, WritersHold
<1>9. SlotsTrue'
  <2>1. ASSUME NEW t \in Slots, blk'[t].num # -1, blk'[t].num \notin lost'
        PROVE  blk'[t].data = truth'[blk'[t].num]
    <3>1. t # s /\ InUse(t) /\ blk[t].num \notin lost
      BY <1>3, <1>4, <1>5, <2>1 DEF InUse
    <3> QED
      BY <1>3, <1>4, <3>1 DEF IInv, SlotsTrue
  <2> QED
    BY <2>1 DEF SlotsTrue, InUse
<1>10. DeviceTrue' /\ BufferTrue'
  <2>1. ASSUME NEW m \in Blocks \ lost', Settled(blk', m)
        PROVE  disk'[m] = truth'[m]
    <3>1. m \in Blocks \ (lost \cup LostBy(F, s))
      BY <1>3
    <3>2. \A t \in Slots \ {s} : blk[t].num = m => ~st.blk[t].dirty /\ ~blk[t].mod
      BY <1>4, <2>1 DEF Settled
    <3>3. st.disk[m] = truth[m]
      BY <3>1, <3>2, EvictionSafe DEF st
    <3> QED
      BY <1>3, <3>3
  <2>2. DOMAIN rb' = {}
    BY <1>3
  <2> QED
    BY <2>1, <2>2 DEF DeviceTrue, BufferTrue
<1> QED
  BY <1>7, <1>8, <1>9, <1>10 DEF IInv

(* cdi_cache_sync, some of the writes being refused.                       *)
LEMMA SyncIInv ==
    ASSUME IInv, cdi_cache_sync
    PROVE  IInv'
<1>1. PICK F \in SUBSET Dirty :
         /\ disk' = cache_sync_block(Dirty, F).disk
         /\ rb' = cache_sync_block(Dirty, F).rb
         /\ blk' = cache_sync_block(Dirty, F).blk
         /\ UNCHANGED <<lru, truth, lost, dangling>>
  BY DEF cdi_cache_sync
<1> DEFINE st == cache_sync_block(Dirty, F)
<1>2. SyncFacts(st, Dirty, F)
  BY SyncSafe
<1>3. /\ disk' = st.disk /\ rb' = st.rb /\ blk' = st.blk
      /\ lru' = lru /\ truth' = truth /\ lost' = lost /\ dangling' = dangling
  BY <1>1
<1> HIDE DEF st
<1>4. \A s \in Slots : /\ blk'[s].num = blk[s].num /\ blk'[s].data = blk[s].data
                       /\ blk'[s].ref = blk[s].ref /\ blk'[s].mod = blk[s].mod
                       /\ ~InUse(s) => blk'[s] = Unused
  BY <1>2, <1>3 DEF SyncFacts
<1>5. blk' \in [Slots -> SlotType] /\ disk' \in [Blocks -> Values]
      /\ DOMAIN rb' = DOMAIN rb /\ \A n \in DOMAIN rb : rb'[n] \in Values
  BY <1>2, <1>3 DEF SyncFacts
<1>6. TypeOK'
  <2>1. {s \in Slots : blk'[s].num # -1} = {s \in Slots : InUse(s)}
    BY <1>4 DEF InUse
  <2>2. \A s, t \in Slots : blk'[s].num # -1 /\ blk'[s].num = blk'[t].num => s = t
    BY <1>4 DEF IInv, TypeOK, InUse
  <2>3. \A s \in Slots : blk'[s].num = -1 => blk'[s] = Unused
    BY <1>4 DEF InUse
  <2> QED
    BY <1>3, <1>5, <2>1, <2>2, <2>3 DEF IInv, TypeOK, InUse, SlotType
<1>7. WritersHold' /\ SlotsTrue'
  BY <1>3, <1>4 DEF IInv, WritersHold, SlotsTrue, InUse
<1>8. BufferTrue' /\ DeviceTrue'
  BY <1>2, <1>3 DEF SyncFacts, BufferTrue, DeviceTrue
<1> QED
  BY <1>6, <1>7, <1>8 DEF IInv

(* Unmounting and mounting again: only refused writes are lost.            *)
LEMMA RemountIInv ==
    ASSUME IInv, Remount
    PROVE  IInv'
<1> USE CacheAssumption
<1>1. PICK F \in SUBSET Dirty :
         /\ disk' = cache_sync_block(Dirty, F).disk
         /\ lost' = lost \cup {blk[s].num : s \in F}
  BY DEF Remount
<1> DEFINE st == cache_sync_block(Dirty, F)
<1>2. SyncFacts(st, Dirty, F)
  BY SyncSafe
<1>3. /\ blk' = [s \in Slots |-> Unused] /\ lru' = <<>> /\ rb' = [n \in {} |-> Blank]
      /\ truth' = truth /\ dangling' = dangling
      /\ \A s \in Slots : blk[s].ref = 0
  BY DEF Remount
<1>4. disk' = st.disk
  BY <1>1
<1> HIDE DEF st
<1>5. /\ Unused \in SlotType /\ Unused.num = -1 /\ ~Unused.mod
      /\ \A s \in Slots : blk'[s] = Unused
  BY <1>3 DEF Unused, SlotType
<1>6. TypeOK'
  <2>1. lru' \in Seq(Slots) /\ ToSet(lru') = {} /\ IsInjective(lru')
    BY <1>3 DEF ToSet, IsInjective
  <2>2. blk' \in [Slots -> SlotType] /\ {s \in Slots : blk'[s].num # -1} = {}
    BY <1>3, <1>5
  <2>3. lost' \subseteq Blocks
    BY <1>1 DEF IInv, TypeOK, Dirty, InUse, Unused
  <2>4. disk' \in [Blocks -> Values] /\ DOMAIN rb' = {}
    BY <1>2, <1>3, <1>4 DEF SyncFacts
  <2> QED
    BY <1>3, <1>5, <2>1, <2>2, <2>3, <2>4 DEF IInv, TypeOK, InUse, SlotType
<1>7. WritersHold' /\ SlotsTrue'
  BY <1>5 DEF WritersHold, SlotsTrue, InUse
<1>8. DeviceTrue'
  <2>1. ASSUME NEW n \in Blocks \ lost'
        PROVE  disk'[n] = truth'[n]
    <3>1. n \in Blocks \ lost /\ \A s \in F : blk[s].num # n
      BY <1>1, <2>1
    <3>2. ASSUME NEW s \in Slots, blk[s].num = n
          PROVE  ~st.blk[s].dirty /\ ~st.blk[s].mod
      BY <1>2, <1>3, <3>1, <3>2 DEF SyncFacts, IInv, WritersHold, Dirty
    <3>3. Settled(st.blk, n)
      BY <1>2, <3>2 DEF Settled, SyncFacts
    <3> QED
      BY <1>2, <1>3, <1>4, <3>1, <3>3 DEF SyncFacts
  <2> QED
    BY <2>1 DEF DeviceTrue
<1>9. BufferTrue'
  BY <1>3 DEF BufferTrue
<1> QED
  BY <1>6, <1>7, <1>8, <1>9 DEF IInv

(* Every step of the cache keeps the invariant.                            *)
LEMMA StepIInv == IInv /\ [Next]_vars => IInv'
<1> SUFFICES ASSUME IInv, [Next]_vars PROVE IInv'
  OBVIOUS
<1>1. CASE UNCHANGED vars
  BY <1>1
  DEF vars, IInv, TypeOK, WritersHold, SlotsTrue, BufferTrue, DeviceTrue, Settled, InUse
<1>2. ASSUME NEW n \in Blocks, cdi_cache_block_get(n)
      PROVE  IInv'
  BY <1>2, GetHitIInv, GetMissIInv, GetReadFailsIInv DEF cdi_cache_block_get
<1>3. ASSUME NEW n \in Blocks, NEW v \in Values, GetNoread(n, v)
      PROVE  IInv'
  BY <1>3, GetNoreadIInv
<1>4. ASSUME NEW s \in Slots, NEW v \in Values, Modify(s, v)
      PROVE  IInv'
  BY <1>4, ModifyIInv
<1>5. ASSUME NEW s \in Slots, cdi_cache_block_dirty(s) \/ cdi_cache_block_release(s)
      PROVE  IInv'
  BY <1>5, DirtyIInv, ReleaseIInv
<1>6. CASE cdi_cache_sync \/ Remount
  BY <1>6, SyncIInv, RemountIInv
<1> QED
  BY <1>1, <1>2, <1>3, <1>4, <1>5, <1>6 DEF Next

-----------------------------------------------------------------------------
(* What a reader of block n is handed, and what a loss of power costs.     *)
LEMMA CorrectFromIInv == IInv => CacheCorrect
<1> SUFFICES ASSUME IInv PROVE CacheCorrect
  OBVIOUS
<1>1. Durable
  <2>1. ASSUME NEW n \in Blocks \ lost, \A s \in Found(n) : ~blk[s].dirty /\ ~blk[s].mod
        PROVE  disk[n] = truth[n]
    <3>1. Settled(blk, n)
      BY <2>1 DEF Found, Settled
    <3> QED
      BY <3>1 DEF IInv, DeviceTrue
  <2> QED
    BY <2>1 DEF Durable
<1>2. ASSUME NEW n \in Blocks \ lost
      PROVE  Visible(n) = truth[n]
  <2>1. CASE Found(n) # {}
    <3>1. PICK s : s \in Found(n) /\ s = CHOOSE t \in Found(n) : TRUE
      BY <2>1
    <3>2. s \in Slots /\ blk[s].num = n /\ InUse(s)
      BY <3>1 DEF Found, InUse, Blocks
    <3> QED
      BY <2>1, <3>1, <3>2 DEF Visible, IInv, SlotsTrue
  <2>2. CASE Found(n) = {}
    <3>1. Settled(blk, n)
      BY <2>2 DEF Found, Settled
    <3> QED
      BY <2>2, <3>1 DEF Visible, IInv, BufferTrue, DeviceTrue
  <2> QED
    BY <2>1, <2>2
<1> QED
  BY <1>1, <1>2 DEF CacheCorrect, Transparent, IInv

(* CacheCorrect (cache.c): whatever was evicted, read ahead, written back, *)
(* refused or remounted, getting a block yields what it was last given,    *)
(* and what is neither dirty nor being modified is on the device, but for  *)
(* blocks that were evicted although the device refused them.              *)
THEOREM CacheIsCorrect == Spec => []CacheCorrect
<1>1. IInv => CacheCorrect
  BY CorrectFromIInv
<1> QED
  BY InitIInv, StepIInv, <1>1, PTL DEF Spec

(* A step that only a holder of slot s or nobody's eviction takes.         *)
HeldKept(s) ==
    blk[s].ref > 0 =>
        /\ blk'[s].num = blk[s].num
        /\ blk'[s].data # blk[s].data =>
               blk'[s].mod /\ truth'[blk[s].num] = blk'[s].data

(* A slot that goes to another block is nobody's, and the others are only  *)
(* synced.                                                                 *)
LEMMA MissKeepsHeld ==
    ASSUME IInv, NEW s \in Slots, NEW t \in Target, NEW F \in SUBSET MustSync(t), NEW w,
           blk' = [cache_sync_block(MustSync(t), F).blk EXCEPT ![t] = w]
    PROVE  HeldKept(s)
<1> DEFINE st == cache_sync_block(MustSync(t), F)
<1>1. SyncFacts(st, MustSync(t), F) /\ blk[t].ref = 0
  BY SyncSafe, TargetIsFree DEF MustSync
<1> HIDE DEF st
<1>2. s # t => blk'[s] = st.blk[s]
  BY <1>1 DEF SyncFacts, st
<1> QED
  BY <1>1, <1>2 DEF SyncFacts, HeldKept

(* HeldStays (cache.c: find_replaceable, ref_count): no step takes a held  *)
(* slot away from its block, or changes its data, except a user's write.   *)
THEOREM HeldBlocksStay == Spec => HeldStays
<1>1. IInv /\ [Next]_vars => \A s \in Slots : HeldKept(s)
  <2> SUFFICES ASSUME IInv, [Next]_vars, NEW s \in Slots, blk[s].ref > 0
               PROVE  HeldKept(s)
    BY DEF HeldKept
  <2>0. blk \in [Slots -> SlotType] /\ truth \in [Blocks -> Values] /\ blk[s].num \in Blocks
    BY HeldIsUsed DEF IInv, TypeOK, SlotType
  <2>1. CASE UNCHANGED vars
    BY <2>1 DEF vars, HeldKept
  <2>2. ASSUME NEW n \in Blocks, GetHit(n)
        PROVE  HeldKept(s)
    BY <2>0, <2>2 DEF GetHit, Found, HeldKept, SlotType
  <2>3. ASSUME NEW n \in Blocks, GetMiss(n)
        PROVE  HeldKept(s)
    <3>1. PICK t \in Target : \E F \in SUBSET MustSync(t) : \E w :
             blk' = [cache_sync_block(MustSync(t), F).blk EXCEPT ![t] = w]
      BY <2>3 DEF GetMiss, Renamed
    <3> QED
      BY <3>1, MissKeepsHeld
  <2>4. ASSUME NEW n \in Blocks, GetReadFails(n)
        PROVE  HeldKept(s)
    <3>1. PICK t \in Target : \E F \in SUBSET MustSync(t) : \E w :
             blk' = [cache_sync_block(MustSync(t), F).blk EXCEPT ![t] = w]
      BY <2>4 DEF GetReadFails
    <3> QED
      BY <3>1, MissKeepsHeld
  <2>5. ASSUME NEW n \in Blocks, NEW v \in Values, GetNoread(n, v)
        PROVE  HeldKept(s)
    <3>1. ASSUME NEW t \in Found(n),
                 blk' = [blk EXCEPT ![t].data = v, ![t].mod = TRUE, ![t].ref = @ + 1]
          PROVE  HeldKept(s)
      <4>1. truth'[n] = v /\ t \in Slots /\ blk[t].num = n
        BY <2>5, <2>0 DEF GetNoread, Found
      <4>2. CASE s = t
        BY <2>0, <3>1, <4>1, <4>2 DEF HeldKept, SlotType
      <4>3. CASE s # t
        BY <2>0, <3>1, <4>1, <4>3 DEF HeldKept, SlotType
      <4> QED
        BY <4>2, <4>3
    <3>2. ASSUME NEW t \in Target, \E F \in SUBSET MustSync(t) : \E w :
                    blk' = [cache_sync_block(MustSync(t), F).blk EXCEPT ![t] = w]
          PROVE  HeldKept(s)
      BY <3>2, MissKeepsHeld
    <3> QED
      BY <2>5, <3>1, <3>2 DEF GetNoread, Renamed
  <2>6. ASSUME NEW t \in Slots, NEW v \in Values, Modify(t, v)
        PROVE  HeldKept(s)
    <3>1. CASE s = t
      BY <2>0, <2>6, <3>1 DEF Modify, HeldKept, SlotType
    <3>2. CASE s # t
      BY <2>0, <2>6, <3>2 DEF Modify, HeldKept, SlotType
    <3> QED
      BY <3>1, <3>2
  <2>7. ASSUME NEW t \in Slots, cdi_cache_block_dirty(t) \/ cdi_cache_block_release(t)
        PROVE  HeldKept(s)
    BY <2>0, <2>7 DEF cdi_cache_block_dirty, cdi_cache_block_release, HeldKept, SlotType
  <2>8. CASE cdi_cache_sync
    <3>1. PICK F \in SUBSET Dirty : blk' = cache_sync_block(Dirty, F).blk
      BY <2>8 DEF cdi_cache_sync
    <3>2. SyncFacts(cache_sync_block(Dirty, F), Dirty, F)
      BY SyncSafe
    <3> QED
      BY <3>1, <3>2 DEF SyncFacts, HeldKept
  <2>9. CASE Remount
    BY <2>9 DEF Remount
  <2> QED
    BY <2>1, <2>2, <2>3, <2>4, <2>5, <2>6, <2>7, <2>8, <2>9 DEF Next, cdi_cache_block_get
<1>2. IInv /\ [Next]_vars => [\A s \in Slots : HeldKept(s)]_vars
  BY <1>1
<1>3. HeldStays <=> [][\A s \in Slots : HeldKept(s)]_vars
  BY DEF HeldStays, HeldKept
<1> QED
  BY InitIInv, StepIInv, <1>2, <1>3, PTL DEF Spec
=============================================================================
