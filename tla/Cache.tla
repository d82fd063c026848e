------------------------------- MODULE Cache -------------------------------
(***************************************************************************)
(* The block cache between a file system driver and its device:            *)
(* lib/common/cdi/cache.c, with the callbacks and the users that           *)
(* progs/common/ext2 gives it.                                             *)
(*                                                                         *)
(* A block of the device is one value.  The cache holds at most 256 of     *)
(* them (Slots), in a search tree by block number and in a list from the   *)
(* least to the most recently used; beside it a read buffer holds the      *)
(* ReadBufSz (128) blocks the device was last read from.  The tree is      *)
(* abstracted to the block numbers of the slots, and with it the           *)
(* hints, a shortcut for the same search.  Nothing is locked (fs.c says    *)
(* "TODO: Locking"), so requests are taken to come one after the other and *)
(* every function of the cache is one step.                                *)
(***************************************************************************)
EXTENDS Integers, Sequences, SequencesExt

CONSTANTS
    NBlocks,        \* number of blocks of the device
    Slots,          \* the struct block's the cache may hold: block_count of them
    ReadBufSz,      \* READBUF_SZ: how many blocks one read asks for
    Values,         \* contents of a block
    Blank,          \* the content of every block at first
    MaxRefs         \* bound: references held on one block

ASSUME CacheAssumption ==
    /\ NBlocks \in Nat /\ ReadBufSz \in Nat \ {0}
    /\ Blank \in Values /\ MaxRefs \in Nat \ {0}

Blocks == 0 .. NBlocks - 1

VARIABLES
    disk,       \* the device: content of each block
    blk,        \* the struct block's
    lru,        \* slots in use, from lru_first to lru_last
    rb,         \* read buffer: the blocks it holds, with their contents
    truth,      \* history: what each block was last given by its user
    lost,       \* history: blocks evicted although writing them failed
    dangling    \* pointers to a struct block that was freed

vars == <<disk, blk, lru, rb, truth, lost, dangling>>

----------------------------------------------------------------------------
(* A slot.  "mod": its user wrote into the data and has not marked it yet. *)
Unused == [num |-> -1, data |-> Blank, ref |-> 0, dirty |-> FALSE, mod |-> FALSE]
InUse(s) == blk[s].num # -1

Init ==
    /\ disk = [n \in Blocks |-> Blank]
    /\ blk = [s \in Slots |-> Unused]
    /\ lru = <<>>
    /\ rb = [n \in {} |-> Blank]
    /\ truth = disk
    /\ lost = {}
    /\ dangling = {}

(* tree_search, get_hint: the slot of block n, if there is one.            *)
Found(n) == {s \in Slots : blk[s].num = n}

(* Faulty: the read buffer is left as it was read.                         *)
cache_sync_blockStaleBuffer(D, F) ==
    LET Of(n, S) == {s \in S : blk[s].num = n} IN
    [disk |-> [n \in Blocks |-> IF Of(n, D \ F) # {}
                                THEN blk[CHOOSE s \in Of(n, D \ F) : TRUE].data
                                ELSE disk[n]],
     rb   |-> rb,
     blk  |-> [s \in Slots |-> IF s \in D \ F THEN [blk[s] EXCEPT !.dirty = FALSE]
                               ELSE blk[s]]]

(* The state of the device, the slots and the read buffer after the slots  *)
(* D were synced, the writes of those in F being refused: the buffer is    *)
(* refreshed before the write is tried, and dirty falls only when it       *)
(* succeeds.                                                               *)
cache_sync_block(D, F) ==
    LET Of(n, S) == {s \in S : blk[s].num = n} IN
    [disk |-> [n \in Blocks |-> IF Of(n, D \ F) # {}
                                THEN blk[CHOOSE s \in Of(n, D \ F) : TRUE].data
                                ELSE disk[n]],
     rb   |-> [n \in DOMAIN rb |-> IF Of(n, D) # {}
                                   THEN blk[CHOOSE s \in Of(n, D) : TRUE].data
                                   ELSE rb[n]],
     blk  |-> [s \in Slots |-> IF s \in D \ F THEN [blk[s] EXCEPT !.dirty = FALSE]
                               ELSE blk[s]]]

Dirty == {s \in Slots : blk[s].dirty}

cdi_cache_sync ==
    \E F \in SUBSET Dirty :
        LET st == cache_sync_block(Dirty, F) IN
        /\ disk' = st.disk /\ rb' = st.rb /\ blk' = st.blk
        /\ UNCHANGED <<lru, truth, lost, dangling>>

----------------------------------------------------------------------------
(* Faulty: the reference count is not looked at.                           *)
ReplaceableHeld == {lru[i] : i \in {1} \cap DOMAIN lru}

(* The least recently used slot nobody holds.                              *)
Replaceable ==
    {lru[i] : i \in {i \in DOMAIN lru :
        blk[lru[i]].ref = 0 /\ \A j \in 1 .. i - 1 : blk[lru[j]].ref > 0}}

(* The slot a missing block goes to: a new one as long as there may be     *)
(* more, else the replaceable one; none when every slot is held.           *)
Target ==
    IF \E s \in Slots : ~InUse(s)
    THEN {s \in Slots : ~InUse(s)}
    ELSE Replaceable

(* find_replaceable writes back every dirty block as soon as the one it    *)
(* found is dirty.                                                         *)
MustSync(s) == IF blk[s].dirty THEN Dirty ELSE {}

(* The read buffer load_block copies block n from.                         *)
Buffer(st, n) ==
    IF n \in DOMAIN st.rb THEN st.rb
    ELSE [m \in {m \in Blocks : n <= m /\ m < n + ReadBufSz} |-> st.disk[m]]

(* The list with s as its most recently used slot.                         *)
Touched(s) == Append(RemoveFirst(lru, s), s)

(* A block that is in the cache: one more reference.                       *)
GetHit(n) ==
    \E s \in Found(n) :
        /\ blk[s].ref < MaxRefs
        /\ blk' = [blk EXCEPT ![s].ref = @ + 1]
        /\ lru' = Touched(s)
        /\ UNCHANGED <<disk, rb, truth, lost, dangling>>

(* Slot s, as the syncing left it, becomes the one of block n.  A flag     *)
(* that a refused write left standing stays.                               *)
Renamed(st, s, n, v, mod) ==
    [st.blk EXCEPT ![s] = [@ EXCEPT !.num = n, !.data = v, !.ref = 1, !.mod = mod]]

(* The block that is evicted although the device refused it.               *)
LostBy(F, s) == IF s \in F THEN {blk[s].num} ELSE {}

(* A block that is not, read from the device or the read buffer.           *)
GetMiss(n) ==
    /\ Found(n) = {}
    /\ \E s \in Target : \E F \in SUBSET MustSync(s) :
        LET st == cache_sync_block(MustSync(s), F)
            b  == Buffer(st, n)
        IN  /\ disk' = st.disk
            /\ rb' = b
            /\ blk' = Renamed(st, s, n, b[n], FALSE)
            /\ lru' = Touched(s)
            /\ lost' = lost \cup LostBy(F, s)
            /\ UNCHANGED <<truth, dangling>>

(* The same when the device does not deliver: the struct block is freed.   *)
(* One that replaced another leaves the tree and its neighbours in the     *)
(* list, but lru_first and lru_last keep pointing to it when they did, and *)
(* so may a hint; a new one was never in the list and stays in the tree.   *)
GetReadFails(n) ==
    /\ Found(n) = {}
    /\ \E s \in Target : \E F \in SUBSET MustSync(s), H \in SUBSET {"hints"} :
        LET st == cache_sync_block(MustSync(s), F) IN
        /\ n \notin DOMAIN st.rb
        /\ disk' = st.disk
        /\ rb' = [m \in {} |-> Blank]
        /\ blk' = [st.blk EXCEPT ![s] = Unused]
        /\ lru' = RemoveFirst(lru, s)
        /\ lost' = lost \cup LostBy(F, s)
        /\ dangling' = IF InUse(s)
                       THEN H \cup {p \in {"lru_first", "lru_last"} :
                                      s = IF p = "lru_first" THEN Head(lru) ELSE Last(lru)}
                       ELSE {"tree"}
        /\ UNCHANGED truth

cdi_cache_block_get(n) == GetHit(n) \/ GetMiss(n) \/ GetReadFails(n)

(* With noread, for a block that is overwritten as a whole at once         *)
(* (writeblk, block_alloc): what the slot held before does not matter.     *)
GetNoread(n, v) ==
    /\ \/ \E s \in Found(n) :
            /\ blk[s].ref < MaxRefs
            /\ blk' = [blk EXCEPT ![s].data = v, ![s].mod = TRUE, ![s].ref = @ + 1]
            /\ lru' = Touched(s)
            /\ lost' = lost \ {n}
            /\ UNCHANGED <<disk, rb>>
       \/ /\ Found(n) = {}
          /\ \E s \in Target : \E F \in SUBSET MustSync(s) :
               LET st == cache_sync_block(MustSync(s), F) IN
               /\ disk' = st.disk /\ rb' = st.rb
               /\ blk' = Renamed(st, s, n, v, TRUE)
               /\ lru' = Touched(s)
               /\ lost' = (lost \cup LostBy(F, s)) \ {n}
    /\ truth' = [truth EXCEPT ![n] = v]
    /\ UNCHANGED dangling

(* A user that holds a block writes into it: an inode, a bitmap, a table.  *)
Modify(s, v) ==
    /\ blk[s].ref > 0
    /\ blk' = [blk EXCEPT ![s].data = v, ![s].mod = TRUE]
    /\ truth' = [truth EXCEPT ![blk[s].num] = v]
    /\ lost' = lost \ {blk[s].num}
    /\ UNCHANGED <<disk, lru, rb, dangling>>

cdi_cache_block_dirty(s) ==
    /\ blk[s].ref > 0
    /\ blk' = [blk EXCEPT ![s].dirty = TRUE, ![s].mod = FALSE]
    /\ UNCHANGED <<disk, lru, rb, truth, lost, dangling>>

(* Users mark what they changed before they let go of it                   *)
(* (ext2_inode_update, cache_block_free with its dirty argument).          *)
cdi_cache_block_release(s) ==
    /\ blk[s].ref > 0
    /\ blk[s].ref = 1 => ~blk[s].mod
    /\ blk' = [blk EXCEPT ![s].ref = @ - 1]
    /\ UNCHANGED <<disk, lru, rb, truth, lost, dangling>>

(* cdi_cache_destroy when a file system is unmounted, every block having   *)
(* been released, and cdi_cache_create when it is mounted again.           *)
Remount ==
    /\ \A s \in Slots : blk[s].ref = 0
    /\ \E F \in SUBSET Dirty :
        /\ disk' = cache_sync_block(Dirty, F).disk
        /\ lost' = lost \cup {blk[s].num : s \in F}
    /\ blk' = [s \in Slots |-> Unused]
    /\ lru' = <<>>
    /\ rb' = [n \in {} |-> Blank]
    /\ UNCHANGED <<truth, dangling>>

Next ==
    /\ dangling = {}    \* what using a freed block does is undefined
    /\ \/ \E n \in Blocks : cdi_cache_block_get(n)
       \/ \E n \in Blocks, v \in Values : GetNoread(n, v)
       \/ \E s \in Slots, v \in Values : Modify(s, v)
       \/ \E s \in Slots : cdi_cache_block_dirty(s)
       \/ \E s \in Slots : cdi_cache_block_release(s)
       \/ cdi_cache_sync
       \/ Remount

Spec == Init /\ [][Next]_vars

----------------------------------------------------------------------------
(* Every slot, list entry and buffered block is one the code can hold:     *)
(* cdi_cache_block_get never has two slots for one block, the list is of   *)
(* exactly the slots in use, and references stand only on those.           *)
TypeOK ==
    /\ disk \in [Blocks -> Values] /\ truth \in [Blocks -> Values]
    /\ blk \in [Slots -> [num : Blocks \cup {-1}, data : Values,
                          ref : 0 .. MaxRefs, dirty : BOOLEAN, mod : BOOLEAN]]
    /\ \A s, t \in Slots : InUse(s) /\ blk[s].num = blk[t].num => s = t
    /\ lru \in Seq(Slots) /\ ToSet(lru) = {s \in Slots : InUse(s)} /\ IsInjective(lru)
    /\ \A s \in Slots : ~InUse(s) => blk[s] = Unused
    /\ DOMAIN rb \subseteq Blocks /\ \A n \in DOMAIN rb : rb[n] \in Values
    /\ lost \subseteq Blocks
    /\ dangling \subseteq {"lru_first", "lru_last", "tree", "hints"}

(* What the next cdi_cache_block_get(n) hands out.                         *)
Visible(n) ==
    IF Found(n) # {} THEN blk[CHOOSE s \in Found(n) : TRUE].data
    ELSE IF n \in DOMAIN rb THEN rb[n] ELSE disk[n]

(* Caching is transparent: whatever was evicted, read ahead, written back  *)
(* or remounted since, getting a block yields what it was last given,      *)
(* unless the block was evicted although the device refused it.            *)
Transparent == \A n \in Blocks \ lost : Visible(n) = truth[n]

(* What a loss of power costs: a block that is neither marked dirty nor    *)
(* being modified in the cache is on the device as it was last given.  So  *)
(* after a cdi_cache_sync that met no refusal, everything marked is safe.  *)
Durable ==
    \A n \in Blocks \ lost :
        (\A s \in Found(n) : ~blk[s].dirty /\ ~blk[s].mod) => disk[n] = truth[n]

(* CacheCorrect: nobody can tell a cached block from one on the device,    *)
(* and after a sync the device has it too.                                 *)
CacheCorrect == TypeOK /\ Transparent /\ Durable

(* "Dabei wird intern ein Referenzzaehler erhoeht, sodass der Block nicht  *)
(* freigegeben wird, solange er benutzt wird": no step takes a held slot   *)
(* away from its block, or changes its data, except the user's own write.  *)
HeldStays ==
    [][\A s \in Slots : blk[s].ref > 0 =>
            /\ blk'[s].num = blk[s].num
            /\ blk'[s].data # blk[s].data =>
                   blk'[s].mod /\ truth'[blk[s].num] = blk'[s].data]_vars

(* "Wenn der Knoten bis jetzt im Baum war, muss er rausgeworfen werden",   *)
(* "Auch aus der LRU-Liste muss der Block ggf. entfernt werden": a struct  *)
(* block freed because it could not be read is in neither any more.        *)
FreedIsForgotten == dangling = {}

(* Slots are chosen and compared only as slots: permuting them is a        *)
(* symmetry.                                                               *)
Symmetry == Permutations(Slots)
=============================================================================
