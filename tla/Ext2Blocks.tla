----------------------------- MODULE Ext2Blocks -----------------------------
(* The block and inode allocation of libext2 (libext2_inode.c): the two      *)
(* bitmaps with their counters in the superblock and in the group            *)
(* descriptors, the direct, indirect and double indirect block tables of an  *)
(* inode, and reading, writing, truncating and freeing through them.  A      *)
(* block is PerBlock words; a table entry is one word, as on the disk.  The  *)
(* block cache below is transparent (module Cache) and is left out; requests *)
(* of the file system server run one at a time here.                         *)
EXTENDS Integers, Sequences, FiniteSets, FiniteSetsExt, SequencesExt

CONSTANTS
  Direct,        \* direct entries of an inode: 12 in the code
  PerBlock,      \* words of a block: block_size / 4
  Groups, BlocksPerGroup, InodesPerGroup, FirstDataBlock,
  MetaBlocks,    \* blocks that mke2fs has marked used: bitmaps, tables, copies
  Boot,          \* a word of block 0, which belongs to nobody
  Writes,        \* the requests <<start, length>> of ext2_inode_writedata
  Sizes,         \* the sizes that files are truncated to
  Values,        \* the words that are written
  MaxOps         \* bound on the number of requests

VARIABLES
  fs,            \* the file system, see FsType
  ops,           \* requests so far
  wrong          \* some request changed what it had no business to change

vars == <<fs, ops, wrong>>

Bits     == 0 .. BlocksPerGroup - 1
Blocks   == FirstDataBlock .. FirstDataBlock + Groups * BlocksPerGroup - 1
Nums     == 0 .. Groups * InodesPerGroup - 1
Entries  == 0 .. Direct + 2
Words    == 0 .. PerBlock - 1
ZeroBlock == [w \in Words |-> 0]
NoInode  == [blocks |-> [e \in Entries |-> 0], size |-> 0, count |-> 0]

(* bitmap bits, counters of superblock and groups, the allocator's memory,   *)
(* the contents of the disk and the inodes by internal number.               *)
Init ==
  /\ fs = [used   |-> MetaBlocks,
           free   |-> Cardinality(Blocks \ MetaBlocks),
           bgfree |-> [g \in 0 .. Groups - 1 |->
                        Cardinality({b \in Blocks \ MetaBlocks :
                                      (b - FirstDataBlock) \div BlocksPerGroup = g})],
           prev   |-> 0,
           disk   |-> [b \in Blocks \cup {0} |->
                        IF b = 0 THEN [w \in Words |-> Boot] ELSE ZeroBlock],
           inodes |-> {0},
           ifree  |-> Groups * InodesPerGroup - 1,
           ino    |-> [n \in Nums |-> NoInode]]
  /\ ops = 0
  /\ wrong = FALSE

------------------------------------------------------------------------------
(* Blocks *)

(* block_alloc_bg: the group of the last allocation while it has room.       *)
BlockAllocBg(s) ==
  LET i    == s.prev \div BlocksPerGroup
      have == {g \in 0 .. Groups - 1 : s.bgfree[g] > 0}
  IN  IF i \in have THEN i ELSE IF have = {} THEN -1 ELSE Min(have)

FreeBits(s, g) ==
  {k \in Bits : FirstDataBlock + g * BlocksPerGroup + k \notin s.used}

(* The bit the search ends at.  block_prev_alloc is a block number of the    *)
(* device but is used as a bit of the group's bitmap.                        *)
FoundBit(s, g) ==
  LET later == {k \in FreeBits(s, g) : /\ s.prev # 0
                                       /\ s.prev \div BlocksPerGroup = g
                                       /\ k >= s.prev}
  IN  IF later # {} THEN Min(later) ELSE Min(FreeBits(s, g))

(* block_alloc: the new state and the block, 0 when the disk is full.        *)
block_alloc(s, zero) ==
  LET g == BlockAllocBg(s)
  IN  IF g = -1 \/ FreeBits(s, IF g = -1 THEN 0 ELSE g) = {} THEN [s |-> s, nr |-> 0]
      ELSE LET nr == FirstDataBlock + g * BlocksPerGroup + FoundBit(s, g)
           IN  [s |-> [s EXCEPT !.used = @ \cup {nr}, !.free = @ - 1,
                                !.bgfree[g] = @ - 1, !.prev = nr,
                                !.disk[nr] = IF zero THEN ZeroBlock ELSE @],
                nr |-> nr]

block_free(s, nr) ==
  [s EXCEPT !.used = @ \ {nr}, !.free = @ + 1,
            !.bgfree[(nr - FirstDataBlock) \div BlocksPerGroup] = @ + 1]

------------------------------------------------------------------------------
(* The way from an inode to a block *)

(* get_indirect_block_level: the entry of the inode and the offsets in the   *)
(* tables below it, outermost first.                                         *)
get_indirect_block_level(block) ==
  LET p1 == PerBlock
      p2 == PerBlock * PerBlock
      a  == block - Direct
      b  == a - p1
      c  == b - p2
  IN  IF block < Direct THEN [entry |-> block, path |-> <<>>]
      ELSE IF a < p1 THEN [entry |-> Direct, path |-> <<a>>]
      ELSE IF b < p2 THEN [entry |-> Direct + 1, path |-> <<b \div p1, b % p1>>]
      ELSE [entry |-> Direct + 2,
            path |-> <<c \div p2, (c % p2) \div p1, c % p1>>]

(* The blocks on the way: the inode's entry, then one per table; 0 from the  *)
(* first hole on.                                                            *)
Chain(s, n, way) ==
  LET c[k \in 0 .. Len(way.path)] ==
        IF k = 0 THEN s.ino[n].blocks[way.entry]
        ELSE LET above == c[k - 1]
             IN  IF above = 0 THEN 0 ELSE s.disk[above][way.path[k]]
  IN  c

(* get_block_offset with alloc = 0 *)
Lookup(s, n, block) ==
  LET way == get_indirect_block_level(block)
  IN  Chain(s, n, way)[Len(way.path)]

(* alloc = 1: every missing block of the way is allocated, the tables filled *)
(* with zeroes.  block_count grows even when the allocation failed.          *)
Ensure(s, n, block) ==
  LET way   == get_indirect_block_level(block)
      level == Len(way.path)
      step[k \in 0 .. level] ==
        LET before == IF k = 0 THEN [s |-> s, nr |-> 1] ELSE step[k - 1]
            t      == before.s
            old    == IF k = 0 THEN t.ino[n].blocks[way.entry]
                      ELSE t.disk[before.nr][way.path[k]]
            new    == block_alloc(t, k < level)
        IN  IF before.nr = 0 THEN before
            ELSE IF old # 0 THEN [s |-> t, nr |-> old]
            ELSE [s  |-> IF k = 0
                         THEN [new.s EXCEPT !.ino[n].blocks[way.entry] = new.nr,
                                            !.ino[n].count = @ + 1]
                         ELSE [new.s EXCEPT !.disk[before.nr][way.path[k]] = new.nr,
                                            !.ino[n].count = @ + 1],
                  nr |-> new.nr]
  IN  step[level]

(* alloc = 2: from the data block upwards, each block is given back while    *)
(* everything below was empty; a table is looked at before its entry is      *)
(* cleared, and a missing table is read from block 0.                        *)
Release(s, n, block) ==
  LET way   == get_indirect_block_level(block)
      level == Len(way.path)
      chain == Chain(s, n, way)
      up[k \in 0 .. level] ==
        IF k = 0 THEN [s |-> s, empty |-> TRUE]
        ELSE LET i     == level - k + 1
                 prior == up[k - 1]
                 table == chain[i - 1]
             IN  IF ~prior.empty THEN prior
                 ELSE [empty |-> \A w \in Words : prior.s.disk[table][w] = 0,
                       s |-> IF chain[i] = 0 THEN prior.s
                             ELSE [block_free(prior.s, chain[i]) EXCEPT
                                     !.disk[table][way.path[i]] = 0,
                                     !.ino[n].count = @ - 1]]
      top   == up[level]
  IN  IF /\ (level = 0 \/ (IF level = 0 THEN 0 ELSE way.path[1]) = 0)
         /\ chain[0] # 0 /\ top.empty
      THEN [block_free(top.s, chain[0]) EXCEPT !.ino[n].blocks[way.entry] = 0,
                                               !.ino[n].count = @ - 1]
      ELSE top.s

(* ext2_inode_readblk and ext2_inode_readdata: a hole reads as zeroes.       *)
ReadWord(s, n, w) ==
  LET b == Lookup(s, n, w \div PerBlock)
  IN  IF b = 0 THEN 0 ELSE s.disk[b][w % PerBlock]

(* writeblk of the block as it was, overlaid with the words of the request.  *)
writeblk(s, n, block, from, to, v) ==
  LET e == Ensure(s, n, block)
  IN  IF e.nr = 0 THEN [s |-> e.s, ok |-> FALSE]
      ELSE [s  |-> [e.s EXCEPT !.disk[e.nr] =
                      [w \in Words |-> IF block * PerBlock + w \in from .. to
                                       THEN v
                                       ELSE ReadWord(s, n, block * PerBlock + w)]],
            ok |-> TRUE]

(* The order of ext2_inode_writedata: a first block that is written in part, *)
(* then a last one, then the whole blocks between.                           *)
Order(start, len) ==
  LET a     == start \div PerBlock
      b     == (start + len - 1) \div PerBlock
      first == IF start % PerBlock # 0 THEN <<a>> ELSE <<>>
      from  == IF first = <<>> THEN a ELSE a + 1
      last  == IF from <= b /\ (start + len) % PerBlock # 0 THEN <<b>> ELSE <<>>
      to    == IF last = <<>> THEN b ELSE b - 1
  IN  first \o last \o [i \in 1 .. to - from + 1 |-> from + i - 1]

------------------------------------------------------------------------------
(* What may be seen of the files *)

FileWords == 0 .. PerBlock * (Direct + PerBlock + PerBlock * PerBlock + 1) - 1

Same(s, t, n, set) == \A w \in set : ReadWord(s, n, w) = ReadWord(t, n, w)

Others(s, t, n) == \A m \in fs.inodes \ {n} : Same(s, t, m, FileWords)

------------------------------------------------------------------------------
(* Requests *)

Limit == ops < MaxOps /\ ops' = ops + 1

(* inode_alloc, ext2_inode_alloc: the first clear bit of the first group     *)
(* that has one; the raw inode is zeroed.                                    *)
InodeAlloc ==
  /\ Limit
  /\ Nums \ fs.inodes # {}
  /\ LET n == Min(Nums \ fs.inodes)
     IN  fs' = [fs EXCEPT !.inodes = @ \cup {n}, !.ifree = @ - 1,
                          !.ino[n] = NoInode]
  /\ UNCHANGED wrong

(* ext2_inode_writedata; the size grows only when every block was written.   *)
WriteData(n, start, len, v) ==
  LET todo == Order(start, len)
      to   == start + len - 1
      go[k \in 0 .. Len(todo)] ==
        IF k = 0 THEN [s |-> fs, ok |-> TRUE]
        ELSE LET before == go[k - 1]
             IN  IF before.ok THEN writeblk(before.s, n, todo[k], start, to, v)
                 ELSE before
      end  == go[Len(todo)]
  IN  /\ Limit
      /\ fs' = IF end.ok
               THEN [end.s EXCEPT !.ino[n].size = Max({@, start + len})]
               ELSE end.s
      /\ wrong' = \/ wrong
                  \/ ~Others(fs, end.s, n)
                  \/ ~Same(fs, end.s, n, FileWords \ (start .. to))
                  \/ \E w \in start .. to :
                       ReadWord(end.s, n, w) \notin
                         {v} \cup (IF end.ok THEN {} ELSE {ReadWord(fs, n, w)})

(* Faulty: the block that holds the new end is given back as well.           *)
FirstToFreeTooEarly(size) == size \div PerBlock

FirstToFree(size) == size \div PerBlock + 1

(* ext2_inode_truncate: the block of the new end stays, with all its words.  *)
Truncate(n, size) ==
  LET first == FirstToFree(size)
      last  == (fs.ino[n].size + PerBlock - 1) \div PerBlock
      go[k \in first - 1 .. Max({first - 1, last})] ==
        IF k = first - 1 THEN fs ELSE Release(go[k - 1], n, k)
      end   == go[Max({first - 1, last})]
      kept  == {w \in FileWords : w < size}
  IN  /\ Limit
      /\ fs' = [end EXCEPT !.ino[n].size = size]
      /\ wrong' = \/ wrong
                  \/ ~Others(fs, end, n)
                  \/ ~Same(fs, end, n, kept)
                  \/ \E w \in FileWords : /\ w \div PerBlock \in first .. last
                                          /\ ReadWord(end, n, w) # 0

(* The blocks below a table, in the order free_indirect_blocks meets them.   *)
RECURSIVE Below(_, _, _)
Below(s, table, level) ==
  FlattenSeq([w \in 1 .. PerBlock |->
    LET e == s.disk[table][w - 1]
    IN  IF e = 0 THEN <<>>
        ELSE (IF level = 0 THEN <<>> ELSE Below(s, e, level - 1)) \o <<e>>])

Reachable(s, n) ==
  FlattenSeq([i \in 1 .. Direct + 3 |->
    LET b == s.ino[n].blocks[i - 1]
    IN  IF b = 0 THEN <<>>
        ELSE (IF i - 1 < Direct THEN <<>> ELSE Below(s, b, i - 1 - Direct)) \o <<b>>])

(* ext2_inode_free: the bit of the inode, then all its blocks, unless        *)
(* block_count says that it has none.                                        *)
InodeFree(n) ==
  LET given == [fs EXCEPT !.inodes = @ \ {n}, !.ifree = @ + 1]
      todo  == IF fs.ino[n].count = 0 THEN <<>> ELSE Reachable(fs, n)
      end   == FoldLeft(block_free, given, todo)
  IN  /\ Limit
      /\ fs' = end
      /\ wrong' = (wrong \/ ~Others(fs, end, n))

Next ==
  \/ InodeAlloc
  \/ \E n \in fs.inodes \ {0} :
       \/ \E r \in Writes, v \in Values : WriteData(n, r[1], r[2], v)
       \/ \E size \in Sizes : Truncate(n, size)
       \/ InodeFree(n)

Spec == Init /\ [][Next]_vars

------------------------------------------------------------------------------
TypeOK ==
  /\ fs.used \subseteq Blocks
  /\ fs.inodes \subseteq Nums
  /\ ops \in 0 .. MaxOps

(* The bitmap marks the blocks of the file system itself and those that some *)
(* inode reaches, each of them reached once; the counters of the superblock  *)
(* and of the groups say how many are left.                                  *)
BitmapExact ==
  LET all == FlattenSeq([i \in 1 .. Cardinality(Nums) |->
                          IF i - 1 \in fs.inodes THEN Reachable(fs, i - 1) ELSE <<>>])
  IN  /\ IsInjective(all)
      /\ fs.used = MetaBlocks \cup ToSet(all)
      /\ MetaBlocks \cap ToSet(all) = {}
      /\ fs.free = Cardinality(Blocks \ fs.used)
      /\ \A g \in 0 .. Groups - 1 : fs.bgfree[g] = Cardinality(FreeBits(fs, g))
      /\ fs.ifree = Cardinality(Nums \ fs.inodes)

(* block_count never says less than the inode has: otherwise freeing it      *)
(* would leave its blocks behind.                                            *)
CountCovers ==
  \A n \in fs.inodes : fs.ino[n].count >= Len(Reachable(fs, n))

(* The state of the allocator always accounts for the disk, and no request   *)
(* changes a word of another file or a word of its own file that it was not  *)
(* asked to change (libext2_inode.c, block_alloc, get_block_offset,          *)
(* ext2_inode_writedata, ext2_inode_truncate, ext2_inode_free).              *)
BlocksCorrect == TypeOK /\ BitmapExact /\ CountCovers /\ ~wrong
==============================================================================
