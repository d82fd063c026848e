------------------------------ MODULE Storage -------------------------------
(* The server that every CDI storage driver is linked with                   *)
(* (lib/common/cdi/storage.c): the partitions of a device, and pipes that    *)
(* read and write its bytes through whole blocks.  A device is a sequence of *)
(* words, BlockSize to a block; a word that the server writes from a buffer  *)
(* it never filled is Junk.  The driver (external) may fail at any request,  *)
(* after some of the blocks of a write, and fails behind the end of the      *)
(* device; the partition tables can be read.                                 *)
EXTENDS Integers, Sequences, FiniteSets, FiniteSetsExt, SequencesExt

CONSTANTS
  Files,
  BlockSize, DevBlocks,
  MaxParts,    \* room for partitions: 16 in the code
  Tables,      \* the partition tables: block -> sequence of [lba, len, ext]
  Lengths,     \* sizes of reads and writes
  Values,      \* what a write stores
  MaxDirty     \* bound: words that were written when another write begins

VARIABLES
  parts,       \* the partitions that were found; NotFound before
  disk,        \* word -> its contents
  file,        \* open pipes
  wrong        \* a request returned or changed the wrong words

vars == <<parts, disk, file, wrong>>

NotFound == <<[start |-> -1, len |-> 0]>>
Junk     == 9
NoFile   == [type |-> "none", part |-> 0, pos |-> 0]
DevWords == 0 .. DevBlocks * BlockSize - 1

Init ==
  /\ parts = NotFound
  /\ disk = [w \in DevWords |-> 0]
  /\ file = [f \in Files |-> NoFile]
  /\ wrong = FALSE

------------------------------------------------------------------------------
(* cdi_storage_device_init *)

(* One table: the partitions in it up to the limit, and the last pointer to  *)
(* another table, 0 when there is none or the limit is reached.              *)
ScanTable(found, table) ==
  FoldLeft(LAMBDA s, e :
             IF s.full \/ e.lba = 0 THEN s
             ELSE IF e.ext THEN [s EXCEPT !.more = e.lba]
             ELSE LET p == Append(s.p, [start |-> e.lba, len |-> e.len])
                  IN  [p |-> p, full |-> Len(p) >= MaxParts,
                       more |-> IF Len(p) >= MaxParts THEN 0 ELSE s.more],
           [p |-> found, full |-> FALSE, more |-> 0], table)

(* The chain of tables; the ones behind the first have two entries.          *)
Partitions(tables) ==
  LET go[n \in 0 .. Cardinality(DOMAIN tables)] ==
        IF n = 0 THEN ScanTable(<<>>, tables[0])
        ELSE LET s == go[n - 1]
             IN  IF s.more = 0 THEN s
                 ELSE ScanTable(s.p, SubSeq(tables[s.more], 1,
                                            Min({2, Len(tables[s.more])})))
  IN  go[Cardinality(DOMAIN tables)].p

DeviceInit ==
  /\ parts = NotFound
  /\ parts' = Partitions(Tables)
  /\ UNCHANGED <<disk, file, wrong>>

------------------------------------------------------------------------------
(* Pipes *)

(* cdi_storage_create_pipe: the listing (part -1), the whole device (0) or a *)
(* partition; another name fails.                                            *)
Create(f, part) ==
  /\ parts # NotFound
  /\ file[f] = NoFile
  /\ part \in -1 .. Len(parts)
  /\ file' = [file EXCEPT ![f] = [type |-> IF part < 0 THEN "dir" ELSE "dev",
                                  part |-> part, pos |-> 0]]
  /\ UNCHANGED <<parts, disk, wrong>>

(* cdi_storage_duplicate_pipe *)
Duplicate(f, g) ==
  /\ file[f] # NoFile /\ file[g] = NoFile
  /\ file' = [file EXCEPT ![g] = file[f]]
  /\ UNCHANGED <<parts, disk, wrong>>

(* cdi_storage_destroy_pipe *)
Destroy(f) ==
  /\ file[f] # NoFile
  /\ file' = [file EXCEPT ![f] = NoFile]
  /\ UNCHANGED <<parts, disk, wrong>>

FirstBlock(f) == IF file[f].part = 0 THEN 0 ELSE parts[file[f].part].start

(* F_FILESIZE; a listing holds one unit for each name and one for its end.   *)
SizeOf(f) ==
  IF file[f].type = "dir" THEN Len(parts) + 2
  ELSE BlockSize * (IF file[f].part = 0 THEN DevBlocks ELSE parts[file[f].part].len)

(* cdi_storage_pipe_get_flag: F_PRESSURE, and how much of a request it lets  *)
(* through: it is unsigned, so all of it behind the end of a partition.      *)
Pressure(f) == SizeOf(f) - file[f].pos
Inside(f)   == Pressure(f) >= 0
CopySize(f, size) == IF Inside(f) /\ size > Pressure(f) THEN Pressure(f) ELSE size

(* cdi_storage_pipe_set_flag: F_POSITION, limited by the size of the device  *)
(* (not of the partition) or of the listing.                                 *)
SetPosition(f, n) ==
  /\ file[f] # NoFile
  /\ file' = [file EXCEPT ![f].pos =
       Min({n, IF file[f].type = "dir" THEN SizeOf(f) ELSE DevBlocks * BlockSize})]
  /\ UNCHANGED <<parts, disk, wrong>>

(* Faulty: the offset of the first word in its block is not counted.         *)
BlockCountShort(pos, n) == (n + BlockSize - 1) \div BlockSize

(* Blocks that a request touches. *)
BlockCount(pos, n) == (n + (pos % BlockSize) + BlockSize - 1) \div BlockSize

(* cdi_storage_stream_recv of a listing *)
RecvDir(f, size) ==
  /\ file[f].type = "dir"
  /\ file' = [file EXCEPT ![f].pos = @ + Min({size, Pressure(f)})]
  /\ UNCHANGED <<parts, disk, wrong>>

(* Where a request for n words begins: its first block, the offset in it,    *)
(* its first word; the words of its blocks, and those the pipe is for.       *)
Block(f)    == FirstBlock(f) + file[f].pos \div BlockSize
Offset(f)   == file[f].pos % BlockSize
Base(f)     == FirstBlock(f) * BlockSize + file[f].pos
Asked(f, n) == Base(f) .. Base(f) + n - 1
Touched(f, n) ==
  Block(f) * BlockSize .. (Block(f) + BlockCount(file[f].pos, n)) * BlockSize - 1
Own(f)      == FirstBlock(f) * BlockSize .. FirstBlock(f) * BlockSize + SizeOf(f) - 1

(* cdi_storage_stream_recv of a device or partition: what lies at the offset *)
(* in the blocks is returned.  A read that fails changes nothing.            *)
Recv(f, size) ==
  LET n   == CopySize(f, size)
      got == Block(f) * BlockSize + Offset(f) ..
             Min({Block(f) * BlockSize + Offset(f) + n - 1, Max(Touched(f, n))})
  IN  /\ file[f].type = "dev" /\ n > 0
      /\ Touched(f, n) \subseteq DevWords
      /\ file' = [file EXCEPT ![f].pos = @ + n]
      /\ wrong' = (wrong \/ got # Asked(f, n) \/ (Inside(f) /\ ~(got \subseteq Own(f))))
      /\ UNCHANGED <<parts, disk>>

(* The words that are read before a write: of the first block when the       *)
(* request starts inside it, of the last one when it ends inside it and is   *)
(* another one.  Neither result is looked at: failed are those that failed.  *)
Head1(f, n) == IF Offset(f) = 0 THEN {}
               ELSE {w \in Touched(f, n) : w \div BlockSize = Block(f)}
Tail1(f, n) == IF (file[f].pos + n) % BlockSize = 0 \/ Offset(f) + n <= BlockSize THEN {}
               ELSE {w \in Touched(f, n) :
                       w \div BlockSize = FirstBlock(f) + (file[f].pos + n) \div BlockSize}

WriteBuffer(f, n, value, failed) ==
  [w \in Touched(f, n) |->
     IF w \in Asked(f, n) THEN value
     ELSE IF w \in (Head1(f, n) \cup Tail1(f, n)) \ failed /\ w \in DevWords THEN disk[w]
     ELSE Junk]

(* A write of less than a block at the beginning of a block reads nothing    *)
(* before, and writes the rest of the block from what the buffer held.       *)
Filled(f, n) == Offset(f) # 0 \/ n >= BlockSize

(* cdi_storage_stream_send; a listing refuses it.  A write that fails leaves *)
(* the position, though some of its blocks may be on the device.  Words that *)
(* were not asked for may change only if they could not be read before.      *)
Send(f, size, value) ==
  LET n == CopySize(f, size)
  IN  /\ file[f].type = "dev" /\ n > 0
      /\ Cardinality({w \in DevWords : disk[w] # 0}) <= MaxDirty
      /\ \E failed \in {{}, Head1(f, n), Tail1(f, n), Head1(f, n) \cup Tail1(f, n)},
            done \in 0 .. BlockCount(file[f].pos, n) :
           LET buf     == WriteBuffer(f, n, value, failed)
               success == done = BlockCount(file[f].pos, n)
               written == {w \in Touched(f, n) : w < (Block(f) + done) * BlockSize}
           IN  /\ written \subseteq DevWords
               /\ disk' = [w \in DevWords |-> IF w \in written THEN buf[w] ELSE disk[w]]
               /\ file' = [file EXCEPT ![f].pos = IF success THEN @ + n ELSE @]
               /\ wrong' =
                    \/ wrong
                    \/ success /\ \E w \in Asked(f, n) : disk'[w] # value
                    \/ \E w \in DevWords \ Asked(f, n) :
                         /\ disk'[w] # disk[w]
                         /\ \/ Filled(f, n) /\ failed = {}
                            \/ Inside(f) /\ w \notin Own(f)
      /\ UNCHANGED parts

Next ==
  \/ DeviceInit
  \/ \E f \in Files :
       \/ \E part \in -1 .. MaxParts : Create(f, part)
       \/ \E g \in Files : Duplicate(f, g)
       \/ Destroy(f)
       \/ \E n \in 0 .. DevBlocks * BlockSize : SetPosition(f, n)
       \/ \E n \in Lengths : Recv(f, n) \/ RecvDir(f, n) \/ \E v \in Values : Send(f, n, v)

Spec == Init /\ [][Next]_vars

------------------------------------------------------------------------------
(* Every partition lies on the device and none shares a block with another   *)
(* (when the tables on the disk say so); a position is on the device; a      *)
(* request that succeeds reads or writes just the words asked for, and from  *)
(* inside its partition none of another one; it changes other words of its   *)
(* blocks only when reading them before failed, or was not tried because it  *)
(* is shorter than a block and starts one (lib/common/cdi/storage.c).        *)
DiskCorrect ==
  /\ ~wrong
  /\ parts # NotFound =>
       /\ Len(parts) <= MaxParts
       /\ \A i, j \in 1 .. Len(parts) :
            /\ parts[i].start + parts[i].len <= DevBlocks
            /\ i < j => \/ parts[i].start + parts[i].len <= parts[j].start
                        \/ parts[j].start + parts[j].len <= parts[i].start
       /\ \A f \in Files : file[f] # NoFile => file[f].pos <= Max({SizeOf(f), DevBlocks * BlockSize})
==============================================================================
