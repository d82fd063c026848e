------------------------------ MODULE Kmalloc -------------------------------
(* The kernel heap (kernel/common/memory/kmalloc.c): every block has frames  *)
(* of its own, a header with its size in front, and at least one byte behind *)
(* it.  krealloc compares the size without the header with the one that      *)
(* includes it and never frees the block it replaces; the list of aliases    *)
(* (process_add_alias) is the only user.  Sizes are those of its growth.     *)
EXTENDS Integers, FiniteSets

CONSTANTS
  Owners,      \* holders of one pointer each
  Frames,      \* page frames
  PageSize, Header,
  Sizes        \* sizes asked for

VARIABLES
  block,       \* [frames, hdr: size in the header, asked: size promised]
  free,        \* frames of the physical memory manager
  lost,        \* frames of blocks that krealloc left behind
  short        \* a block was used or copied beyond its frames

vars == <<block, free, lost, short>>

Null == [frames |-> {}, hdr |-> 0, asked |-> 0]

Init ==
  /\ block = [o \in Owners |-> Null]
  /\ free = Frames /\ lost = {} /\ short = FALSE

FrameCount(size) == (size + PageSize) \div PageSize

(* The owner writes the whole block it was promised.                         *)
TooShort(b) == b.asked + Header > Cardinality(b.frames) * PageSize

kmallocOf(size, fs) ==
  /\ fs \in SUBSET free /\ Cardinality(fs) = FrameCount(size + Header)
  /\ free' = free \ fs

kmalloc(o) == \E size \in Sizes, fs \in SUBSET free :
  /\ block[o] = Null
  /\ kmallocOf(size, fs)
  /\ LET b == [frames |-> fs, hdr |-> size + Header, asked |-> size] IN
     /\ block' = [block EXCEPT ![o] = b]
     /\ short' = (short \/ TooShort(b))
  /\ UNCHANGED lost

(* kfree takes the number of frames from the header.                         *)
kfree(o) == \E fs \in SUBSET block[o].frames :
  /\ block[o] # Null
  /\ Cardinality(fs) = FrameCount(block[o].hdr)
  /\ block' = [block EXCEPT ![o] = Null]
  /\ free' = free \union fs
  /\ lost' = lost \union (block[o].frames \ fs)
  /\ UNCHANGED short

(* krealloc: nothing to do, the same number of frames, or a new block; the   *)
(* old one is not freed, and its header is copied along as if it were data.  *)
Keep(b, size) == size < b.hdr
SameFrames(b, size) == FrameCount(b.hdr) = FrameCount(size)

krealloc(o) == \E size \in Sizes :
  LET b == block[o] IN
  /\ b # Null /\ size > b.asked
  /\ \/ /\ Keep(b, size)
        /\ block' = [block EXCEPT ![o].asked = size]
        /\ UNCHANGED <<free, lost>>
     \/ /\ ~Keep(b, size) /\ SameFrames(b, size)
        /\ block' = [block EXCEPT ![o].hdr = size, ![o].asked = size]
        /\ UNCHANGED <<free, lost>>
     \/ /\ ~Keep(b, size) /\ ~SameFrames(b, size)
        /\ \E fs \in SUBSET free :
             /\ kmallocOf(size, fs)
             /\ block' = [block EXCEPT ![o] =
                  [frames |-> fs, hdr |-> size + Header, asked |-> size]]
        /\ lost' = lost \union b.frames
  /\ short' = (short \/ TooShort(block'[o])
       \/ (~Keep(b, size) /\ ~SameFrames(b, size)
           /\ b.hdr + Header > Cardinality(b.frames) * PageSize))

Next == \E o \in Owners : kmalloc(o) \/ kfree(o) \/ krealloc(o)

(* No frame is in two blocks or both free and in a block, none goes missing  *)
(* but those krealloc leaves behind, and every block has room for its header *)
(* and what was asked for, after any number of enlargements.                 *)
Correct ==
  /\ ~short
  /\ \A o, q \in Owners : o # q => block[o].frames \intersect block[q].frames = {}
  /\ \A o \in Owners : block[o].frames \intersect (free \union lost) = {}
  /\ free \intersect lost = {}
  /\ UNION {block[o].frames : o \in Owners} \union free \union lost = Frames
==============================================================================
