-------------------------------- MODULE Tar ---------------------------------
(* The tar file system (progs/common/tar/tar.c): a mount point gets the tree *)
(* that is built from the headers of an archive, and pipes read the files    *)
(* and the listings.  An archive is a sequence of blocks of Unit words (512  *)
(* bytes in the code): a header, then the data rounded up to whole blocks.   *)
(* Archives name a directory before what is in it or not at all, and nothing *)
(* twice: for a name that is already in the tree the code has no node to     *)
(* fill in.  Pipes with a listing are not duplicated (the code lets both own *)
(* the buffer) and a mount point is mounted again only while none of its     *)
(* nodes is open (the nodes are freed).  F_POSITION takes any value, and     *)
(* what is left of a file is unsigned: behind the end a read returns as many *)
(* bytes as it was asked for, of whatever lies there.                        *)
EXTENDS Integers, Sequences, FiniteSets, FiniteSetsExt, SequencesExt

CONSTANTS
  Files, MountNames,
  Unit,        \* words of a block
  Archives,    \* sequences of members [path, dir, size]
  Requests,    \* sizes of reads
  MaxOff       \* bound: larger positions, all behind every file, count as this one

VARIABLES
  mps,         \* the list of mount points, newest first: [name, tree]
  file,        \* open files
  archive,     \* mount point -> the archive mounted last, <<>>: none
  wrong        \* a read returned something else than the archive holds

vars == <<mps, file, archive, wrong>>

NoTree == [p \in {} |-> <<>>]
NoFile == [type |-> "none", mp |-> "", path |-> <<>>, data |-> <<>>, off |-> 0]

Init ==
  /\ mps = <<>>
  /\ file = [f \in Files |-> NoFile]
  /\ archive = [m \in MountNames |-> <<>>]
  /\ wrong = FALSE

------------------------------------------------------------------------------
(* The archive on its device: a header block [member], a data block [words]. *)
Word(k, i) == <<k, i>>
Units(size) == (size + Unit - 1) \div Unit
Image(a) ==
  FlattenSeq([k \in 1 .. Len(a) |->
    <<[head |-> TRUE, member |-> a[k], words |-> [i \in 1 .. Unit |-> Word(0, i)]]>>
    \o [u \in 1 .. Units(a[k].size) |->
         [head |-> FALSE, member |-> a[k],
          words |-> [i \in 1 .. Unit |-> Word(k, (u - 1) * Unit + i)]]]])

Above(p) == {SubSeq(p, 1, n) : n \in 1 .. Len(p)}

(* How far the next header is away, as the code computes it. *)
BlocksOf(size) == (size + Unit - 1) \div Unit

(* service_stream_send: each header makes the nodes of its path that are     *)
(* missing, directories by default, and fills in the last one.               *)
Build(image) ==
  LET go[n \in 0 .. Len(image)] ==
        IF n = 0 THEN [at |-> 1, nodes |-> NoTree]
        ELSE LET s == go[n - 1]
                 b == image[s.at]
                 m == b.member
                 new == Above(m.path) \ DOMAIN s.nodes
                 data == FlattenSeq([u \in 1 .. Len(image) - s.at |->
                                      image[s.at + u].words])
             IN  IF s.at > Len(image) \/ ~b.head THEN s
                 ELSE [at |-> s.at + 1 + BlocksOf(m.size),
                       nodes |-> [p \in DOMAIN s.nodes \cup new |->
                         IF p = m.path
                         THEN [dir |-> m.dir, data |-> SubSeq(data, 1, m.size)]
                         ELSE IF p \in new THEN [dir |-> TRUE, data |-> <<>>]
                         ELSE s.nodes[p]]]
  IN  go[Len(image)].nodes

(* The names in a directory; the empty path is the mount point.              *)
Listing(tree, path) ==
  {p \in DOMAIN tree : Len(p) = Len(path) + 1 /\ SubSeq(p, 1, Len(path)) = path}

Index(name) == {k \in 1 .. Len(mps) : mps[k].name = name}

------------------------------------------------------------------------------
(* Requests *)

Open(f, r) == f \in Files /\ file[f] = NoFile /\ file' = [file EXCEPT ![f] = r]

(* service_create_pipe of the root and of a mount point: a listing.          *)
OpenRoot(f) ==
  /\ Open(f, [NoFile EXCEPT !.type = "root", !.data = [k \in 1 .. Len(mps) |-> mps[k].name]])
  /\ UNCHANGED <<mps, archive, wrong>>

OpenMount(f, name, create) ==
  /\ Index(name) # {} \/ create
  /\ mps' = IF Index(name) = {} THEN <<[name |-> name, tree |-> NoTree]>> \o mps ELSE mps
  /\ LET tree == IF Index(name) = {} THEN NoTree ELSE mps[Min(Index(name))].tree
     IN  Open(f, [NoFile EXCEPT !.type = "mp", !.mp = name,
                                !.data = SetToSeq(Listing(tree, <<>>))])
  /\ UNCHANGED <<archive, wrong>>

(* ... and of a node; ENOENT changes nothing. *)
OpenNode(f, name, path) ==
  /\ Index(name) # {}
  /\ LET tree == mps[Min(Index(name))].tree
     IN  /\ path \in DOMAIN tree
         /\ Open(f, [NoFile EXCEPT !.type = "node", !.mp = name, !.path = path,
                       !.data = IF tree[path].dir THEN SetToSeq(Listing(tree, path))
                                ELSE tree[path].data])
  /\ UNCHANGED <<mps, archive, wrong>>

(* service_destroy_pipe *)
Destroy(f) ==
  /\ file[f] # NoFile
  /\ file' = [file EXCEPT ![f] = NoFile]
  /\ UNCHANGED <<mps, archive, wrong>>

(* service_duplicate_pipe *)
Duplicate(f, g) ==
  /\ file[f].type = "node" /\ ~mps[Min(Index(file[f].mp))].tree[file[f].path].dir
  /\ Open(g, file[f])
  /\ UNCHANGED <<mps, archive, wrong>>

(* service_stream_send with F_MOUNT_FILE. *)
Mount(f, a) ==
  /\ file[f].type = "mp"
  /\ \A g \in Files : file[g].type = "node" => file[g].mp # file[f].mp
  /\ LET k == Min(Index(file[f].mp))
     IN  mps' = [mps EXCEPT ![k].tree = Build(Image(a))]
  /\ archive' = [archive EXCEPT ![file[f].mp] = a]
  /\ UNCHANGED <<file, wrong>>

(* What the archive holds under a name. *)
Contents(a, path) ==
  LET k == CHOOSE k \in 1 .. Len(a) : a[k].path = path
  IN  [i \in 1 .. a[k].size |-> Word(k, i)]

(* service_stream_recv: what was read is compared where the position was in  *)
(* the file.                                                                 *)
Recv(f, n) ==
  LET r    == file[f]
      left == Len(r.data) - r.off
      copy == IF left >= 0 /\ n >= left THEN left ELSE n
      isFile == r.type = "node" /\ ~mps[Min(Index(r.mp))].tree[r.path].dir
      got  == SubSeq(r.data, r.off + 1, r.off + copy)
      held == Contents(archive[r.mp], r.path)
  IN  /\ r # NoFile
      /\ file' = [file EXCEPT ![f].off = Min({@ + copy, MaxOff})]
      /\ wrong' = (wrong \/ (isFile /\ left >= 0 /\ got #
                       SubSeq(held, r.off + 1, Min({r.off + n, Len(held)}))))
      /\ UNCHANGED <<mps, archive>>

(* service_pipe_set_flag F_POSITION *)
SetPosition(f, n) ==
  /\ file[f] # NoFile
  /\ file' = [file EXCEPT ![f].off = n]
  /\ UNCHANGED <<mps, archive, wrong>>

Next ==
  \E f \in Files :
    \/ OpenRoot(f) \/ Destroy(f)
    \/ \E g \in Files : Duplicate(f, g)
    \/ \E name \in MountNames, create \in BOOLEAN : OpenMount(f, name, create)
    \/ \E name \in MountNames : \E a \in Archives : \E k \in 1 .. Len(a) :
         OpenNode(f, name, a[k].path)
    \/ \E a \in Archives : Mount(f, a)
    \/ \E n \in Requests : Recv(f, n)
    \/ \E n \in 0 .. MaxOff : SetPosition(f, n)

Spec == Init /\ [][Next]_vars

------------------------------------------------------------------------------
(* The tree of a mount point has exactly the members of the archive that was *)
(* mounted last and the directories above them, each with its own data, and  *)
(* no read from a position inside a file ever returned anything else         *)
(* (progs/common/tar/tar.c, service_stream_send, service_stream_recv).       *)
Correct ==
  /\ \A k \in 1 .. Len(mps) :
       LET a == archive[mps[k].name]
           t == mps[k].tree
       IN  /\ DOMAIN t = UNION {Above(a[i].path) : i \in 1 .. Len(a)}
           /\ \A i \in 1 .. Len(a) :
                /\ t[a[i].path].dir = a[i].dir
                /\ t[a[i].path].data = [j \in 1 .. a[i].size |-> Word(i, j)]
           /\ k = Min(Index(mps[k].name))
  /\ ~wrong
==============================================================================
