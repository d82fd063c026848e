------------------------------- MODULE CdiFs --------------------------------
(* The file system server that every CDI file system driver is linked with   *)
(* (lib/common/cdi/fs.c): mount points, the tree of resources that the       *)
(* driver loads and unloads, the references of open pipes to it.  The driver *)
(* is the one of ext2: unloading a directory frees the resources of its      *)
(* children (res.c, dir_clear).  Requests run one at a time: the code has no *)
(* lock of its own on the tree.  Nothing is modelled of a pipe whose mount   *)
(* point was freed (freed): what it does is undefined.                       *)
EXTENDS Integers, Sequences, FiniteSets, FiniteSetsExt, SequencesExt

CONSTANTS
  Files,       \* struct vfs_file
  Nodes,       \* resources of a volume; "root" is its root
  Parent,      \* node -> its directory
  Children,    \* directory -> its children in the order of the list
  Dirs,        \* nodes with the class directory
  Plain,       \* nodes with the class file; the others are links
  Paths,       \* sequences of names that are opened
  MountNames, MaxVolumes,
  MaxPos       \* bound: the length of a file, positions and sizes

VARIABLES
  mps,         \* the list of mount points: name -> volume, 0: clean
  tree,        \* volume -> node -> [loaded, cnt]
  file,        \* file -> NoFile or the record of an open one
  freed,       \* pipes whose mount point or resource has been freed
  wrong        \* an assertion failed or the driver's contract was broken

vars == <<mps, tree, file, freed, wrong>>

Volumes == 1 .. MaxVolumes
Away    == [loaded |-> FALSE, cnt |-> 0]
NoFile  == [type |-> "none", mp |-> "", vol |-> 0, node |-> "", size |-> 0, pos |-> 0]
Unused  == {f \in Files : file[f] = NoFile}
Fresh   == {v \in Volumes : tree[v]["root"] = Away}

Init ==
  /\ mps = <<>>
  /\ tree = [v \in Volumes |-> [n \in Nodes |-> Away]]
  /\ file = [f \in Files |-> NoFile]
  /\ freed = {}
  /\ wrong = FALSE

------------------------------------------------------------------------------
(* References.  A walk goes from the node to the root of its volume.         *)

(* Faulty: the directories above are not counted. *)
WalkNode(n) == <<n>>

Walk(n) ==
  LET up[k \in 0 .. Cardinality(Nodes)] ==
        IF k = 0 THEN <<n>>
        ELSE LET w == up[k - 1]
             IN  IF Last(w) = "root" THEN w ELSE Append(w, Parent[Last(w)])
  IN  up[Cardinality(Nodes)]

Count(t, n) == [t EXCEPT ![n] = [loaded |-> TRUE, cnt |-> @.cnt + 1]]

(* use_resource: loads what is not loaded, up to the root. *)
use_resource(t, n) == FoldLeft(Count, t, Walk(n))

(* One step of unload_resource: at zero the driver unloads the node, and     *)
(* with a directory the resources of its children are gone.                  *)
Uncount(t, n) ==
  IF t[n].cnt > 1 THEN [t EXCEPT ![n].cnt = @ - 1]
  ELSE [m \in Nodes |-> IF m = n \/ (n \in Dirs /\ m \in ToSet(Children[n]))
                        THEN Away ELSE t[m]]

unload_resource(t, n) == FoldLeft(Uncount, t, Walk(n))

(* What unload_resource asserts on its way, and what cdi/fs.h asks of it: no *)
(* child of a directory that is unloaded is still loaded.                    *)
UnloadAllowed(t, n) ==
  LET w == Walk(n)
  IN  \A k \in 1 .. Len(w) :
        LET s == FoldLeft(Uncount, t, SubSeq(w, 1, k - 1))
        IN  /\ s[w[k]].loaded /\ s[w[k]].cnt > 0
            /\ s[w[k]].cnt = 1 /\ w[k] \in Dirs =>
                 \A m \in ToSet(Children[w[k]]) : ~s[m].loaded

(* The files that a change of the tree leaves with a freed resource.         *)
Lost(v, t) == {f \in Files : file[f].vol = v /\ t[file[f].node].cnt = 0}

(* find_resource: counts every directory it passes.  A name that is not in   *)
(* the list leaves the last child of the list as the result.                 *)
find_resource(t, path) ==
  LET go[k \in 0 .. Len(path)] ==
        IF k = 0 THEN [t |-> t, node |-> "root", ok |-> TRUE]
        ELSE LET at   == go[k - 1]
                 t1   == Count(at.t, at.node)
                 list == Children[at.node]
             IN  IF ~at.ok THEN at
                 ELSE IF at.node \notin Dirs \/ list = <<>>
                 THEN [t |-> unload_resource(t1, at.node), node |-> "", ok |-> FALSE]
                 ELSE [t |-> t1, ok |-> TRUE,
                       node |-> IF path[k] \in ToSet(list) THEN path[k] ELSE Last(list)]
  IN  go[Len(path)]

------------------------------------------------------------------------------
(* cdi_fs_create_pipe *)

(* The list of the mount points. *)
OpenRoot(f) ==
  /\ f \in Unused
  /\ file' = [file EXCEPT ![f] = [NoFile EXCEPT !.type = "dir", !.size = Len(mps)]]
  /\ UNCHANGED <<mps, tree, freed, wrong>>

IsMp(name, vol) == \E k \in 1 .. Len(mps) : mps[k] = <<name, vol>>
HasMp(name) == \E k \in 1 .. Len(mps) : mps[k][1] = name

(* O_CREAT_MOUNT_POINT for a name that is not mounted: the entry is made, or *)
(* the one of another pipe is used.                                          *)
OpenMountPoint(f, name) ==
  /\ f \in Unused
  /\ ~HasMp(name) \/ IsMp(name, 0)
  /\ mps' = IF HasMp(name) THEN mps ELSE <<<<name, 0>>>> \o mps
  /\ file' = [file EXCEPT ![f] = [NoFile EXCEPT !.type = "mp", !.mp = name]]
  /\ UNCHANGED <<tree, freed, wrong>>

(* A path below a mounted volume.  The size of a file is never written: it is*)
(* whatever the memory held.                                                 *)
OpenPath(f, name, vol, path, write) ==
  LET found == find_resource(tree[vol], path)
      t     == Count(found.t, found.node)
      n     == found.node
      type  == IF ~found.ok THEN "none"
               ELSE IF n \in Dirs THEN IF write THEN "none" ELSE "dir"
               ELSE IF n \in Plain THEN "file" ELSE "none"
  IN  /\ f \in Unused
      /\ vol # 0 /\ IsMp(name, vol)
      /\ tree' = [tree EXCEPT ![vol] =
                    IF ~found.ok THEN found.t
                    ELSE IF type = "none" THEN unload_resource(t, n)
                    ELSE t]
      /\ \E size \in IF type = "dir" THEN {Len(Children[n])} ELSE 0 .. MaxPos :
           file' = IF type = "none" THEN file
                   ELSE [file EXCEPT ![f] = [NoFile EXCEPT
                           !.type = type, !.vol = vol, !.node = n, !.size = size]]
      /\ freed' = freed \cup Lost(vol, tree'[vol])
      /\ UNCHANGED mps
      /\ wrong' = (wrong \/ (found.ok /\ type = "none" /\ ~UnloadAllowed(t, n)))

(* cdi_fs_duplicate_pipe *)
Duplicate(f, g) ==
  /\ file[f] # NoFile /\ f \notin freed
  /\ g \in Unused
  /\ file' = [file EXCEPT ![g] = file[f]]
  /\ tree' = IF file[f].vol = 0 THEN tree
             ELSE [tree EXCEPT ![file[f].vol] = use_resource(@, file[f].node)]
  /\ UNCHANGED <<mps, freed, wrong>>

(* cdi_fs_destroy_pipe: a mount point that is still clean goes too.          *)
Destroy(f) ==
  LET r     == file[f]
      clean == r.type = "mp" /\ IsMp(r.mp, 0)
      t     == unload_resource(tree[r.vol], r.node)
  IN  /\ r # NoFile /\ f \notin freed
      /\ file' = [file EXCEPT ![f] = NoFile]
      /\ mps' = IF clean THEN SelectSeq(mps, LAMBDA m : m[1] # r.mp) ELSE mps
      /\ IF r.vol = 0
         THEN /\ freed' = IF clean
                          THEN freed \cup {g \in Files \ {f} : file[g].mp = r.mp}
                          ELSE freed
              /\ UNCHANGED <<tree, wrong>>
         ELSE /\ tree' = [tree EXCEPT ![r.vol] = t]
              /\ freed' = freed \cup {g \in Lost(r.vol, t) : g # f}
              /\ wrong' = (wrong \/ ~UnloadAllowed(tree[r.vol], r.node))

(* cdi_fs_stream_send on a mount point: the driver mounts the volume; its    *)
(* root keeps one reference.  A second mount replaces the first.             *)
Mount(f) ==
  /\ file[f].type = "mp" /\ f \notin freed
  /\ Fresh # {}
  /\ LET v == Min(Fresh)
     IN  /\ mps' = [k \in 1 .. Len(mps) |->
                     IF mps[k][1] = file[f].mp THEN <<file[f].mp, v>> ELSE mps[k]]
         /\ tree' = [tree EXCEPT ![v] = Count(@, "root")]
  /\ UNCHANGED <<file, freed, wrong>>

(* cdi_fs_stream_recv: of the listing as much as there is, and of a file what*)
(* the driver gives.  The position goes back to the size, of a file too.     *)
Recv(f, n) ==
  /\ file[f].type \in {"dir", "file"} /\ f \notin freed
  /\ LET r   == file[f]
         pos == Min({r.pos, r.size})
     IN  \E count \in IF r.type = "dir" THEN {Min({n, r.size - pos})}
                      ELSE {Min({n, length - pos}) : length \in pos .. MaxPos} :
           file' = [file EXCEPT ![f].pos = pos + count]
  /\ UNCHANGED <<mps, tree, freed, wrong>>

(* cdi_fs_stream_send of a file: the driver writes some of it.               *)
Send(f, n) ==
  /\ file[f].type = "file" /\ f \notin freed
  /\ \E count \in 0 .. n :
       /\ file[f].pos + count <= MaxPos
       /\ file' = [file EXCEPT ![f].pos = @ + count]
  /\ UNCHANGED <<mps, tree, freed, wrong>>

(* cdi_fs_pipe_set_flag F_POSITION                                           *)
SetPosition(f, n) ==
  /\ file[f].type \in {"dir", "file"} /\ f \notin freed
  /\ file' = [file EXCEPT ![f].pos = n]
  /\ UNCHANGED <<mps, tree, freed, wrong>>

Next ==
  \/ \E f \in Files :
       \/ OpenRoot(f) \/ Destroy(f) \/ Mount(f)
       \/ \E n \in 1 .. MaxPos : Recv(f, n) \/ Send(f, n) \/ SetPosition(f, n)
       \/ \E g \in Files : Duplicate(f, g)
       \/ \E name \in MountNames :
            \/ OpenMountPoint(f, name)
            \/ \E vol \in Volumes, path \in Paths, write \in BOOLEAN :
                 OpenPath(f, name, vol, path, write)

Spec == Init /\ [][Next]_vars

------------------------------------------------------------------------------
(* A node of a mounted volume has as many references as there are pipes at   *)
(* or below it (and one for the mount, at the root), and it is loaded        *)
(* exactly while it has some.                                                *)
CountsExact ==
  \A v \in Volumes : \A n \in Nodes :
    LET c == Cardinality({f \in Files : /\ file[f].vol = v
                                        /\ n \in ToSet(Walk(file[f].node))})
    IN  \/ tree[v]["root"] = Away /\ tree[v][n] = Away
        \/ /\ tree[v][n].cnt = c + (IF n = "root" THEN 1 ELSE 0)
           /\ tree[v][n].loaded <=> tree[v][n].cnt > 0

(* No pipe refers to a resource that has been freed, the counts are exact,   *)
(* and the assertions of unload_resource and the rule of cdi/fs.h for        *)
(* unloading hold (lib/common/cdi/fs.c, unload_resource, use_resource,       *)
(* find_resource).  Pipes to one clean mount point do share its end: the     *)
(* first that closes frees it (cdi_fs_destroy_pipe).                         *)
Correct == (\A f \in freed : file[f].type = "mp") /\ CountsExact /\ ~wrong
==============================================================================
