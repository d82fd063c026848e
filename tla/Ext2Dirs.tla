------------------------------ MODULE Ext2Dirs ------------------------------
(* Directories, links and the resource operations of the ext2 driver         *)
(* (libext2_directory.c, libext2_file.c, libext2_symlink.c, res.c, dir.c,    *)
(* symlinks.c, file.c).  A directory is the sequence of its records; lengths *)
(* are in bytes, as dirent_size computes them.  Blocks are module            *)
(* Ext2Blocks: here the disk has room, only inodes run out.  The caller keeps*)
(* the rules of cdi/fs.h: a new child has a new name, a class is removed     *)
(* once, from a directory only when it is empty, and a directory is unloaded *)
(* only when no child directory is loaded.                                   *)
EXTENDS Integers, Sequences, FiniteSets, FiniteSetsExt, SequencesExt

CONSTANTS
  Names,       \* names that files may get
  NameLen,     \* their lengths; "." and ".." are known
  BlockSize,   \* bytes
  Inodes,      \* 1 is the root directory
  Texts,       \* targets of symbolic links
  Short,       \* those of less than 59 characters, which fit into the inode
  MaxSize      \* bound on the size of a directory

VARIABLES
  dir,         \* inode -> records [ino, name, len] of the directory
  kind,        \* inode -> "free", "file", "dir" or "link"
  links,       \* inode -> link_count
  usedDirs,    \* used_directories of the block group
  text,        \* symbolic link -> the texts in the inode and in its block, and
               \* the one it was last given
  slow,        \* symbolic link -> block_count # 0
  res          \* directory inode -> children resources, or NotLoaded

vars == <<dir, kind, links, usedDirs, text, slow, res>>

Root == 1
NoText == [last |-> "", inode |-> "", block |-> ""]
NotLoaded == <<[name |-> "", ino |-> 0]>>
Length(n) == IF n = "." THEN 1 ELSE IF n = ".." THEN 2 ELSE NameLen[n]

(* dirent_size: eight bytes and the name, rounded up to four.                *)
dirent_size(len) == ((len + 8 + 3) \div 4) * 4

Record(i, n, l) == [ino |-> i, name |-> n, len |-> l]
SizeOf(d) == FoldLeft(LAMBDA a, r : a + r.len, 0, d)

(* The directory that mke2fs makes. *)
EmptyDir(self, parent) ==
  <<Record(self, ".", dirent_size(1)), Record(parent, "..", BlockSize - dirent_size(1))>>

Init ==
  /\ dir = [i \in Inodes |-> IF i = Root THEN EmptyDir(Root, Root) ELSE <<>>]
  /\ kind = [i \in Inodes |-> IF i = Root THEN "dir" ELSE "free"]
  /\ links = [i \in Inodes |-> IF i = Root THEN 2 ELSE 0]
  /\ usedDirs = 1
  /\ text = [i \in Inodes |-> NoText]
  /\ slow = [i \in Inodes |-> FALSE]
  /\ res = [i \in Inodes |-> NotLoaded]

------------------------------------------------------------------------------
(* libext2: entries *)

(* ext2_dir_foreach, ext2_dir_get: the first record in use with the name.    *)
ext2_dir_get(d, n) ==
  LET at == {k \in 1 .. Len(d) : d[k].ino # 0 /\ d[k].name = n}
  IN  IF at = {} THEN 0 ELSE d[Min(at)].ino

(* Faulty: what is left of the record is not measured against the new name.  *)
HasRoomAlways(r, n) == r.len - dirent_size(Length(r.name)) > 0

(* The record is longer than its own name needs by what the new one needs.   *)
HasRoom(r, n) ==
  r.len - dirent_size(Length(r.name)) >= dirent_size(Length(n) + 1)

(* ext2_dir_link: behind the first record with room, else in a new block.    *)
ext2_dir_link(d, i, n) ==
  LET at == {k \in 1 .. Len(d) : HasRoom(d[k], n)}
  IN  IF at = {} THEN Append(d, Record(i, n, BlockSize))
      ELSE LET k    == Min(at)
               keep == dirent_size(Length(d[k].name))
           IN  SubSeq(d, 1, k - 1)
               \o <<[d[k] EXCEPT !.len = keep], Record(i, n, d[k].len - keep)>>
               \o SubSeq(d, k + 1, Len(d))

(* ext2_dir_unlink: every record of the name stays, with inode 0.            *)
ext2_dir_unlink(d, n) ==
  [k \in 1 .. Len(d) |-> IF d[k].name = n THEN [d[k] EXCEPT !.ino = 0] ELSE d[k]]

(* ext2_dir_unlink: the inode of the name loses a link; the last one frees   *)
(* it.                                                                       *)
Dropped(i) == links[i] - 1 = 0

Free == {i \in Inodes : kind[i] = "free"}

------------------------------------------------------------------------------
(* The driver's operations on a resource *)

Loaded(i) == res[i] # NotLoaded

(* ext2_fs_res_load of a directory: dir_fill, without the two dots.          *)
Load(i) ==
  /\ kind[i] = "dir" /\ ~Loaded(i)
  /\ res' = [res EXCEPT ![i] =
               SelectSeq([k \in 1 .. Len(dir[i]) |-> [name |-> dir[i][k].name,
                                                      ino  |-> dir[i][k].ino]],
                         LAMBDA c : c.ino # 0 /\ c.name \notin {".", ".."})]
  /\ UNCHANGED <<dir, kind, links, usedDirs, text, slow>>

(* ext2_fs_res_unload: dir_clear. *)
Unload(i) ==
  /\ Loaded(i)
  /\ \A k \in 1 .. Len(res[i]) : /\ res[i][k].ino # 0
                                 /\ ~Loaded(res[i][k].ino)
  /\ res' = [res EXCEPT ![i] = NotLoaded]
  /\ UNCHANGED <<dir, kind, links, usedDirs, text, slow>>

(* ext2_fs_dir_create_child: a resource without a class.                     *)
CreateChild(i, n) ==
  /\ Loaded(i)
  /\ \A k \in 1 .. Len(res[i]) : res[i][k].name # n /\ res[i][k].ino # 0
  /\ SizeOf(dir[i]) < MaxSize
  /\ res' = [res EXCEPT ![i] = Append(@, [name |-> n, ino |-> 0])]
  /\ UNCHANGED <<dir, kind, links, usedDirs, text, slow>>

(* ext2_fs_res_assign_class fails without a free inode. *)
AssignFails(i, k) ==
  /\ Loaded(i) /\ k \in 1 .. Len(res[i]) /\ res[i][k].ino = 0
  /\ Free = {}
  /\ res' = [res EXCEPT ![i] = RemoveAt(@, k)]        \* ext2_fs_res_remove
  /\ UNCHANGED <<dir, kind, links, usedDirs, text, slow>>

(* ext2_file_create: an inode with the record in its parent as only link.    *)
ext2_file_create(i, new, n) ==
  /\ kind' = [kind EXCEPT ![new] = "file"]
  /\ dir' = [dir EXCEPT ![i] = ext2_dir_link(@, new, n)]
  /\ links' = [links EXCEPT ![new] = 1]
  /\ UNCHANGED <<usedDirs, text, slow>>

(* ext2_symlink_create with the empty target: nothing is written.            *)
ext2_symlink_create(i, new, n) ==
  /\ kind' = [kind EXCEPT ![new] = "link"]
  /\ dir' = [dir EXCEPT ![i] = ext2_dir_link(@, new, n)]
  /\ links' = [links EXCEPT ![new] = 1]
  /\ text' = [text EXCEPT ![new] = NoText]
  /\ slow' = [slow EXCEPT ![new] = FALSE]
  /\ UNCHANGED usedDirs

(* ext2_dir_create: three records, two of them in the new directory itself.  *)
ext2_dir_create(i, new, n) ==
  /\ kind' = [kind EXCEPT ![new] = "dir"]
  /\ dir' = [dir EXCEPT ![i] = ext2_dir_link(@, new, n),
                        ![new] = ext2_dir_link(ext2_dir_link(<<>>, new, "."), i, "..")]
  /\ links' = [links EXCEPT ![new] = 2, ![i] = @ + 1]
  /\ usedDirs' = usedDirs + 1
  /\ UNCHANGED <<text, slow>>

(* ext2_fs_res_assign_class: the resource gets the new inode.                *)
AssignClass(i, k, class) ==
  LET new == Min(Free)
      n   == res[i][k].name
  IN  /\ Loaded(i) /\ k \in 1 .. Len(res[i]) /\ res[i][k].ino = 0
      /\ Free # {}
      /\ \/ class = "file" /\ ext2_file_create(i, new, n)
         \/ class = "link" /\ ext2_symlink_create(i, new, n)
         \/ class = "dir" /\ ext2_dir_create(i, new, n)
      /\ res' = [res EXCEPT ![i][k].ino = new,
                            ![new] = IF class = "dir" THEN <<>> ELSE NotLoaded]

(* ext2_fs_res_remove_class, then ext2_fs_res_remove: a directory first      *)
(* loses its dots, and with them a link of its own and one of its parent.    *)
RemoveClass(i, k) ==
  LET c     == res[i][k]
      isDir == kind[c.ino] = "dir"
      last  == IF isDir THEN links[c.ino] - 2 = 0 ELSE Dropped(c.ino)
      gone  == [j \in Inodes |-> IF last /\ j = c.ino THEN "free" ELSE kind[j]]
  IN  /\ Loaded(i) /\ k \in 1 .. Len(res[i]) /\ c.ino # 0
      /\ isDir => res[c.ino] = <<>>
      /\ dir' = [dir EXCEPT ![i] = ext2_dir_unlink(@, c.name),
                            ![c.ino] = <<>>]
      /\ links' = [links EXCEPT ![c.ino] = IF isDir THEN @ - 2 ELSE @ - 1,
                                ![i] = IF isDir THEN @ - 1 ELSE @]
      /\ kind' = gone
      /\ usedDirs' = IF isDir /\ last THEN usedDirs - 1 ELSE usedDirs
      /\ res' = [res EXCEPT ![i] = RemoveAt(@, k), ![c.ino] = NotLoaded]
      /\ text' = [text EXCEPT ![c.ino] = NoText]
      /\ slow' = [slow EXCEPT ![c.ino] = FALSE]

(* ext2_symlink_read: block_count tells whether the text is in the inode.    *)
ext2_symlink_read(i) == IF slow[i] THEN text[i].block ELSE text[i].inode

(* ext2_fs_link_write, ext2_symlink_write: a short text overwrites the block *)
(* table, a long one is written through it.  A short text over a long one,   *)
(* or the other way round, is not written here.                              *)
LinkWrite(i, t) ==
  /\ kind[i] = "link"
  /\ text[i].last # "" => (text[i].last \in Short <=> t \in Short)
  /\ text' = [text EXCEPT ![i] = [@ EXCEPT !.last = t,
                                   !.inode = IF t \in Short THEN t ELSE @,
                                   !.block = IF t \in Short THEN @ ELSE t]]
  /\ slow' = [slow EXCEPT ![i] = @ \/ t \notin Short]
  /\ UNCHANGED <<dir, kind, links, usedDirs, res>>

Next ==
  \/ \E i \in Inodes :
       \/ Load(i) \/ Unload(i)
       \/ \E n \in Names : CreateChild(i, n)
       \/ \E t \in Texts : LinkWrite(i, t)
  \/ \E i \in Inodes : \E k \in 1 .. Cardinality(Names) :
       \/ AssignFails(i, k) \/ RemoveClass(i, k)
       \/ \E class \in {"file", "dir", "link"} : AssignClass(i, k, class)

Spec == Init /\ [][Next]_vars

------------------------------------------------------------------------------
Uses(d, i) == Cardinality({k \in 1 .. Len(dir[d]) : dir[d][k].ino = i})
Live == {i \in Inodes : kind[i] # "free"}

(* link_count is the number of records that name the inode, and an inode is  *)
(* allocated exactly while some record names it.                             *)
LinksExact ==
  \A i \in Inodes :
    /\ links[i] = MapThenSumSet(LAMBDA d : Uses(d, i), Live)
    /\ kind[i] = "free" <=> links[i] = 0

(* The records of a directory fill its blocks: none crosses a border, none   *)
(* is too short for its name.                                                *)
RecordsTile ==
  \A d \in Live : \A k \in 1 .. Len(dir[d]) :
    LET before == SizeOf(SubSeq(dir[d], 1, k - 1))
    IN  /\ before \div BlockSize = (before + dir[d][k].len - 1) \div BlockSize
        /\ dir[d][k].len >= dirent_size(Length(dir[d][k].name))
        /\ k = Len(dir[d]) => (before + dir[d][k].len) % BlockSize = 0

(* The children of a loaded directory are what a lookup on the disk finds.   *)
ChildrenFound ==
  \A d \in Inodes : Loaded(d) =>
    /\ kind[d] = "dir"
    /\ \A n \in Names :
         ext2_dir_get(dir[d], n) =
           LET at == {k \in 1 .. Len(res[d]) : res[d][k].name = n}
           IN  IF at = {} THEN 0 ELSE res[d][CHOOSE k \in at : TRUE].ino

(* Directories, link counts, the group's counter, the texts of links and the *)
(* loaded resources agree with each other after every operation of the driver*)
(* (libext2_directory.c, libext2_file.c, libext2_symlink.c, res.c).          *)
DirsCorrect ==
  /\ LinksExact /\ RecordsTile /\ ChildrenFound
  /\ \A i \in Inodes : ext2_symlink_read(i) = text[i].last
  /\ usedDirs = Cardinality({i \in Inodes : kind[i] = "dir"})
==============================================================================
