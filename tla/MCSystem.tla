-------------------- MODULE MCSystem --------------------
(* The kernel, the libraries, the file systems and the programs for TLC.
   The components are checked one beside the other: focus names the one that a
   behaviour is about, and each instance below gives it the variables
   v1, v2, ... that it needs, and small values for its constants.  Memory has its
   own: its variables stay as they are at the beginning elsewhere.         *)
EXTENDS Memory, Sequences, TLC

CONSTANTS o1, o2, o3, o4

(* ext2, blocks: requests within a block, across the direct, indirect and
   double indirect ones, and beyond what the disk has room for.            *)
E2Meta   == {1, 2, 7}
E2Writes == {<<0, 1>>, <<1, 4>>, <<5, 2>>, <<13, 2>>, <<3, 8>>}

(* ext2, directories: a short name and one that needs most of a block.     *)
E2NameLen == [a |-> 1, b |-> 12]

(* File systems in general: /d/f, /g and the link /l, and paths that name
   nothing.                                                                *)
FsParent   == [root |-> "root", d |-> "root", g |-> "root", l |-> "root", f |-> "d"]
FsChildren == [root |-> <<"g", "l", "d">>, d |-> <<"f">>]
FsPaths    == {<<>>, <<"d">>, <<"d", "f">>, <<"g", "x">>, <<"l">>, <<"x">>}

(* tar: directories with members of their own and without, empty files.    *)
Member(p, d, s) == [path |-> p, dir |-> d, size |-> s]
TarArchives ==
  {<<Member(<<"a">>, FALSE, 3), Member(<<"d", "b">>, FALSE, 2)>>,
   <<Member(<<"d">>, TRUE, 0), Member(<<"d", "e", "c">>, FALSE, 1),
     Member(<<"a">>, FALSE, 0)>>}

(* Partitions: a primary one, and an extended one with one inside.         *)
Entry(l, n, e) == [lba |-> l, len |-> n, ext |-> e]
PartTables ==
  [b \in {0, 2} |->
     IF b = 0 THEN <<Entry(0, 0, FALSE), Entry(1, 1, FALSE), Entry(2, 0, TRUE)>>
              ELSE <<Entry(3, 1, FALSE), Entry(0, 0, FALSE)>>]

TreeKeys == 1 .. 9

(* PCI: a device with two functions, a bridge, and one device behind it with a
   register of 64 bits.                                                    *)
Bar(k, b, s) == [kind |-> k, base |-> b, size |-> s]
Device(m, b) == [kind |-> "device", secondary |-> 0, multi |-> m, bars |-> b]
PciTopology ==
  (<<0, 0, 0>> :> Device(TRUE, <<Bar("io", 4, 2), Bar("none", 0, 0)>>)) @@
  (<<0, 0, 2>> :> Device(FALSE, <<Bar("mem", 16, 8)>>)) @@
  (<<0, 1, 0>> :> [kind |-> "bridge", secondary |-> 1, multi |-> FALSE, bars |-> <<>>]) @@
  (<<1, 0, 0>> :> Device(FALSE, <<Bar("mem64", 32, 16), Bar("high", 1, 0)>>))

(* The console: letters, a cut multi-byte character, control characters.   *)
ConInputs == {<<"a", "L3">>, <<"C">>, <<"nl">>, <<"bs">>}
ConTyped  == {<<"a">>}

(* vm86: every instruction that is carried out for the program, with 16 and 32
   bits, and segments that end in the middle.                              *)
Program(c, h) == [code |-> c, ivt |-> [nop |-> h, iret |-> h], start |-> 1]
VmPrograms ==
  {Program(<<"insb", "in8i", "0", "out8d", "insb", "outsb", "int", "nop", "iret",
             "pushf", "popf", "out16i", "1", "iret">>, 10),
   Program(<<"stc", "pushf", "clc", "66", "in16d", "popf", "66", "in16i", "7",
             "cli", "66", "outsw", "66", "out16i", "7", "insw", "outsw", "sti",
             "iret">>, 1),
   Program(<<"66", "insw", "in16d", "out16d", "hlt">>, 1),
   Program(<<"pushf", "popf", "int", "nop", "int", "nop", "iret", "stc", "iret">>, 8)}
Area(v, s, i, o, k) == [vm |-> v, size |-> s, in |-> i, out |-> o, kernel |-> k]
VmAreas ==
  {Area(0, 4, FALSE, TRUE, FALSE), Area(6, 4, FALSE, TRUE, FALSE),
   Area(6, 3, TRUE, FALSE, FALSE), Area(6, 2, TRUE, TRUE, FALSE),
   Area(9, 3, FALSE, TRUE, FALSE), Area(0, 1, FALSE, TRUE, TRUE)}

(* Programs: segments that begin and end inside pages, one that is not loaded,
   one without contents; arguments that fill a page or none of it.         *)
Seg(l, v, f, m) == [load |-> l, vaddr |-> v, filesz |-> f, memsz |-> m]
LdImages ==
  {<<Seg(TRUE, 18, 20, 40), Seg(FALSE, 0, 3, 3), Seg(TRUE, 64, 0, 17)>>,
   <<Seg(TRUE, 32, 16, 16), Seg(TRUE, 16, 3, 2), Seg(TRUE, 50, 30, 30)>>}
LdLengths == {0, 5, 13, 18}
LdArgs == [argv : UNION {[1 .. n -> LdLengths] : n \in 1 .. 2},
           envp : UNION {[1 .. n -> LdLengths] : n \in 0 .. 1}]

(* Paths: mount points above, beside and at each other, written crookedly.  *)
PtMounts == {<<"/">>, <<"/", "a">>,
             <<"/", "a", "/", ".", ".", "/", "a", "/", "/", "b", "/">>}
PtDests  == {<<"/", "x">>, <<"/", "y">>}
PtLookups ==
  {<<"/">>, <<"/", "a">>, <<"/", "a", "a">>, <<"/", "a", "/", "b">>,
   <<"/", "a", "/", "/", "b">>, <<"/", "a", "/", "b", "b">>,
   <<"/", ".", "/", "a", "/", ".">>, <<"/", "b", "/", ".", ".", "/", "a">>,
   <<"/", "a", "/", "b", "/", ".", ".">>, <<"/", "/", "/", "c", "/", "a">>,
   <<"/", "a", "/", ".", "/", "b", "/", "c">>,
   <<"/", "a", "/", "b", "/", ".", ".", "/", ".", ".", "/", "b">>}

(* The shell: what can be typed and what it can be completed to.           *)
File(n, d) == [name |-> n, dir |-> d]
ShChars == {<<"a">>, <<"sp">>, <<"&">>, <<"quote">>, <<"bslash">>, <<"lead", "cont">>}
ShPath  == <<File(<<"a", "b", "a">>, FALSE), File(<<"a", "b">>, FALSE)>>
ShTree  == (<<>> :> <<File(<<"a", "d">>, TRUE), File(<<"b">>, FALSE)>>) @@
           (<<"a", "d", "/">> :> <<File(<<"x">>, FALSE), File(<<"y">>, FALSE)>>)

VARIABLES
  focus,   \* the component that this behaviour is about
  v1, v2, v3, v4, v5, v6, v7, v8, v9, v10, v11, v12, v13, v14, v15   \* its variables

Away == "away"   \* a variable that the component does not have

(* The variables from the i-th on, for the components with fewer. *)
Rest15 == <<v15>>
Rest14 == <<v14, Rest15>>
Rest13 == <<v13, Rest14>>
Rest12 == <<v12, Rest13>>
Rest11 == <<v11, Rest12>>
Rest10 == <<v10, Rest11>>
Rest9 == <<v9, Rest10>>
Rest8 == <<v8, Rest9>>
Rest7 == <<v7, Rest8>>
Rest6 == <<v6, Rest7>>
Rest5 == <<v5, Rest6>>
Rest4 == <<v4, Rest5>>
Rest3 == <<v3, Rest4>>
Rest2 == <<v2, Rest3>>
Rest1 == <<v1, Rest2>>

None15 == v15 = Away
None14 == v14 = Away /\ None15
None13 == v13 = Away /\ None14
None12 == v12 = Away /\ None13
None11 == v11 = Away /\ None12
None10 == v10 = Away /\ None11
None9 == v9 = Away /\ None10
None8 == v8 = Away /\ None9
None7 == v7 = Away /\ None8
None6 == v6 = Away /\ None7
None5 == v5 = Away /\ None6
None4 == v4 = Away /\ None5
None3 == v3 = Away /\ None4
None2 == v2 = Away /\ None3
None1 == v1 = Away /\ None2

Blocks == INSTANCE Ext2Blocks WITH
  Direct <- 1, PerBlock <- 2, Groups <- 2, BlocksPerGroup <- 6,
  InodesPerGroup <- 2, FirstDataBlock <- 1, Boot <- 0, MaxOps <- 4,
  MetaBlocks <- E2Meta, Writes <- E2Writes, Sizes <- {0, 1, 3, 7},
  Values <- {100, 200}, fs <- v1, ops <- v2, wrong <- v3
Directories == INSTANCE Ext2Dirs WITH
  Names <- {"a", "b"}, NameLen <- E2NameLen, BlockSize <- 40,
  Inodes <- {1, 2, 3, 4}, Texts <- {"s", "l"}, Short <- {"s"}, MaxSize <- 41,
  dir <- v1, kind <- v2, links <- v3, usedDirs <- v4, text <- v5, slow <- v6,
  res <- v7
Fs == INSTANCE CdiFs WITH
  Files <- {o1, o2}, Nodes <- {"root", "d", "f", "g", "l"},
  Parent <- FsParent, Children <- FsChildren, Dirs <- {"root", "d"},
  Plain <- {"f", "g"}, Paths <- FsPaths, MountNames <- {"m"}, MaxVolumes <- 2,
  MaxPos <- 2, mps <- v1, tree <- v2, file <- v3,
  freed <- v4, wrong <- v5
Tar == INSTANCE Tar WITH
  Files <- {o1, o2}, MountNames <- {"m"}, Unit <- 2, Archives <- TarArchives,
  Requests <- {1, 3}, MaxOff <- 4, mps <- v1, file <- v2, archive <- v3,
  wrong <- v4
Ata == INSTANCE Ata WITH
  Sectors <- 3, PioMax <- 2, DmaMax <- 2, Counts <- {3}, Again <- 1,
  MaxFaults <- 2, bus <- v1, known <- v2, pc <- v3, req <- v4, disk <- v5,
  dev <- v6, bm <- v7, irq <- v8, faults <- v9, wrong <- v10
Disk == INSTANCE Storage WITH
  Files <- {o1}, BlockSize <- 2, DevBlocks <- 4, MaxParts <- 3,
  Tables <- PartTables, Lengths <- {1, 2, 3}, Values <- {0, 1},
  MaxDirty <- 2,
  parts <- v1, disk <- v2, file <- v3, wrong <- v4
Avl == INSTANCE Tree WITH
  Keys <- TreeKeys, tree <- v1, inserted <- v2
Lists == INSTANCE Lists WITH
  Elements <- {o1, o2, o3, o4}, Uses <- {"queue", "walk"}, use <- v1,
  chain <- v2, cached <- v3, index <- v4, at <- v5, wrong <- v6
Sched == INSTANCE Scheduler WITH
  Procs <- {1, 2, 3}, IrqProcs <- {2}, Threshold <- 2, Width <- 6,
  Counters <- {0, 5}, MaxStorm <- 1, runqueue <- v1, status <- v2, age <- v3,
  fresh_irq <- v4, current_process <- v5, schedule_lock <- v6, waited <- v7,
  storm <- v8
Fpu == INSTANCE Fpu WITH
  Procs <- {"p", "q", "r"}, alive <- v1, born <- v2, current <- v3, ts <- v4,
  last_fpu_sse_user <- v5, fpu <- v6, fxsave <- v7, wrong <- v8
Kernel == INSTANCE Kmalloc WITH
  Owners <- {1, 2}, Frames <- {1, 2, 3, 4, 5}, PageSize <- 8, Header <- 2,
  Sizes <- {4, 8, 9, 12}, block <- v1, free <- v2, lost <- v3, short <- v4
Heap == INSTANCE Heap WITH
  Threads <- {o1, o2}, Sizes <- {1, 3}, Aligns <- {4}, MaxBrk <- 14,
  Calm <- TRUE, brk <- v1, free_list <- v2, live <- v3, pc <- v4, want <- v5,
  give <- v6
Window == INSTANCE KernelMap WITH
  Threads <- {o1, o2}, Entries <- 10, Lengths <- {1, 2, 3},
  kpt <- v1, kpt_lock <- v2, call <- v3, at <- v4, overlaid <- v5
UserMap == INSTANCE UserMap WITH
  PdFirst <- 4, PdLast <- 8, PerTable <- 4, Lengths <- {1, 2, 3, 6},
  MaxAreas <- 5, Calm <- TRUE, pd <- v1, areas <- v2
Load == INSTANCE Loader WITH
  PageSize <- 16, Ptr <- 2, StackTop <- 256, Tls <- 4, Images <- LdImages,
  Args <- LdArgs, image <- v1, args <- v2, i <- v3, cur <- v4,
  image_end <- v5, mem <- v6, arg <- v7, d <- v8, esp <- v9, pc <- v10
Format == INSTANCE Printf WITH
  Numbers <- {0, 83, -12}, Widths <- {-1, 5}, Precisions <- {-1, 3},
  Sizes <- {4, 20}, MaxDirectives <- 2, Calm <- TRUE, n <- v1, buffer <- v2,
  osize <- v3, wanted <- v4, format <- v5, ret <- v6
Links == INSTANCE Paths WITH
  Pipes <- {o1, o2}, MountPaths <- PtMounts, Dests <- PtDests,
  Lookups <- PtLookups, entries <- v1, mpic <- v2, writing <- v3,
  mounted <- v4
Vm86 == INSTANCE Vm86 WITH
  Programs <- VmPrograms, Areas <- VmAreas, RamEnd <- 8, MemEnd <- 10,
  Stack <- 8, Calm <- TRUE, pc <- v1, prog <- v2, area <- v3, caller <- v4,
  copy <- v5, owned <- v6, cpu <- v7, ref <- v8, refmem <- v9, regs <- v10,
  errno <- v11, wrong <- v12
Pci == INSTANCE Pci WITH
  Topology <- PciTopology, Buses <- {0, 1}, MaxDev <- 1, MaxFnc <- 2,
  Drivers <- {"d1", "d2"}, Serial <- TRUE, found <- v1, address <- v2,
  config <- v3, drv <- v4, res <- v5
Kbd == INSTANCE Keyboard WITH
  Keys <- {"d", "lshift", "capslock", "control"}, Repeating <- {"d"},
  Readers <- {o1}, Size <- 2, FifoSize <- 3, MaxQueue <- 1, Calm <- TRUE,
  held <- v1, capsOn <- v2, queue <- v3, due <- v4, lshift <- v5,
  rshift <- v6, caps <- v7, ctrl <- v8, up <- v9, depth <- v10, leds <- v11,
  fifo <- v12, kept <- v13, got <- v14, wrong <- v15
Screen == INSTANCE Console WITH
  Pipes <- {o1, o2}, Width <- 2, Height <- 2, Inputs <- ConInputs,
  Typed <- ConTyped, text_mem <- v1, x <- v2, y <- v3, output_lock <- v4,
  term <- v5, tail <- v6, input_pipe <- v7, echo_keys <- v8, wrong <- v9
Sh == INSTANCE Shell WITH
  Chars <- ShChars, Size <- 5, MaxArgs <- 6, Path <- ShPath, Tree <- ShTree,
  Children <- {1, 2}, pc <- v1, line <- v2, want <- v3, child <- v4, fg <- v5,
  misread <- v6
Shm == INSTANCE Memory WITH
  NSpaces <- 3, NBoot <- 3, Kinds <- {"stack", "heap", "map"}, Edge <- {},
  MemEntries <- 6, MaxUsers <- 127, Forking <- FALSE, Leavers <- {},
  Opens <- {"ro", "rw"}, Values <- {0}, pmm <- v1, pt <- v2, live <- v3,
  grown <- v4, sg <- v5, panic <- v6, mem <- v7, wrote <- v8

SystemInit ==
  /\ Init
  /\ \/ focus = "blocks" /\ Blocks!Init /\ None4
     \/ focus = "dirs" /\ Directories!Init /\ None8
     \/ focus = "fs" /\ Fs!Init /\ None6
     \/ focus = "tar" /\ Tar!Init /\ None5
     \/ focus = "ata" /\ Ata!Init /\ None11
     \/ focus = "disk" /\ Disk!Init /\ None5
     \/ focus = "tree" /\ Avl!Init /\ None3
     \/ focus = "lists" /\ Lists!Init /\ None7
     \/ focus = "sched" /\ Sched!Init /\ None9
     \/ focus = "fpu" /\ Fpu!Init /\ None9
     \/ focus = "kernel" /\ Kernel!Init /\ None5
     \/ focus = "heap" /\ Heap!Init /\ None7
     \/ focus = "kmap" /\ Window!Init /\ None6
     \/ focus = "umap" /\ UserMap!Init /\ None3
     \/ focus = "load" /\ Load!Init /\ None11
     \/ focus = "printf" /\ Format!Init /\ None7
     \/ focus = "paths" /\ Links!Init /\ None5
     \/ focus = "vm86" /\ Vm86!Init /\ None13
     \/ focus = "pci" /\ Pci!Init /\ None6
     \/ focus = "keys" /\ Kbd!Init
     \/ focus = "screen" /\ Screen!Init /\ None10
     \/ focus = "shell" /\ Sh!Init /\ None7
     \/ focus = "shm" /\ Shm!Init /\ None9
     \/ focus = "memory" /\ None1

SystemNext ==
  \/ focus = "blocks" /\ Blocks!Next /\ UNCHANGED <<focus, vars, Rest4>>
  \/ focus = "dirs" /\ Directories!Next /\ UNCHANGED <<focus, vars, Rest8>>
  \/ focus = "fs" /\ Fs!Next /\ UNCHANGED <<focus, vars, Rest6>>
  \/ focus = "tar" /\ Tar!Next /\ UNCHANGED <<focus, vars, Rest5>>
  \/ focus = "ata" /\ Ata!Next /\ UNCHANGED <<focus, vars, Rest11>>
  \/ focus = "disk" /\ Disk!Next /\ UNCHANGED <<focus, vars, Rest5>>
  \/ focus = "tree" /\ Avl!Next /\ UNCHANGED <<focus, vars, Rest3>>
  \/ focus = "lists" /\ Lists!Next /\ UNCHANGED <<focus, vars, Rest7>>
  \/ focus = "sched" /\ Sched!Next /\ UNCHANGED <<focus, vars, Rest9>>
  \/ focus = "fpu" /\ Fpu!Next /\ UNCHANGED <<focus, vars, Rest9>>
  \/ focus = "kernel" /\ Kernel!Next /\ UNCHANGED <<focus, vars, Rest5>>
  \/ focus = "heap" /\ Heap!Next /\ UNCHANGED <<focus, vars, Rest7>>
  \/ focus = "kmap" /\ Window!Next /\ UNCHANGED <<focus, vars, Rest6>>
  \/ focus = "umap" /\ UserMap!Next /\ UNCHANGED <<focus, vars, Rest3>>
  \/ focus = "load" /\ Load!Next /\ UNCHANGED <<focus, vars, Rest11>>
  \/ focus = "printf" /\ Format!Next /\ UNCHANGED <<focus, vars, Rest7>>
  \/ focus = "paths" /\ Links!Next /\ UNCHANGED <<focus, vars, Rest5>>
  \/ focus = "vm86" /\ Vm86!Next /\ UNCHANGED <<focus, vars, Rest13>>
  \/ focus = "pci" /\ Pci!Next /\ UNCHANGED <<focus, vars, Rest6>>
  \/ focus = "keys" /\ Kbd!Next /\ UNCHANGED <<focus, vars>>
  \/ focus = "screen" /\ Screen!Next /\ UNCHANGED <<focus, vars, Rest10>>
  \/ focus = "shell" /\ Sh!Next /\ UNCHANGED <<focus, vars, Rest7>>
  \/ focus = "shm" /\ Shm!Next /\ UNCHANGED <<focus, vars, Rest9>>
  \/ focus = "memory" /\ Next /\ UNCHANGED <<focus, Rest1>>

systemvars == <<focus, vars, Rest1>>

SystemSpec == SystemInit /\ [][SystemNext]_systemvars

(* BlocksCorrect (libext2_inode.c: block_alloc, get_block_offset,
   ext2_inode_truncate): after writes over holes, through indirect blocks and
   onto a full disk, and after truncations, the bitmap marks the blocks that
   some inode reaches, each of them reached once, the free counts agree,
   block_count covers what is reached, and no request changes another word
   than those it was asked for.                                             *)
BlocksCorrect == focus = "blocks" => Blocks!BlocksCorrect

(* DirsCorrect (libext2_directory.c, libext2_file.c, libext2_symlink.c,
   res.c): over creation, assignment of a class, removal and loading, the
   records of every directory fill its blocks, the link count of an inode is
   the number of the records that lead to it (its name, and the '.' and '..'
   of directories), the count of directories is right, a symbolic link reads
   as it was written, and the loaded resources show what is on the disk.    *)
DirsCorrect == focus = "dirs" => Directories!DirsCorrect

(* FsCorrect (cdi/fs.c: find_resource, use_resource, unload_resource; tar.c:
   service_stream_recv; create_pipe.c: __simplify_path; root-mapper.c): a
   resource is loaded for as long as a file refers to it or to something
   below it, a tar file reads as the bytes of its own member from every
   position inside it, and a path leads to what was mounted innermost above
   it, however it is written.                                               *)
FsCorrect == /\ focus = "fs" => Fs!Correct
             /\ focus = "tar" => Tar!Correct
             /\ focus = "paths" => Links!Correct

(* DrivesCorrect (ata/request.c, ata/ata.c, ata/device.c; cdi/storage.c): a
   request that reports success moved the right sectors between the right
   buffer and the drive, however it was cut into commands, whichever command
   failed and was tried again, and whenever the interrupt came; the
   partitions that are found lie on the device and share no block; and a read
   or a write that succeeds, of any length at any position, moves the words it
   was asked for, of a partition it began in no others, and changes its
   neighbours in their blocks only when they could not be read before or, for a
   short write at the beginning of a block, were not.                       *)
DrivesCorrect == /\ focus = "ata" => Ata!AtaCorrect
                 /\ focus = "disk" => Disk!DiskCorrect

(* ContainersCorrect (cdi/tyndur-tree.c, cdi/lists.c): after every insertion
   and removal the AVL tree finds the keys that are in it, in order, is
   balanced, and records its balances; and a list that is used as a queue or
   walked through hands out the element asked for although it remembers the
   one it looked at last.                                                   *)
ContainersCorrect == /\ focus = "tree" => Avl!Correct
                     /\ focus = "lists" => Lists!Correct

(* CpuCorrect (scheduler.c: schedule; dispatch.c,
   arch/i386/tasking/dispatch.c): no process that is ready is passed over for
   longer than the threshold allows, although processes yield to each other,
   interrupts jump the queue and the counter wraps; and whoever computes in
   the floating point registers finds its own values there, over switches,
   deaths and structures used again.                                        *)
CpuCorrect == /\ focus = "sched" => Sched!Correct
              /\ focus = "fpu" => Fpu!Correct

(* AllocatorsCorrect (malloc.c, free.c, kmalloc.c; kernel_map, kernel_unmap,
   vmmc_user_map_sg and vmmc_user_unmap in vmem.c): blocks handed out and
   free blocks never overlap, no free ones touch, nothing of the heap is lost
   while two threads allocate, free and extend it; a kernel block has the
   frames it needs, which nobody else has; what a process maps into its
   address space, unless it ends where a page table does, is where it was
   told, and so is what two threads map into
   the window of the kernel, and nobody else's, until a single frame, which
   is entered without the lock, has been swapped in between another thread's
   test of the entries and its filling them.                                *)
AllocatorsCorrect == /\ focus = "heap" => Heap!Correct
                     /\ focus = "kernel" => Kernel!Correct
                     /\ focus = "kmap" => Window!Correct
                     /\ focus = "umap" => UserMap!Correct

(* ProgramsCorrect (load.c, process_set_args, process_set_initial_params;
   vsnprintf.c): a program starts with its segments as the file has them and
   with the arguments and the environment it was given; and what it formats
   is cut to the room there is, returns the length of the whole and, for all
   directives but those that Printf.Known names, reads as the standard says. *)
ProgramsCorrect == /\ focus = "load" => Load!Correct
                   /\ focus = "printf" => Format!Correct

(* SharingCorrect (common/memory/vmem.c: vmmc_open_shm, vmmc_close_shm):
   whoever has a shared memory object mapped, and its maker, is among its
   users, what is mapped is still the frame of the object, and pmm_use is
   called for frames within its asserted bounds.                            *)
SharingCorrect == focus = "shm" => Shm!SharedCorrect

(* Vm86Correct (vm86.c): a BIOS routine leaves the registers, the flags, the
   stack and the memory that a processor in real mode would leave, although
   the privileged instructions are carried out by hand, and the caller gets
   what that run left.                                                      *)
Vm86Correct == focus = "vm86" => Vm86!Vm86Correct

(* PciCorrect (pci.c: enumerate_bus, serve_device; lib/cdi/pci.c): the walk
   over the buses finds every function, behind bridges and gaps, a driver
   that is through knows the place and the size of every resource, and sizing
   a register leaves its contents as they were, with one driver looking at a
   time.                                                                    *)
PciCorrect == focus = "pci" => Pci!PciCorrect

(* TerminalCorrect (ps2-keyboard.c, bios-console.c, p35sh.c): a reader gets
   the characters that the keys stood for when they were pressed, the
   youngest ones and in order, if no key waits behind caps lock; each pipe of the console gets the same
   characters however its text is cut into writes and whoever writes in
   between, and the lock is released; and the line of the shell is what was
   typed and not erased, divided at the spaces outside quotations, with the
   next one read when the command is over.                                  *)
TerminalCorrect == /\ focus = "keys" => Kbd!Correct
                   /\ focus = "screen" => Screen!Correct
                   /\ focus = "shell" => Sh!Correct

(* Files, threads, pipes and blocks for list elements are alike.             *)
Symmetry == Permutations({o1, o2})

============================================================
