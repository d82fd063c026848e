------------------------------- MODULE Loader -------------------------------
(* How a program gets into a new address space: its segments, page by page   *)
(* (kernel/common/tasking/load.c), its arguments and environment on the      *)
(* stack (process_set_args in kernel/common/tasking/management.c) and the    *)
(* parameters of its entry point (kernel/arch/i386/tasking/management.c).    *)
(* An address is a number, a word of the file or of a string is an element   *)
(* <<whose, its how manyeth>>; pointers and the alignment keep their ratio   *)
(* to each other and to a page.                                              *)
EXTENDS Integers, FiniteSets, SequencesExt

CONSTANTS
  PageSize, Ptr,   \* in words; a pointer is Ptr of them
  StackTop,        \* USER_STACK_TOP, a page boundary
  Tls,             \* size of struct tls
  Images,          \* program headers: [load, vaddr, filesz, memsz]
  Args             \* [argv, envp]: lengths of the strings

VARIABLES
  image, args,
  i, cur,          \* the segment, and [base, ofs, msz, fsz, copied] of it
  image_end,
  mem,             \* page -> words; a page that is missing is not mapped
  arg, d,          \* process_set_args: i and d
  esp, pc

vars == <<image, args, i, cur, image_end, mem, arg, d, esp, pc>>

Junk == <<"junk", 0>>     \* what pmm_alloc leaves in a frame
Zero == <<"zero", 0>>
Nul == <<"nul", 0>>
Done == [base |-> 0, ofs |-> 0, msz |-> 0, fsz |-> 0, copied |-> 0]

PageOf(a) == a \div PageSize
Offset(a) == a % PageSize
Lesser(a, b) == IF a < b THEN a ELSE b
Read(a) == mem[PageOf(a)][Offset(a)]

Init ==
  /\ image \in Images /\ args \in Args
  /\ i = 0 /\ cur = Done /\ image_end = 0 /\ mem = <<>>
  /\ arg = 0 /\ d = 0 /\ esp = StackTop /\ pc = "load"

------------------------------------------------------------------------------
(* load_image_to_process *)

NextSegment ==
  /\ pc = "load" /\ cur.msz = 0 /\ i < Len(image)
  /\ i' = i + 1
  /\ LET p == image[i + 1]
     IN  IF ~p.load THEN UNCHANGED <<cur, image_end>>
         ELSE /\ cur' = [base |-> PageOf(p.vaddr), ofs |-> Offset(p.vaddr),
                         msz |-> p.memsz, fsz |-> Lesser(p.filesz, p.memsz),
                         copied |-> 0]
              /\ image_end' = IF p.vaddr + p.memsz > image_end
                              THEN p.vaddr + p.memsz ELSE image_end
  /\ UNCHANGED <<image, args, mem, arg, d, esp, pc>>

(* Faulty: every page begins with the beginning of the segment's contents.   *)
FrameOfFirst(c, block, file) ==
  [k \in 0 .. PageSize - 1 |->
     CASE k - c.ofs \in 0 .. file - 1           -> <<i, k - c.ofs>>
       [] k - c.ofs \in file .. block - 1       -> Zero
       [] OTHER                                 -> Junk]

(* What one turn of the loop leaves in a new frame: zeros over the part that *)
(* belongs to the segment, over them what the file has left.                 *)
FrameOf(c, block, file) ==
  [k \in 0 .. PageSize - 1 |->
     CASE k - c.ofs \in 0 .. file - 1           -> <<i, c.copied + k - c.ofs>>
       [] k - c.ofs \in file .. block - 1       -> Zero
       [] OTHER                                 -> Junk]

LoadPage ==
  LET block == Lesser(PageSize - cur.ofs, cur.msz)
      file  == Lesser(block, cur.fsz)
  IN  /\ pc = "load" /\ cur.msz > 0
      /\ mem' = [p \in DOMAIN mem \union {cur.base} |->
                  IF p = cur.base THEN FrameOf(cur, block, file) ELSE mem[p]]
      /\ cur' = [base |-> cur.base + 1, ofs |-> 0, msz |-> cur.msz - block,
                 fsz |-> cur.fsz - file, copied |-> cur.copied + file]
      /\ UNCHANGED <<image, args, i, image_end, arg, d, esp, pc>>

------------------------------------------------------------------------------
(* make_process_entry, process_set_args *)

Strings == args.argv \o args.envp
Slots == Len(Strings) + 2
SizeOf == FoldLeft(LAMBDA s, n : s + n + 1, 0, Strings) + Ptr * Slots
Aligned == ((SizeOf + Ptr - 1) \div Ptr) * Ptr

(* vmmc_do_lazy_map of every page from a up to the end of the stack.         *)
WithStack(a) ==
  [p \in DOMAIN mem \union (PageOf(a) .. PageOf(StackTop - 1)) |->
     IF p \in DOMAIN mem THEN mem[p] ELSE [k \in 0 .. PageSize - 1 |-> Zero]]

(* The thread's local storage is the first thing on the stack.               *)
StartArgs ==
  /\ pc = "load" /\ cur.msz = 0 /\ i = Len(image)
  /\ esp' = StackTop - Tls - Aligned
  /\ mem' = WithStack(esp')
  /\ d' = esp' + Ptr * Slots
  /\ pc' = "args"
  /\ UNCHANGED <<image, args, i, cur, image_end, arg>>

IsNull(k) == k = Len(args.argv) \/ k = Len(args.argv) + 1 + Len(args.envp)
StringAt(k) == IF k < Len(args.argv) THEN k + 1 ELSE k

(* The words of a string are put down page by page; the words of a page come *)
(* from behind those of the pages before it.                                 *)
StringPages(k) ==
  LET len == Strings[StringAt(k)] + 1
      first == PageSize - Offset(d)
      copied(p) == IF p = PageOf(d) THEN 0
                   ELSE first + (p - PageOf(d) - 1) * PageSize
      out(p) == IF p = PageOf(d) THEN Offset(d) ELSE 0
      amount(p) == IF p = PageOf(d + len - 1) THEN len - copied(p)
                   ELSE PageSize - out(p)
      word(n) == IF n = len - 1 THEN Nul ELSE <<"s", StringAt(k), n>>
  IN  [p \in DOMAIN mem |->
         IF p \notin PageOf(d) .. PageOf(d + len - 1) THEN mem[p]
         ELSE [w \in 0 .. PageSize - 1 |->
                 IF w - out(p) \in 0 .. amount(p) - 1
                 THEN word(copied(p) + w - out(p)) ELSE mem[p][w]]]

WithPointer(m, a, v) == [m EXCEPT ![PageOf(a)][Offset(a)] = <<"ptr", v>>]

SetArg ==
  /\ pc = "args" /\ arg < Slots
  /\ arg' = arg + 1
  /\ IF IsNull(arg)
     THEN mem' = WithPointer(mem, esp + arg * Ptr, 0) /\ UNCHANGED d
     ELSE /\ mem' = WithPointer(StringPages(arg), esp + arg * Ptr, d)
          /\ d' = d + Strings[StringAt(arg)] + 1
  /\ UNCHANGED <<image, args, i, cur, image_end, esp, pc>>

(* process_set_initial_params: argc, argv and envp, aligned to four words,   *)
(* and room for the address that main would return to.                       *)
SetParams ==
  LET argv == esp
      base == ((esp - 3 * Ptr) \div (4 * Ptr)) * (4 * Ptr)
      m    == WithStack(base)
      put(a, v) == [a |-> a, v |-> v]
      words == {put(base, Len(args.argv)), put(base + Ptr, argv),
                put(base + 2 * Ptr, argv + (Len(args.argv) + 1) * Ptr)}
  IN  /\ pc = "args" /\ arg = Slots
      /\ mem' = [p \in DOMAIN m |-> [w \in 0 .. PageSize - 1 |->
                   IF \E x \in words : x.a = p * PageSize + w
                   THEN <<"ptr", (CHOOSE x \in words : x.a = p * PageSize + w).v>>
                   ELSE m[p][w]]]
      /\ esp' = base - Ptr
      /\ pc' = "runs"
      /\ UNCHANGED <<image, args, i, cur, image_end, arg, d>>

Next == NextSegment \/ LoadPage \/ StartArgs \/ SetArg \/ SetParams

Spec == Init /\ [][Next]_vars

------------------------------------------------------------------------------
(* The string that a pointer at a points to is the k-th one.                 *)
PointsTo(a, k) ==
  LET s == Read(a)[2]
  IN  /\ \A n \in 0 .. Strings[k] - 1 : Read(s + n) = <<"s", k, n>>
      /\ Read(s + Strings[k]) = Nul

(* A program that starts finds every segment as the file and the size in     *)
(* memory say, across pages, its heap behind all of them, and through its    *)
(* parameters exactly the arguments and the environment it was given         *)
(* (load_image_to_process, process_set_args, process_set_initial_params).    *)
Correct ==
  pc = "runs" =>
    /\ \A s \in {n \in 1 .. Len(image) : image[n].load} :
         /\ \A k \in 0 .. image[s].memsz - 1 :
              Read(image[s].vaddr + k) = IF k < image[s].filesz THEN <<s, k>> ELSE Zero
         /\ image[s].vaddr + image[s].memsz <= image_end
    /\ LET base == esp + Ptr
           argv == Read(base + Ptr)[2]
           envp == Read(base + 2 * Ptr)[2]
           argc == Len(args.argv)
           envc == Len(args.envp)
       IN  /\ Read(base) = <<"ptr", argc>> /\ base % (4 * Ptr) = 0
           /\ \A k \in 1 .. argc : PointsTo(argv + (k - 1) * Ptr, k)
           /\ \A k \in 1 .. envc : PointsTo(envp + (k - 1) * Ptr, argc + k)
           /\ Read(argv + argc * Ptr) = <<"ptr", 0>>
           /\ Read(envp + envc * Ptr) = <<"ptr", 0>>
=============================================================================
