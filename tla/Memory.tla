------------------------------- MODULE Memory -------------------------------
(***************************************************************************)
(* Physical memory and address spaces: the frame map of                    *)
(* src/kernel/common/memory/pmm.c, the page tables with copy on write and  *)
(* lazy mapping of src/kernel/arch/i386/mmu/vmem.c, and the heap and the   *)
(* shared memory objects of src/kernel/common/memory/vmem.c.               *)
(*                                                                         *)
(* Kernel code is not preempted and page faults come with interrupts off:  *)
(* every operation is one step.  The frames that hold page tables are left *)
(* out.  An address space has one page of each kind: the stack (with the   *)
(* thread-local storage on it), the heap, the area inherited over exec,    *)
(* and the mapping area where shared memory goes.                          *)
(***************************************************************************)
EXTENDS Integers, FiniteSets, FiniteSetsExt

CONSTANTS
    NSpaces,      \* number of address spaces
    NBoot,        \* of which so many are there from boot
    Kinds,        \* the kinds of pages used
    Edge,         \* those that lie in the last entry of their page table
    MemEntries,   \* number of frames (mem_entries)
    MaxUsers,     \* BITMAP_USERS, 127
    Forking,      \* do processes fork?
    Leavers,      \* "exec", "exit": with shared memory still mapped?
    Opens,        \* accesses with which shared memory is opened
    Values        \* contents of a page

(* What the constants must be like.                                        *)
ASSUME MemoryAssumption ==
    /\ NSpaces \in Nat /\ NBoot \in 1 .. NSpaces /\ NBoot <= MemEntries
    /\ Kinds \subseteq {"stack", "heap", "heritage", "map"}
    /\ Edge \subseteq Kinds
    /\ MemEntries \in Nat \ {0} /\ MaxUsers \in Nat \ {0}
    /\ Forking \in BOOLEAN /\ Leavers \subseteq {"exec", "exit"}
    /\ Opens \subseteq {"ro", "rw"} /\ 0 \in Values

VARIABLES
    pmm,     \* bitmap (users and copy-on-write flag per frame), look_from_here
    pt,      \* per address space and page: the page table entry
    live,    \* the address spaces in use
    grown,   \* those whose heap_end is above the heap page
    sg,      \* the shared memory object, and who has made and opened it
    panic,   \* the assertion that has stopped the kernel, or "no"
    mem,     \* contents of the frames
    wrote    \* what each address space last stored in a page

vars == <<pmm, pt, live, grown, sg, panic, mem, wrote>>

Spaces == 1 .. NSpaces
Frames == 0 .. MemEntries - 1

None      == [st |-> "none", frame |-> -1, rw |-> FALSE]
Lazy      == [st |-> "lazy", frame |-> -1, rw |-> FALSE]
Pte(f, w) == [st |-> "present", frame |-> f, rw |-> w]
NoShm     == [st |-> "none", frame |-> -1, users |-> 0, kept |-> FALSE,
              maker |-> FALSE, by |-> {}]

Present(s, p) == pt[s][p].st = "present"
FrameOf(s, p) == pt[s][p].frame

(* How many of the pages P of s are in frame f.                            *)
In(s, P, f) == Cardinality({p \in P : Present(s, p) /\ FrameOf(s, p) = f})

-----------------------------------------------------------------------------
(* The operators on the frame map take it and return the new one.          *)

Zero(pm, f) == pm.bitmap[f] = [n |-> 0, cow |-> FALSE]

(* pmm_alloc searches from look_from_here for a byte that is 0.            *)
Candidates(pm) == {f \in Frames : f >= pm.look_from_here /\ Zero(pm, f)}

pmm_alloc(pm) ==
    LET f == Min(Candidates(pm)) IN
    [bitmap |-> [pm.bitmap EXCEPT ![f].n = 1], look_from_here |-> f]

(* pmm_free for each of the given pages of s (count of them per frame).    *)
Freed(pm, drop) ==
    [f \in Frames |-> [pm.bitmap[f] EXCEPT !.n = @ - drop[f]]]

pmm_free(pm, drop) ==
    LET b   == Freed(pm, drop)
        low == {f \in Frames : drop[f] > 0 /\ b[f] = [n |-> 0, cow |-> FALSE]}
    IN [bitmap |-> b, look_from_here |-> Min({pm.look_from_here} \cup low)]

One(f) == [g \in Frames |-> IF g = f THEN 1 ELSE 0]

FreeAsserts(pm, drop) == \A f \in Frames : drop[f] <= pm.bitmap[f].n

UseAsserts(pm, add) ==
    \A f \in Frames : add[f] > 0 => pm.bitmap[f].n \in 1 .. MaxUsers - add[f]

pmm_use(pm, add) ==
    [pm EXCEPT !.bitmap = [f \in Frames |-> [pm.bitmap[f] EXCEPT !.n = @ + add[f]]]]

pmm_mark_cow(pm, F, flag) ==
    [pm EXCEPT !.bitmap = [f \in Frames |-> IF f \in F THEN [pm.bitmap[f] EXCEPT !.cow = flag]
                                            ELSE pm.bitmap[f]]]

(* What is left in a frame without users is of no interest: it counts as 0.*)
Contents(pm, m) == [f \in Frames |-> IF pm.bitmap[f].n = 0 THEN 0 ELSE m[f]]

(* A failed assertion leaves the kernel halted.                            *)
Halt(why) == panic' = why /\ UNCHANGED <<pmm, pt, live, grown, sg, mem, wrote>>

-----------------------------------------------------------------------------
Fresh == [p \in Kinds |-> IF p = "heritage" THEN Lazy ELSE None]

(* The processes started at boot; their thread-local storage is there.     *)
Init ==
    /\ live = 1 .. NBoot
    /\ pt = [s \in Spaces |-> IF s \in live THEN [p \in Kinds |-> IF p = "stack" THEN Pte(s - 1, TRUE)
                                                               ELSE Fresh[p]]
                              ELSE [p \in Kinds |-> None]]
    /\ pmm = [bitmap |-> [f \in Frames |-> [n |-> IF "stack" \in Kinds /\ f < NBoot THEN 1 ELSE 0, cow |-> FALSE]],
              look_from_here |-> 0]
    /\ grown = {}
    /\ sg = NoShm
    /\ panic = "no"
    /\ mem = [f \in Frames |-> 0]
    /\ wrote = [s \in Spaces |-> [p \in Kinds |-> 0]]

(* vmmc_do_lazy_map: the first access to a page.  What is inherited over   *)
(* exec is cleared, all else is handed out as it is found.                 *)
vmmc_do_lazy_map(s, p) ==
    /\ s \in live /\ pt[s][p].st = "lazy"
    /\ IF Candidates(pmm) = {} THEN Halt("exhausted")
       ELSE LET f == Min(Candidates(pmm)) IN
            /\ pmm' = pmm_alloc(pmm)
            /\ pt' = [pt EXCEPT ![s][p] = Pte(f, TRUE)]
            /\ mem' = IF p = "heritage" THEN [mem EXCEPT ![f] = 0] ELSE mem
            /\ wrote' = [wrote EXCEPT ![s][p] = mem'[f]]
            /\ UNCHANGED <<live, grown, sg, panic>>

(* vmmc_do_cow, the write fault of a read-only page whose frame is marked. *)
(* The only user gets the frame back, another one a copy.  Mutant: every   *)
(* user gets the frame.                                                    *)
LastUserAlways(f) == TRUE

LastUser(f) == pmm.bitmap[f].n = 1

vmmc_do_cow(s, p) ==
    LET old == FrameOf(s, p)
        new == Min(Candidates(pmm))
    IN
    /\ s \in live /\ Present(s, p) /\ ~pt[s][p].rw /\ pmm.bitmap[old].cow
    /\ IF LastUser(old)
       THEN /\ pt' = [pt EXCEPT ![s][p].rw = TRUE]
            /\ pmm' = pmm_mark_cow(pmm, {old}, FALSE)
            /\ UNCHANGED <<live, grown, sg, panic, mem, wrote>>
       ELSE IF Candidates(pmm) = {} THEN Halt("exhausted")
       ELSE /\ pt' = [pt EXCEPT ![s][p] = Pte(new, TRUE)]
            /\ mem' = [mem EXCEPT ![new] = mem[old]]
            /\ pmm' = pmm_free(pmm_alloc(pmm), One(old))
            /\ UNCHANGED <<live, grown, sg, panic, wrote>>

(* User code stores into a page it may write.                              *)
Store(s, p, v) ==
    /\ s \in live /\ Present(s, p) /\ pt[s][p].rw
    /\ mem' = [mem EXCEPT ![FrameOf(s, p)] = v]
    /\ wrote' = [wrote EXCEPT ![s][p] = v]
    /\ UNCHANGED <<pmm, pt, live, grown, sg, panic>>

-----------------------------------------------------------------------------
(***************************************************************************)
(* fork: vmmc_clone into a new address space.  The pids the kernel then    *)
(* stores go through kernel_map into the frame of the stack itself, which  *)
(* the parent has as well; these words are not among the contents          *)
(* modelled.  Mutant: pmm_use is forgotten.                                *)
(***************************************************************************)
CloneFramesUnused(s, pm) ==
    pmm_mark_cow(pm, {FrameOf(s, p) : p \in {q \in Kinds : Present(s, q)}}, TRUE)

CloneFrames(s, pm) ==
    pmm_mark_cow(pmm_use(pm, [f \in Frames |-> In(s, Kinds, f)]),
                 {FrameOf(s, p) : p \in {q \in Kinds : Present(s, q)}}, TRUE)

vmmc_clone(s) ==
    [p \in Kinds |-> IF Present(s, p) THEN Pte(FrameOf(s, p), FALSE) ELSE pt[s][p]]

fork(s) ==
    LET d == Min(Spaces \ live) IN
    /\ Forking /\ s \in live /\ Spaces \ live # {}
    /\ IF ~UseAsserts(pmm, [f \in Frames |-> In(s, Kinds, f)]) THEN Halt("use")
       ELSE /\ pmm' = CloneFrames(s, pmm)
            /\ pt' = [pt EXCEPT ![s] = vmmc_clone(s), ![d] = vmmc_clone(s)]
            /\ live' = live \cup {d}
            /\ grown' = IF s \in grown THEN grown \cup {d} ELSE grown
            /\ wrote' = [wrote EXCEPT ![d] = wrote[s]]
            /\ UNCHANGED <<sg, panic, mem>>

(* vmmc_clear_user frees what the given pages hold; the mapping area is    *)
(* only unmapped.                                                          *)
Cleared(s, preserve) ==
    [f \in Frames |-> In(s, Kinds \ ({"map"} \cup IF preserve THEN {"heritage"} ELSE {}), f)]

(* Processes close the shared memory they use before they leave.           *)
Closed(s) == "map" \in Kinds => ~Present(s, "map")

(* exec empties the address space but for what is inherited; the new       *)
(* program starts with a stack only, which make_process_entry touches.     *)
exec(s) ==
    LET pm  == pmm_free(pmm, Cleared(s, TRUE))
        new == Min(Candidates(pm))
        page(p) == CASE p = "stack" -> Pte(new, TRUE)
                     [] p = "heritage" -> pt[s][p]
                     [] OTHER -> None
    IN
    /\ s \in live /\ ("exec" \in Leavers \/ Closed(s))
    /\ IF ~FreeAsserts(pmm, Cleared(s, TRUE)) THEN Halt("free")
       ELSE IF "stack" \in Kinds /\ Candidates(pm) = {} THEN Halt("exhausted")
       ELSE /\ pmm' = IF "stack" \in Kinds THEN pmm_alloc(pm) ELSE pm
            /\ pt' = [pt EXCEPT ![s] = [p \in Kinds |-> page(p)]]
            /\ grown' = grown \ {s}
            /\ sg' = [sg EXCEPT !.by = @ \ {s}]
            /\ mem' = Contents(pmm', mem)
            /\ wrote' = [wrote EXCEPT ![s] = [p \in Kinds |->
                            CASE p = "stack" -> mem'[new] [] p = "heritage" -> wrote[s][p]
                              [] OTHER -> 0]]
            /\ UNCHANGED <<live, panic>>

(* The last unuse_vmm_context destroys the address space.  The first       *)
(* process stays.                                                          *)
destroy_vmm_context(s) ==
    /\ s \in live /\ live # {s} /\ ("exit" \in Leavers \/ Closed(s))
    /\ IF ~FreeAsserts(pmm, Cleared(s, FALSE)) THEN Halt("free")
       ELSE /\ pmm' = pmm_free(pmm, Cleared(s, FALSE))
            /\ pt' = [pt EXCEPT ![s] = [p \in Kinds |-> None]]
            /\ live' = live \ {s}
            /\ grown' = grown \ {s}
            /\ wrote' = [wrote EXCEPT ![s] = [p \in Kinds |-> 0]]
            /\ sg' = [sg EXCEPT !.by = @ \ {s}]
            /\ mem' = Contents(pmm', mem)
            /\ UNCHANGED panic

(* vmmc_user_unmap: the bound of the loop over the entries is taken modulo *)
(* the size of a page table, so a page in the last entry stays.            *)
vmmc_user_unmap(s, p) == IF p \in Edge THEN pt ELSE [pt EXCEPT ![s][p] = None]

(* context_sbrk by a page: up, which takes a page that is mapped already as *)
(* it is, and down.                                                        *)
context_sbrk_up(s) ==
    /\ s \in live \ grown /\ "heap" \in Kinds
    /\ IF Present(s, "heap") THEN grown' = grown \cup {s} /\ UNCHANGED <<pmm, pt, live, sg, panic, mem, wrote>>
       ELSE IF Candidates(pmm) = {} THEN Halt("exhausted")
       ELSE /\ grown' = grown \cup {s}
            /\ pmm' = pmm_alloc(pmm)
            /\ pt' = [pt EXCEPT ![s]["heap"] = Pte(Min(Candidates(pmm)), TRUE)]
            /\ wrote' = [wrote EXCEPT ![s]["heap"] = mem[Min(Candidates(pmm))]]
            /\ UNCHANGED <<live, sg, panic, mem>>

context_sbrk_down(s) ==
    /\ s \in grown
    /\ IF ~FreeAsserts(pmm, One(FrameOf(s, "heap"))) THEN Halt("free")
       ELSE /\ grown' = grown \ {s}
            /\ pmm' = pmm_free(pmm, One(FrameOf(s, "heap")))
            /\ pt' = vmmc_user_unmap(s, "heap")
            /\ wrote' = [wrote EXCEPT ![s]["heap"] = 0]
            /\ mem' = Contents(pmm', mem)
            /\ UNCHANGED <<live, sg, panic>>

-----------------------------------------------------------------------------
(* vmmc_create_shm: an object without frames.                              *)
vmmc_create_shm ==
    /\ Opens # {} /\ sg.st = "none"
    /\ sg' = [NoShm EXCEPT !.st = "live"]
    /\ UNCHANGED <<pmm, pt, live, grown, panic, mem, wrote>>

(* vmmc_make_shm of the heap page of s (which sbrk has mapped).            *)
vmmc_make_shm(s) ==
    LET f == FrameOf(s, "heap") IN
    /\ Opens # {} /\ sg.st = "none"
    /\ s \in live /\ "heap" \in Kinds /\ Present(s, "heap")
    /\ IF ~UseAsserts(pmm, One(f)) THEN Halt("use")
       ELSE /\ pmm' = pmm_use(pmm, One(f))
            /\ sg' = [st |-> "live", frame |-> f, users |-> 1, kept |-> FALSE,
                      maker |-> TRUE, by |-> {}]
            /\ UNCHANGED <<pt, live, grown, panic, mem, wrote>>

(* vmmc_open_shm: the object kept alive, one in use, or a new one.         *)
(* Mutant: an opener is not counted.                                       *)
OpenedForgotten(f) == pmm

Opened(f) == pmm_use(pmm, One(f))

vmmc_open_shm(s, mode) ==
    LET f == IF sg.kept \/ sg.users # 0 THEN sg.frame ELSE Min(Candidates(pmm)) IN
    /\ sg.st = "live" /\ s \in live /\ "map" \in Kinds /\ pt[s]["map"].st = "none"
    /\ IF ~sg.kept /\ sg.users # 0 /\ ~UseAsserts(pmm, One(f)) THEN Halt("use")
       ELSE IF ~sg.kept /\ sg.users = 0 /\ Candidates(pmm) = {} THEN Halt("exhausted")
       ELSE /\ pmm' = IF sg.kept THEN pmm ELSE IF sg.users # 0 THEN Opened(f) ELSE pmm_alloc(pmm)
            /\ sg' = [sg EXCEPT !.frame = f, !.users = @ + 1, !.kept = FALSE,
                                !.by = @ \cup {s}]
            /\ pt' = [pt EXCEPT ![s]["map"] = Pte(f, mode = "rw")]
            /\ UNCHANGED <<live, grown, panic, mem, wrote>>

(* The common end of vmmc_close_shm and vmmc_unmake_shm: the last user may *)
(* leave the object alive for the next one.                                *)
KeepAlive(last, destroy) == last /\ ~destroy

Drop(destroy, maker, by) ==
    LET last == sg.users = 1 IN
    /\ pmm' = IF KeepAlive(last, destroy) THEN pmm ELSE pmm_free(pmm, One(sg.frame))
    /\ mem' = Contents(pmm', mem)
    /\ sg' = IF last /\ destroy THEN NoShm
             ELSE [sg EXCEPT !.users = @ - 1, !.kept = last, !.maker = maker, !.by = by]

(* Who opened the object closes it.                                        *)
vmmc_close_shm(s, destroy) ==
    /\ s \in sg.by
    /\ IF ~FreeAsserts(pmm, One(sg.frame)) THEN Halt("free")
       ELSE /\ Drop(destroy, sg.maker, sg.by \ {s})
            /\ pt' = vmmc_user_unmap(s, "map")
            /\ UNCHANGED <<live, grown, panic, wrote>>

(* Whoever made the object takes it back once (shm_unmake in the library). *)
vmmc_unmake_shm(destroy) ==
    /\ sg.st = "live" /\ sg.maker
    /\ IF ~FreeAsserts(pmm, One(sg.frame)) THEN Halt("free")
       ELSE Drop(destroy, FALSE, sg.by) /\ UNCHANGED <<pt, live, grown, panic, wrote>>

Next ==
    /\ panic = "no"
    /\ \/ \E s \in Spaces :
             \/ \E p \in Kinds : vmmc_do_lazy_map(s, p) \/ vmmc_do_cow(s, p)
             \/ \E p \in Kinds, v \in Values : Store(s, p, v)
             \/ fork(s)
             \/ exec(s) \/ destroy_vmm_context(s)
             \/ context_sbrk_up(s) \/ context_sbrk_down(s)
             \/ vmmc_make_shm(s)
             \/ \E mode \in Opens : vmmc_open_shm(s, mode)
             \/ \E destroy \in BOOLEAN : vmmc_close_shm(s, destroy)
       \/ vmmc_create_shm
       \/ \E destroy \in BOOLEAN : vmmc_unmake_shm(destroy)

Spec == Init /\ [][Next]_vars

-----------------------------------------------------------------------------
(* TypeOK: the values the variables take.                                  *)
TypeOK ==
    /\ pmm \in [bitmap : [Frames -> [n : 0 .. MaxUsers, cow : BOOLEAN]], look_from_here : Frames]
    /\ pt \in [Spaces -> [Kinds -> [st : {"none", "lazy", "present"}, frame : Frames \cup {-1},
                                    rw : BOOLEAN]]]
    /\ live \in SUBSET Spaces /\ grown \in SUBSET live
    /\ sg \in [st : {"none", "live"}, frame : Frames \cup {-1}, users : Nat, kept : BOOLEAN,
               maker : BOOLEAN, by : SUBSET live]
    /\ panic \in {"no", "exhausted", "free", "use"}
    /\ mem \in [Frames -> Values] /\ wrote \in [Spaces -> [Kinds -> Values]]

(* CountsExact: the count of a frame is the number of pages in it, plus    *)
(* the users of the shared memory object (one, while it is kept alive), so *)
(* that no frame is handed out twice and none is lost: pmm_alloc, pmm_use  *)
(* and pmm_free are balanced over faults, fork, exec, exit, sbrk and shm.  *)
CountsExact ==
    \A f \in Frames :
        pmm.bitmap[f].n =
            Cardinality({sp \in live \X (Kinds \ {"map"}) :
                           Present(sp[1], sp[2]) /\ FrameOf(sp[1], sp[2]) = f})
            + (IF sg.frame = f THEN sg.users + (IF sg.kept THEN 1 ELSE 0) ELSE 0)

(* WritableIsPrivate: while no memory is shared on purpose, a page that    *)
(* can be written without a fault is the only one in its frame (vmmc_clone *)
(* takes the write access of both sides, vmmc_do_cow gives it back to one).*)
WritableIsPrivate ==
    \A s \in live, p \in Kinds : Present(s, p) /\ pt[s][p].rw => pmm.bitmap[FrameOf(s, p)].n = 1

(* Isolation: while no memory is shared on purpose, every process reads    *)
(* what it, or its ancestors before the fork, stored last, over copies,    *)
(* exits of the others and frames used again.                              *)
Isolation ==
    \A s \in live, p \in Kinds : Present(s, p) => mem[FrameOf(s, p)] = wrote[s][p]

(* LookIsLow: no frame that pmm_alloc could hand out is below the point    *)
(* where its search starts.                                                *)
LookIsLow == \A f \in Frames : Zero(pmm, f) => f >= pmm.look_from_here

(* FramesExact (pmm.c, vmem.c): over forks, write faults, heaps that grow  *)
(* and shrink, exec and exit every frame has as many users as there are    *)
(* pages that name it and users of a shared memory object in it, and no    *)
(* free frame is below the point where pmm_alloc starts to search.         *)
FramesExact == TypeOK /\ CountsExact /\ LookIsLow

(* Private (vmmc_do_cow, vmmc_clone): a frame that somebody may write      *)
(* has one user, and every process reads what it or its ancestors before   *)
(* the fork stored last.                                                   *)
Private == WritableIsPrivate /\ Isolation

(* MappingsCounted: whoever has the shared memory object mapped, and the   *)
(* process that made it, is among its users, and what is mapped is still   *)
(* the object's frame: vmmc_close_shm of one does not pull the frame from  *)
(* under another, and an object kept alive is not forgotten.               *)
MappingsCounted ==
    /\ \A s \in live : pt[s]["map"].st = "present" =>
            /\ s \in sg.by /\ FrameOf(s, "map") = sg.frame
            /\ pmm.bitmap[sg.frame].n >= Cardinality(sg.by)
    /\ Cardinality(sg.by) + (IF sg.maker THEN 1 ELSE 0) = sg.users
    /\ sg.kept \/ sg.users > 0 => sg.frame \in Frames /\ pmm.bitmap[sg.frame].n > 0

(* UseAsserted: pmm_use is called for frames with at least one user and    *)
(* fewer than BITMAP_USERS, which it asserts ("Sonst wird das              *)
(* Inkrementieren lustig.").                                               *)
UseAsserted == panic # "use"

(* SharedCorrect (vmmc_open_shm, vmmc_close_shm, vmmc_unmake_shm): whoever *)
(* has a shared memory object mapped, and its maker, is among its users,   *)
(* what is mapped is still the frame of the object, which is there for as  *)
(* long as somebody uses it, and pmm_use is called within its assertions.  *)
SharedCorrect == MappingsCounted /\ UseAsserted

(* ExhaustedMeansUsed: "physical memory exhausted" is only reported when   *)
(* every frame has a user.                                                 *)
ExhaustedMeansUsed == panic = "exhausted" => \A f \in Frames : pmm.bitmap[f].n > 0
=============================================================================
