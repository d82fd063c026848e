------------------------------- MODULE Pipes -------------------------------
(***************************************************************************)
(* Pipes: the table every process keeps of the pipes it has open           *)
(* (lib/common/vfs), and the objects the services keep for them            *)
(* (lib/common/vfs-service, and devfs and root-mapper as examples).        *)
(*                                                                         *)
(* An entry of the table names a service and the object in it, an address. *)
(* Threads and popups of a process share the table; a lock protects the    *)
(* search for a free entry.  fork copies table and lock, and the child     *)
(* then asks the services for objects of its own.  Opening and duplicating *)
(* wait for the service's answer, closing only sends a message.  Paths and *)
(* the data that goes through a pipe are left out: whether a path is       *)
(* well-formed, its service known, the name a symbolic link or the object  *)
(* refused is a choice.                                                    *)
(***************************************************************************)
EXTENDS Integers, FiniteSets, TLC

CONSTANTS
    Procs,      \* processes
    Threads,    \* their threads
    NPipes,     \* __MFILE: entries of a table
    Ids,        \* addresses of the services' objects
    Main, First,\* the process that runs at first, and its thread
    MaxLinks,   \* bound: symbolic links followed in one create_pipe
    Careful     \* does a program fork and exit only while its other threads
                \* stay outside the library, and close nothing until its child
                \* has pipes of its own?

Slots == 0 .. NPipes - 1
None  == "none"     \* no process, no thread, and the address 0

ASSUME PipesAssumption ==
    /\ NPipes \in Nat \ {0} /\ MaxLinks \in Nat
    /\ Main \in Procs /\ First \in Threads
    /\ None \notin Procs \cup Threads \cup Ids
    /\ Careful \in BOOLEAN

VARIABLES
    tab,        \* _pipes of each process
    lck,        \* _pipe_allocation_lock of each process: its owner
    th,         \* the threads
    open,       \* the pipes each process was given and has not closed
    live,       \* objects of the services
    dying,      \* DESTROY_PIPE popups that have not run yet, by object
    failed      \* assertions that failed

vars == <<tab, lck, th, open, live, dying, failed>>

----------------------------------------------------------------------------
(* A free entry has pid 0; what id it still holds nobody reads.            *)
Closed == [pid |-> "free", id |-> None]

(* A thread outside the library.  src is the pipe duplicate_pipe copies,   *)
(* -1 for create_pipe.                                                     *)
Idle(p) == [proc |-> p, pc |-> "idle", i |-> 0, src |-> -1, ans |-> None, links |-> 0]

Init ==
    /\ tab = [p \in Procs |-> [i \in Slots |-> Closed]]
    /\ lck = [p \in Procs |-> None]
    /\ th = [t \in Threads |-> Idle(IF t = First THEN Main ELSE None)]
    /\ open = [p \in Procs |-> {}]
    /\ live = {}
    /\ dying = [a \in Ids |-> 0]
    /\ failed = {}

Proc(t) == th[t].proc
At(t, pc) == th[t].pc = pc
InLibrary(p) == {t \in Threads : Proc(t) = p /\ ~At(t, "idle")}

(* A child that has not yet got objects of its own.                        *)
InheritPcs == {"inherit", "renew", "renewed"}
Inheriting == \E t \in Threads : th[t].pc \in InheritPcs

(* May t call the library?  No other thread of a careful program does once *)
(* one is on its way out.                                                  *)
MayCall(t) ==
    /\ At(t, "idle") /\ Proc(t) # None
    /\ Careful => \A u \in InLibrary(Proc(t)) : ~At(u, "deinit")

----------------------------------------------------------------------------
(* create_pipe and duplicate_pipe: the search for an entry.                *)
create_pipe(t) ==
    /\ MayCall(t)
    /\ th' = [th EXCEPT ![t] = [Idle(Proc(t)) EXCEPT !.pc = "look"]]
    /\ UNCHANGED <<tab, lck, open, live, dying, failed>>

duplicate_pipe(t) ==
    /\ MayCall(t)
    /\ \E s \in open[Proc(t)], dest \in Slots :
        th' = [th EXCEPT ![t] = [Idle(Proc(t)) EXCEPT !.pc = "look", !.i = dest, !.src = s]]
    /\ UNCHANGED <<tab, lck, open, live, dying, failed>>

(* The entry is read without the lock; the last one ends with EMFILE.      *)
Look(t) ==
    LET p == Proc(t)  i == th[t].i IN
    /\ At(t, "look")
    /\ th' = [th EXCEPT ![t] =
                IF i = NPipes THEN Idle(p)
                ELSE IF tab[p][i].pid = "free" THEN [th[t] EXCEPT !.pc = "claim"]
                ELSE [th[t] EXCEPT !.i = i + 1]]
    /\ UNCHANGED <<tab, lck, open, live, dying, failed>>

(* What duplicate_pipe and create_pipe write into the entry.               *)
Mark(t) == IF th[t].src = -1 THEN "reserved" ELSE tab[Proc(t)][th[t].src].pid

(* Faulty: the entry is not read again under the lock.                     *)
ClaimUnchecked(t) ==
    LET p == Proc(t)  i == th[t].i IN
    /\ At(t, "claim")
    /\ lck[p] = None
    /\ tab' = [tab EXCEPT ![p][i].pid = Mark(t)]
    /\ th' = [th EXCEPT ![t].pc = IF th[t].src = -1 THEN "path" ELSE "ask"]
    /\ UNCHANGED <<lck, open, live, dying, failed>>

(* Under the lock the entry is read again.  Was it taken meanwhile, the    *)
(* search goes on, the lock still being held.                              *)
Claim(t) ==
    LET p == Proc(t)  i == th[t].i IN
    /\ At(t, "claim")
    /\ lck[p] = None
    /\ IF tab[p][i].pid # "free"
       THEN /\ lck' = [lck EXCEPT ![p] = t]
            /\ th' = [th EXCEPT ![t].pc = "look", ![t].i = i + 1]
            /\ UNCHANGED tab
       ELSE /\ tab' = [tab EXCEPT ![p][i].pid = Mark(t)]
            /\ th' = [th EXCEPT ![t].pc = IF th[t].src = -1 THEN "path" ELSE "ask"]
            /\ UNCHANGED lck
    /\ UNCHANGED <<open, live, dying, failed>>

(* lock() by its owner: assert(owner != mypid) fails.  abort is exit, exit *)
(* destroys the pipes, and that is lock() again: the thread never returns. *)
LockAssert(t) ==
    /\ \/ th[t].pc \in {"claim", "undo", "relink", "close"}
       \/ At(t, "deinit") /\ th[t].i < NPipes
    /\ lck[Proc(t)] = t
    /\ failed' = failed \cup {"lock"}
    /\ th' = [th EXCEPT ![t].pc = "aborted"]
    /\ UNCHANGED <<tab, lck, open, live, dying>>

(* extract_path and find_daemon_by_name.  A name nobody answers to leaves  *)
(* a negative pid, which like the 1 before it keeps the entry reserved.    *)
Resolve(t) ==
    /\ At(t, "path")
    /\ \E found \in {"service", "reserved"} :
        /\ tab' = [tab EXCEPT ![Proc(t)][th[t].i].pid = found]
        /\ th' = [th EXCEPT ![t].pc = IF found = "service" THEN "link" ELSE "undo"]
    /\ UNCHANGED <<lck, open, live, dying, failed>>

(* IS_SYMLINK: a link gives the entry up and starts again with its target. *)
FollowLink(t) ==
    /\ At(t, "link")
    /\ \/ th' = [th EXCEPT ![t].pc = "ask"]
       \/ /\ th[t].links < MaxLinks
          /\ th' = [th EXCEPT ![t].pc = "relink"]
    /\ UNCHANGED <<tab, lck, open, live, dying, failed>>

(* The two places that free an entry again.                                *)
Undo(t) ==
    LET p == Proc(t) IN
    /\ th[t].pc \in {"undo", "relink"}
    /\ lck[p] = None
    /\ tab' = [tab EXCEPT ![p][th[t].i] = Closed]
    /\ th' = [th EXCEPT ![t] =
                IF @.pc = "undo" THEN Idle(p)
                ELSE [Idle(p) EXCEPT !.pc = "look", !.links = th[t].links + 1]]
    /\ UNCHANGED <<lck, open, live, dying, failed>>

(* The service's answer to CREATE_PIPE and DUPLICATE_PIPE: the address of  *)
(* a new object, or 0.                                                     *)
Answers == {None} \cup (Ids \ live)

service_create_pipe(t) ==
    /\ At(t, "ask") /\ th[t].src = -1
    /\ \E a \in Answers :
        /\ live' = live \cup ({a} \ {None})
        /\ th' = [th EXCEPT ![t].pc = "store", ![t].ans = a]
    /\ UNCHANGED <<tab, lck, open, dying, failed>>

service_duplicate_pipe(t) ==
    /\ At(t, "ask") /\ th[t].src # -1
    /\ \E a \in Answers :
        /\ live' = live \cup ({a} \ {None})
        /\ th' = [th EXCEPT ![t].pc = "store", ![t].ans = a]
    /\ UNCHANGED <<tab, lck, open, dying, failed>>

(* The caller stores the answer and returns the entry, or gives it up.     *)
Store(t) ==
    LET p == Proc(t)  i == th[t].i IN
    /\ At(t, "store")
    /\ tab' = [tab EXCEPT ![p][i].id = th[t].ans]
    /\ IF th[t].ans = None
       THEN th' = [th EXCEPT ![t].pc = "undo", ![t].ans = None] /\ UNCHANGED open
       ELSE th' = [th EXCEPT ![t] = Idle(p)] /\ open' = [open EXCEPT ![p] = @ \cup {i}]
    /\ UNCHANGED <<lck, live, dying, failed>>

----------------------------------------------------------------------------
(* destroy_pipe's effect: the entry is free at once, and the service       *)
(* learns of it whenever the popup of the message runs.                    *)
Close(p, i) ==
    /\ tab' = [tab EXCEPT ![p][i] = Closed]
    /\ dying' = IF tab[p][i].pid = "service" /\ tab[p][i].id # None
                THEN [dying EXCEPT ![tab[p][i].id] = @ + 1] ELSE dying

(* A program closes what it has, and neither duplicates it meanwhile nor   *)
(* uses it from then on.                                                   *)
destroy_pipe(t) ==
    LET p == Proc(t) IN
    /\ MayCall(t)
    /\ Careful => ~Inheriting
    /\ \E i \in open[p] :
        /\ \A u \in InLibrary(p) : th[u].src # i
        /\ open' = [open EXCEPT ![p] = @ \ {i}]
        /\ th' = [th EXCEPT ![t] = [Idle(p) EXCEPT !.pc = "close", !.i = i]]
    /\ UNCHANGED <<tab, lck, live, dying, failed>>

Destroy(t) ==
    LET p == Proc(t) IN
    /\ At(t, "close")
    /\ lck[p] = None
    /\ Close(p, th[t].i)
    /\ th' = [th EXCEPT ![t] = Idle(p)]
    /\ UNCHANGED <<lck, open, live, failed>>

(* The popup in the service.                                               *)
service_destroy_pipe(a) ==
    /\ dying[a] > 0
    /\ dying' = [dying EXCEPT ![a] = @ - 1]
    /\ live' = live \ {a}
    /\ UNCHANGED <<tab, lck, th, open, failed>>

----------------------------------------------------------------------------
(* A popup starts in a process, and ends; its library calls are the        *)
(* process's.  A new thread has a pid no lock knows.                       *)
popup(t) ==
    /\ Proc(t) = None /\ \A p \in Procs : lck[p] # t
    /\ \E u \in Threads :
        /\ MayCall(u)
        /\ th' = [th EXCEPT ![t] = Idle(Proc(u))]
    /\ UNCHANGED <<tab, lck, open, live, dying, failed>>

popup_exit(t) ==
    /\ MayCall(t)
    /\ \E u \in Threads \ {t} : Proc(u) = Proc(t)
    /\ th' = [th EXCEPT ![t] = Idle(None)]
    /\ UNCHANGED <<tab, lck, open, live, dying, failed>>

(* fork: thread u is the child's.  It inherits the table and the lock as   *)
(* they are, whoever holds it.                                             *)
fork(t) ==
    /\ MayCall(t)
    /\ Careful => InLibrary(Proc(t)) = {} /\ lck[Proc(t)] = None
    /\ \E u \in Threads, p \in Procs :
        /\ Proc(u) = None /\ \A q \in Procs : lck[q] # u
        /\ \A v \in Threads : Proc(v) # p
        /\ tab' = [tab EXCEPT ![p] = tab[Proc(t)]]
        /\ lck' = [lck EXCEPT ![p] = lck[Proc(t)]]
        /\ open' = [open EXCEPT ![p] = open[Proc(t)]]
        /\ th' = [th EXCEPT ![u] = [Idle(p) EXCEPT !.pc = "inherit"]]
    /\ UNCHANGED <<live, dying, failed>>

(* duplicate_all_pipes, under the lock from its start to its end.          *)
Inherit(t) ==
    /\ At(t, "inherit")
    /\ lck[Proc(t)] = None
    /\ lck' = [lck EXCEPT ![Proc(t)] = t]
    /\ th' = [th EXCEPT ![t].pc = "renew"]
    /\ UNCHANGED <<tab, open, live, dying, failed>>

(* Faulty: no objects of the child's own are asked for.                    *)
RenewShared(t) ==
    LET p == Proc(t)  i == th[t].i IN
    /\ At(t, "renew")
    /\ IF i = NPipes
       THEN lck' = [lck EXCEPT ![p] = None] /\ th' = [th EXCEPT ![t] = Idle(p)]
       ELSE th' = [th EXCEPT ![t].i = i + 1] /\ UNCHANGED lck
    /\ UNCHANGED <<tab, open, live, dying, failed>>

Renew(t) ==
    LET p == Proc(t)  i == th[t].i IN
    /\ At(t, "renew")
    /\ IF i = NPipes
       THEN /\ lck' = [lck EXCEPT ![p] = None]
            /\ th' = [th EXCEPT ![t] = Idle(p)]
            /\ UNCHANGED live
       ELSE /\ IF tab[p][i].pid = "free"
               THEN th' = [th EXCEPT ![t].i = i + 1] /\ UNCHANGED live
               ELSE \E a \in IF tab[p][i].pid = "service" /\ tab[p][i].id \in live
                             THEN Ids \ live ELSE Answers :
                    /\ live' = live \cup ({a} \ {None})
                    /\ th' = [th EXCEPT ![t].pc = "renewed", ![t].ans = a]
            /\ UNCHANGED lck
    /\ UNCHANGED <<tab, open, dying, failed>>

(* assert(_pipes[i].id)                                                    *)
Renewed(t) ==
    LET p == Proc(t)  i == th[t].i IN
    /\ At(t, "renewed")
    /\ tab' = [tab EXCEPT ![p][i].id = th[t].ans]
    /\ IF th[t].ans = None
       THEN /\ failed' = failed \cup {"duplicate"}
            /\ th' = [th EXCEPT ![t].pc = "aborted"]
       ELSE /\ th' = [th EXCEPT ![t].pc = "renew", ![t].i = i + 1, ![t].ans = None]
            /\ UNCHANGED failed
    /\ UNCHANGED <<lck, open, live, dying>>

(* exit of the process's own thread: _vfs_deinit destroys every entry, and *)
(* the process is gone with its popups.                                    *)
exit(t) ==
    /\ MayCall(t)
    /\ Careful => ~Inheriting /\ InLibrary(Proc(t)) = {}
    /\ open' = [open EXCEPT ![Proc(t)] = {}]
    /\ th' = [th EXCEPT ![t] = [Idle(Proc(t)) EXCEPT !.pc = "deinit"]]
    /\ UNCHANGED <<tab, lck, live, dying, failed>>

_vfs_deinit(t) ==
    LET p == Proc(t)  i == th[t].i IN
    /\ At(t, "deinit")
    /\ IF i = NPipes
       THEN /\ th' = [u \in Threads |-> IF Proc(u) = p THEN Idle(None) ELSE th[u]]
            /\ UNCHANGED <<tab, dying>>
       ELSE /\ lck[p] = None
            /\ Close(p, i)
            /\ th' = [th EXCEPT ![t].i = i + 1]
    /\ UNCHANGED <<lck, open, live, failed>>

----------------------------------------------------------------------------
(* What a thread does once it has called the library, and the services do. *)
Step(t) ==
    \/ Look(t) \/ Claim(t) \/ LockAssert(t) \/ Resolve(t) \/ FollowLink(t) \/ Undo(t)
    \/ service_create_pipe(t) \/ service_duplicate_pipe(t) \/ Store(t)
    \/ Destroy(t)
    \/ Inherit(t) \/ Renew(t) \/ Renewed(t) \/ _vfs_deinit(t)

Call(t) ==
    create_pipe(t) \/ duplicate_pipe(t) \/ destroy_pipe(t) \/ fork(t) \/ exit(t)
    \/ popup(t) \/ popup_exit(t)

Next ==
    \/ \E t \in Threads : Call(t)
    \/ \E t \in Threads : Step(t)
    \/ \E a \in Ids : service_destroy_pipe(a)

Spec == Init /\ [][Next]_vars

----------------------------------------------------------------------------
(* Types.                                                                  *)
TypeOK ==
    /\ tab \in [Procs -> [Slots -> [pid : {"free", "reserved", "service"},
                                   id : Ids \cup {None}]]]
    /\ lck \in [Procs -> Threads \cup {None}]
    /\ th \in [Threads -> [proc : Procs \cup {None},
                           pc : {"idle", "look", "claim", "path", "link", "relink", "undo",
                                 "ask", "store", "close", "deinit", "aborted"} \cup InheritPcs,
                           i : 0 .. NPipes, src : Slots \cup {-1},
                           ans : Ids \cup {None}, links : 0 .. MaxLinks]]
    /\ open \in [Procs -> SUBSET Slots]
    /\ live \subseteq Ids
    /\ dying \in [Ids -> Nat]
    /\ failed \subseteq {"lock", "duplicate"}

(* The pipes a program may use: open, and in a forked child already its    *)
(* own.                                                                    *)
Running == {Proc(t) : t \in Threads} \ {None}
Own(p, i) == \A t \in InLibrary(p) : th[t].pc \in InheritPcs => th[t].i > i
Usable == {u \in Running \X Slots : u[2] \in open[u[1]] /\ Own(u[1], u[2])}

(* Every pipe a program may use names an object that is alive, that no     *)
(* DESTROY_PIPE is under way for and that no other pipe of any process     *)
(* names; and no object is destroyed twice.  Threads race for entries,     *)
(* entries are freed before the service hears of it, addresses are reused  *)
(* and fork copies the whole table: this is what keeps one program's close *)
(* from freeing what another one uses.                                     *)
NoDangling ==
    /\ \A u \in Usable :
        LET e == tab[u[1]][u[2]] IN
        /\ e.pid = "service" /\ e.id \in live /\ dying[e.id] = 0
        /\ \A w \in Usable \ {u} : tab[w[1]][w[2]].id # e.id
    /\ \A a \in Ids : dying[a] <= IF a \in live THEN 1 ELSE 0

(* Nothing leaks in a service: an object is alive only as long as an entry *)
(* of a running process names it, its address is on the way to one, or the *)
(* message that destroys it is on the way.                                 *)
NoOrphan ==
    \A a \in live :
        \/ dying[a] > 0
        \/ \E t \in Threads : th[t].ans = a
        \/ \E p \in Running, i \in Slots : tab[p][i].pid = "service" /\ tab[p][i].id = a

(* PipesCorrect: a pipe a program may use has an object of its own, and    *)
(* every object a pipe.                                                    *)
PipesCorrect == TypeOK /\ NoDangling /\ NoOrphan

(* A pipe names the same object of the same service from the moment it is  *)
(* usable until its own program closes it: no search of another thread, no *)
(* failed open and no fork changes an entry somebody has.                  *)
EntryKept ==
    [][\A u \in Usable : u \in Usable' => tab'[u[1]][u[2]] = tab[u[1]][u[2]]]_vars

(* lock() asserts that nobody locks what he holds: assert(owner != mypid). *)
LockAsserted == "lock" \notin failed

(* The addresses of objects are chosen and compared only as such.          *)
Symmetry == Permutations(Ids)
=============================================================================
