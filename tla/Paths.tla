------------------------------- MODULE Paths -------------------------------
(* From a path to the place that it leads to: the library cuts "//", "/./"   *)
(* and "/../" out of it (lib/common/vfs/create_pipe.c: __simplify_path), and *)
(* the service (root) makes a symbolic link of it, to where the longest      *)
(* mount point above it leads (progs/common/root-mapper/root-mapper.c).      *)
(* Paths are sequences of characters, as memmove and strncmp see them.       *)
EXTENDS Integers, FiniteSets, SequencesExt

CONSTANTS
  Pipes,       \* pipes that make mount points
  MountPaths,  \* where something is mounted
  Dests,       \* what is mounted there
  Lookups      \* what is looked up; all begin with "/" and stay below it

VARIABLES
  entries,     \* <<[base, dest]>>, the list
  mpic,        \* path of a mount point in creation, None
  writing,     \* pipes inside of entry_lock, with the entry they have found
  mounted      \* <<path, destination>> of the last mount at each path

vars == <<entries, mpic, writing, mounted>>

None == <<"none">>
Highest(S) == CHOOSE k \in S : \A j \in S : j <= k
Lowest(S) == CHOOSE k \in S : \A j \in S : k <= j

------------------------------------------------------------------------------
(* __simplify_path *)

(* The k-th character, the terminator behind the end.                        *)
CharAt(s, k) == IF k \in DOMAIN s THEN s[k] ELSE "nul"
Cut(s, from, behind) == SubSeq(s, 1, from - 1) \o SubSeq(s, behind, Len(s))
Slashes(s, from) == {k \in from .. Len(s) : s[k] = "/"}

(* while (part[1] == '/')                                                    *)
OneSlash(s, part) ==
  Cut(s, part + 1, Lowest({k \in part + 1 .. Len(s) + 1 : CharAt(s, k) # "/"}))

(* while (part[1] == '.' && part[2] == '/')                                  *)
NoDots(s, part) ==
  LET ends == {part + 1 + 2 * m : m \in 0 .. Len(s)}
      dots(e) == \A k \in part + 1 .. e - 1 :
                   CharAt(s, k) = IF (k - part) % 2 = 1 THEN "." ELSE "/"
  IN  Cut(s, part + 1, Highest({e \in ends : e <= Len(s) + 1 /\ dots(e)}))

(* while (part[1] == '.' && part[2] == '.' && (part[3] == '/' || !part[3])): *)
(* the name before part goes as well; at the root nothing happens.           *)
GoesUp(s, part) ==
  /\ CharAt(s, part + 1) = "." /\ CharAt(s, part + 2) = "."
  /\ CharAt(s, part + 3) \in {"/", "nul"}
NoParents(s, part) ==
  LET up[m \in 0 .. Len(s)] ==
        IF m = 0 THEN [s |-> s, part |-> part]
        ELSE LET r == up[m - 1]
                 prev == {k \in Slashes(r.s, 1) : k < r.part}
             IN  IF ~GoesUp(r.s, r.part) \/ prev = {} THEN r
                 ELSE IF CharAt(r.s, r.part + 3) = "/"
                 THEN [s |-> Cut(r.s, Highest(prev) + 1, r.part + 4),
                       part |-> Highest(prev)]
                 ELSE [s |-> SubSeq(r.s, 1, Highest(prev) - 1),
                       part |-> Highest(prev)]
  IN  up[Len(s)]

(* One turn of the loop at a slash; where: the place the next search starts. *)
SimplifyAt(s, part) ==
  LET one  == OneSlash(s, part)
      none == NoDots(one, part)
      up   == NoParents(none, part)
      ends == [s |-> SubSeq(one, 1, part - 1), where |-> Len(s) + 1]
      dot  == [s |-> SubSeq(none, 1, part - 1), where |-> Len(s) + 1]
  IN  CASE CharAt(one, part + 1) = "nul" -> ends
        [] CharAt(one, part + 1) # "nul" /\ CharAt(none, part + 1) = "."
           /\ CharAt(none, part + 2) = "nul" -> dot
        [] OTHER -> [s |-> up.s,
                     where |-> IF up.s = s THEN part + 1 ELSE up.part]

simplify_path(path) ==
  LET turn[m \in 0 .. 2 * Len(path)] ==
        IF m = 0 THEN [s |-> path, where |-> 1]
        ELSE LET r == turn[m - 1]
                 next == Slashes(r.s, r.where)
             IN  IF next = {} THEN r ELSE SimplifyAt(r.s, Lowest(next))
  IN  turn[2 * Len(path)].s

------------------------------------------------------------------------------
(* The service *)

Init ==
  /\ entries = <<>> /\ mpic = [p \in Pipes |-> None]
  /\ writing = {} /\ mounted = {}

(* service_create_pipe: a pipe can only be opened to make a mount point.     *)
service_create_pipe(p, path) ==
  /\ mpic[p] = None
  /\ mpic' = [mpic EXCEPT ![p] = simplify_path(path)]
  /\ UNCHANGED <<entries, writing, mounted>>

service_duplicate_pipe(p, q) ==
  /\ mpic[p] # None /\ mpic[q] = None
  /\ mpic' = [mpic EXCEPT ![q] = mpic[p]]
  /\ UNCHANGED <<entries, writing, mounted>>

service_destroy_pipe(p) ==
  /\ mpic[p] # None /\ p \notin {w.pipe : w \in writing}
  /\ mpic' = [mpic EXCEPT ![p] = None]
  /\ UNCHANGED <<entries, writing, mounted>>

(* service_stream_send: the entry of the path, a new one at the end, under   *)
(* the lock; then its destination.                                           *)
At(path) == {k \in DOMAIN entries : entries[k].base = path}

Find(p, dest) ==
  /\ mpic[p] # None /\ writing = {}
  /\ entries' = IF At(mpic[p]) # {} THEN entries
                ELSE Append(entries, [base |-> mpic[p], dest |-> None])
  /\ writing' = {[pipe |-> p, dest |-> dest]}
  /\ UNCHANGED <<mpic, mounted>>

StoreDest(w) ==
  LET path == mpic[w.pipe]
  IN  /\ entries' = [k \in DOMAIN entries |->
           IF k \in At(path) THEN [entries[k] EXCEPT !.dest = w.dest]
           ELSE entries[k]]
      /\ writing' = writing \ {w}
      /\ mounted' = {m \in mounted : m[1] # path} \union {<<path, w.dest>>}
      /\ UNCHANGED mpic

Next ==
  \/ \E p \in Pipes :
       \/ \E path \in MountPaths : service_create_pipe(p, path)
       \/ service_destroy_pipe(p)
       \/ \E q \in Pipes : service_duplicate_pipe(p, q)
       \/ \E dest \in Dests : Find(p, dest)
  \/ \E w \in writing : StoreDest(w)

Spec == Init /\ [][Next]_vars

(* service_is_symlink: the first of the longest bases that the path begins   *)
(* with and that ends where the path or one of its names does.               *)
Matches(base, path) ==
  /\ IsPrefix(base, path)
  /\ CharAt(path, Len(base) + 1) \in {"/", "nul"}
BestMatch(path) ==
  LET fits == {k \in DOMAIN entries : Matches(entries[k].base, path)}
      longest == {k \in fits : \A j \in fits :
                    Len(entries[j].base) <= Len(entries[k].base)}
  IN  IF fits = {} THEN 0 ELSE Lowest(longest)
service_is_symlink(path) ==
  LET k == BestMatch(path)
  IN  IF k = 0 THEN None
      ELSE entries[k].dest \o SubSeq(path, Len(entries[k].base) + 1, Len(path))

------------------------------------------------------------------------------
(* The names of a path, those that say nothing and those taken back left out.*)
Names(path) ==
  LET ends == SetToSortSeq({k \in DOMAIN path :
                path[k] # "/" /\ CharAt(path, k + 1) \in {"/", "nul"}}, <)
      before(e) == Highest({0} \union {k \in Slashes(path, 1) : k < e})
      name(e) == SubSeq(path, before(e) + 1, e)
  IN  FoldLeft(LAMBDA names, e :
        CASE name(e) = <<".">>      -> names
          [] name(e) = <<".", ".">> -> SubSeq(names, 1, Len(names) - 1)
          [] OTHER                  -> Append(names, name(e)), <<>>, ends)

(* While nobody writes, a path leads to where the innermost directory above  *)
(* it was mounted last, with the names behind that directory, however the    *)
(* path is written, and every entry has a destination (__simplify_path,      *)
(* service_is_symlink, service_stream_send).                                 *)
Correct ==
  /\ writing = {} =>
       \A path \in Lookups :
         LET names == Names(path)
             above == {m \in mounted : IsPrefix(Names(m[1]), names)}
             inner == CHOOSE m \in above : \A o \in above :
                        Len(Names(o[1])) <= Len(Names(m[1]))
             to    == service_is_symlink(simplify_path(path))
         IN  IF above = {} THEN to = None
             ELSE /\ to # None
                  /\ Names(to) = Names(inner[2]) \o
                       SubSeq(names, Len(Names(inner[1])) + 1, Len(names))
  /\ \A k \in DOMAIN entries : entries[k].dest = None => writing # {}
=============================================================================
