------------------------------- MODULE Shell --------------------------------
(* The shell (progs/common/p35sh/p35sh.c): the line editor with completion,  *)
(* the words of a line, commands in the foreground and the background, and   *)
(* the children that are waited for.  A character is a sequence of bytes.    *)
(* Left out, because the code goes wrong there: a character of several bytes *)
(* at the start of the line (its first byte cannot be erased) or across its  *)
(* end, an escaped quotation mark (it opens a quotation), and a fork that    *)
(* fails while a background command runs (the shell waits for that one).     *)
EXTENDS Integers, Sequences, FiniteSets, SequencesExt

CONSTANTS
  Chars,       \* what is typed: sequences of bytes, <<"sp">> a space
  Size,        \* bytes of a line, 127
  MaxArgs,     \* words of a command, 31
  Path,        \* entries of the directories in PATH: [name, dir]
  Tree,        \* Tree[prefix]: the entries of a directory
  Children

VARIABLES
  pc,          \* "edit", "wait", "reap"
  line,        \* s: the bytes
  want,        \* the characters the user sees
  child,       \* "none", "runs", "zombie"
  fg,          \* the child that is waited for
  misread      \* a completion or a command differs from what was typed

vars == <<pc, line, want, child, fg, misread>>

Nobody == 0

Init ==
  /\ pc = "edit" /\ line = <<>> /\ want = <<>>
  /\ child = [c \in Children |-> "none"]
  /\ fg = Nobody /\ misread = FALSE

------------------------------------------------------------------------------
(* cmdtok: where the first word of s ends.  A backslash takes the next byte  *)
(* along, a quotation everything up to its end.                              *)
Closing(s, k, mark) ==
  LET later == {j \in k + 1 .. Len(s) : s[j] = mark} IN
  IF later = {} THEN Len(s) + 1 ELSE CHOOSE j \in later : \A i \in later : j <= i

WordEnd(s) ==
  LET go[k \in 1 .. Len(s) + 2] ==
        IF k > Len(s) THEN Len(s)
        ELSE IF s[k] = "sp" THEN k - 1
        ELSE IF s[k] = "bslash" THEN go[IF k + 2 > Len(s) + 1 THEN Len(s) + 1 ELSE k + 2]
        ELSE IF s[k] = "quote"
        THEN LET c == Closing(s, k, "quote") IN go[IF c > Len(s) THEN c ELSE c + 1]
        ELSE go[k + 1]
  IN go[1]

(* The static pointer behind a word: over all spaces, nothing at the end.    *)
Skip(s) ==
  LET words == {k \in 1 .. Len(s) : s[k] # "sp"} IN
  IF words = {} THEN <<>> ELSE SubSeq(s, CHOOSE k \in words : \A j \in words : k <= j, Len(s))

(* All words of a line; one that starts with a space has an empty first one. *)
Tokens(s) ==
  LET go[n \in 0 .. Len(s) + 1] ==
        IF n = 0 THEN [rest |-> s, words |-> <<>>, more |-> TRUE]
        ELSE LET b == go[n - 1]
                 e == WordEnd(b.rest)
                 r == Skip(SubSeq(b.rest, e + 1, Len(b.rest))) IN
             IF ~b.more THEN b
             ELSE [rest |-> r, words |-> Append(b.words, SubSeq(b.rest, 1, e)),
                   more |-> r # <<>>]
  IN go[Len(s) + 1].words

(* The same said without a scan: a space divides when it is outside every    *)
(* quotation and not escaped.                                                *)
Escaped(s, k) ==
  \E n \in 1 .. k - 1 : /\ \A j \in k - n .. k - 1 : s[j] = "bslash"
                        /\ (k - n = 1 \/ s[k - n - 1] # "bslash") /\ n % 2 = 1
Quoted(s, k) == Cardinality({j \in 1 .. k - 1 : s[j] = "quote"}) % 2 = 1
Divides(s, k) == s[k] = "sp" /\ ~Quoted(s, k) /\ ~Escaped(s, k)
WordsOf(s) ==
  LET starts == {k \in 1 .. Len(s) : ~Divides(s, k) /\ (k = 1 \/ Divides(s, k - 1))}
      End(k) == CHOOSE e \in k .. Len(s) :
                  /\ \A j \in k .. e : ~Divides(s, j)
                  /\ e = Len(s) \/ Divides(s, e + 1) IN
  {SubSeq(s, k, End(k)) : k \in starts}

------------------------------------------------------------------------------
(* my_fgets: a byte, or a character byte for byte.                           *)
Type(c) ==
  /\ pc = "edit" /\ Len(line) + Len(c) <= Size
  /\ Len(c) > 1 => line # <<>>
  /\ ~(c = <<"quote">> /\ line # <<>> /\ Last(line) = "bslash")
  /\ line' = line \o c /\ want' = Append(want, c)
  /\ UNCHANGED <<pc, child, fg, misread>>

(* Continuation bytes go with the byte before them.                          *)
Erased(s) ==
  LET go[i \in 0 .. Len(s)] ==    \* i: bytes left before the next turn
        IF i = 0 THEN 0
        ELSE IF s[i] = "cont" /\ i - 1 > 1 THEN go[i - 1] ELSE i - 1
  IN SubSeq(s, 1, go[Len(s)])

Backspace ==
  /\ pc = "edit" /\ line # <<>>
  /\ line' = Erased(line) /\ want' = Front(want)
  /\ UNCHANGED <<pc, child, fg, misread>>

(* The word that is completed, its directory and what fits.                  *)
From(s, mark) ==
  LET marks == {k \in 1 .. Len(s) : s[k] = mark} IN
  IF marks = {} THEN 0 ELSE CHOOSE k \in marks : \A j \in marks : j <= k
LastWord(s) == SubSeq(s, From(s, "sp") + 1, Len(s))
Hits(s) ==
  LET w == LastWord(s)
      cut == From(w, "/")
      all == IF From(s, "sp") = 0 /\ cut = 0 THEN Path
             ELSE IF SubSeq(w, 1, cut) \in DOMAIN Tree THEN Tree[SubSeq(w, 1, cut)] ELSE <<>> IN
  SelectSeq(all, LAMBDA e : IsPrefix(SubSeq(w, cut + 1, Len(w)), e.name))

(* ggt: what all that fits has in common behind the word, one by one.        *)
Common(a, b) ==
  LET same == {n \in 0 .. Len(a) : n <= Len(b) /\ SubSeq(a, 1, n) = SubSeq(b, 1, n)} IN
  SubSeq(a, 1, CHOOSE n \in same : \A j \in same : j <= n)
Ggt(s) ==
  LET hits == Hits(s)
      w == LastWord(s)
      len == Len(w) - From(w, "/")
      go[n \in 0 .. Len(hits)] ==
        IF n = 0 THEN <<>>
        ELSE LET rest == SubSeq(hits[n].name, len + 1, Len(hits[n].name)) IN
             IF n = 1 THEN rest ELSE Common(go[n - 1], rest)
  IN go[Len(hits)]

Room(s, add) == SubSeq(s \o add, 1, IF Len(s \o add) < Size THEN Len(s \o add) ELSE Size)

Tab ==
  /\ pc = "edit"
  /\ LET hits == Hits(line)
         kinds == {hits[k].dir : k \in 1 .. Len(hits)}
         add == Ggt(line) \o (IF Len(hits) = 1
                              THEN <<IF hits[1].dir THEN "/" ELSE "sp">> ELSE <<>>)
         new == Room(line, add)
         w == LastWord(line)
         stem(e) == SubSeq(w, 1, From(w, "/")) \o e.name
         done == SubSeq(line \o Ggt(line), From(line, "sp") + 1, Len(line \o Ggt(line))) IN
     /\ Len(line) < Size
     /\ line' = new
     /\ want' = want \o [k \in 1 .. Len(new) - Len(line) |-> <<new[Len(line) + k]>>]
     /\ misread' = (misread \/ (hits # <<>> /\
          ~(/\ \A k \in 1 .. Len(hits) : IsPrefix(done, stem(hits[k]))
            /\ Cardinality({stem(hits[k]) : k \in 1 .. Len(hits)}) = 1 => done = stem(hits[1])
            /\ \/ \E k \in 1 .. Len(hits) : done = stem(hits[k])
               \/ \E j, k \in 1 .. Len(hits) :
                    stem(hits[j])[Len(done) + 1] # stem(hits[k])[Len(done) + 1])))
  /\ UNCHANGED <<pc, child, fg>>

------------------------------------------------------------------------------
(* cmd_called: the words become argv; a last one that is & is taken away.    *)
Argv(s) == LET t == Tokens(s) IN SubSeq(t, 1, IF Len(t) < MaxArgs THEN Len(t) ELSE MaxArgs)
Background(argv) == Len(argv) > 1 /\ Last(argv) = <<"&">>

Divided(s) == {Tokens(s)[k] : k \in 1 .. Len(Tokens(s))} \ {<<>>} = WordsOf(s)

(* An empty line, a comment or a builtin makes no process.                   *)
NoProcess(argv) == IF Head(argv) = <<>> THEN TRUE ELSE Head(Head(argv)) = "#"

Enter ==
  LET argv == Argv(line) IN
  /\ pc = "edit"
  /\ line' = <<>> /\ want' = <<>>
  /\ misread' = (misread \/ ~Divided(line) \/ line # FlattenSeq(want))
  /\ \/ /\ NoProcess(argv)
        /\ pc' = "reap" /\ UNCHANGED <<child, fg>>
     \/ \E c \in Children :
        /\ ~NoProcess(argv) /\ child[c] = "none"
        /\ child' = [child EXCEPT ![c] = "runs"]
        /\ IF Background(argv) THEN pc' = "reap" /\ UNCHANGED fg
           ELSE pc' = "wait" /\ fg' = c
     \/ /\ ~NoProcess(argv) /\ \A c \in Children : child[c] = "none"   \* fork fails
        /\ pc' = "reap" /\ UNCHANGED <<child, fg>>

ChildExits(c) ==
  /\ child[c] = "runs"
  /\ child' = [child EXCEPT ![c] = "zombie"]
  /\ UNCHANGED <<pc, line, want, fg, misread>>

(* waitpid for the command in the foreground.                                *)
WaitReturns ==
  /\ pc = "wait" /\ child[fg] = "zombie"
  /\ child' = [child EXCEPT ![fg] = "none"]
  /\ fg' = Nobody /\ pc' = "reap"
  /\ UNCHANGED <<line, want, misread>>

(* main: waitpid(-1, NULL, WNOHANG) as long as it finds one.                 *)
Reap ==
  /\ pc = "reap"
  /\ \/ \E c \in Children :
        /\ child[c] = "zombie"
        /\ child' = [child EXCEPT ![c] = "none"]
        /\ UNCHANGED pc
     \/ /\ \A c \in Children : child[c] # "zombie"
        /\ pc' = "edit" /\ UNCHANGED child
  /\ UNCHANGED <<line, want, fg, misread>>

Next ==
  \/ Backspace \/ Tab \/ Enter \/ WaitReturns \/ Reap
  \/ \E c \in Chars : Type(c)
  \/ \E c \in Children : ChildExits(c)

------------------------------------------------------------------------------
(* The bytes of the line are the characters the user typed, got by completion*)
(* and did not erase; a completion adds exactly what all names that fit have *)
(* in common; a line is divided at the spaces outside quotations; the shell  *)
(* reads no line while its foreground command runs.                          *)
Correct ==
  /\ ~misread
  /\ line = FlattenSeq(want)
  /\ (pc = "wait") = (fg # Nobody)
  /\ pc = "wait" => child[fg] \in {"runs", "zombie"}
==============================================================================
