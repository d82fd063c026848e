------------------------------- MODULE Console ------------------------------
(* The text console (progs/platform/pc/bios-console/bios-console.c): pipes   *)
(* with colours, a saved cursor position and the first bytes of a character  *)
(* that has not arrived completely, and one screen with one cursor for all.  *)
(* A byte is "a" (a letter), "L2" or "L3" (the first of two or three), "C"   *)
(* (a further one), or a control character; an escape sequence counts as one *)
(* byte.  Left out by the constant Inputs: "cut", a sequence of which a      *)
(* write holds only the beginning, after which the lock of the screen is     *)
(* never released.                                                           *)
EXTENDS Integers, Sequences, SequencesExt, FiniteSets, FiniteSetsExt

CONSTANTS
  Pipes,
  Width, Height,   \* 80 and 25 in the code
  Inputs,          \* what a program writes: sequences of bytes
  Typed            \* what the keyboard returns: sequences of bytes

VARIABLES
  text_mem,        \* the cells of the screen, 0 .. Width * Height - 1
  x, y,            \* the cursor
  output_lock,
  term,            \* pipes: [saved, sx, sy, fg, reversed]; Closed
  tail,            \* per pipe: what has arrived of an incomplete character
  input_pipe,      \* a keyboard is connected
  echo_keys,
  wrong

vars == <<text_mem, x, y, output_lock, term, tail, input_pipe, echo_keys, wrong>>

Closed  == [saved |-> <<>>, sx |-> -1, sy |-> -1, fg |-> 0, reversed |-> FALSE]
NewPipe == [saved |-> <<>>, sx |-> 0, sy |-> 0, fg |-> 0, reversed |-> FALSE]
(* A cell: the bytes of its character, 0: none, and its colours. *)
Cell(c, tp) == [char |-> Len(c), fg |-> tp.fg, reversed |-> tp.reversed]
Blank   == Cell(<<>>, NewPipe)
Cells   == 0 .. Width * Height - 1

Init ==
  /\ text_mem = [p \in Cells |-> Blank]
  /\ x = 0 /\ y = 0
  /\ output_lock = FALSE
  /\ term = [p \in Pipes |-> Closed]
  /\ tail = [p \in Pipes |-> <<>>]
  /\ input_pipe = FALSE /\ echo_keys = TRUE
  /\ wrong = FALSE

------------------------------------------------------------------------------
(* Characters from bytes *)

Expected(byte) == CASE byte = "L2" -> 2 [] byte = "L3" -> 3 [] OTHER -> 1

(* One turn of the loop of cons_print: a saved beginning is completed first; *)
(* a character that is not complete is saved, and ends the call.             *)
DecodeOne(d) ==
  LET n    == Expected(IF d.saved = <<>> THEN d.s[1] ELSE d.saved[1])
      take == Min({n - Len(d.saved), Len(d.s)})
      char == d.saved \o SubSeq(d.s, 1, take)
  IN  IF Len(char) < n THEN [d EXCEPT !.saved = char, !.s = <<>>]
      ELSE [s |-> SubSeq(d.s, take + 1, Len(d.s)), saved |-> <<>>,
            chars |-> Append(d.chars, char)]

Decode(saved, s) ==
  LET go[n \in 0 .. Len(s)] ==
        IF n = 0 THEN [s |-> s, saved |-> saved, chars |-> <<>>]
        ELSE LET d == go[n - 1] IN IF d.s = <<>> THEN d ELSE DecodeOne(d)
  IN  go[Len(s)]

(* The lengths of the characters in a text, whatever writes it came in.      *)
Whole(bytes) ==
  LET go[n \in 0 .. Len(bytes)] ==
        IF n = 0 THEN [at |-> 0, chars |-> <<>>]
        ELSE LET g == go[n - 1]
                 e == Expected(bytes[g.at + 1])
             IN  IF g.at = Len(bytes) \/ g.at + e > Len(bytes) THEN g
                 ELSE [at |-> g.at + e,
                       chars |-> Append(g.chars, SubSeq(bytes, g.at + 1, g.at + e))]
      end == go[Len(bytes)]
  IN  [chars |-> end.chars, rest |-> SubSeq(bytes, end.at + 1, Len(bytes))]

------------------------------------------------------------------------------
(* The screen: s is [mem, x, y, out, tp, wrong] *)

recalc_pos(cx, cy) == cy * Width + cx

scroll_down(mem) ==
  [p \in Cells |-> IF p + Width \in Cells THEN mem[p + Width] ELSE Blank]

clrscr(tp) == [p \in Cells |-> [Cell(<<>>, tp) EXCEPT !.reversed = FALSE]]

Goto(s, cx, cy) == [s EXCEPT !.x = cx, !.y = cy, !.out = recalc_pos(cx, cy)]

Newline(s) ==
  LET t == IF s.y + 1 >= Height THEN [s EXCEPT !.mem = scroll_down(@)]
           ELSE [s EXCEPT !.y = @ + 1]
  IN  Goto(t, 0, t.y)

Backspace(s) ==
  IF s.x > 0 THEN Goto(s, s.x - 1, s.y)
  ELSE IF s.y > 0 THEN Goto(s, Width - 1, s.y - 1) ELSE Goto(s, s.x, s.y)

PutChar(s, char) ==
  LET put  == [s EXCEPT !.mem[s.out] = Cell(char, s.tp), !.out = @ + 1]
      wrap == s.x + 1 >= Width
      roll == wrap /\ s.y + 1 >= Height
  IN  [put EXCEPT !.x = IF wrap THEN 0 ELSE @ + 1,
                  !.y = IF wrap /\ ~roll THEN @ + 1 ELSE @,
                  !.mem = IF roll THEN scroll_down(@) ELSE @,
                  !.out = IF roll THEN @ - Width ELSE @]

(* The pointer into the screen and the cursor stay together.                 *)
Act(s, char) ==
  LET c == char[1]
      t == CASE c = "nl"      -> Newline(s)
             [] c = "cr"      -> Goto(s, 0, s.y)
             [] c = "bs"      -> Backspace(s)
             [] c = "home"    -> Goto(s, 0, 0)
             [] c = "clear"   -> [s EXCEPT !.mem = clrscr(s.tp)]
             [] c = "save"    -> [s EXCEPT !.tp.sx = s.x, !.tp.sy = s.y]
             [] c = "restore" -> Goto(s, s.tp.sx, s.tp.sy)
             [] c = "red"     -> [s EXCEPT !.tp.fg = 1]
             [] c = "reverse" -> [s EXCEPT !.tp.reversed = TRUE]
             [] c = "reset"   -> [s EXCEPT !.tp.fg = 0, !.tp.reversed = FALSE]
             [] OTHER         -> PutChar(s, char)
  IN  [t EXCEPT !.wrong = @ \/ t.out # recalc_pos(t.x, t.y)
                            \/ t.x \notin 0 .. Width - 1 \/ t.y \notin 0 .. Height - 1]

(* cons_print *)
cons_print(p, bytes) ==
  LET d    == Decode(term[p].saved, bytes)
      whole == Whole(tail[p] \o bytes)
      cut  == \E i \in 1 .. Len(d.chars) : d.chars[i] = <<"cut">>
      end  == FoldLeft(Act, [mem |-> text_mem, x |-> x, y |-> y,
                             out |-> recalc_pos(x, y),
                             tp |-> [term[p] EXCEPT !.saved = d.saved], wrong |-> wrong],
                       SelectSeq(d.chars, LAMBDA c : c # <<"cut">>))
  IN  /\ ~output_lock
      /\ output_lock' = cut
      /\ text_mem' = end.mem /\ x' = end.x /\ y' = end.y
      /\ term' = [term EXCEPT ![p] = end.tp]
      /\ tail' = [tail EXCEPT ![p] = whole.rest]
      /\ wrong' = (end.wrong \/ d.chars # whole.chars \/ d.saved # whole.rest)

------------------------------------------------------------------------------
(* The service *)

(* service_create_pipe *)
Create(p) ==
  /\ term[p] = Closed
  /\ term' = [term EXCEPT ![p] = NewPipe]
  /\ UNCHANGED <<text_mem, x, y, output_lock, tail, input_pipe, echo_keys, wrong>>

(* service_duplicate_pipe copies the bytes of an incomplete character too.   *)
Duplicate(p, q) ==
  /\ term[p] # Closed /\ term[q] = Closed
  /\ term' = [term EXCEPT ![q] = term[p]]
  /\ tail' = [tail EXCEPT ![q] = tail[p]]
  /\ UNCHANGED <<text_mem, x, y, output_lock, input_pipe, echo_keys, wrong>>

(* service_destroy_pipe *)
Destroy(p) ==
  /\ term[p] # Closed
  /\ term' = [term EXCEPT ![p] = Closed]
  /\ tail' = [tail EXCEPT ![p] = <<>>]
  /\ UNCHANGED <<text_mem, x, y, output_lock, input_pipe, echo_keys, wrong>>

(* service_stream_send to a terminal *)
Send(p, bytes) ==
  /\ term[p] # Closed
  /\ cons_print(p, bytes)
  /\ UNCHANGED <<input_pipe, echo_keys>>

(* service_stream_send to "/input": the keyboard that is read from now on.   *)
Mount ==
  /\ ~input_pipe
  /\ input_pipe' = TRUE
  /\ UNCHANGED <<text_mem, x, y, output_lock, term, tail, echo_keys, wrong>>

(* service_stream_recv: what was typed appears on the screen. *)
Recv(p, bytes) ==
  /\ term[p] # Closed /\ input_pipe /\ echo_keys
  /\ cons_print(p, bytes)
  /\ UNCHANGED <<input_pipe, echo_keys>>

(* service_pipe_set_flag: F_ECHO *)
SetEcho ==
  /\ echo_keys' = ~echo_keys
  /\ UNCHANGED <<text_mem, x, y, output_lock, term, tail, input_pipe, wrong>>

Next ==
  \/ \E p \in Pipes :
       \/ Create(p) \/ Destroy(p)
       \/ \E q \in Pipes : Duplicate(p, q)
       \/ \E s \in Inputs : Send(p, s)
       \/ \E s \in Typed : Recv(p, s)
  \/ Mount \/ SetEcho

Spec == Init /\ [][Next]_vars

------------------------------------------------------------------------------
(* However a text is cut into writes, and whatever other pipes write in      *)
(* between, each pipe's bytes become the same characters; the cursor stays   *)
(* on the screen and the place that is written is the cursor's; and the lock *)
(* of the screen is released after each write (cons_print).                  *)
Correct == ~wrong /\ ~output_lock
==============================================================================
