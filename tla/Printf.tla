------------------------------- MODULE Printf -------------------------------
(* vsnprintf for everything but floating point numbers                       *)
(* (lib/common/stdio/vsnprintf.c): flags, width and precision, integers of   *)
(* three bases, characters, strings and pointers, and what happens when the  *)
(* buffer is smaller than the text.  One step is one directive.              *)
EXTENDS Integers, FiniteSets, SequencesExt

CONSTANTS
  Numbers, Widths, Precisions,   \* -1: not given
  Sizes,                         \* n, the size of the buffer
  MaxDirectives,
  Calm        \* no directive that is known to differ from the standard

VARIABLES
  n, buffer, osize,
  wanted,     \* what the standard says is printed, of any length
  format,     \* number of directives so far
  ret         \* what was returned, -1: nothing yet

vars == <<n, buffer, osize, wanted, format, ret>>

Flags == {"minus", "plus", "space", "alt", "zero"}
Base(conv) == CASE conv = "o" -> 8 [] conv \in {"x", "p"} -> 16 [] OTHER -> 10

Init ==
  /\ n \in Sizes
  /\ buffer = <<>> /\ osize = 1 /\ wanted = <<>> /\ format = 0 /\ ret = -1

Greater(a, b) == IF a > b THEN a ELSE b
Beginning(s, k) == SubSeq(s, 1, IF k < Len(s) THEN Greater(k, 0) ELSE Len(s))
Fill(c, k) == [j \in 1 .. Greater(k, 0) |-> c]

(* if (osize++ < n) *(str++) = c; for each character of s.                   *)
Put(out, s) ==
  [size |-> out.size + Len(s), text |-> out.text \o Beginning(s, n - out.size)]

(* The digits of a number that is not negative, the first one first.         *)
Digits(num, base) ==
  LET rest[m \in 0 .. num] ==
        IF m < base THEN <<m>> ELSE Append(rest[m \div base], m % base)
  IN  rest[num]

(* number: the sign is looked at for d and i only, the blanks go in front    *)
(* unless there are zeros or blanks behind to write, and the zeros go        *)
(* between the prefix and the digits.                                        *)
Sign(dir) ==
  CASE dir.conv # "d"         -> <<>>
    [] dir.num < 0            -> <<"-">>
    [] "plus" \in dir.flags   -> <<"+">>
    [] "space" \in dir.flags  -> <<" ">>
    [] OTHER                  -> <<>>
Prefix(dir) ==
  CASE "alt" \notin dir.flags -> <<>>
    [] Base(dir.conv) = 16    -> <<0, "x">>
    [] Base(dir.conv) = 8     -> <<0>>
    [] OTHER                  -> <<>>
Number(dir) ==
  LET tmp   == Digits(IF dir.num < 0 THEN -dir.num ELSE dir.num, Base(dir.conv))
      prec  == Greater(dir.prec, Len(tmp))
      size  == dir.width - Len(Sign(dir)) - Len(Prefix(dir)) - prec
      left  == "minus" \in dir.flags
      zero  == "zero" \in dir.flags /\ ~left
      front == ~left /\ ~zero
  IN  Fill(" ", IF front THEN size ELSE 0) \o Sign(dir) \o Prefix(dir)
        \o Fill(0, IF zero THEN size ELSE 0) \o Fill(0, prec - Len(tmp)) \o tmp
        \o Fill(" ", IF left THEN size ELSE 0)

(* %p: "0x" outside of the field, which is eight wide and filled with zeros  *)
(* if nothing else is said; %c: the width goes in front without 0; %s.       *)
Pointer(dir) ==
  LET given == dir.width # -1
  IN  <<0, "x">> \o Number([dir EXCEPT !.width = IF given THEN @ ELSE 8,
                              !.flags = IF given THEN @ ELSE @ \union {"zero"}])
Char(dir) ==
  LET blanks == Fill(" ", dir.width - 1)
  IN  IF "zero" \in dir.flags THEN <<"c">> \o blanks ELSE blanks \o <<"c">>
String(dir) ==
  LET len    == IF dir.prec = -1 \/ dir.prec > dir.num THEN dir.num ELSE dir.prec
      blanks == Fill(" ", dir.width - len)
  IN  IF "minus" \in dir.flags THEN Fill("s", len) \o blanks
      ELSE blanks \o Fill("s", len)

Printed(dir) ==
  CASE dir.conv \in {"d", "u", "o", "x"} -> Number(dir)
    [] dir.conv = "p"                    -> Pointer(dir)
    [] dir.conv = "c"                    -> Char(dir)
    [] dir.conv = "s"                    -> String(dir)
    [] dir.conv = "text"                 -> <<"t">>

(* The arguments of the right type; a negative width or precision is none.   *)
Directives ==
  {dir \in [conv : {"d", "u", "o", "x", "p", "c", "s", "text"},
            flags : SUBSET Flags, width : Widths, prec : Precisions, num : Numbers] :
     /\ dir.conv # "d" => dir.num >= 0
     /\ dir.conv = "text" =>
          dir.flags = {} /\ dir.width = -1 /\ dir.prec = -1 /\ dir.num = 0}

(* Left out under Calm: # with zero, and for u; zeros with a precision; no   *)
(* digit at all (precision 0); - and 0 of characters and strings; and p with *)
(* anything.                                                                 *)
Known(dir) ==
  \/ "alt" \in dir.flags /\ (dir.num = 0 \/ dir.conv \notin {"o", "x"} \/ dir.prec # -1)
  \/ "zero" \in dir.flags /\ (dir.prec # -1 \/ dir.conv \in {"c", "s"})
  \/ dir.prec = 0 /\ dir.num = 0
  \/ "minus" \in dir.flags /\ dir.conv = "c"
  \/ dir.conv = "p" /\ (dir.flags # {} \/ dir.width # -1 \/ dir.prec # -1)

------------------------------------------------------------------------------
(* What the standard wants: sign and prefix, then at least as many digits as *)
(* the precision says, in a field that is filled up on one side.             *)
Field(dir, head, body) ==
  LET fill == dir.width - Len(head) - Len(body)
  IN  CASE "minus" \in dir.flags -> head \o body \o Fill(" ", fill)
        [] "zero" \in dir.flags /\ "minus" \notin dir.flags
                                 -> head \o Fill(0, fill) \o body
        [] OTHER                 -> Fill(" ", fill) \o head \o body
Standard(dir) ==
  LET value  == IF dir.num < 0 THEN -dir.num ELSE dir.num
      least(k) == k >= dir.prec /\ k >= 1 /\ Base(dir.conv) ^ k > value
      len    == CHOOSE k \in 1 .. 12 : least(k) /\ (k = 1 \/ ~least(k - 1))
      digit(k) == (value \div Base(dir.conv) ^ (len - k)) % Base(dir.conv)
      body   == [k \in 1 .. len |-> digit(k)]
  IN  CASE dir.conv \in {"d", "u", "o", "x"} -> Field(dir, Sign(dir) \o Prefix(dir), body)
        [] dir.conv = "p"    -> <<0, "x">> \o Fill(0, 8 - len) \o body
        [] dir.conv = "c"    -> Field(dir, <<>>, <<"c">>)
        [] dir.conv = "s"    ->
             Field(dir, <<>>, Fill("s", IF dir.prec \in 0 .. dir.num THEN dir.prec ELSE dir.num))
        [] dir.conv = "text" -> <<"t">>

Directive(dir) ==
  LET out == Put([size |-> osize, text |-> buffer], Printed(dir))
  IN  /\ ret = -1 /\ format < MaxDirectives
      /\ Calm => ~Known(dir)
      /\ osize' = out.size /\ buffer' = out.text
      /\ wanted' = wanted \o Standard(dir)
      /\ format' = format + 1
      /\ UNCHANGED <<n, ret>>

(* if (--osize <= n) *str = 0: no end is written once more is missing than   *)
(* the terminator's own place.                                               *)
Terminates == osize - 1 <= n
Return ==
  /\ ret = -1
  /\ ret' = osize - 1
  /\ buffer' = IF Terminates THEN Append(buffer, "nul") ELSE buffer
  /\ UNCHANGED <<n, osize, wanted, format>>

Next == Return \/ \E dir \in Directives : Directive(dir)

Spec == Init /\ [][Next]_vars

------------------------------------------------------------------------------
(* The number returned is the length of the whole text; the buffer holds its *)
(* beginning, as much as there is room for beside the terminator, is never   *)
(* overrun, and ends in the terminator whenever the text fits (vsnprintf,    *)
(* number).                                                                  *)
Correct ==
  ret # -1 =>
    LET text == Beginning(wanted, n - 1)
    IN  /\ ret = Len(wanted)
        /\ Len(buffer) <= n
        /\ buffer = IF ret <= n THEN Append(text, "nul") ELSE text
=============================================================================
