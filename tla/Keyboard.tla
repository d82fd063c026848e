------------------------------ MODULE Keyboard ------------------------------
(* The keyboard driver (progs/platform/pc/ps2-keyboard/ps2-keyboard.c): the  *)
(* interrupt handler translates scan codes to characters with the state of   *)
(* the modifier keys and stores them in a ring; a reader takes them out.     *)
(* While it sets the lamps after caps lock the handler reads scan codes      *)
(* again, before it has worked out the new state of the letters.  Left out   *)
(* by the constant Calm: keys that follow caps lock while this happens,      *)
(* which are translated with the old state; and by Repeating: a control key  *)
(* that repeats itself while it is held, each time with the other state.     *)
EXTENDS Integers, Sequences, SequencesExt

CONSTANTS
  Keys,        \* of "a", "d", "lshift", "rshift", "capslock", "control", "other"
  Repeating,   \* keys that repeat themselves while they are held
  Readers,
  Size,        \* characters that a reader asks for
  FifoSize,    \* 1024 in the code
  MaxQueue,    \* scan codes that the keyboard holds back
  Calm



VARIABLES
  held,        \* keys that are down
  capsOn,      \* what the user has switched caps lock to
  queue,       \* codes in the keyboard: [key, key_up]
  due,         \* the characters they should become
  lshift, rshift, caps, ctrl, up,
  depth,       \* calls of flush_input_queue inside set_leds
  leds,
  fifo,        \* [buf, r, w]
  kept,        \* characters that should be in the ring
  got,         \* per reader: characters it has received so far, -1: idle
  wrong

vars == <<held, capsOn, queue, due, lshift, rshift, caps, ctrl, up, depth, leds,
          fifo, kept, got, wrong>>

Char(key, shifted) == [key |-> key, shifted |-> shifted]
Eof == Char("eof", FALSE)      \* 255

Init ==
  /\ held = {} /\ capsOn = FALSE
  /\ queue = <<>> /\ due = <<>>
  /\ lshift = FALSE /\ rshift = FALSE /\ caps = FALSE /\ ctrl = FALSE /\ up = FALSE
  /\ depth = 0
  /\ leds = FALSE
  /\ fifo = [buf |-> [i \in 0 .. FifoSize - 1 |-> Eof], r |-> 0, w |-> 0]
  /\ kept = <<>>
  /\ got = [r \in Readers |-> -1]
  /\ wrong = FALSE

Idle == queue = <<>> /\ depth = 0

------------------------------------------------------------------------------
(* The keyboard *)

Xor(a, b) == a # b
Shifted == Xor(held \cap {"lshift", "rshift"} # {}, capsOn)

(* What the user means by a key. *)
Meant(key) ==
  IF key = "d" /\ "control" \in held /\ ~Shifted THEN Eof ELSE Char(key, Shifted)

Press(key) ==
  /\ key \notin held /\ Len(queue) < MaxQueue
  /\ Calm => (depth = 0 /\ \A i \in 1 .. Len(queue) : queue[i].key # "capslock")
  /\ held' = held \cup {key}
  /\ queue' = Append(queue, [key |-> key, key_up |-> FALSE])
  /\ capsOn' = (IF key = "capslock" THEN ~capsOn ELSE capsOn)
  /\ due' = IF key \in {"a", "d"} THEN Append(due, Meant(key)) ELSE due
  /\ UNCHANGED <<lshift, rshift, caps, ctrl, up, depth, leds, fifo, kept, got, wrong>>

Release(key) ==
  /\ key \in held /\ Len(queue) < MaxQueue
  /\ Calm => (depth = 0 /\ \A i \in 1 .. Len(queue) : queue[i].key # "capslock")
  /\ held' = held \ {key}
  /\ queue' = Append(queue, [key |-> key, key_up |-> TRUE])
  /\ UNCHANGED <<capsOn, due, lshift, rshift, caps, ctrl, up, depth, leds, fifo,
                 kept, got, wrong>>

(* A key that is held down repeats its code. *)
Repeat(key) ==
  /\ key \in held \cap Repeating /\ Len(queue) < MaxQueue
  /\ Calm => (depth = 0 /\ \A i \in 1 .. Len(queue) : queue[i].key # "capslock")
  /\ queue' = Append(queue, [key |-> key, key_up |-> FALSE])
  /\ due' = IF key \in {"a", "d"} THEN Append(due, Meant(key)) ELSE due
  /\ UNCHANGED <<held, capsOn, lshift, rshift, caps, ctrl, up, depth, leds, fifo,
                 kept, got, wrong>>

------------------------------------------------------------------------------
(* The ring *)

(* Faulty: nothing is dropped when the ring is full.                         *)
fifo_writeOver(f, c) == [buf |-> [f.buf EXCEPT ![f.w] = c], r |-> f.r, w |-> (f.w + 1) % FifoSize]

(* fifo_write drops the oldest character when the ring is full. *)
fifo_write(f, c) ==
  LET w == (f.w + 1) % FifoSize
  IN  [buf |-> [f.buf EXCEPT ![f.w] = c],
       r   |-> IF w = f.r THEN (f.r + 1) % FifoSize ELSE f.r,
       w   |-> w]

(* The characters in the ring, first to last: F_PRESSURE is their number. *)
Contents(f) ==
  [i \in 1 .. (f.w + FifoSize - f.r) % FifoSize |-> f.buf[(f.r + i - 1) % FifoSize]]

Put(c) ==
  /\ fifo' = fifo_write(fifo, c)
  /\ kept' = (IF Len(kept) = FifoSize - 1 THEN Tail(kept) ELSE kept) \o <<c>>
  /\ wrong' = (wrong \/ c # Head(due))
  /\ due' = Tail(due)

(* A slot that was read is not read again before it is written. *)
Take ==
  /\ fifo' = [fifo EXCEPT !.r = (@ + 1) % FifoSize, !.buf[fifo.r] = Eof]
  /\ kept' = Tail(kept)

------------------------------------------------------------------------------
(* The handler: one scan code of flush_input_queue. *)

(* A key that stands for a character; its release is ignored. *)
ScanChar ==
  LET code == Head(queue)
  IN  /\ queue # <<>> /\ code.key \in {"a", "d"}
      /\ queue' = Tail(queue)
      /\ IF code.key_up THEN UNCHANGED <<fifo, kept, wrong, due>>
         ELSE Put(IF ctrl /\ code.key = "d" /\ ~up THEN Eof ELSE Char(code.key, up))
      /\ UNCHANGED <<held, capsOn, lshift, rshift, caps, ctrl, up, depth, leds, got>>

(* A modifier, except caps lock. *)
ScanModifier ==
  LET code == Head(queue)
  IN  /\ queue # <<>> /\ code.key \in {"lshift", "rshift", "control", "other"}
      /\ queue' = Tail(queue)
      /\ lshift' = IF code.key = "lshift" THEN ~code.key_up ELSE lshift
      /\ rshift' = IF code.key = "rshift" THEN ~code.key_up ELSE rshift
      /\ ctrl' = IF code.key = "control" THEN ~ctrl ELSE ctrl
      /\ up' = IF code.key = "other" /\ code.key_up THEN up
               ELSE Xor(lshift' \/ rshift', caps)
      /\ UNCHANGED <<held, capsOn, due, caps, depth, leds, fifo, kept, got, wrong>>

(* Caps lock: set_leds sends a command and calls flush_input_queue. *)
ScanCaps ==
  LET code == Head(queue)
  IN  /\ queue # <<>> /\ code.key = "capslock"
      /\ queue' = Tail(queue)
      /\ IF code.key_up THEN UNCHANGED <<caps, leds, depth>>
         ELSE caps' = ~caps /\ leds' = ~caps /\ depth' = depth + 1
      /\ UNCHANGED <<held, capsOn, due, lshift, rshift, ctrl, up, fifo, kept, got, wrong>>

(* The inner call has read everything: back in the outer one. *)
LedsSet ==
  /\ depth > 0 /\ queue = <<>>
  /\ depth' = depth - 1
  /\ up' = Xor(lshift \/ rshift, caps)
  /\ UNCHANGED <<held, capsOn, queue, due, lshift, rshift, caps, ctrl, leds, fifo,
                 kept, got, wrong>>

------------------------------------------------------------------------------
(* Readers *)

(* service_stream_recv starts. *)
RecvStart(r) ==
  /\ got[r] = -1
  /\ got' = [got EXCEPT ![r] = 0]
  /\ UNCHANGED <<held, capsOn, queue, due, lshift, rshift, caps, ctrl, up, depth,
                 leds, fifo, kept, wrong>>

(* It takes one character: it returns after the last one it asked for, at    *)
(* the mark for the end of the input, or, without blocking, when the ring is *)
(* empty.                                                                    *)
RecvOne(r) ==
  LET c == fifo.buf[fifo.r]
  IN  /\ got[r] >= 0
      /\ IF fifo.r = fifo.w
         THEN got' = [got EXCEPT ![r] = -1] /\ UNCHANGED <<fifo, kept, wrong>>
         ELSE /\ Take
              /\ wrong' = (wrong \/ c # Head(kept))
              /\ got' = [got EXCEPT ![r] = IF c = Eof \/ @ + 1 = Size THEN -1 ELSE @ + 1]
      /\ UNCHANGED <<held, capsOn, queue, due, lshift, rshift, caps, ctrl, up, depth, leds>>

(* F_READABLE: fifo_eof takes the mark for the end of the input. *)
Readable ==
  /\ fifo.r # fifo.w /\ fifo.buf[fifo.r] = Eof
  /\ Take
  /\ UNCHANGED <<held, capsOn, queue, due, lshift, rshift, caps, ctrl, up, depth,
                 leds, got, wrong>>

Next ==
  \/ \E key \in Keys : Press(key) \/ Release(key) \/ Repeat(key)
  \/ ScanChar \/ ScanModifier \/ ScanCaps \/ LedsSet
  \/ \E r \in Readers : RecvStart(r) \/ RecvOne(r)
  \/ Readable

Spec == Init /\ [][Next]_vars

------------------------------------------------------------------------------
(* Every character in the ring is what the user meant when the key was       *)
(* pressed, the ring holds the youngest ones in order and its readers get    *)
(* them in this order, and once all codes are processed the driver's view of *)
(* the modifier keys is the real one (ps2-keyboard.c).                       *)
Correct ==
  /\ ~wrong
  /\ Contents(fifo) = kept
  /\ Idle => /\ lshift = ("lshift" \in held) /\ rshift = ("rshift" \in held)
             /\ ctrl = ("control" \in held)
             /\ caps = capsOn /\ leds = capsOn
             /\ up = Shifted
==============================================================================
