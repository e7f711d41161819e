---------------------------- MODULE OutputBuffer ----------------------------
(***************************************************************************)
(* buffer.c: the growing text buffers every Ahaggar plugin prints into.    *)
(*                                                                         *)
(* A handle is an output_buf pointer some caller keeps.  Its struct has    *)
(* the fields of the C struct, the memory being a function from the byte   *)
(* positions 0..size-1, and `offset' the position buf+offset.  A byte is a *)
(* character, the terminating Nul, or Junk: what xrealloc leaves in the    *)
(* part it adds.                                                           *)
(*                                                                         *)
(* Bounds: TextBound caps the length of a text, IndentBound the columns of *)
(* one output_indent_to call.                                              *)
(***************************************************************************)
EXTENDS Naturals, Sequences

CONSTANTS
  Handles,      \* output_buf pointers held by callers
  Char,         \* characters that can be printed
  Single,       \* those handed to output_char
  Formats,      \* the expansions of the format strings handed to printf
  Space, NewLine,
  Nul, Junk,
  Closed,       \* a handle that points to no buffer
  Dangling,     \* a handle whose struct was freed by output_base_copy
  BUF_SIZE,     \* the smallest allocation
  TextBound, IndentBound

ASSUME CharAssumption ==
  /\ {Space, NewLine} \subseteq Single
  /\ Single \subseteq Char
  /\ Nul \notin Char /\ Junk \notin Char /\ Nul # Junk
  /\ Formats \subseteq Seq(Char)

ASSUME SizeAssumption ==
  /\ BUF_SIZE \in Nat \ {0}
  /\ TextBound \in Nat /\ IndentBound \in Nat

VARIABLES
  obj,      \* what each handle points to
  indent    \* columns output_base_indent_to has still to print, per handle

vars == <<obj, indent>>

Cells == Char \cup {Nul, Junk}

(***************************************************************************)
(* Operations on one struct.                                               *)
(***************************************************************************)

(* Stores the bytes of t at position `at'; bytes past the end are the      *)
(* overrun that WellFormed below excludes, and leave no trace in mem.      *)
Poke(mem, at, t) ==
  [i \in DOMAIN mem |-> IF i >= at /\ i < at + Len(t) THEN t[i - at + 1] ELSE mem[i]]

Terminate(s, n) ==
  [size |-> s.size, used |-> n, offset |-> n, mem |-> Poke(s.mem, n, <<Nul>>)]

Fresh(len) ==
  LET size == IF len < BUF_SIZE THEN BUF_SIZE ELSE len IN
  [size |-> size, used |-> 0, offset |-> 0, mem |-> [i \in 0..(size - 1) |-> Nul]]

Flushed(s) ==
  [size |-> s.size, used |-> 0, offset |-> 0, mem |-> [i \in DOMAIN s.mem |-> Nul]]

(* Mutant of NewSize: doubling is taken to be always enough. *)
Doubled(s, need) == 2 * s.size

NewSize(s, need) ==
  IF 2 * s.size > need + s.used THEN 2 * s.size ELSE need + s.used

(* memcpy or snprintf storing the bytes of t at position `at'. *)
Stored(s, at, t) ==
  [size |-> s.size, used |-> s.used, offset |-> s.offset, mem |-> Poke(s.mem, at, t)]

(* Mutant of Realloc: the larger block is not stored back. *)
ReallocLost(mem, size) == mem

Realloc(mem, size) ==
  [i \in 0..(size - 1) |-> IF i \in DOMAIN mem THEN mem[i] ELSE Junk]

Expand(s, need) ==
  IF need < s.size - s.used
  THEN s
  ELSE LET size == NewSize(s, need) IN
       [size |-> size, used |-> s.used, offset |-> s.used,
        mem |-> Poke(Realloc(s.mem, size), s.used, <<Nul>>)]

(* (v)snprintf into what is left of the buffer: the text is cut to leave   *)
(* room for its Nul, but the length returned is that of the whole text.    *)
Snprintf(s, t) ==
  LET room == s.size - s.used
      kept == IF Len(t) < room THEN t ELSE SubSeq(t, 1, room - 1)
  IN  Terminate(Stored(s, s.offset, kept \o <<Nul>>), s.used + Len(t))

Printf(s, t) == Snprintf(Expand(s, Len(t) + 1), t)

PutChar(s, c) == Snprintf(Expand(s, 2), <<c>>)

(* The bytes memcpy takes from the front of a struct. *)
Front(s, n) == [i \in 1..n |-> s.mem[i - 1]]

Concat(d, s) ==
  LET out == Expand(d, s.used + 1) IN
  Terminate(Stored(out, out.offset, Front(s, s.used)), out.used + s.used)

(* Mutant of CopyFront: one byte short. *)
CopyShort(d, s, n) == Terminate(Stored(d, 0, Front(s, n - 1)), n)

CopyFront(d, s, n) == Terminate(Stored(d, 0, Front(s, n)), n)

(***************************************************************************)
(* Callers.  A handle is used only while it points to a buffer, and the    *)
(* loop of output_base_indent_to runs to its end before the caller does    *)
(* anything else: the program is single-threaded.                          *)
(***************************************************************************)
Live == {h \in Handles : obj[h] \notin {Closed, Dangling}}

Idle == \A h \in Handles : indent[h] = 0

Fits(h, n) == obj[h].used + n <= TextBound

Init ==
  /\ obj = [h \in Handles |-> Closed]
  /\ indent = [h \in Handles |-> 0]

output_init(h) ==
  /\ Idle /\ h \notin Live
  /\ obj' = [obj EXCEPT ![h] = Fresh(BUF_SIZE)]
  /\ UNCHANGED indent

output_fini(h) ==
  /\ Idle /\ h \in Live
  /\ obj' = [obj EXCEPT ![h] = Closed]
  /\ UNCHANGED indent

output_reset(h) ==
  /\ Idle /\ obj[h] # Dangling
  /\ obj' = [obj EXCEPT ![h] = Fresh(BUF_SIZE)]
  /\ UNCHANGED indent

output_flush(h) ==
  /\ Idle /\ h \in Live
  /\ obj' = [obj EXCEPT ![h] = Flushed(@)]
  /\ UNCHANGED indent

output_local_prepare(h) ==
  /\ Idle /\ obj[h] # Dangling
  /\ obj' = [obj EXCEPT ![h] = IF @ = Closed THEN Fresh(BUF_SIZE) ELSE Flushed(@)]
  /\ UNCHANGED indent

output_base_char(h) ==
  /\ Idle /\ h \in Live /\ Fits(h, 1)
  /\ \E c \in Single : obj' = [obj EXCEPT ![h] = PutChar(@, c)]
  /\ UNCHANGED indent

output_base_printf(h) ==
  /\ Idle /\ h \in Live
  /\ \E t \in Formats :
       /\ Fits(h, Len(t))
       /\ obj' = [obj EXCEPT ![h] = Printf(@, t)]
  /\ UNCHANGED indent

output_base_indent_to(h) ==
  /\ Idle /\ h \in Live
  /\ \E n \in 1..IndentBound :
       /\ Fits(h, n)
       /\ indent' = [indent EXCEPT ![h] = n]
  /\ UNCHANGED obj

(* The macro prints its newline before it loops, and only for n > 0. *)
output_indent_to_newline(h) ==
  /\ Idle /\ h \in Live
  /\ \E n \in 1..IndentBound :
       /\ Fits(h, n + 1)
       /\ indent' = [indent EXCEPT ![h] = n]
       /\ obj' = [obj EXCEPT ![h] = PutChar(@, NewLine)]

IndentStep(h) ==
  /\ indent[h] > 0
  /\ obj' = [obj EXCEPT ![h] = PutChar(@, Space)]
  /\ indent' = [indent EXCEPT ![h] = @ - 1]

output_base_swap_meta(a, b) ==
  /\ Idle /\ {a, b} \subseteq Live
  /\ obj' = [obj EXCEPT ![a] = obj[b], ![b] = obj[a]]
  /\ UNCHANGED indent

output_base_concat(d, s) ==
  /\ Idle /\ {d, s} \subseteq Live
  /\ obj[s].used > 0
  /\ Fits(d, obj[s].used)
  /\ obj' = [obj EXCEPT ![d] = Concat(@, obj[s])]
  /\ UNCHANGED indent

(* Mutant of output_base_copy: the sizes of the allocations are compared,  *)
(* not the text with the room for it.                                      *)
CopyBySize(d, s) ==
  /\ Idle /\ {d, s} \subseteq Live
  /\ \E n \in 1..obj[s].used :
       obj' = [obj EXCEPT ![d] =
                 IF obj[s].size > @.size THEN Dangling ELSE CopyFront(@, obj[s], n)]
  /\ UNCHANGED indent

(* A destination that is too small is freed and a larger one filled in its *)
(* place, but only the callee's own pointer is updated: the caller is left *)
(* with the freed one and nobody owns the new buffer.                      *)
output_base_copy(d, s) ==
  /\ Idle /\ {d, s} \subseteq Live
  /\ \E n \in 1..obj[s].used :
       obj' = [obj EXCEPT ![d] =
                 IF n + 1 > @.size THEN Dangling ELSE CopyFront(@, obj[s], n)]
  /\ UNCHANGED indent

Next ==
  \/ \E h \in Handles :
       \/ output_init(h) \/ output_fini(h) \/ output_reset(h) \/ output_flush(h)
       \/ output_local_prepare(h) \/ output_base_char(h) \/ output_base_printf(h)
       \/ output_base_indent_to(h) \/ output_indent_to_newline(h) \/ IndentStep(h)
  \/ \E a, b \in Handles :
       \/ output_base_swap_meta(a, b)
       \/ output_base_concat(a, b)
       \/ output_base_copy(a, b)

Spec == Init /\ [][Next]_vars

(***************************************************************************)
(* Correctness.                                                            *)
(***************************************************************************)
Struct(s) ==
  s \in [size : Nat, used : Nat, offset : Nat, mem : [0..(s.size - 1) -> Cells]]

(* Every handle is closed, dangling, or points to a struct of the C type   *)
(* whose memory is as large as its size field says.                        *)
TypeOK ==
  /\ obj = [h \in Handles |-> obj[h]]
  /\ \A h \in Live : Struct(obj[h])
  /\ indent \in [Handles -> Nat]

(* No write of buffer.c runs past the allocation: there is always room for *)
(* the terminating Nul, it is in place, and `offset' is where the next     *)
(* write must go.  A wrong size computed by any operation shows up here,   *)
(* often only calls later.  Below `used' there are only characters that    *)
(* were printed: no Nul that would hide the rest from %s and none of the   *)
(* junk xrealloc leaves.                                                   *)
WellFormed ==
  \A h \in Live :
    LET s == obj[h] IN
    /\ s.size >= BUF_SIZE
    /\ s.used < s.size
    /\ s.offset = s.used
    /\ s.mem[s.used] = Nul
    /\ \A i \in 0..(s.used - 1) : s.mem[i] \in Char

(* What a caller sees: the text each handle holds. *)
TextOf(x) ==
  IF x \in {Closed, Dangling} THEN x ELSE Front(x, x.used)

Text == INSTANCE OutputText WITH
  Lost <- Dangling,
  Pieces <- Formats \cup {<<c>> : c \in Single},
  text <- [h \in Handles |-> TextOf(obj[h])]

(* Every operation does to the texts what buffer.c promises: each piece is *)
(* appended whole however the buffer has to grow, nothing printed before   *)
(* is altered, and only a copy of a longer text can lose a destination.    *)
ImplementsText == Text!TextSpec
=============================================================================
