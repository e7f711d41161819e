----------------------------- MODULE OutputText -----------------------------
(***************************************************************************)
(* What a caller of buffer.c is promised, with no memory in sight: every   *)
(* handle is closed, holds a text, or has been lost to its caller.  Text   *)
(* only ever grows at its end until it is cleared, replaced by a prefix of *)
(* another text, or exchanged with another handle.                         *)
(***************************************************************************)
EXTENDS Naturals, Sequences

CONSTANTS
  Handles,   \* the output_buf pointers callers hold
  Char,      \* the characters a text is made of
  Pieces,    \* what one call can be asked to append
  Closed,    \* a handle without a buffer
  Lost       \* a handle whose buffer was freed behind its owner's back

VARIABLE text

Texts == Seq(Char)
Open == {h \in Handles : text[h] \in Texts}

TextInit == text = [h \in Handles |-> Closed]

Start(h) == text' = [text EXCEPT ![h] = <<>>]

Stop(h) ==
  /\ h \in Open
  /\ text' = [text EXCEPT ![h] = Closed]

AppendPiece(h) ==
  /\ h \in Open
  /\ \E t \in Pieces : text' = [text EXCEPT ![h] = @ \o t]

Join(d, s) ==
  /\ {d, s} \subseteq Open
  /\ text' = [text EXCEPT ![d] = @ \o text[s]]

Prefix(d, s) ==
  /\ {d, s} \subseteq Open
  /\ \E n \in 1..Len(text[s]) : text' = [text EXCEPT ![d] = SubSeq(text[s], 1, n)]

Lose(d, s) ==
  /\ {d, s} \subseteq Open
  /\ Len(text[s]) > Len(text[d])
  /\ text' = [text EXCEPT ![d] = Lost]

Exchange(a, b) ==
  /\ {a, b} \subseteq Open
  /\ text' = [text EXCEPT ![a] = text[b], ![b] = text[a]]

TextNext ==
  \/ \E h \in Handles : Start(h) \/ Stop(h) \/ AppendPiece(h)
  \/ \E a, b \in Handles : Join(a, b) \/ Prefix(a, b) \/ Lose(a, b) \/ Exchange(a, b)

TextSpec == TextInit /\ [][TextNext]_text
=============================================================================
