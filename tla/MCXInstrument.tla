---------------------------- MODULE MCXInstrument ----------------------------
(* Two blocks: a first of two statements, or three targets, and a second   *)
(* of at most one, over a target with the two checks of the table, a second target,   *)
(* an ordinary call, a call through a pointer, an artificial one, a call   *)
(* of a check in the source and an assignment, in an ordinary function and *)
(* in one of the checks.                                                   *)
EXTENDS XInstrument

CONSTANT none

MCTcalls == [memcpy |-> <<"size_check", "ptr_check">>, memset |-> <<"size_check">>]

CallOf(name, art) == [code |-> "GIMPLE_CALL", callee |-> name, artificial |-> art]

Kinds ==
  {CallOf("memcpy", FALSE), CallOf("memset", FALSE), CallOf("memcpy", TRUE),
   CallOf("printk", FALSE), CallOf("size_check", FALSE), CallOf(none, FALSE),
   [code |-> "GIMPLE_ASSIGN", callee |-> none, artificial |-> FALSE]}

Block(kinds, base) ==
  [i \in DOMAIN kinds |->
     [code |-> kinds[i].code, callee |-> kinds[i].callee,
      artificial |-> kinds[i].artificial, id |-> base + i, for |-> 0]]

UpTo(n, kinds) == UNION {[1..k -> kinds] : k \in 0..n}

First == UpTo(2, Kinds) \cup UpTo(3, {CallOf("memcpy", FALSE), CallOf("memset", FALSE)})
Second == UpTo(1, {CallOf("memcpy", FALSE)})

MCSources ==
  [name : {"main", "ptr_check"},
   blocks : {<<Block(a, 0), Block(c, Len(a))>> : a \in First, c \in Second}]
=============================================================================
