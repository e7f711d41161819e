----------------------------- MODULE GimpleText -----------------------------
(***************************************************************************)
(* What the function call plugin prints for an argument of a call:         *)
(* walk-gimple.c over the constants and tags of nodes-utils.c and          *)
(* print-nodes.c.                                                          *)
(*                                                                         *)
(* An argument is a leaf, or the name of a value, for which the statement  *)
(* that defines it is printed.  A leaf is                                  *)
(*   [kind |-> "name", text]               what the tree walker prints     *)
(*   [kind |-> "int", type, value, wide]   an INTEGER_CST                  *)
(*   [kind |-> "string", chars]            a STRING_CST                    *)
(* and a statement [kind |-> which walker, code, ops, type], with the      *)
(* leaves it uses and the name of the type of its left side.  Calling the  *)
(* walkers is the plugin's matter, whose main file is not in the           *)
(* repository; doc/main.c.237.ahaggar_fncalls.log shows what comes out.    *)
(*                                                                         *)
(* A text is a sequence of lexemes: the parentheses, commas and blanks the *)
(* readers of the log look for, and tags, words and numbers.               *)
(***************************************************************************)
EXTENDS Integers, SequencesExt

CONSTANTS
  Lexeme,      \* what texts are made of
  Prio,        \* op_code_prio: how tightly a code binds
  Symbol,      \* op_symbol_code
  Digits,      \* the lexeme of each number
  Word,        \* 2^w: the numbers in an int of a narrow host, in a
               \* HOST_WIDE_INT of a wide one
  MaxStrPrint  \* MAX_STR_PRINT

(* A HOST_WIDE_INT has words above and below zero. *)
ASSUME WordAssumption == Word \in Nat \ {0} /\ Word % 2 = 0 /\ MaxStrPrint \in Nat

IntCst == "<integer_cst>"

Comma == ","
Blank == " "

(* The lexemes every text may have, whatever the program. *)
ASSUME LexemeAssumption ==
  {"(", ")", Comma, Blank, IntCst, "<pointer_type>", "u", "l", "ll", "<string_cst>", "quote", "...",
   "ABS_EXPR", "*", "+", "?", ":", "=", "<gimple_phi>", "newline", "<@>"} \subseteq Lexeme

(***************************************************************************)
(* nodes-utils.c, print-nodes.c.                                           *)
(***************************************************************************)
Signed(word) == IF word < Word \div 2 THEN word ELSE word - Word

Low(c) == c.value % Word
High(c) == Signed((c.value \div Word) % Word)

(* Mutant of __get_int_cst: an unsigned constant is printed as a signed    *)
(* one. *)
get_signed_cst(c) == Signed(Low(c))

(* The number that is printed.  On a narrow host the branch for one word   *)
(* is taken by the high word alone, and the low word printed with %d.      *)
__get_int_cst(c) ==
  LET one == IF c.type.unsigned THEN Low(c) ELSE Signed(Low(c))
      two == High(c) * Word + Low(c) IN
  IF c.type.pointer THEN Signed(Low(c))
  ELSE IF c.wide \/ High(c) = 0 \/ (High(c) = -1 /\ ~c.type.unsigned) THEN one
  ELSE IF c.type.unsigned THEN two % (Word * Word) ELSE two

Suffix(type) ==
  IF type.pointer THEN <<>>
  ELSE (IF type.unsigned THEN <<"u">> ELSE <<>>)
       \o (IF type.long # "none" THEN <<type.long>> ELSE <<>>)

output_int_cst(c) ==
  (IF c.type.pointer THEN <<"<pointer_type>", Blank>> ELSE <<>>)
  \o <<IntCst, Blank, Digits[__get_int_cst(c)]>> \o Suffix(c.type)

(* At most MaxStrPrint characters; the length GCC has counts the Nul, so   *)
(* that the points follow a string of just that many, too.                 *)
output_string_cst(s) ==
  <<"<string_cst>", Blank, "quote">>
  \o SubSeq(s.chars, 1, IF Len(s.chars) > MaxStrPrint THEN MaxStrPrint ELSE Len(s.chars))
  \o (IF Len(s.chars) + 1 > MaxStrPrint THEN <<"...">> ELSE <<>>) \o <<"quote">>

(* base_cp_tree_walker of a leaf. *)
Leaf(l) ==
  CASE l.kind = "int" -> output_int_cst(l)
    [] l.kind = "string" -> output_string_cst(l)
    [] l.kind = "name" -> l.text

(* op_prio: a leaf binds tightest, but for one that is an expression. *)
op_prio(l) == IF l.kind = "name" THEN Prio[l.code] ELSE Prio["leaf"]

Parenthesized(text) == <<"(">> \o text \o <<")">>

(* Texts with ", " between. *)
Listed(texts) ==
  FlattenSeq([i \in DOMAIN texts |-> (IF i = 1 THEN <<>> ELSE <<Comma, Blank>>) \o texts[i]])

LeafTexts(ops) == [i \in DOMAIN ops |-> Leaf(ops[i])]

Tagged(code, ops) == <<code, Blank>> \o Parenthesized(Listed(LeafTexts(ops)))

(***************************************************************************)
(* walk-gimple.c.                                                          *)
(***************************************************************************)
(* "reference" is any code of a declaration, a constant, a reference, an   *)
(* address or a name; a code without a symbol has an empty one.            *)
walk_gimple_unary_rhs(s) ==
  LET rhs == s.ops[1]
      loose == op_prio(rhs) < Prio[s.code] IN
  CASE s.code \in {"view_convert_expr", "assert_expr", "reference"} -> Leaf(rhs)
    [] s.code = "convert" ->
         Parenthesized(s.cast) \o <<Blank>>
         \o (IF loose THEN Parenthesized(Leaf(rhs)) \o <<Blank>> ELSE Leaf(rhs))
    [] s.code = "paren_expr" -> Parenthesized(Parenthesized(Leaf(rhs)))
    [] s.code = "abs_expr" -> <<"ABS_EXPR">> \o Parenthesized(Leaf(rhs))
    [] OTHER ->
         Symbol[s.code] \o (IF loose THEN Parenthesized(Leaf(rhs)) ELSE Leaf(rhs))

Operand(l, code) ==
  IF op_prio(l) <= Prio[code] THEN Parenthesized(Leaf(l)) ELSE Leaf(l)

walk_gimple_binary_rhs(s) ==
  IF s.code \in {"<complex_expr>", "<min_expr>", "<max_expr>", "<vec_expr>"}
  THEN Tagged(s.code, s.ops)
  ELSE Operand(s.ops[1], s.code) \o <<Blank>> \o Symbol[s.code] \o <<Blank>>
       \o Operand(s.ops[2], s.code)

(* What there is no case for is printed as nothing. *)
walk_gimple_ternary_rhs(s) ==
  LET between(a, b) == Leaf(s.ops[1]) \o <<Blank, a, Blank>> \o Leaf(s.ops[2])
                       \o <<Blank, b, Blank>> \o Leaf(s.ops[3]) IN
  CASE s.code \in {"<widen_mult_plus_expr>", "<widen_mult_minus_expr>"} -> Tagged(s.code, s.ops)
    [] s.code = "fma_expr" -> between("*", "+")
    [] s.code = "cond_expr" -> between("?", ":")
    [] OTHER -> <<>>

walk_gimple_nop(s) == Leaf(s.ops[1])

(* The name on the left, and the values that may come to it. *)
walk_gimple_phi(s) ==
  Leaf(Head(s.ops)) \o <<Blank, "=", Blank>> \o Tagged("<gimple_phi>", Tail(s.ops))

(* A call in the place of an argument, on a line of its own. *)
NestedCall(s) ==
  <<"newline", Blank, "<@>", Blank, s.code>> \o Parenthesized(Listed(LeafTexts(s.ops)))

ArgText(arg) ==
  CASE arg.kind \in {"name", "int", "string"} -> Leaf(arg)
    [] arg.kind = "unary" -> walk_gimple_unary_rhs(arg)
    [] arg.kind = "binary" -> walk_gimple_binary_rhs(arg)
    [] arg.kind = "ternary" -> walk_gimple_ternary_rhs(arg)
    [] arg.kind = "nop" -> walk_gimple_nop(arg)
    [] arg.kind = "phi" -> walk_gimple_phi(arg)
    [] arg.kind = "call" -> NestedCall(arg)
=============================================================================
