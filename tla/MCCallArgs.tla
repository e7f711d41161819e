------------------------------ MODULE MCCallArgs ------------------------------
(* Calls of up to three arguments: constants around the size of a pointer  *)
(* of signed, unsigned and pointer types, a flag with O_CREAT, a strict    *)
(* and a loose mode, constants of two words of a narrow host, some out of  *)
(* the range of a long, each kind of statement, a call, an operand nothing *)
(* is printed for, an array reference, and strings with a comma, with a    *)
(* parenthesis and with a comma in front of a bracket.  SInt(1031) has two *)
(* words on a host that prints one.                                        *)
EXTENDS CallArgs, TLC

MCLexeme == STRING

Type(unsigned, long, pointer) == [unsigned |-> unsigned, long |-> long, pointer |-> pointer]

Const(type, n, wide) == [kind |-> "int", type |-> type, value |-> n, wide |-> wide]

Size(n) == Const(Type(TRUE, "l", FALSE), n, TRUE)
SInt(n) == Const(Type(FALSE, "none", FALSE), n, TRUE)
LongLong(unsigned, n) == Const(Type(unsigned, "ll", FALSE), n, FALSE)
NullPointer == Const(Type(FALSE, "none", TRUE), 0, TRUE)

w == [kind |-> "name", code |-> "leaf", text |-> <<"<ssa_name>", " ", "w">>]
address == [kind |-> "name", code |-> "addr_expr", text |-> <<"<addr_expr>", " ", "w">>]
element == [kind |-> "name", code |-> "leaf",
            text |-> <<"<array_ref>", " ", "table", "[", "w", "]">>]
less == [kind |-> "name", code |-> "<", text |-> <<"w", " ", "<", " ", "w">>]

String(chars) == [kind |-> "string", chars |-> chars]

Stmt(kind, code, ops) ==
  [kind |-> kind, code |-> code, ops |-> ops, cast |-> <<"long", " ", "int">>]

MCOperands ==
  {Size(0), Size(7), Size(8), Size(600), SInt(64), SInt(416), SInt(420), SInt(-1), NullPointer,
   LongLong(TRUE, 1031), LongLong(FALSE, 600), LongLong(FALSE, -1031), SInt(1031)}
    \cup {w, element, String(<<"s", ",", "s">>), String(<<"(">>), String(<<",", "b", "[">>)}
    \cup {Stmt("unary", "convert", <<w>>), Stmt("unary", "~", <<w>>),
          Stmt("binary", "-", <<Size(4), w>>), Stmt("binary", "-", <<w, address>>),
          Stmt("binary", "<min_expr>", <<w, SInt(-1)>>),
          Stmt("unary", "paren_expr", <<w>>),
          Stmt("ternary", "vec_cond_expr", <<w, w, w>>),
          Stmt("ternary", "cond_expr", <<less, w, Size(7)>>),
          Stmt("ternary", "<widen_mult_plus_expr>", <<w, w, w>>), Stmt("nop", "nop", <<w>>),
          Stmt("phi", "phi", <<w, SInt(-1), w>>), Stmt("call", "f", <<w, w>>)}

MCPrio == [code \in {"convert", "~", "-", "<", "addr_expr", "leaf"} |->
             CASE code = "<" -> 10 [] code = "-" -> 12 [] code = "leaf" -> 99 [] OTHER -> 14]

MCSymbol == [code \in {"~", "-", "convert", "paren_expr", "abs_expr", "<min_expr>"} |->
               IF code \in {"~", "-"} THEN <<code>> ELSE <<>>]

MCTags == {"<integer_cst>", "<string_cst>", "<pointer_type>", "<ssa_name>", "<addr_expr>",
           "<array_ref>", "<min_expr>", "<widen_mult_plus_expr>", "<gimple_phi>", "<@>", "<..."}

(* The numbers that are printed, and what is left of them without their    *)
(* last digit.                                                             *)
MCNumbers == {-1031, -424, -103, -42, -7, -1, 0, 4, 6, 7, 8, 10, 41, 42, 60, 64, 103, 416, 420,
              600, 1031}

MCDigits == [n \in MCNumbers |-> ToString(n)]

(* What is left of a tag is one that never closes. *)
MCShortened ==
  [c \in MCTags \ {"<..."} |-> "<..."]
    @@ [c \in {"table", "long", "int", "newline", "...", "ABS_EXPR", "ll", "-1", "-7"} |-> "part"]
    @@ [c \in {ToString(n) : n \in {-1031, -424, 64, 416, 420, 600, 1031}} |->
          LET n == CHOOSE n \in MCNumbers : ToString(n) = c IN
          ToString(IF n < 0 THEN -((-n) \div 10) ELSE n \div 10)]

MCCreatFlags == {64, -1}

(* Those with one of the bits 0, 1, 2 and 3. *)
MCLooseModes == {n \in 0..1023 : n % 16 # 0}
=============================================================================
