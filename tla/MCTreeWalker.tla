--------------------------- MODULE MCTreeWalker ----------------------------
(* Functions of one statement followed by a call and a label, over every   *)
(* expression of two operators, with nested blocks, jumps and loops, and   *)
(* over declarations and arguments of every kind of type.  The heap is a   *)
(* sequence of nodes built in layers: what a layer is made of has the      *)
(* addresses of the layers before it.                                      *)
EXTENDS TreeWalker

N(code, name, ops) == [code |-> code, name |-> name, ops |-> ops]

(* One node over each of the addresses s, over each pair of s and t. *)
Map(s, F(_)) == [i \in 1..Len(s) |-> F(s[i])]
Pairs(s, t, F(_, _)) ==
  [k \in 1..(Len(s) * Len(t)) |-> F(s[1 + ((k - 1) \div Len(t))], t[1 + ((k - 1) % Len(t))])]
One(s, code) == Map(s, LAMBDA e : N(code, "", <<e>>))
Two(s, t, code) == Pairs(s, t, LAMBDA e, g : N(code, "", <<e, g>>))

(* The addresses of a layer: how many there are behind a base.  They are    *)
(* given as numbers, for the last layer would otherwise be a term that     *)
(* holds all the others many times.  NodeAssumption fails if one is wrong: *)
(* the last addresses would be no functions.                               *)
Span(base, count) == [i \in 1..count |-> base + i]

x == 1
p == 2
one == 3
string == 4
fn == 5
fld == 6
type == 7
lbl == 8
brk == 9
empty == 10
range == 11
ifelse == 12
method == 13

(* The types: structures that refer to themselves through their fields,    *)
(* with a tag, with a name and a qualified variant, built in, without a    *)
(* name; arrays of each kind of bound.                                     *)
zero == 14
last == 15
tag == 16
struct == 17
pstruct == 18
typedef == 19
named == 20
const == 21
inner == 22
vaname == 23
valist == 24
anon == 25
complex == 26
function == 27
pfunction == 28
methods == 29
null == 30
array == 31
vla == 32
open == 33
ptypes == 34
shifted == 35
intname == 36
constraint == 37
asmlist == 38

(* A plain dereference, and a reference at an offset. *)
mem == 39
memat == 40

Types == <<type, struct, pstruct, named, const, valist, anon, complex, function,
           pfunction, methods, null, array, vla, open, ptypes, shifted>>

Layer0 ==
  <<N("VAR_DECL", "x", <<type>>), N("PARM_DECL", "p", <<pstruct>>),
    N("INTEGER_CST", "1", <<>>), N("STRING_CST", "s", <<>>), N("FUNCTION_DECL", "f", <<>>),
    N("FIELD_DECL", "fld", <<>>), N("INTEGER_TYPE", "int", <<>>),
    N("LABEL_DECL", "L", <<type>>), N("LABEL_DECL", "break", <<type>>),
    N("NOP_EXPR", "empty", <<>>), N("RANGE_EXPR", "", <<>>),
    N("COND_EXPR", "", <<x, p, x>>), N("COMPONENT_REF", "", <<x, fld>>),
    N("INTEGER_CST", "0", <<>>), N("SAVE_EXPR", "", <<p>>),
    N("IDENTIFIER_NODE", "s", <<>>), N("RECORD_TYPE", "s", <<tag, pstruct, pfunction>>),
    N("POINTER_TYPE", "", <<struct>>), N("TYPE_DECL", "t", <<named>>),
    N("RECORD_TYPE", "t", <<typedef, ptypes>>), N("RECORD_TYPE", "t", <<typedef, ptypes>>),
    N("TYPE_DECL", "s", <<struct>>), N("TYPE_DECL", "<built-in>", <<type>>),
    N("RECORD_TYPE", "va_list", <<vaname>>), N("UNION_TYPE", "", <<type, pstruct>>),
    N("COMPLEX_TYPE", "", <<type>>), N("FUNCTION_TYPE", "", <<struct, pstruct, type>>),
    N("POINTER_TYPE", "", <<function>>), N("METHOD_TYPE", "", <<type, pstruct>>),
    N("POINTER_TYPE", "", <<>>), N("ARRAY_TYPE", "", <<pstruct, zero, one>>),
    N("ARRAY_TYPE", "", <<array, zero, last>>), N("ARRAY_TYPE", "", <<named>>),
    N("REFERENCE_TYPE", "", <<vla>>), N("ARRAY_TYPE", "", <<vla, one, one>>),
    N("TYPE_DECL", "int", <<type>>), N("TREE_LIST", "", <<string>>),
    N("TREE_LIST", "", <<constraint, x, constraint, p>>),
    N("MEM_REF", "*", <<p, zero>>), N("MEM_REF", "", <<p, one>>)>>

(* A variable and an argument of each type, and the address of the variable, *)
(* its initial value.                                                        *)
LayerV ==
  One(Types, "VAR_DECL") \o One(Types, "PARM_DECL") \o One(Span(40, 17), "ADDR_EXPR")
First == 91
Declarations ==
  [i \in 1..17 |-> N("DECL_EXPR", "", <<40 + i, 74 + i>>)]
  \o One(<<typedef, inner, intname, lbl>>, "DECL_EXPR")
  \o <<N("DECL_EXPR", "", <<x, tag>>), N("ASM_EXPR", "", <<string, asmlist>>)>>

Calls(s) == Map(s, LAMBDA e : N("CALL_EXPR", "", <<fn, e>>))

Operators(s, t) ==
  One(s, "NEGATE_EXPR") \o One(s, "ADDR_EXPR") \o One(s, "INDIRECT_REF")
  \o One(s, "NOP_EXPR") \o Calls(s)
  \o Two(s, t, "PLUS_EXPR") \o Two(s, t, "MIN_EXPR") \o Two(s, t, "ARRAY_REF")

E0 == <<x, p>>
Layer1 == Operators(E0, E0)
E1 == E0 \o Span(First, 22)

Layer2 ==
  Operators(E1, <<x>>) \o Two(<<x>>, E1, "MIN_EXPR")
  \o Two(E1, <<fld>>, "COMPONENT_REF") \o Two(E1, <<x>>, "CALL_EXPR")
  \o Map(E1, LAMBDA e : N("CALL_EXPR", "", <<fn, x, e>>))
  \o Map(E1, LAMBDA e : N("COND_EXPR", "", <<e, x, p>>))
  \o Two(<<ifelse, method, memat>>, <<x>>, "CALL_EXPR")
  \o Two(<<mem, memat>>, <<fld>>, "COMPONENT_REF") \o One(<<mem, memat>>, "NEGATE_EXPR")
  \o One(<<one, range>>, "NEGATE_EXPR") \o One(<<string, fn>>, "ADDR_EXPR")
E2 == E1 \o Span(First + 22, 323)

Layer3 ==
  <<N("CALL_EXPR", "", <<fn, x>>), N("GOTO_EXPR", "", <<lbl>>), N("GOTO_EXPR", "", <<brk>>),
    N("LABEL_EXPR", "", <<lbl>>), N("CASE_LABEL_EXPR", "", <<one>>),
    N("CASE_LABEL_EXPR", "", <<one, one>>), N("CASE_LABEL_EXPR", "", <<>>),
    N("EXIT_EXPR", "", <<x>>), N("POSTINCREMENT_EXPR", "", <<p>>),
    N("RETURN_EXPR", "", <<x>>), N("RETURN_EXPR", "", <<>>)>>
  \o Two(<<x>>, E1, "INIT_EXPR")
Base3 == First + 345
call == Base3 + 1
goto == Base3 + 2
leave == Base3 + 3
place == Base3 + 4
case1 == Base3 + 5
cases == Base3 + 6
default == Base3 + 7
exit == Base3 + 8
incr == Base3 + 9
inits == Span(Base3 + 11, 24)

List(stmts) == N("STATEMENT_LIST", "", stmts)
Layer4 == <<List(<<call, goto>>), List(<<exit, incr, call>>),
            List(<<case1, call, leave, cases, call, default, call>>)>>
lists == Span(Base3 + 35, 3)

Layer5 == One(lists, "BIND_EXPR")
blocks == Span(Base3 + 38, 3)

Layer6 ==
  Two(<<x>>, E2, "MODIFY_EXPR") \o One(inits, "RETURN_EXPR")
  \o Pairs(E1, blocks, LAMBDA e, b : N("COND_EXPR", "if", <<e, b>>))
  \o Map(E1, LAMBDA e : N("COND_EXPR", "if", <<e, call, empty>>))
  \o Map(E1, LAMBDA e : N("COND_EXPR", "if", <<e, goto, leave>>))
  \o Two(E1, lists, "SWITCH_EXPR") \o One(blocks, "LOOP_EXPR")
  \o Map(E1, LAMBDA e : N("DECL_EXPR", "", <<x, e>>)) \o Two(<<x>>, E1, "TARGET_EXPR")
  \o Declarations
Statements == E2 \o Span(Base3, 35) \o Span(Base3 + 41, 637)

Layer7 == Map(Statements, LAMBDA s : List(<<s, call, place>>))

Layer8 ==
  Map(Span(Base3 + 678, 1019), LAMBDA b : N("FUNCTION", "", <<p, b>>))
  \o [i \in 1..17 |-> N("FUNCTION", "", <<p, 57 + i, call>>)]

MCTree == Layer0 \o LayerV \o Layer1 \o Layer2 \o Layer3 \o Layer4 \o Layer5 \o Layer6
          \o Layer7 \o Layer8
MCNode == 1..3169
MCFunctions == 2134..3169
=============================================================================
