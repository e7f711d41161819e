----------------------------- MODULE TreeWalker -----------------------------
(***************************************************************************)
(* ahg_ast_tree_walker of ahaggar-ast.c and the walkers of walk-nodes.c:   *)
(* how the body of a function is walked and which static variables decide  *)
(* what a node prints.                                                     *)
(*                                                                         *)
(* The C recursion (a walker calls base_cp_tree_walker, which calls        *)
(* ahg_ast_tree_walker back) is a stack of frames, one per node whose      *)
(* callback or subtree walk is under way.  A step enters the next node a   *)
(* frame has to walk, or ends a frame.                                     *)
(*                                                                         *)
(* The statics walker_depth, is_expr and symbol_prefix outlive a function: *)
(* the model walks one function after another.  print_location is set and  *)
(* consumed at the end of one callback: it is the `location' of a frame.   *)
(* No text is kept.  A line is indented by walker_depth, a variable is     *)
(* prefixed with symbol_prefix and a call is located by what is_expr was,  *)
(* all when the frame of the node is pushed.                               *)
(***************************************************************************)
EXTENDS TreeNodes

CONSTANT
  Functions       \* the nodes that stand for a function

ASSUME FunctionAssumption ==
  /\ Functions \subseteq Node
  /\ \A f \in Functions : Code(f) = "FUNCTION"

(* The arities of TREE_CODEs that the walkers rely on. *)
ASSUME ArityAssumption ==
  \A n \in Node :
    LET code == Code(n)
        arity == Len(Ops(n))
    IN /\ code = "COND_EXPR" => arity >= 2
       /\ code \in {"GOTO_EXPR", "LABEL_EXPR"} => arity = 1
       /\ code \in {"COMPONENT_REF", "MEM_REF"} => arity >= 2
       /\ code = "INDIRECT_REF" => arity = 1
       /\ code \in {"ADDR_EXPR", "CALL_EXPR", "AGGR_INIT_EXPR"} => arity >= 1
       /\ code \in {"MODIFY_EXPR", "INIT_EXPR"} => arity = 2

VARIABLES
  stack,           \* the frames, innermost first
  walker_depth,
  is_expr,
  symbol_prefix

vars == <<stack, walker_depth, is_expr, symbol_prefix>>

(***************************************************************************)
(* The cases of the switch over TREE_CODE.                                 *)
(***************************************************************************)
Unary == {"NEGATE_EXPR", "BIT_NOT_EXPR", "TRUTH_NOT_EXPR", "PREDECREMENT_EXPR",
          "PREINCREMENT_EXPR", "INDIRECT_REF"}

Binary == {"PLUS_EXPR", "MINUS_EXPR", "MULT_EXPR", "TRUTH_ANDIF_EXPR",
           "TRUTH_ORIF_EXPR", "LT_EXPR", "EQ_EXPR", "NE_EXPR"}

PostIncDec == {"POSTDECREMENT_EXPR", "POSTINCREMENT_EXPR"}

Modify == {"MODIFY_EXPR", "INIT_EXPR"}

Call == {"CALL_EXPR", "AGGR_INIT_EXPR"}

(* Statements that print their location after themselves. *)
Located == {"DECL_EXPR", "TARGET_EXPR", "COND_EXPR", "LABEL_EXPR", "LOOP_EXPR",
            "EXIT_EXPR", "SWITCH_EXPR", "GOTO_EXPR", "RETURN_EXPR"}
           \cup Modify \cup PostIncDec

(* Mutant of SetsExpr: jumps and labels are left out. *)
SetsNotJumps == (Located \ {"GOTO_EXPR", "LABEL_EXPR"}) \cup Unary \cup Binary

(* Nodes that set is_expr while their operands are walked. *)
SetsExpr == Located \cup Unary \cup Binary

Variable == {"VAR_DECL", "PARM_DECL"}

(* Nodes without a case: the callback does nothing and GCC walks their     *)
(* operands afterwards, in the same walk.                                  *)
Default == {"BIND_EXPR", "NOP_EXPR", "COMPOUND_EXPR", "SAVE_EXPR", "MIN_EXPR",
            "MEM_REF", "ASM_EXPR"}

(* Nodes with a case that walks nothing. *)
Silent == {"RANGE_EXPR", "WITH_CLEANUP_EXPR", "OFFSET_TYPE", "LANG_TYPE"}

Symbol(code) ==
  CASE code = "ADDR_EXPR" -> "&"
    [] code = "NEGATE_EXPR" -> "-"
    [] code = "BIT_NOT_EXPR" -> "~"
    [] code = "TRUTH_NOT_EXPR" -> "!"
    [] code = "PREDECREMENT_EXPR" -> "--"
    [] code = "PREINCREMENT_EXPR" -> "++"
    [] code = "INDIRECT_REF" -> "*"
    [] OTHER -> ""

SetsPrefix(n) ==
  \/ Code(n) \in Unary
  \/ Code(n) = "ADDR_EXPR" /\ Code(Op(n, 1)) \notin {"STRING_CST", "FUNCTION_DECL"}

(***************************************************************************)
(* What the walkers of statements and expressions walk.                    *)
(***************************************************************************)
IsEmpty(n) == Code(n) = "NOP_EXPR" /\ Name(n) = "empty"

(* COND_EXPR of void type is an if; its else part may be missing, and an   *)
(* empty one is not walked.  Of any other type it is a ?: of operands.     *)
walk_cond_expr_node(n) ==
  IF Name(n) = "if"
  THEN At(0, <<Op(n, 1)>>) \o At(1, <<Op(n, 2)>>)
       \o (IF Len(Ops(n)) = 3 /\ ~IsEmpty(Op(n, 3)) THEN At(1, <<Op(n, 3)>>) ELSE <<>>)
  ELSE Operands(n)

walk_loop_expr_node(n) == At(1, Ops(n))

(* Mutant of walk_statement_iterator: one level too many is taken back. *)
StatementsAbove(n) == At(-2, Ops(n))

walk_statement_iterator(n) == At(-1, Ops(n))

(* A range prints its low bound twice. *)
walk_case_label_expr_node(n) ==
  IF Len(Ops(n)) = 2 THEN At(0, <<Op(n, 1), Op(n, 1)>>) ELSE Operands(n)

(* A jump to `break' or `continue' prints the word; any other walks its    *)
(* label.                                                                  *)
walk_goto_expr_node(n) ==
  IF Name(Op(n, 1)) \in {"break", "continue"} THEN <<>> ELSE Operands(n)

walk_return_expr_node(n) ==
  IF Ops(n) # <<>> /\ Code(Op(n, 1)) \in Modify
  THEN At(0, SubSeq(Ops(Op(n, 1)), 2, 2))
  ELSE Operands(n)

IsDereference(n) ==
  \/ Code(n) = "INDIRECT_REF"
  \/ /\ Code(n) = "MEM_REF" /\ Name(n) = "*"
     /\ Code(Op(n, 1)) \notin {"ADDR_EXPR", "INTEGER_CST"}

(* p->f: the dereference is printed as the arrow, only p is walked. *)
walk_component_ref_node(n) ==
  IF IsDereference(Op(n, 1))
  THEN At(0, <<Op(Op(n, 1), 1), Op(n, 2)>>)
  ELSE Operands(n)

(* The callee, given without the ADDR_EXPR, INDIRECT_REF, NOP_EXPR,         *)
(* NON_LVALUE_EXPR and the MEM_REF without offset that the code strips.  A  *)
(* call through a plain variable leaves before its arguments; the names of  *)
(* a function and of an array variable are printed, not walked; a reference *)
(* is walked, any other is left out.  The static chain is walked behind the *)
(* arguments.                                                               *)
ahg_ast_call_aggr_init(n) ==
  LET fn == Op(n, 1)
      args == At(0, Tail(Ops(n)))
  IN
  CASE Code(fn) \in Variable -> <<>>
    [] Code(fn) = "COND_EXPR" -> Operands(fn) \o args
    [] \/ Code(fn) \in {"MEM_REF", "COMPONENT_REF", "SSA_NAME", "OBJ_TYPE_REF"}
       \/ Code(fn) = "ARRAY_REF" /\ Code(Op(fn, 1)) # "VAR_DECL"
         -> At(0, <<fn>>) \o args
    [] OTHER -> args

Walks(n) ==
  CASE Code(n) = "COND_EXPR" -> walk_cond_expr_node(n)
    [] Code(n) = "LOOP_EXPR" -> walk_loop_expr_node(n)
    [] Code(n) = "STATEMENT_LIST" -> walk_statement_iterator(n)
    [] Code(n) = "CASE_LABEL_EXPR" -> walk_case_label_expr_node(n)
    [] Code(n) \in {"GOTO_EXPR", "LABEL_EXPR"} -> walk_goto_expr_node(n)
    [] Code(n) = "RETURN_EXPR" -> walk_return_expr_node(n)
    [] Code(n) = "COMPONENT_REF" -> walk_component_ref_node(n)
    [] Code(n) \in Call -> ahg_ast_call_aggr_init(n)
    [] Code(n) \in TypesAndNames -> TypeWalks(n)
    [] Code(n) \in Silent -> <<>>
    [] OTHER -> Operands(n)

(***************************************************************************)
(* Frames.  entry is walker_depth before the callback and the shift around *)
(* it, saved is the indent_level that walk_cond_expr_node and              *)
(* walk_loop_expr_node keep, seen what the walk under way came to.         *)
(***************************************************************************)
Top == stack[1]

Resets(n) == Code(n) \in SetsExpr \/ (Code(n) \in Call /\ ~is_expr)

Locates(n) == Code(n) \in Located \/ (Code(n) \in Call \cup {"LABEL_DECL"} /\ ~is_expr)

(* Mutant of FrameOf: only statements turn is_expr off again. *)
FrameLeavesExpr(item) ==
  [node |-> item.node, todo |-> Walks(item.node), shift |-> item.shift,
   entry |-> walker_depth, saved |-> walker_depth + item.shift + 1,
   resets |-> Code(item.node) \in Located, location |-> Locates(item.node), seen |-> {}]

FrameOf(item) ==
  [node |-> item.node, todo |-> Walks(item.node), shift |-> item.shift,
   entry |-> walker_depth, saved |-> walker_depth + item.shift + 1,
   resets |-> Resets(item.node), location |-> Locates(item.node), seen |-> {}]

SeenBefore(f, item) == IF item.first THEN {} ELSE f.seen

AlreadySeen(f, item) ==
  item.node \in SeenBefore(f, item)

(* Mutant of Rest: a statement list does not move on. *)
RestOfList(f) == IF Code(f.node) = "STATEMENT_LIST" THEN f.todo ELSE Tail(f.todo)

(* What a frame has left to walk, and has seen, once it came to an item. *)
Rest(f) == Tail(f.todo)

After(f, todo) ==
  [f EXCEPT !.todo = todo, !.seen = SeenBefore(f, Head(f.todo)) \cup {Head(f.todo).node}]

DepthAtEnd(f) ==
  IF Code(f.node) \in {"COND_EXPR", "LOOP_EXPR"} THEN f.saved ELSE walker_depth

(* Mutant of DepthAfter: the caller's change of indent_level stays. *)
DepthKept(f) == DepthAtEnd(f) - 1

DepthAfter(f) == DepthAtEnd(f) - 1 - f.shift

(* Mutant of PrefixAtEnd: the prefix is not cleared. *)
PrefixKept == symbol_prefix

PrefixAtEnd == ""

(***************************************************************************)
(* Actions.                                                                *)
(***************************************************************************)
(* ahg_ast_function and ahg_ast_analyze_body: the arguments, then the body. *)
FunctionWalks(f) == walk_function_decl_args(f) \o At(0, <<Op(f, Len(Ops(f)))>>)

StartFunction(f) ==
  /\ stack = <<>>
  /\ stack' = <<[node |-> f, todo |-> FunctionWalks(f), shift |-> 0, entry |-> walker_depth,
                 saved |-> walker_depth, resets |-> FALSE, location |-> FALSE, seen |-> {}]>>
  /\ UNCHANGED <<walker_depth, is_expr, symbol_prefix>>

(* A shared node the walk already came to: no callback. *)
SkipSeen ==
  /\ stack # <<>> /\ Top.todo # <<>>
  /\ AlreadySeen(Top, Head(Top.todo))
  /\ stack' = <<After(Top, Rest(Top))>> \o Tail(stack)
  /\ UNCHANGED <<walker_depth, is_expr, symbol_prefix>>

(* The callback of a node without a case increments and decrements the     *)
(* depth and clears the prefix; its operands come next in the same walk.   *)
EnterDefault ==
  /\ stack # <<>> /\ Top.todo # <<>>
  /\ LET item == Head(Top.todo) IN
     /\ ~AlreadySeen(Top, item)
     /\ Code(item.node) \in Default
     /\ stack' = <<After(Top, Items(Ops(item.node), item.shift, FALSE) \o Rest(Top))>>
                 \o Tail(stack)
  /\ symbol_prefix' = PrefixAtEnd
  /\ UNCHANGED <<walker_depth, is_expr>>

(* The callback of any other node up to the first walk it makes. *)
Enter ==
  /\ stack # <<>> /\ Top.todo # <<>>
  /\ LET item == Head(Top.todo)
         n == item.node
     IN
     /\ ~AlreadySeen(Top, item)
     /\ Code(n) \notin Default
     /\ stack' = <<FrameOf(item)>> \o (<<After(Top, Rest(Top))>> \o Tail(stack))
     /\ walker_depth' = walker_depth + item.shift + 1
     /\ is_expr' = (is_expr \/ Resets(n))
     /\ symbol_prefix' = IF SetsPrefix(n) THEN Symbol(Code(n)) ELSE symbol_prefix

(* Mutant of Leave: is_expr is not reset. *)
LeaveInExpr ==
  /\ stack # <<>> /\ Top.todo = <<>> /\ Len(stack) > 1
  /\ stack' = Tail(stack)
  /\ walker_depth' = DepthAfter(Top)
  /\ symbol_prefix' = PrefixAtEnd
  /\ UNCHANGED is_expr

(* The end of a callback; the caller undoes its change of indent_level. *)
Leave ==
  /\ stack # <<>> /\ Top.todo = <<>> /\ Len(stack) > 1
  /\ stack' = Tail(stack)
  /\ walker_depth' = DepthAfter(Top)
  /\ is_expr' = (is_expr /\ ~Top.resets)
  /\ symbol_prefix' = PrefixAtEnd

EndFunction ==
  /\ Len(stack) = 1 /\ Top.todo = <<>>
  /\ stack' = <<>>
  /\ UNCHANGED <<walker_depth, is_expr, symbol_prefix>>

Walk == SkipSeen \/ EnterDefault \/ Enter \/ Leave \/ EndFunction

Init ==
  /\ stack = <<>> /\ walker_depth = 0
  /\ is_expr = FALSE /\ symbol_prefix = ""

Next == Walk \/ \E f \in Functions : StartFunction(f)

Spec == Init /\ [][Next]_vars

FairSpec == Spec /\ WF_vars(Walk)

(***************************************************************************)
(* Properties.                                                             *)
(***************************************************************************)
Frame ==
  [node : Node, todo : Seq(Item), shift : {-1, 0, 1}, entry : Nat, saved : Nat,
   resets : BOOLEAN, location : BOOLEAN, seen : SUBSET Node]

(* Type invariant.  walker_depth, which is an int, is never negative: a    *)
(* statement list takes back only the level its own callback added.        *)
TypeOK ==
  /\ walker_depth \in Nat /\ is_expr \in BOOLEAN
  /\ symbol_prefix \in {"", "&", "-", "~", "!", "--", "++", "*"}
  /\ stack \in Seq(Frame)

(* The depth inside the frame i of s; the frame of a function adds none. *)
Level(s, i) == IF i = Len(s) THEN 0 ELSE s[i].entry + s[i].shift + 1

(* The depth, hence the indentation of every line, is that of the enclosing *)
(* nodes and of the blocks they are in, whatever was walked before; between *)
(* functions it is back at 0.                                               *)
DepthMatchesStack ==
  /\ walker_depth = (IF stack = <<>> THEN 0 ELSE Level(stack, 1))
  /\ \A i \in 1..(Len(stack) - 1) : stack[i].entry = Level(stack, i + 1)

(* is_expr is on only inside a node that turns it off when it ends, so no   *)
(* statement and no function starts with what an earlier one left.          *)
ExprContained ==
  is_expr => \E i \in DOMAIN stack : stack[i].resets

(* An operator printed as a prefix is printed once, on the first leaf of    *)
(* its operand: as long as a prefix is pending, a node that set it encloses *)
(* the walk, and no node from there inwards has finished an operand.        *)
PrefixOnFirstLeaf ==
  symbol_prefix # "" =>
    \E i \in DOMAIN stack :
      /\ SetsPrefix(stack[i].node) /\ symbol_prefix = Symbol(Code(stack[i].node))
      /\ stack[1].seen = {}
      /\ \A j \in 2..i : stack[j].todo = Tail(Walks(stack[j].node))

(* A call that is a statement of the function's own block, not of a nested *)
(* one, prints its location, after any statements before it.               *)
TopLevelCallsLocated ==
  \A i \in DOMAIN stack :
    /\ Code(stack[i].node) \in Call
    /\ \A j \in (i + 1)..Len(stack) : Code(stack[j].node) \in {"FUNCTION", "STATEMENT_LIST"}
    => stack[i].location

(* A goto and a label statement print one location, their own: the label   *)
(* they name prints none, whatever statements came before.                 *)
JumpHasOneLocation ==
  \A i \in 1..(Len(stack) - 1) :
    /\ Code(stack[i].node) = "LABEL_DECL"
    /\ Code(stack[i + 1].node) \in {"GOTO_EXPR", "LABEL_EXPR"}
    /\ stack[i].node = Op(stack[i + 1].node, 1)
    => ~stack[i].location

(* What prints a location, and once: calls and jumps of the function's own block. *)
LocationsPrinted == TopLevelCallsLocated /\ JumpHasOneLocation

(* No walk comes to the node it is a walk of, though types refer back to   *)
(* themselves and a variable may be part of its own initial value: every   *)
(* cycle of the tree passes through a node that is printed by its name.    *)
NothingInItself ==
  \A i, j \in DOMAIN stack : stack[i].node = stack[j].node => i = j

(* Every walk of a function ends. *)
WalksEnd == []<>(stack = <<>>)

(* doc/ahaggar_ast_format.txt: a call is printed with its location.  Stated *)
(* of the calls that are statements of any block.                           *)
StatementCallsLocated ==
  \A i \in 1..(Len(stack) - 1) :
    /\ Code(stack[i].node) \in Call
    /\ Code(stack[i + 1].node) = "STATEMENT_LIST"
    => stack[i].location
=============================================================================
