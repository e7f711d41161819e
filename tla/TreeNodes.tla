------------------------------ MODULE TreeNodes ------------------------------
(***************************************************************************)
(* The tree nodes ahg_ast_tree_walker comes to, and what the walkers of    *)
(* types and declarations of walk-nodes.c walk of them.                    *)
(*                                                                         *)
(* A node is a pointer; tree[n] is its TREE_CODE, what it prints as, and   *)
(* the nodes its accessors give, in the order they are named below:        *)
(*   pointers, references, complex and vector types: TREE_TYPE, if any;    *)
(*   functions and methods: TREE_TYPE, then the types before               *)
(*     void_list_node;                                                     *)
(*   arrays: TREE_TYPE, then the bounds of the TYPE_DOMAIN, if any;        *)
(*   structures and unions: TYPE_NAME, unless they print as nothing, then  *)
(*     the types of the fields;                                            *)
(*   VAR_DECL, PARM_DECL, TYPE_DECL, LABEL_DECL: TREE_TYPE;                *)
(*   DECL_EXPR: the declaration, then its register, initial value and      *)
(*     value expression, those it has;                                     *)
(*   FUNCTION: the arguments, then the body;                               *)
(*   TREE_LIST: purpose, if any, and value of each element of the chain;   *)
(*   calls: the callee, the arguments, the static chain, if any;           *)
(*   any other: its operands.                                              *)
(* A MEM_REF that is a plain dereference, without offset and with the type *)
(* of the pointer, prints as "*".                                          *)
(* Types are a graph, with cycles through the types of fields; each walk   *)
(* starts with nothing seen, so that no walk may follow such a cycle.      *)
(*                                                                         *)
(* Not modelled: ERROR_MARK, for which the callback does nothing, and the  *)
(* DECL_EXPR of a function defined in a function, for which                *)
(* walk_declaration_node takes the arguments of a type: what it reads      *)
(* there is no argument.                                                   *)
(***************************************************************************)
EXTENDS Integers, Sequences

CONSTANTS
  Node,           \* the pointers to tree nodes
  tree            \* what each points to

ASSUME NodeAssumption ==
  tree \in [Node -> [code : STRING, name : STRING, ops : Seq(Node)]]

Code(n) == tree[n].code
Name(n) == tree[n].name
Ops(n) == tree[n].ops
Op(n, i) == Ops(n)[i]

(***************************************************************************)
(* What a walker walks: nodes, and for each the change it makes to         *)
(* *indent_level, which is walker_depth, around the walk.  Each is a walk  *)
(* of its own (first), which begins with nothing seen.                     *)
(***************************************************************************)
Item == [node : Node, shift : {-1, 0, 1}, first : BOOLEAN]

Items(nodes, shift, first) ==
  [i \in DOMAIN nodes |-> [node |-> nodes[i], shift |-> shift, first |-> first]]

At(shift, nodes) == Items(nodes, shift, TRUE)

Operands(n) == At(0, Ops(n))

(***************************************************************************)
(* Types.                                                                  *)
(***************************************************************************)
NumberTypes == {"VOID_TYPE", "INTEGER_TYPE", "REAL_TYPE", "FIXED_POINT_TYPE",
                "COMPLEX_TYPE", "VECTOR_TYPE", "ENUMERAL_TYPE", "BOOLEAN_TYPE"}

Pointers == {"POINTER_TYPE", "REFERENCE_TYPE"}

Records == {"RECORD_TYPE", "UNION_TYPE", "QUAL_UNION_TYPE"}

FunctionTypes == {"FUNCTION_TYPE", "METHOD_TYPE"}

Lists == {"TREE_LIST", "TREE_VEC", "TREE_BINFO"}

(* Declarations whose callback prints a name and walks nothing. *)
Names == {"IDENTIFIER_NODE", "FUNCTION_DECL", "CONST_DECL", "LABEL_DECL", "RESULT_DECL",
          "VAR_DECL", "PARM_DECL", "FIELD_DECL"}

(* The arities that the walkers of types and declarations rely on. *)
ASSUME TypeAssumption ==
  \A n \in Node :
    LET code == Code(n)
        arity == Len(Ops(n))
    IN /\ code \in FunctionTypes \cup {"ARRAY_TYPE", "COMPLEX_TYPE", "VECTOR_TYPE"} => arity >= 1
       /\ code \in Pointers => arity \in {0, 1}
       /\ code \in Records /\ Name(n) # "" => arity >= 1
       /\ code \in {"VAR_DECL", "PARM_DECL", "TYPE_DECL", "LABEL_DECL"} => arity = 1
       /\ code = "DECL_EXPR" =>
            arity >= 1 /\ Code(Op(n, 1)) \in {"VAR_DECL", "TYPE_DECL", "LABEL_DECL"}
       /\ code = "FUNCTION" =>
            arity >= 1 /\ \A i \in 1..(arity - 1) : Code(Op(n, i)) = "PARM_DECL"

(* walk_tree_vector_node does the same for the elements of a vector. *)
walk_tree_list_node(n) == Operands(n)

walk_number_types_node(n) ==
  IF Code(n) \in {"COMPLEX_TYPE", "VECTOR_TYPE"} THEN Operands(n) ELSE <<>>

(* walk_function_type_node and walk_function_decl_node: the type of the    *)
(* result, then those of the arguments.                                    *)
walk_function_type_node(n) == Operands(n)

(* A pointer to a function prints the function type itself, round the star. *)
walk_pointer_reference_node(n) ==
  IF Ops(n) # <<>> /\ Code(Op(n, 1)) = "FUNCTION_TYPE"
  THEN walk_function_type_node(Op(n, 1))
  ELSE Operands(n)

(* Bounds 0 and a constant are printed as a size; any other are walked.    *)
(* A bound that is a constant fits a HOST_WIDE_INT.                        *)
walk_array_domain(n) ==
  LET bounds == Tail(Ops(n)) IN
  IF /\ Len(bounds) = 2 /\ \A i \in 1..2 : Code(bounds[i]) = "INTEGER_CST"
     /\ Name(bounds[1]) = "0"
  THEN <<>>
  ELSE At(0, bounds)

(* The two loops over the dimensions of an array. *)
Innermost[n \in Node] ==
  IF Code(n) = "ARRAY_TYPE" THEN Innermost[Op(n, 1)] ELSE n

Dimensions[n \in Node] ==
  IF Code(n) = "ARRAY_TYPE" THEN walk_array_domain(n) \o Dimensions[Op(n, 1)] ELSE <<>>

walk_array_node(n) == At(0, <<Innermost[n]>>) \o Dimensions[n]

(* Mutant of walk_record_union_node: the fields are walked, too. *)
RecordWithFields(n) == Operands(n)

(* A structure or union is printed by its name. *)
walk_record_union_node(n) ==
  IF Name(n) # "" THEN At(0, <<Op(n, 1)>>) ELSE <<>>

(***************************************************************************)
(* Declarations.                                                           *)
(***************************************************************************)
IsBuiltin(n) == Name(n) = "<built-in>"

IsTypeNameOf(n, type) ==
  IF Code(type) \in Records
  THEN Name(type) # "" /\ Op(type, 1) = n
  ELSE Name(type) = Name(n)

NamesItsType(n) == IsBuiltin(n) \/ IsTypeNameOf(n, Op(n, 1))

(* A name that is not the TYPE_NAME of its type, as that of a class inside *)
(* the class, prints the type, too.                                        *)
walk_type_declaration_node(n) == IF NamesItsType(n) THEN <<>> ELSE Operands(n)

(* The type and the name, for an array the name in front of the            *)
(* dimensions, then what else the declaration has.                         *)
walk_declaration_node(n) ==
  LET decl == Op(n, 1)
      type == Op(decl, 1)
      rest == At(0, Tail(Ops(n)))
  IN IF Code(type) = "ARRAY_TYPE"
     THEN At(0, <<Innermost[type], decl>>) \o (Dimensions[type] \o rest)
     ELSE At(0, <<type, decl>>) \o rest

(* Of a function, the type and the name of each argument. *)
walk_function_decl_args(f) ==
  At(0, [i \in 1..(2 * (Len(Ops(f)) - 1)) |->
           LET arg == Op(f, (i + 1) \div 2) IN IF i % 2 = 1 THEN Op(arg, 1) ELSE arg])

(* A node's parts are what its accessors give, and of the declaration in a *)
(* statement the type, too.  What refers back is no part: the fields of a  *)
(* structure, and the type that a TYPE_DECL is the name of.                *)
Parts(n) ==
  LET ops == {Op(n, i) : i \in DOMAIN Ops(n)} IN
  CASE Code(n) \in Records -> IF Name(n) # "" THEN {Op(n, 1)} ELSE {}
    [] Code(n) = "TYPE_DECL" -> IF NamesItsType(n) THEN {} ELSE ops
    [] Code(n) = "DECL_EXPR" -> ops \cup {Op(Op(n, 1), 1)}
    [] OTHER -> ops

Height[n \in Node] ==
  LET below == {Height[m] : m \in Parts(n)}
  IN IF below = {} THEN 0 ELSE 1 + (CHOOSE h \in below : \A g \in below : g <= h)

(* GCC makes a node after its parts: no node is a part of its own parts.   *)
ASSUME HeightAssumption ==
  \A n \in Node : Height[n] \in Nat /\ \A m \in Parts(n) : Height[m] < Height[n]

(* What the callback of a type or declaration walks. *)
TypesAndNames ==
  NumberTypes \cup Pointers \cup Records \cup FunctionTypes \cup Names
  \cup Lists \cup {"ARRAY_TYPE", "TYPE_DECL", "DECL_EXPR"}

TypeWalks(n) ==
  CASE Code(n) \in NumberTypes -> walk_number_types_node(n)
    [] Code(n) \in Pointers -> walk_pointer_reference_node(n)
    [] Code(n) = "ARRAY_TYPE" -> walk_array_node(n)
    [] Code(n) \in Records -> walk_record_union_node(n)
    [] Code(n) \in FunctionTypes -> walk_function_type_node(n)
    [] Code(n) = "TYPE_DECL" -> walk_type_declaration_node(n)
    [] Code(n) = "DECL_EXPR" -> walk_declaration_node(n)
    [] Code(n) \in Lists -> walk_tree_list_node(n)
    [] Code(n) \in Names -> <<>>
=============================================================================
