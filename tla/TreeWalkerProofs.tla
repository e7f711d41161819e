--------------------------- MODULE TreeWalkerProofs ---------------------------
(***************************************************************************)
(* The statics of the tree walker behave for every tree: the depth is that *)
(* of the nesting, is_expr and symbol_prefix stay inside the node that set *)
(* them, a call of the function's own block and a jump print one location. *)
(* And no walk comes round to the node it is a walk of.                    *)
(***************************************************************************)
EXTENDS TreeWalker, SequenceLemmas, SequenceTheorems, TLAPS

(* What holds of the frame of a callback, of the frame of the function. *)
Inner(f) ==
  /\ f.resets => Code(f.node) \in SetsExpr \cup Call
  /\ f.entry + f.shift >= 0
  /\ f.saved = f.entry + f.shift + 1
  /\ Code(f.node) # "STATEMENT_LIST" => \A k \in 1..Len(f.todo) : f.todo[k].shift # -1
  /\ f.seen = {} => f.todo = Walks(f.node)
  /\ /\ Code(f.node) \in {"GOTO_EXPR", "LABEL_EXPR"}
     /\ Code(Op(f.node, 1)) \notin Default
     /\ f.seen # {}
     => f.todo = <<>>

Bottom(f) ==
  /\ f.node \in Functions /\ ~f.resets /\ f.entry = 0 /\ f.shift = 0
  /\ \A k \in 1..Len(f.todo) : f.todo[k].shift # -1

OwnBlock(s) ==
  \A i \in 1..Len(s) :
    /\ Code(s[i].node) \in Call
    /\ \A j \in (i + 1)..Len(s) : Code(s[j].node) \in {"FUNCTION", "STATEMENT_LIST"}
    => s[i].location

JumpLabel(f, g) ==
  /\ Code(f.node) = "LABEL_DECL"
  /\ Code(g.node) \in {"GOTO_EXPR", "LABEL_EXPR"}
  /\ f.node = Op(g.node, 1)

(* What the innermost frame of s may have left to walk next. *)
MayWalk(s, todo) ==
  /\ todo \in Seq(Item)
  /\ (\A k \in 1..Len(s[1].todo) : s[1].todo[k].shift # -1)
       => \A k \in 1..Len(todo) : todo[k].shift # -1
  /\ (/\ Len(s) > 1 /\ Code(s[1].node) \in {"GOTO_EXPR", "LABEL_EXPR"}
      /\ Code(Op(s[1].node, 1)) \notin Default) => todo = <<>>

StackOK(s) ==
  /\ s \in Seq(Frame)
  /\ \A i \in 1..(Len(s) - 1) :
       /\ Inner(s[i])
       /\ s[i].entry = Level(s, i + 1)
       /\ s[i + 1].seen # {}
       /\ JumpLabel(s[i], s[i + 1]) => ~s[i].location
  /\ s # <<>> => Bottom(s[Len(s)])
  /\ OwnBlock(s)

IInv ==
  /\ TypeOK
  /\ StackOK(stack)
  /\ walker_depth = (IF stack = <<>> THEN 0 ELSE Level(stack, 1))
  /\ ExprContained
  /\ PrefixOnFirstLeaf
  /\ (stack # <<>> /\ stack[1].seen = {} /\ Code(stack[1].node) \in SetsExpr) => is_expr

-----------------------------------------------------------------------------
(* The accessors of a node. *)
LEMMA NodeType ==
  ASSUME NEW n \in Node
  PROVE  Code(n) \in STRING /\ Name(n) \in STRING /\ Ops(n) \in Seq(Node)
BY NodeAssumption DEF Code, Name, Ops

(* What holds of a node if it holds of all lower ones, holds of all. *)
LEMMA ByHeight ==
  ASSUME NEW T,
         \A n \in Node : (\A m \in Node : Height[m] < Height[n] => m \in T) => n \in T
  PROVE  Node \subseteq T
<1>. DEFINE H == {Height[n] : n \in Node \ T}
<1>1. SUFFICES ASSUME H # {} PROVE FALSE OBVIOUS
<1>2. H \subseteq Nat BY HeightAssumption
<1>3. PICK h \in H : \A g \in H : h <= g
  <2> HIDE DEF H
  <2> QED BY <1>1, <1>2, LeastNatural
<1>4. PICK n \in Node \ T : h = Height[n] BY <1>3
<1>5. ASSUME NEW m \in Node, Height[m] < Height[n] PROVE m \in T
  <2>1. Height[m] \in Nat /\ Height[n] \in Nat BY HeightAssumption
  <2>2. Height[m] \notin H
    <3> HIDE DEF H
    <3> QED BY <1>3, <1>4, <1>5, <2>1
  <2> QED BY <2>2
<1> QED BY <1>4, <1>5

(* What the accessors give is lower, unless it refers back. *)
LEMMA OpLower ==
  ASSUME NEW n \in Node, Code(n) \notin Records, Code(n) = "TYPE_DECL" => ~NamesItsType(n)
  PROVE  \A i \in 1..Len(Ops(n)) : Op(n, i) \in Node /\ Height[Op(n, i)] < Height[n]
<1> SUFFICES ASSUME NEW i \in 1..Len(Ops(n))
             PROVE  Op(n, i) \in Node /\ Height[Op(n, i)] < Height[n]
  OBVIOUS
<1>1. Ops(n) \in Seq(Node) BY NodeType
<1>2. DOMAIN Ops(n) = 1..Len(Ops(n)) BY <1>1
<1>3. {Op(n, j) : j \in DOMAIN Ops(n)} \subseteq Parts(n)
  <2>1. CASE Code(n) = "TYPE_DECL" BY <2>1 DEF Parts, Records
  <2>2. CASE Code(n) = "DECL_EXPR" BY <2>2 DEF Parts, Records
  <2>3. CASE Code(n) \notin {"TYPE_DECL", "DECL_EXPR"} BY <2>3 DEF Parts
  <2> QED BY <2>1, <2>2, <2>3
<1>4. Op(n, i) \in Parts(n) BY <1>2, <1>3
<1> QED BY <1>1, <1>4, HeightAssumption DEF Op

(* Items of a list of nodes.                                               *)
LEMMA ItemsType ==
  ASSUME NEW nodes \in Seq(Node), NEW shift \in {-1, 0, 1}, NEW first \in BOOLEAN
  PROVE  /\ Items(nodes, shift, first) \in Seq(Item)
         /\ Len(Items(nodes, shift, first)) = Len(nodes)
         /\ \A k \in 1..Len(Items(nodes, shift, first)) :
              /\ Items(nodes, shift, first)[k].shift = shift
              /\ Items(nodes, shift, first)[k].node = nodes[k]
<1> DEFINE it == Items(nodes, shift, first)
<1>1. DOMAIN nodes = 1..Len(nodes) /\ Len(nodes) \in Nat OBVIOUS
<1>2. \A i \in 1..Len(nodes) : nodes[i] \in Node OBVIOUS
<1>3. it = [i \in 1..Len(nodes) |-> [node |-> nodes[i], shift |-> shift, first |-> first]]
  BY <1>1 DEF Items
<1>4. it \in [1..Len(nodes) -> Item] BY <1>2, <1>3 DEF Item
<1>5. it \in Seq(Item) /\ Len(it) = Len(nodes) BY <1>1, <1>3, <1>4, LenProperties
<1> HIDE DEF it
<1>6. \A k \in 1..Len(it) : it[k].shift = shift /\ it[k].node = nodes[k] BY <1>3, <1>5
<1> QED BY <1>5, <1>6 DEF it

(* Items that go down no level, and are lower than n. *)
Lower(w, n) == \A k \in 1..Len(w) : Height[w[k].node] < Height[n]

Good(w, n) == w \in Seq(Item) /\ (\A k \in 1..Len(w) : w[k].shift # -1) /\ Lower(w, n)

LEMMA GoodAt ==
  ASSUME NEW n \in Node, NEW nodes \in Seq(Node), NEW shift \in {0, 1},
         \A i \in 1..Len(nodes) : Height[nodes[i]] < Height[n]
  PROVE  Good(At(shift, nodes), n)
<1> DEFINE w == At(shift, nodes)
<1>1. shift \in {-1, 0, 1} /\ TRUE \in BOOLEAN /\ shift # -1 OBVIOUS
<1>2. /\ w \in Seq(Item) /\ Len(w) = Len(nodes)
      /\ \A k \in 1..Len(w) : w[k].shift = shift /\ w[k].node = nodes[k]
  BY <1>1, ItemsType DEF At
<1> HIDE DEF w
<1>3. \A k \in 1..Len(w) : Height[w[k].node] < Height[n] BY <1>2
<1> QED BY <1>1, <1>2, <1>3 DEF w, Good, Lower

(* Two sequences of items, one behind the other. *)
LEMMA ConcatItems ==
  ASSUME NEW a \in Seq(Item), NEW b \in Seq(Item),
         \A k \in 1..Len(a) : a[k].shift # -1, \A k \in 1..Len(b) : b[k].shift # -1
  PROVE  a \o b \in Seq(Item) /\ \A k \in 1..Len(a \o b) : (a \o b)[k].shift # -1
<1>1. Len(a \o b) = Len(a) + Len(b) /\ a \o b \in Seq(Item) OBVIOUS
<1>2. ASSUME NEW k \in 1..Len(a \o b) PROVE (a \o b)[k].shift # -1
  <2>1. CASE k <= Len(a) BY <2>1, <1>1
  <2>2. CASE k > Len(a)
    <3>1. (a \o b)[k] = b[k - Len(a)] /\ k - Len(a) \in 1..Len(b) BY <2>2, <1>1
    <3> QED BY <3>1
  <2> QED BY <2>1, <2>2
<1> QED BY <1>1, <1>2

LEMMA ConcatLower ==
  ASSUME NEW n \in Node, NEW a \in Seq(Item), NEW b \in Seq(Item), Lower(a, n), Lower(b, n)
  PROVE  Lower(a \o b, n)
<1>1. Len(a \o b) = Len(a) + Len(b) OBVIOUS
<1> SUFFICES ASSUME NEW k \in 1..Len(a \o b) PROVE Height[(a \o b)[k].node] < Height[n]
  BY DEF Lower
<1>2. CASE k <= Len(a)
  <2>1. (a \o b)[k] = a[k] /\ k \in 1..Len(a) BY <1>1, <1>2
  <2> QED BY <2>1 DEF Lower
<1>3. CASE k > Len(a)
  <2>1. (a \o b)[k] = b[k - Len(a)] /\ k - Len(a) \in 1..Len(b) BY <1>1, <1>3
  <2> QED BY <2>1 DEF Lower
<1> QED BY <1>2, <1>3

LEMMA ConcatGood ==
  ASSUME NEW n \in Node, NEW a, NEW b, Good(a, n), Good(b, n)
  PROVE  Good(a \o b, n)
BY ConcatItems, ConcatLower DEF Good

(* The bounds of an array are items of its level, and lower.               *)
LEMMA DomainGood ==
  ASSUME NEW n \in Node, Code(n) = "ARRAY_TYPE"
  PROVE  /\ Op(n, 1) \in Node /\ Height[Op(n, 1)] < Height[n]
         /\ Good(walk_array_domain(n), n)
<1>1. Ops(n) \in Seq(Node) /\ Len(Ops(n)) >= 1
  <2>1. Len(Ops(n)) >= 1 BY TypeAssumption
  <2> QED BY <2>1, NodeType
<1>2. \A i \in 1..Len(Ops(n)) : Op(n, i) \in Node /\ Height[Op(n, i)] < Height[n]
  BY OpLower DEF Records
<1>3. 1 \in 1..Len(Ops(n)) BY <1>1
<1> DEFINE bounds == Tail(Ops(n))
<1>4. /\ bounds \in Seq(Node) /\ Len(bounds) = Len(Ops(n)) - 1
      /\ \A i \in 1..Len(bounds) : bounds[i] = Ops(n)[i + 1]
  BY <1>1
<1>5. ASSUME NEW i \in 1..Len(bounds) PROVE Height[bounds[i]] < Height[n]
  <2>1. i + 1 \in 1..Len(Ops(n)) /\ bounds[i] = Op(n, i + 1) BY <1>1, <1>4 DEF Op
  <2> QED BY <1>2, <2>1
<1> HIDE DEF bounds
<1>6. Good(At(0, bounds), n) BY <1>4, <1>5, GoodAt
<1>7. Good(<<>>, n) BY DEF Good, Lower
<1>8. walk_array_domain(n) \in {<<>>, At(0, bounds)} BY DEF walk_array_domain, bounds
<1> QED BY <1>2, <1>3, <1>6, <1>7, <1>8

(* The loops over the dimensions of an array end, since each element type  *)
(* is lower: they compute what their definitions say.                      *)
LEMMA ArrayLoops ==
  /\ Innermost = [n \in Node |-> IF Code(n) = "ARRAY_TYPE" THEN Innermost[Op(n, 1)] ELSE n]
  /\ Dimensions = [n \in Node |-> IF Code(n) = "ARRAY_TYPE"
                                  THEN walk_array_domain(n) \o Dimensions[Op(n, 1)] ELSE <<>>]
<1> DEFINE height == [n \in Node |-> Height[n]]
           A == {n \in Node : Code(n) = "ARRAY_TYPE"}
           element == [n \in Node |-> IF n \in A THEN Op(n, 1) ELSE n]
           inner(f) == [n \in Node |-> IF Code(n) = "ARRAY_TYPE" THEN f[Op(n, 1)] ELSE n]
           dims(f) == [n \in Node |-> IF Code(n) = "ARRAY_TYPE"
                                      THEN walk_array_domain(n) \o f[Op(n, 1)] ELSE <<>>]
<1>1. height \in [Node -> Nat] BY HeightAssumption
<1>2. element \in [Node -> Node] /\ \A n \in Node : n \in A => height[element[n]] < height[n]
  BY DomainGood
<1>3. \E f : f = inner(f)
  <2> DEFINE base == [n \in Node |-> n]
             step == [n \in Node |-> [v \in Node |-> v]]
  <2>1. base \in [Node -> Node] /\ step \in [Node -> [Node -> Node]] OBVIOUS
  <2>2. PICK f \in [Node -> Node] : \A n \in Node : f[n] = Body(f, A, element, base, step, n)
    <3> HIDE DEF height, A, element, base, step
    <3>1. Descends(Node, Node, height, A, element, base, step)
      BY <1>1, <1>2, <2>1 DEF Descends
    <3> QED BY <3>1, Descent
  <2>3. ASSUME NEW n \in Node
        PROVE  f[n] = IF Code(n) = "ARRAY_TYPE" THEN f[Op(n, 1)] ELSE n
    <3>1. f[n] = Body(f, A, element, base, step, n) BY <2>2
    <3>2. CASE Code(n) = "ARRAY_TYPE"
      <4>1. n \in A /\ element[n] = Op(n, 1) /\ Op(n, 1) \in Node BY <3>2, DomainGood
      <4>2. f[Op(n, 1)] \in Node BY <4>1
      <4>3. step[n][f[Op(n, 1)]] = f[Op(n, 1)] BY <4>2
      <4> HIDE DEF A, element, step
      <4> QED BY <3>1, <3>2, <4>1, <4>3 DEF Body
    <3>3. CASE Code(n) # "ARRAY_TYPE" BY <3>1, <3>3 DEF Body
    <3> QED BY <3>2, <3>3
  <2>4. f = inner(f) BY <2>2, <2>3
  <2> QED BY <2>4
<1>4. \E f : f = dims(f)
  <2> DEFINE V == Seq(Item)
             base == [n \in Node |-> <<>>]
             step == [n \in Node |-> [v \in V |->
                        IF n \in A THEN walk_array_domain(n) \o v ELSE v]]
  <2>1. \A n \in Node : n \in A => walk_array_domain(n) \in V BY DomainGood DEF Good
  <2>2. base \in [Node -> V] OBVIOUS
  <2>3. step \in [Node -> [V -> V]]
    <3>1. ASSUME NEW n \in Node, NEW v \in V
          PROVE  (IF n \in A THEN walk_array_domain(n) \o v ELSE v) \in V
      BY <2>1, ConcatProperties
    <3> HIDE DEF A, V
    <3> QED BY <3>1
  <2>4. PICK f \in [Node -> V] : \A n \in Node : f[n] = Body(f, A, element, base, step, n)
    <3> HIDE DEF height, A, element, base, step, V
    <3>1. Descends(Node, V, height, A, element, base, step)
      BY <1>1, <1>2, <2>2, <2>3 DEF Descends
    <3> QED BY <3>1, Descent
  <2>5. ASSUME NEW n \in Node
        PROVE  f[n] = IF Code(n) = "ARRAY_TYPE"
                      THEN walk_array_domain(n) \o f[Op(n, 1)] ELSE <<>>
    <3>1. f[n] = Body(f, A, element, base, step, n) BY <2>4
    <3>2. CASE Code(n) = "ARRAY_TYPE"
      <4>1. n \in A /\ element[n] = Op(n, 1) /\ Op(n, 1) \in Node BY <3>2, DomainGood
      <4>2. f[Op(n, 1)] \in V BY <4>1
      <4>3. step[n][f[Op(n, 1)]] = walk_array_domain(n) \o f[Op(n, 1)]
        <5> HIDE DEF V, A
        <5> QED BY <4>1, <4>2
      <4> HIDE DEF A, element, step
      <4> QED BY <3>1, <3>2, <4>1, <4>3 DEF Body
    <3>3. CASE Code(n) # "ARRAY_TYPE" BY <3>1, <3>3 DEF Body
    <3> QED BY <3>2, <3>3
  <2>6. f = dims(f)
    <3> HIDE DEF V
    <3> QED BY <2>4, <2>5
  <2> QED BY <2>6
<1>5. Innermost = inner(Innermost) BY <1>3, Zenon DEF Innermost
<1>6. Dimensions = dims(Dimensions) BY <1>4, Zenon DEF Dimensions
<1> QED BY <1>5, <1>6

(* What the loops give is not higher than the array. *)
LEMMA ArrayGood ==
  ASSUME NEW n \in Node
  PROVE  /\ Innermost[n] \in Node /\ Height[Innermost[n]] <= Height[n]
         /\ Code(n) = "ARRAY_TYPE" => Height[Innermost[n]] < Height[n]
         /\ Good(Dimensions[n], n)
<1> DEFINE Fits(m) == /\ Innermost[m] \in Node /\ Height[Innermost[m]] <= Height[m]
                      /\ Code(m) = "ARRAY_TYPE" => Height[Innermost[m]] < Height[m]
                      /\ Good(Dimensions[m], m)
           T == {m \in Node : Fits(m)}
<1>1. ASSUME NEW m \in Node, \A k \in Node : Height[k] < Height[m] => k \in T
      PROVE  m \in T
  <2>1. CASE Code(m) = "ARRAY_TYPE"
    <3> DEFINE e == Op(m, 1)
    <3>1. e \in Node /\ Height[e] < Height[m] /\ Good(walk_array_domain(m), m)
      BY <2>1, DomainGood
    <3>2. Innermost[m] = Innermost[e] /\ Dimensions[m] = walk_array_domain(m) \o Dimensions[e]
      BY <2>1, ArrayLoops
    <3> HIDE DEF e
    <3>3. Fits(e) BY <1>1, <3>1
    <3>4. Height[e] \in Nat /\ Height[m] \in Nat /\ Height[Innermost[e]] \in Nat
      BY <3>1, <3>3, HeightAssumption
    <3>5. Height[Innermost[m]] < Height[m] BY <3>1, <3>2, <3>3, <3>4
    <3>6. Good(Dimensions[e], m)
      <4>1. \A k \in 1..Len(Dimensions[e]) : Dimensions[e][k].node \in Node
        <5>1. Dimensions[e] \in Seq(Item) BY <3>3 DEF Good
        <5>2. \A k \in 1..Len(Dimensions[e]) : Dimensions[e][k] \in Item BY <5>1, ElementOfSeq
        <5> QED BY <5>2 DEF Item
      <4>2. \A k \in 1..Len(Dimensions[e]) :
              /\ Height[Dimensions[e][k].node] \in Nat
              /\ Height[Dimensions[e][k].node] < Height[e]
        BY <3>3, <4>1, HeightAssumption DEF Good, Lower
      <4>3. Lower(Dimensions[e], m) BY <3>1, <3>4, <4>2 DEF Lower
      <4> QED BY <3>3, <4>3 DEF Good
    <3>7. Good(Dimensions[m], m) BY <3>1, <3>2, <3>6, ConcatGood
    <3>8. Fits(m) BY <3>2, <3>3, <3>4, <3>5, <3>7
    <3> QED BY <3>8
  <2>2. CASE Code(m) # "ARRAY_TYPE"
    <3>1. Innermost[m] = m /\ Dimensions[m] = <<>> BY <2>2, ArrayLoops
    <3>2. Good(<<>>, m) BY DEF Good, Lower
    <3>3. Height[m] \in Nat BY HeightAssumption
    <3>4. Fits(m) BY <2>2, <3>1, <3>2, <3>3
    <3> QED BY <3>4
  <2> QED BY <2>1, <2>2
<1>2. Node \subseteq T
  <2> HIDE DEF T
  <2> QED BY <1>1, ByHeight
<1> QED BY <1>2

LEMMA HeightLess ==
  ASSUME NEW n \in Node, NEW m \in Node, NEW k \in Node,
         Height[m] < Height[n], Height[k] < Height[m]
  PROVE  Height[k] < Height[n]
<1>1. Height[n] \in Nat /\ Height[m] \in Nat /\ Height[k] \in Nat BY HeightAssumption
<1> QED BY <1>1

(* What is lower than a node is lower than those above it. *)
LEMMA GoodAbove ==
  ASSUME NEW n \in Node, NEW m \in Node, Height[m] < Height[n], NEW w, Good(w, m)
  PROVE  Good(w, n)
<1>1. \A k \in 1..Len(w) : w[k].node \in Node
  <2>1. \A k \in 1..Len(w) : w[k] \in Item BY ElementOfSeq DEF Good
  <2> QED BY <2>1 DEF Item
<1>2. \A k \in 1..Len(w) : Height[w[k].node] < Height[n]
  BY <1>1, HeightLess DEF Good, Lower
<1> QED BY <1>2 DEF Good, Lower

(* The operands of a node, or of one below it. *)
LEMMA OperandsGood ==
  ASSUME NEW n \in Node, NEW m \in Node, m = n \/ Height[m] < Height[n],
         Code(m) \notin Records, Code(m) # "TYPE_DECL"
  PROVE  /\ Ops(m) \in Seq(Node)
         /\ \A i \in 1..Len(Ops(m)) : Op(m, i) \in Node /\ Height[Op(m, i)] < Height[n]
         /\ Good(Operands(m), n)
<1>1. Ops(m) \in Seq(Node) BY NodeType
<1>2. \A i \in 1..Len(Ops(m)) : Op(m, i) \in Node /\ Height[Op(m, i)] < Height[m] BY OpLower
<1>3. \A i \in 1..Len(Ops(m)) : Height[Op(m, i)] < Height[n] BY <1>2, HeightLess
<1>4. \A i \in 1..Len(Ops(m)) : Height[Ops(m)[i]] < Height[n] BY <1>3 DEF Op
<1>5. 0 \in {0, 1} OBVIOUS
<1>6. Good(Operands(m), n) BY <1>1, <1>4, <1>5, GoodAt DEF Operands
<1> QED BY <1>1, <1>2, <1>3, <1>6

(* Short lists of lower nodes. *)
LEMMA FewGood ==
  ASSUME NEW n \in Node, NEW a \in Node, NEW b \in Node, NEW shift \in {0, 1},
         Height[a] < Height[n], Height[b] < Height[n]
  PROVE  Good(At(shift, <<a>>), n) /\ Good(At(shift, <<a, b>>), n) /\ Good(<<>>, n)
<1>1. <<a>> \in Seq(Node) /\ <<a, b>> \in Seq(Node) OBVIOUS
<1>2. \A i \in 1..Len(<<a>>) : Height[<<a>>[i]] < Height[n] OBVIOUS
<1>3. \A i \in 1..Len(<<a, b>>) : Height[<<a, b>>[i]] < Height[n] OBVIOUS
<1>4. Good(<<>>, n) BY DEF Good, Lower
<1> QED BY <1>1, <1>2, <1>3, <1>4, GoodAt

LEMMA TailGood ==
  ASSUME NEW n \in Node, NEW nodes \in Seq(Node), Len(nodes) >= 1,
         \A i \in 1..Len(nodes) : Height[nodes[i]] < Height[n]
  PROVE  Good(At(0, Tail(nodes)), n)
<1> DEFINE rest == Tail(nodes)
<1>1. /\ rest \in Seq(Node) /\ Len(rest) = Len(nodes) - 1
      /\ \A i \in 1..Len(rest) : rest[i] = nodes[i + 1]
  OBVIOUS
<1>2. ASSUME NEW i \in 1..Len(rest) PROVE Height[rest[i]] < Height[n]
  <2>1. i + 1 \in 1..Len(nodes) BY <1>1
  <2> QED BY <1>1, <2>1
<1>3. 0 \in {0, 1} OBVIOUS
<1> HIDE DEF rest
<1>4. Good(At(0, rest), n) BY <1>1, <1>2, <1>3, GoodAt
<1> QED BY <1>4 DEF rest

(* A declaration statement walks the declaration and its type.             *)
LEMMA DeclarationGood ==
  ASSUME NEW n \in Node, Code(n) = "DECL_EXPR"
  PROVE  Good(walk_declaration_node(n), n)
<1> DEFINE decl == Op(n, 1)
           type == Op(decl, 1)
           rest == At(0, Tail(Ops(n)))
<1>1. Len(Ops(n)) >= 1 /\ Code(decl) \in {"VAR_DECL", "TYPE_DECL", "LABEL_DECL"}
  BY TypeAssumption
<1>2. Code(n) \notin Records /\ Code(n) # "TYPE_DECL" BY DEF Records
<1>3. /\ Ops(n) \in Seq(Node)
      /\ \A i \in 1..Len(Ops(n)) : Op(n, i) \in Node /\ Height[Op(n, i)] < Height[n]
  BY <1>2, OperandsGood
<1>4. decl \in Node /\ Height[decl] < Height[n]
  <2>1. 1 \in 1..Len(Ops(n)) BY <1>1, <1>3
  <2> QED BY <1>3, <2>1
<1>5. Len(Ops(decl)) = 1 BY <1>1, <1>4, TypeAssumption
<1>6. type \in Node BY <1>4, <1>5, NodeType DEF Op
<1>7. type \in Parts(n) BY <1>2 DEF Parts
<1>8. Height[type] < Height[n] BY <1>7, HeightAssumption
<1>9. \A i \in 1..Len(Ops(n)) : Height[Ops(n)[i]] < Height[n] BY <1>3 DEF Op
<1>10. Good(rest, n) BY <1>1, <1>3, <1>9, TailGood
<1>11. 0 \in {0, 1} OBVIOUS
<1> HIDE DEF decl, type, rest
<1>12. Good(At(0, <<type, decl>>), n) BY <1>4, <1>6, <1>8, <1>11, FewGood
<1>13. CASE Code(type) = "ARRAY_TYPE"
  <2>1. /\ Innermost[type] \in Node /\ Height[Innermost[type]] < Height[type]
        /\ Good(Dimensions[type], type)
    BY <1>6, <1>13, ArrayGood
  <2>2. Height[Innermost[type]] < Height[n] BY <1>6, <1>8, <2>1, HeightLess
  <2>3. Good(Dimensions[type], n) BY <1>6, <1>8, <2>1, GoodAbove
  <2>4. Good(At(0, <<Innermost[type], decl>>), n) BY <1>4, <1>11, <2>1, <2>2, FewGood
  <2>5. Good(At(0, <<Innermost[type], decl>>) \o (Dimensions[type] \o rest), n)
    BY <1>10, <2>3, <2>4, ConcatGood
  <2>6. walk_declaration_node(n) = At(0, <<Innermost[type], decl>>) \o (Dimensions[type] \o rest)
    BY <1>13 DEF walk_declaration_node, decl, type, rest
  <2> QED BY <2>5, <2>6
<1>14. CASE Code(type) # "ARRAY_TYPE"
  <2>1. Good(At(0, <<type, decl>>) \o rest, n) BY <1>10, <1>12, ConcatGood
  <2>2. walk_declaration_node(n) = At(0, <<type, decl>>) \o rest
    BY <1>14 DEF walk_declaration_node, decl, type, rest
  <2> QED BY <2>1, <2>2
<1> QED BY <1>13, <1>14

(* What the walkers of types and declarations walk is all of one level,    *)
(* and lower.                                                              *)
LEMMA TypeWalksType ==
  ASSUME NEW n \in Node, Code(n) \in TypesAndNames
  PROVE  Good(TypeWalks(n), n)
<1>1. Ops(n) \in Seq(Node) /\ Len(Ops(n)) \in Nat BY NodeType
<1>2. Good(<<>>, n) BY DEF Good, Lower
<1>3. 0 \in {0, 1} OBVIOUS
<1>4. ASSUME Code(n) \notin Records, Code(n) # "TYPE_DECL"
      PROVE  Good(Operands(n), n)
  BY <1>4, OperandsGood
<1>5. ASSUME Code(n) \in NumberTypes PROVE Good(walk_number_types_node(n), n)
  BY <1>2, <1>4, <1>5 DEF walk_number_types_node, NumberTypes, Records
<1>6. ASSUME Code(n) \in Pointers PROVE Good(walk_pointer_reference_node(n), n)
  <2>1. Code(n) \notin Records /\ Code(n) # "TYPE_DECL" BY <1>6 DEF Pointers, Records
  <2>2. ASSUME Ops(n) # <<>>, Code(Op(n, 1)) = "FUNCTION_TYPE"
        PROVE  Good(Operands(Op(n, 1)), n)
    <3>1. 1 \in 1..Len(Ops(n)) BY <1>1, <2>2
    <3>2. Op(n, 1) \in Node /\ Height[Op(n, 1)] < Height[n] BY <2>1, <3>1, OperandsGood
    <3>3. Code(Op(n, 1)) \notin Records /\ Code(Op(n, 1)) # "TYPE_DECL" BY <2>2 DEF Records
    <3> QED BY <3>2, <3>3, OperandsGood
  <2> QED BY <1>4, <2>1, <2>2 DEF walk_pointer_reference_node, walk_function_type_node
<1>7. ASSUME Code(n) = "ARRAY_TYPE" PROVE Good(walk_array_node(n), n)
  <2>1. /\ Innermost[n] \in Node /\ Height[Innermost[n]] < Height[n] /\ Good(Dimensions[n], n)
    BY <1>7, ArrayGood
  <2>2. Good(At(0, <<Innermost[n]>>), n) BY <1>3, <2>1, FewGood
  <2> QED BY <2>1, <2>2, ConcatGood DEF walk_array_node
<1>8. ASSUME Code(n) \in Records PROVE Good(walk_record_union_node(n), n)
  <2>1. ASSUME Name(n) # "" PROVE Good(At(0, <<Op(n, 1)>>), n)
    <3>1. Len(Ops(n)) >= 1 BY <1>8, <2>1, TypeAssumption, Zenon
    <3>2. Op(n, 1) \in Node
      <4>1. 1 \in 1..Len(Ops(n)) BY <1>1, <3>1
      <4> QED BY <1>1, <4>1 DEF Op
    <3>3. Op(n, 1) \in Parts(n)
      <4>1. Parts(n) = {Op(n, 1)}
        BY <1>8, <2>1 DEF Parts, Records
      <4> QED BY <4>1
    <3>4. Height[Op(n, 1)] < Height[n] BY <3>3, HeightAssumption
    <3> QED BY <1>3, <3>2, <3>4, FewGood
  <2> QED BY <1>2, <2>1, Zenon DEF walk_record_union_node
<1>9. ASSUME Code(n) = "TYPE_DECL" PROVE Good(walk_type_declaration_node(n), n)
  <2>1. ASSUME ~NamesItsType(n) PROVE Good(Operands(n), n)
    <3>1. Code(n) \notin Records BY <1>9 DEF Records
    <3>2. \A i \in 1..Len(Ops(n)) : Op(n, i) \in Node /\ Height[Op(n, i)] < Height[n]
      BY <2>1, <3>1, OpLower
    <3>3. \A i \in 1..Len(Ops(n)) : Height[Ops(n)[i]] < Height[n] BY <3>2 DEF Op
    <3> QED BY <1>1, <1>3, <3>3, GoodAt DEF Operands
  <2> QED BY <1>2, <2>1 DEF walk_type_declaration_node
<1>10. ASSUME Code(n) \in FunctionTypes \cup Lists
       PROVE  Good(walk_function_type_node(n), n) /\ Good(walk_tree_list_node(n), n)
  BY <1>4, <1>10 DEF walk_function_type_node, walk_tree_list_node, FunctionTypes, Lists, Records
<1>11. QED
  <2> USE DEF TypeWalks, NumberTypes, Pointers, Records, FunctionTypes, Names, Lists
  <2>1. CASE Code(n) \in NumberTypes BY <1>5, <2>1
  <2>2. CASE Code(n) \in Pointers BY <1>6, <2>2
  <2>3. CASE Code(n) = "ARRAY_TYPE" BY <1>7, <2>3
  <2>4. CASE Code(n) \in Records BY <1>8, <2>4
  <2>5. CASE Code(n) \in FunctionTypes BY <1>10, <2>5
  <2>6. CASE Code(n) = "TYPE_DECL" BY <1>9, <2>6
  <2>7. CASE Code(n) = "DECL_EXPR" BY DeclarationGood, <2>7
  <2>8. CASE Code(n) \in Names BY <1>2, <2>8
  <2>9. CASE Code(n) \in Lists BY <1>10, <2>9
  <2> QED BY <2>1, <2>2, <2>3, <2>4, <2>5, <2>6, <2>7, <2>8, <2>9 DEF TypesAndNames

(* The arguments of a function with their types, and its body, all of one  *)
(* level, and lower than the function.                                     *)
LEMMA FunctionWalksType ==
  ASSUME NEW f \in Node, Code(f) = "FUNCTION"
  PROVE  Good(FunctionWalks(f), f)
<1> DEFINE N == Len(Ops(f)) - 1
           nodes == [i \in 1..(2 * N) |->
                       LET arg == Op(f, (i + 1) \div 2) IN IF i % 2 = 1 THEN Op(arg, 1) ELSE arg]
<1>1. Code(f) \notin Records /\ Code(f) # "TYPE_DECL" BY DEF Records
<1>2. /\ Ops(f) \in Seq(Node)
      /\ \A i \in 1..Len(Ops(f)) : Op(f, i) \in Node /\ Height[Op(f, i)] < Height[f]
  BY <1>1, OperandsGood
<1>3. Len(Ops(f)) \in Nat /\ Len(Ops(f)) >= 1 /\ \A i \in 1..N : Code(Op(f, i)) = "PARM_DECL"
  <2>1. Len(Ops(f)) >= 1 /\ \A i \in 1..N : Code(Op(f, i)) = "PARM_DECL" BY TypeAssumption
  <2>2. Len(Ops(f)) \in Nat BY <1>2
  <2> QED BY <2>1, <2>2
<1>4. \A i \in 1..N : Op(f, i) \in Node /\ Height[Op(f, i)] < Height[f] BY <1>2, <1>3
<1>5. ASSUME NEW i \in 1..N
      PROVE  Op(Op(f, i), 1) \in Node /\ Height[Op(Op(f, i), 1)] < Height[f]
  <2>1. Len(Ops(Op(f, i))) = 1 BY <1>3, <1>4, TypeAssumption
  <2>2. Code(Op(f, i)) \notin Records /\ Code(Op(f, i)) # "TYPE_DECL" BY <1>3 DEF Records
  <2>3. 1 \in 1..Len(Ops(Op(f, i))) BY <2>1
  <2> QED BY <1>4, <2>2, <2>3, OperandsGood
<1>6. \A i \in 1..(2 * N) : (i + 1) \div 2 \in 1..N BY <1>3
<1>7. \A i \in 1..(2 * N) : nodes[i] \in Node /\ Height[nodes[i]] < Height[f]
  BY <1>4, <1>5, <1>6
<1>8. 2 * N \in Nat BY <1>3
<1>9. nodes \in Seq(Node) /\ Len(nodes) = 2 * N
  <2>1. nodes \in [1..(2 * N) -> Node] BY <1>7
  <2> HIDE DEF nodes, N
  <2> QED BY <1>8, <2>1, LenProperties
<1>10. walk_function_decl_args(f) = At(0, nodes) BY DEF walk_function_decl_args
<1> DEFINE body == Op(f, Len(Ops(f)))
<1>11. body \in Node /\ Height[body] < Height[f] BY <1>2, <1>3
<1>12. 0 \in {0, 1} OBVIOUS
<1> HIDE DEF nodes, N, body
<1>13. Good(At(0, nodes), f) BY <1>7, <1>9, <1>12, GoodAt
<1>14. Good(At(0, <<body>>), f) BY <1>11, <1>12, FewGood
<1>15. FunctionWalks(f) = At(0, nodes) \o At(0, <<body>>) BY <1>10 DEF FunctionWalks, body
<1> QED BY <1>13, <1>14, <1>15, ConcatGood

LEMMA Second ==
  ASSUME NEW s \in Seq(Node), Len(s) >= 2
  PROVE  SubSeq(s, 2, 2) = <<s[2]>>
<1> DEFINE t == SubSeq(s, 2, 2)
<1>1. t \in Seq(Node) /\ Len(t) = 1 /\ t[1] = s[2] BY SubSeqProperties
<1>2. <<s[2]>> \in Seq(Node) /\ Len(<<s[2]>>) = 1 /\ <<s[2]>>[1] = s[2]
  <2>1. s[2] \in Node OBVIOUS
  <2> HIDE DEF t
  <2> QED BY <2>1
<1> HIDE DEF t
<1>3. \A i \in 1..1 : t[i] = <<s[2]>>[i] BY <1>1, <1>2
<1>4. t = <<s[2]>> BY <1>1, <1>2, <1>3, SeqEqual
<1> QED BY <1>4 DEF t

(* What each walker walks are lower items, and only those of a statement   *)
(* list go down.                                                           *)
LEMMA WalksType ==
  ASSUME NEW n \in Node
  PROVE  /\ Walks(n) \in Seq(Item)
         /\ Code(n) # "STATEMENT_LIST" => \A k \in 1..Len(Walks(n)) : Walks(n)[k].shift # -1
         /\ Lower(Walks(n), n)
<1> DEFINE Statement == Code(n) \notin Records /\ Code(n) # "TYPE_DECL"
<1>1. ASSUME Statement
      PROVE  /\ Ops(n) \in Seq(Node) /\ Good(Operands(n), n)
             /\ \A i \in 1..Len(Ops(n)) : Op(n, i) \in Node /\ Height[Op(n, i)] < Height[n]
             /\ \A i \in 1..Len(Ops(n)) : Height[Ops(n)[i]] < Height[n]
  <2>1. /\ Ops(n) \in Seq(Node) /\ Good(Operands(n), n)
        /\ \A i \in 1..Len(Ops(n)) : Op(n, i) \in Node /\ Height[Op(n, i)] < Height[n]
    BY <1>1, OperandsGood
  <2> QED BY <2>1 DEF Op
<1>2. Good(<<>>, n) BY DEF Good, Lower
<1>3. 0 \in {0, 1} /\ 1 \in {0, 1} OBVIOUS
<1>4. ASSUME Code(n) = "COND_EXPR" PROVE Good(walk_cond_expr_node(n), n)
  <2>1. Len(Ops(n)) >= 2 BY <1>4, ArityAssumption DEF Code, Ops
  <2>2. Statement BY <1>4 DEF Records
  <2>3. 1 \in 1..Len(Ops(n)) /\ 2 \in 1..Len(Ops(n)) BY <1>1, <2>1, <2>2
  <2>4. Good(At(0, <<Op(n, 1)>>), n) /\ Good(At(1, <<Op(n, 2)>>), n)
    BY <1>1, <1>3, <2>2, <2>3, FewGood
  <2>5. Len(Ops(n)) = 3 => Good(At(1, <<Op(n, 3)>>), n)
    <3>1. Len(Ops(n)) = 3 => Op(n, 3) \in Node /\ Height[Op(n, 3)] < Height[n] BY <1>1, <2>2
    <3> QED BY <1>3, <3>1, FewGood
  <2> DEFINE els == IF Len(Ops(n)) = 3 /\ ~IsEmpty(Op(n, 3)) THEN At(1, <<Op(n, 3)>>) ELSE <<>>
  <2>6. Good(els, n) BY <1>2, <2>5
  <2> HIDE DEF els
  <2>7. Good(At(0, <<Op(n, 1)>>) \o At(1, <<Op(n, 2)>>) \o els, n) BY <2>4, <2>6, ConcatGood
  <2> QED BY <1>1, <2>2, <2>7 DEF walk_cond_expr_node, els
<1>5. ASSUME Statement PROVE Good(walk_loop_expr_node(n), n)
  BY <1>1, <1>3, <1>5, GoodAt DEF walk_loop_expr_node
<1>6. ASSUME Statement
      PROVE  walk_statement_iterator(n) \in Seq(Item) /\ Lower(walk_statement_iterator(n), n)
  <2>1. -1 \in {-1, 0, 1} /\ TRUE \in BOOLEAN OBVIOUS
  <2> DEFINE w == Items(Ops(n), -1, TRUE)
  <2>2. /\ w \in Seq(Item) /\ Len(w) = Len(Ops(n))
        /\ \A k \in 1..Len(w) : w[k].node = Ops(n)[k]
    BY <1>1, <1>6, <2>1, ItemsType
  <2> HIDE DEF w
  <2>3. \A k \in 1..Len(w) : Height[w[k].node] < Height[n] BY <1>1, <1>6, <2>2
  <2>4. walk_statement_iterator(n) = w BY DEF walk_statement_iterator, At, w
  <2> QED BY <2>2, <2>3, <2>4 DEF Lower
<1>7. ASSUME Statement PROVE Good(walk_case_label_expr_node(n), n)
  <2>1. CASE Len(Ops(n)) = 2
    <3>1. 1 \in 1..Len(Ops(n)) BY <2>1
    <3>2. Op(n, 1) \in Node /\ Height[Op(n, 1)] < Height[n] BY <1>1, <1>7, <3>1
    <3> QED BY <1>3, <2>1, <3>2, FewGood DEF walk_case_label_expr_node
  <2> QED BY <1>1, <1>7, <2>1 DEF walk_case_label_expr_node
<1>8. ASSUME Statement PROVE Good(walk_goto_expr_node(n), n)
  BY <1>1, <1>2, <1>8 DEF walk_goto_expr_node
<1>9. ASSUME Statement PROVE Good(walk_return_expr_node(n), n)
  <2>1. ASSUME Ops(n) # <<>>, Code(Op(n, 1)) \in Modify
        PROVE  Good(At(0, SubSeq(Ops(Op(n, 1)), 2, 2)), n)
    <3> DEFINE set == Op(n, 1)
    <3>1. 1 \in 1..Len(Ops(n)) BY <1>1, <1>9, <2>1
    <3>2. set \in Node /\ Height[set] < Height[n] BY <1>1, <1>9, <3>1
    <3>3. Code(set) \notin Records /\ Code(set) # "TYPE_DECL" BY <2>1 DEF Modify, Records
    <3>4. Len(Ops(set)) = 2 BY <2>1, <3>2, ArityAssumption DEF Code, Ops, Modify
    <3> HIDE DEF set
    <3>5. /\ Ops(set) \in Seq(Node)
          /\ \A i \in 1..Len(Ops(set)) : Op(set, i) \in Node /\ Height[Op(set, i)] < Height[n]
      BY <3>2, <3>3, OperandsGood
    <3>6. 2 \in 1..Len(Ops(set)) BY <3>4
    <3>7. Op(set, 2) \in Node /\ Height[Op(set, 2)] < Height[n] BY <3>5, <3>6
    <3>8. SubSeq(Ops(set), 2, 2) = <<Op(set, 2)>> BY <3>4, <3>5, Second DEF Op
    <3> QED BY <1>3, <3>7, <3>8, FewGood DEF set
  <2> QED BY <1>1, <1>9, <2>1 DEF walk_return_expr_node
<1>10. ASSUME Code(n) = "COMPONENT_REF" PROVE Good(walk_component_ref_node(n), n)
  <2>1. Len(Ops(n)) >= 2 BY <1>10, ArityAssumption DEF Code, Ops
  <2>2. Statement BY <1>10 DEF Records
  <2>3. 1 \in 1..Len(Ops(n)) /\ 2 \in 1..Len(Ops(n)) BY <1>1, <2>1, <2>2
  <2>4. ASSUME IsDereference(Op(n, 1))
        PROVE  Good(At(0, <<Op(Op(n, 1), 1), Op(n, 2)>>), n)
    <3> DEFINE ref == Op(n, 1)
    <3>1. ref \in Node /\ Height[ref] < Height[n] BY <1>1, <2>2, <2>3
    <3>2. Code(ref) \in {"INDIRECT_REF", "MEM_REF"} BY <2>4 DEF IsDereference
    <3>3. Code(ref) \notin Records /\ Code(ref) # "TYPE_DECL" BY <3>2 DEF Records
    <3> HIDE DEF ref
    <3>4. Len(Ops(ref)) >= 1
      <4>1. CASE Code(ref) = "INDIRECT_REF" BY <3>1, <4>1, ArityAssumption DEF Code, Ops
      <4>2. CASE Code(ref) = "MEM_REF"
        <5>1. Len(Ops(ref)) >= 2 BY <3>1, <4>2, ArityAssumption DEF Code, Ops
        <5>2. Len(Ops(ref)) \in Nat BY <3>1, NodeAssumption DEF Ops
        <5> QED BY <5>1, <5>2
      <4> QED BY <3>2, <4>1, <4>2
    <3>5. /\ Ops(ref) \in Seq(Node)
          /\ \A i \in 1..Len(Ops(ref)) : Op(ref, i) \in Node /\ Height[Op(ref, i)] < Height[n]
      BY <3>1, <3>3, OperandsGood
    <3>6. 1 \in 1..Len(Ops(ref)) BY <3>4, <3>5
    <3>7. Op(ref, 1) \in Node /\ Height[Op(ref, 1)] < Height[n] BY <3>5, <3>6
    <3>8. Op(n, 2) \in Node /\ Height[Op(n, 2)] < Height[n] BY <1>1, <2>2, <2>3
    <3> QED BY <1>3, <3>7, <3>8, FewGood DEF ref
  <2> QED BY <1>1, <2>2, <2>4 DEF walk_component_ref_node
<1>11. ASSUME Code(n) \in Call PROVE Good(ahg_ast_call_aggr_init(n), n)
  <2> DEFINE fn == Op(n, 1)
             args == At(0, Tail(Ops(n)))
  <2>1. Len(Ops(n)) >= 1 BY <1>11, ArityAssumption DEF Code, Ops, Call
  <2>2. Statement BY <1>11 DEF Call, Records
  <2>3. fn \in Node /\ Height[fn] < Height[n]
    <3>1. 1 \in 1..Len(Ops(n)) BY <1>1, <2>1, <2>2
    <3> QED BY <1>1, <2>2, <3>1
  <2>4. Good(args, n) BY <1>1, <2>1, <2>2, TailGood
  <2>5. Code(fn) = "COND_EXPR" => Good(Operands(fn), n) BY <2>3, OperandsGood DEF Records
  <2>6. Good(At(0, <<fn>>), n) BY <1>3, <2>3, FewGood
  <2> HIDE DEF args, fn
  <2>7. Code(fn) = "COND_EXPR" => Good(Operands(fn) \o args, n) BY <2>4, <2>5, ConcatGood
  <2>8. Good(At(0, <<fn>>) \o args, n) BY <2>4, <2>6, ConcatGood
  <2>9. ahg_ast_call_aggr_init(n) =
          CASE Code(fn) \in Variable -> <<>>
            [] Code(fn) = "COND_EXPR" -> Operands(fn) \o args
            [] \/ Code(fn) \in {"MEM_REF", "COMPONENT_REF", "SSA_NAME", "OBJ_TYPE_REF"}
               \/ Code(fn) = "ARRAY_REF" /\ Code(Op(fn, 1)) # "VAR_DECL"
                 -> At(0, <<fn>>) \o args
            [] OTHER -> args
    BY DEF ahg_ast_call_aggr_init, fn, args
  <2> QED BY <1>2, <2>4, <2>7, <2>8, <2>9 DEF Variable
<1>12. Code(n) \in TypesAndNames => Good(TypeWalks(n), n) BY TypeWalksType
<1>13. Code(n) \notin TypesAndNames => Statement BY DEF TypesAndNames
<1>14. Code(n) # "STATEMENT_LIST" => Good(Walks(n), n)
  <2> USE DEF TypesAndNames, NumberTypes, Pointers, Records, FunctionTypes, Names, Lists
  <2> HIDE DEF Statement
  <2>1. CASE Code(n) \in TypesAndNames
    <3>1. Walks(n) = TypeWalks(n) BY <2>1 DEF Walks, Call, Silent
    <3> QED BY <1>12, <2>1, <3>1
  <2>2. CASE Code(n) \notin TypesAndNames
    <3> HIDE DEF TypesAndNames
    <3> QED BY <1>1, <1>2, <1>4, <1>5, <1>7, <1>8, <1>9, <1>10, <1>11, <1>13, <2>2 DEF Walks
  <2> QED BY <2>1, <2>2
<1>15. Code(n) = "STATEMENT_LIST" => Walks(n) = walk_statement_iterator(n) /\ Statement
  BY DEF Walks, Call, Silent, TypesAndNames, NumberTypes, Pointers, Records, FunctionTypes, Names,
         Lists
<1> QED BY <1>6, <1>14, <1>15 DEF Good

(* A goto and a label statement walk at most their label.                  *)
LEMMA JumpWalks ==
  ASSUME NEW n \in Node, Code(n) \in {"GOTO_EXPR", "LABEL_EXPR"}
  PROVE  \/ Walks(n) = <<>>
         \/ Len(Walks(n)) = 1 /\ Walks(n)[1].node = Op(n, 1)
<1>1. Ops(n) \in Seq(Node) /\ Len(Ops(n)) = 1
  BY NodeType, ArityAssumption DEF Code, Ops
<1>2. Walks(n) = walk_goto_expr_node(n)
  BY DEF Walks, Call, Silent, TypesAndNames, NumberTypes, Pointers, Records, FunctionTypes, Names,
         Lists
<1>3. Operands(n) = [i \in 1..1 |-> [node |-> Ops(n)[i], shift |-> 0, first |-> TRUE]]
  BY <1>1 DEF Operands, At, Items
<1>4. Operands(n) \in Seq(Item) /\ Len(Operands(n)) = 1
  BY <1>1, ItemsType DEF Operands, At
<1>5. Operands(n)[1].node = Op(n, 1) BY <1>3 DEF Op
<1> QED BY <1>2, <1>4, <1>5 DEF walk_goto_expr_node

(* A frame that came to the next thing it walks.                           *)
LEMMA AfterType ==
  ASSUME NEW f \in Frame, NEW todo \in Seq(Item), f.todo # <<>>
  PROVE  /\ After(f, todo) \in Frame
         /\ After(f, todo).todo = todo /\ After(f, todo).seen # {}
         /\ After(f, todo).node = f.node /\ After(f, todo).shift = f.shift
         /\ After(f, todo).entry = f.entry /\ After(f, todo).saved = f.saved
         /\ After(f, todo).resets = f.resets /\ After(f, todo).location = f.location
<1>1. f.todo \in Seq(Item) BY DEF Frame
<1>2. Head(f.todo) \in Item BY <1>1
<1>3. Head(f.todo).node \in Node BY <1>2 DEF Item
<1>4. SeenBefore(f, Head(f.todo)) \in SUBSET Node BY DEF SeenBefore, Frame
<1> DEFINE seen == SeenBefore(f, Head(f.todo)) \cup {Head(f.todo).node}
<1>5. seen \in SUBSET Node /\ seen # {} BY <1>3, <1>4
<1> HIDE DEF seen
<1>6. After(f, todo) = [f EXCEPT !.todo = todo, !.seen = seen] BY DEF After, seen
<1> QED BY <1>5, <1>6 DEF Frame

(* Replacing, pushing and popping the innermost frame of a stack.          *)
LEMMA StackOps ==
  ASSUME NEW s \in Seq(Frame), s # <<>>, NEW g \in Frame, NEW h \in Frame
  PROVE  /\ s[1] \in Frame /\ Len(s) \in Nat \ {0}
         /\ \A i \in 1..Len(s) : s[i] \in Frame
         /\ <<g>> \o Tail(s) \in Seq(Frame) /\ Len(<<g>> \o Tail(s)) = Len(s)
         /\ (<<g>> \o Tail(s))[1] = g /\ <<g>> \o Tail(s) # <<>>
         /\ \A i \in 2..Len(s) : (<<g>> \o Tail(s))[i] = s[i]
         /\ <<h>> \o s \in Seq(Frame) /\ Len(<<h>> \o s) = Len(s) + 1
         /\ (<<h>> \o s)[1] = h /\ \A i \in 1..Len(s) : (<<h>> \o s)[i + 1] = s[i]
         /\ Tail(s) \in Seq(Frame) /\ Len(Tail(s)) = Len(s) - 1
         /\ \A i \in 1..(Len(s) - 1) : Tail(s)[i] = s[i + 1]
<1>1. s[1] \in Frame /\ Len(s) \in Nat \ {0} /\ \A i \in 1..Len(s) : s[i] \in Frame OBVIOUS
<1>2. Tail(s) \in Seq(Frame) /\ Len(Tail(s)) = Len(s) - 1
      /\ \A i \in 1..(Len(s) - 1) : Tail(s)[i] = s[i + 1] OBVIOUS
<1> DEFINE t == Tail(s)
<1> HIDE DEF t
<1>3. t \in Seq(Frame) /\ Len(t) = Len(s) - 1 /\ \A i \in 1..(Len(s) - 1) : t[i] = s[i + 1]
  BY <1>2 DEF t
<1>4. <<g>> \o t \in Seq(Frame) /\ Len(<<g>> \o t) = Len(s) /\ (<<g>> \o t)[1] = g
  BY <1>1, <1>3
<1>5. ASSUME NEW i \in 2..Len(s) PROVE (<<g>> \o t)[i] = s[i]
  <2>1. (<<g>> \o t)[i] = t[i - 1] /\ i - 1 \in 1..(Len(s) - 1) BY <1>1, <1>3
  <2> QED BY <2>1, <1>3
<1>6. <<h>> \o s \in Seq(Frame) /\ Len(<<h>> \o s) = Len(s) + 1 /\ (<<h>> \o s)[1] = h
  OBVIOUS
<1>7. \A i \in 1..Len(s) : (<<h>> \o s)[i + 1] = s[i] OBVIOUS
<1>9. <<g>> \o t # <<>> BY <1>1, <1>4
<1> QED BY <1>1, <1>2, <1>4, <1>5, <1>6, <1>7, <1>9 DEF t

(* The innermost frame comes to the next thing it walks: the rest of the   *)
(* stack, and what must hold of the frame itself, are as before.           *)
Changed(s, u, g) ==
  /\ StackOK(u) /\ u # <<>> /\ Len(u) = Len(s) /\ u[1] = g /\ g.seen # {}
  /\ \A i \in 2..Len(s) : u[i] = s[i]
  /\ \A i \in 1..Len(s) : u[i].node = s[i].node /\ (s[i].resets => u[i].resets)
  /\ Level(u, 1) = Level(s, 1)

(* The innermost frame moves on; the frames below it stay.                  *)
LEMMA ChangeTop ==
  ASSUME NEW s, StackOK(s), s # <<>>, s[1].todo # <<>>, NEW todo, MayWalk(s, todo),
         NEW u, u = <<After(s[1], todo)>> \o Tail(s)
  PROVE  Changed(s, u, After(s[1], todo))
<1> DEFINE g == After(s[1], todo)
<1>1. s \in Seq(Frame) BY DEF StackOK
<1>2. s[1] \in Frame /\ Len(s) \in Nat \ {0} BY <1>1
<1>3. /\ g \in Frame /\ g.todo = todo /\ g.seen # {} /\ g.node = s[1].node
      /\ g.shift = s[1].shift /\ g.entry = s[1].entry /\ g.saved = s[1].saved
      /\ g.resets = s[1].resets /\ g.location = s[1].location
  <2>1. todo \in Seq(Item) BY DEF MayWalk
  <2> QED BY <1>2, <2>1, AfterType
<1> HIDE DEF g
<1>4. u = <<g>> \o Tail(s) BY DEF g
<1>5. /\ u \in Seq(Frame) /\ Len(u) = Len(s) /\ u[1] = g /\ u # <<>>
      /\ \A i \in 2..Len(s) : u[i] = s[i]
  BY <1>1, <1>3, <1>4, StackOps
<1>6. ASSUME NEW i \in 1..Len(s)
      PROVE  /\ u[i].node = s[i].node /\ u[i].entry = s[i].entry /\ u[i].shift = s[i].shift
             /\ u[i].resets = s[i].resets /\ u[i].location = s[i].location
             /\ u[i].saved = s[i].saved
             /\ s[i].seen # {} => u[i].seen # {}
             /\ Level(u, i) = Level(s, i)
  <2>1. CASE i = 1 BY <1>3, <1>5, <2>1 DEF Level
  <2>2. CASE i \in 2..Len(s) BY <1>5, <2>2 DEF Level
  <2> QED BY <1>2, <2>1, <2>2
<1>7. ASSUME NEW i \in 1..(Len(u) - 1)
      PROVE  /\ Inner(u[i]) /\ u[i].entry = Level(u, i + 1) /\ u[i + 1].seen # {}
             /\ JumpLabel(u[i], u[i + 1]) => ~u[i].location
  <2>1. i \in 1..(Len(s) - 1) /\ i \in 1..Len(s) /\ i + 1 \in 1..Len(s) BY <1>2, <1>5
  <2>2. Inner(s[i]) /\ s[i].entry = Level(s, i + 1) /\ s[i + 1].seen # {}
        /\ (JumpLabel(s[i], s[i + 1]) => ~s[i].location)
    BY <2>1 DEF StackOK
  <2>3. Inner(u[i])
    <3>1. CASE i = 1
      <4>1. Len(s) > 1 BY <2>1, <3>1, <1>2
      <4> QED BY <1>3, <1>5, <2>2, <3>1, <4>1 DEF Inner, MayWalk
    <3>2. CASE i # 1 BY <1>5, <2>1, <2>2, <3>2
    <3> QED BY <3>1, <3>2
  <2>4. JumpLabel(u[i], u[i + 1]) => ~u[i].location BY <1>6, <2>1, <2>2 DEF JumpLabel
  <2> QED BY <1>6, <2>1, <2>2, <2>3, <2>4
<1>8. Bottom(u[Len(u)])
  <2>1. Bottom(s[Len(s)]) BY DEF StackOK
  <2>2. CASE Len(s) = 1
    <3>1. Bottom(s[1]) /\ u[Len(u)] = g BY <1>5, <2>1, <2>2
    <3>2. Bottom(g) BY <1>3, <3>1 DEF Bottom, MayWalk
    <3> QED BY <3>1, <3>2
  <2>3. CASE Len(s) # 1 BY <1>2, <1>5, <2>1, <2>3
  <2> QED BY <2>2, <2>3
<1>9. OwnBlock(u)
  <2>1. OwnBlock(s) BY DEF StackOK
  <2> SUFFICES ASSUME NEW i \in 1..Len(u), Code(u[i].node) \in Call,
                      \A j \in (i + 1)..Len(u) : Code(u[j].node) \in {"FUNCTION", "STATEMENT_LIST"}
               PROVE  u[i].location
    BY DEF OwnBlock
  <2>2. \A j \in (i + 1)..Len(s) : j \in 1..Len(s) /\ u[j].node = s[j].node BY <1>2, <1>5, <1>6
  <2> QED BY <1>5, <1>6, <2>1, <2>2 DEF OwnBlock
<1>10. 1 \in 1..Len(s) BY <1>2
<1>11. StackOK(u) BY <1>5, <1>7, <1>8, <1>9 DEF StackOK
<1>12. Changed(s, u, g) BY <1>3, <1>5, <1>6, <1>10, <1>11 DEF Changed
<1> QED BY <1>12 DEF g

(* A callback starts: the frame pushed is one a callback may have.         *)
MayPush(u, h) ==
  /\ h \in Frame /\ Inner(h) /\ h.entry = Level(u, 1)
  /\ JumpLabel(h, u[1]) => ~h.location
  /\ /\ Code(h.node) \in Call
     /\ \A j \in 1..Len(u) : Code(u[j].node) \in {"FUNCTION", "STATEMENT_LIST"}
     => h.location

Pushed(u, w, h) ==
  /\ StackOK(w) /\ w # <<>> /\ Len(w) = Len(u) + 1 /\ w[1] = h
  /\ \A i \in 1..Len(u) : w[i + 1] = u[i]
  /\ Level(w, 1) = h.entry + h.shift + 1

(* A frame that may be pushed keeps the stack in order.                     *)
LEMMA PushFrame ==
  ASSUME NEW u, StackOK(u), u # <<>>, u[1].seen # {}, NEW h, MayPush(u, h),
         NEW w, w = <<h>> \o u
  PROVE  Pushed(u, w, h)
<1>0. /\ h \in Frame /\ Inner(h) /\ h.entry = Level(u, 1)
      /\ JumpLabel(h, u[1]) => ~h.location
  BY DEF MayPush
<1>1. u \in Seq(Frame) BY DEF StackOK
<1>2. Len(u) \in Nat \ {0} BY <1>1
<1>3. /\ w \in Seq(Frame) /\ Len(w) = Len(u) + 1 /\ w[1] = h
      /\ \A i \in 1..Len(u) : w[i + 1] = u[i]
  BY <1>0, <1>1, StackOps
<1>4. \A i \in 1..Len(u) : Level(w, i + 1) = Level(u, i)
  <2> TAKE i \in 1..Len(u)
  <2>1. w[i + 1] = u[i] /\ (i + 1 = Len(w) <=> i = Len(u)) BY <1>2, <1>3
  <2> QED BY <2>1 DEF Level
<1>5. ASSUME NEW i \in 1..(Len(w) - 1)
      PROVE  /\ Inner(w[i]) /\ w[i].entry = Level(w, i + 1) /\ w[i + 1].seen # {}
             /\ JumpLabel(w[i], w[i + 1]) => ~w[i].location
  <2>1. i \in 1..Len(u) BY <1>2, <1>3
  <2>2. w[i + 1] = u[i] /\ Level(w, i + 1) = Level(u, i) BY <1>3, <1>4, <2>1
  <2>3. CASE i = 1 BY <1>0, <1>3, <2>2, <2>3
  <2>4. CASE i # 1
    <3> DEFINE k == i - 1
    <3>1. k \in 1..(Len(u) - 1) /\ k \in 1..Len(u) /\ i = k + 1 BY <1>2, <2>1, <2>4
    <3>2. w[i] = u[k] BY <1>3, <3>1
    <3>3. /\ Inner(u[k]) /\ u[k].entry = Level(u, i) /\ u[i].seen # {}
          /\ JumpLabel(u[k], u[i]) => ~u[k].location
      BY <3>1 DEF StackOK
    <3> QED BY <2>2, <3>2, <3>3
  <2> QED BY <2>3, <2>4
<1>6. Bottom(w[Len(w)]) BY <1>2, <1>3 DEF StackOK
<1>7. OwnBlock(w)
  <2>1. OwnBlock(u) BY DEF StackOK
  <2> SUFFICES ASSUME NEW i \in 1..Len(w), Code(w[i].node) \in Call,
                      \A j \in (i + 1)..Len(w) : Code(w[j].node) \in {"FUNCTION", "STATEMENT_LIST"}
               PROVE  w[i].location
    BY DEF OwnBlock
  <2>2. CASE i = 1
    <3>1. \A j \in 1..Len(u) : j + 1 \in (i + 1)..Len(w) BY <1>2, <1>3, <2>2
    <3>2. \A j \in 1..Len(u) : Code(u[j].node) \in {"FUNCTION", "STATEMENT_LIST"} BY <1>3, <3>1
    <3> QED BY <1>3, <2>2, <3>2 DEF MayPush
  <2>3. CASE i # 1
    <3> DEFINE k == i - 1
    <3>1. k \in 1..Len(u) /\ i = k + 1 BY <1>2, <1>3, <2>3
    <3>2. w[i] = u[k] BY <1>3, <3>1
    <3>3. \A j \in (k + 1)..Len(u) : j + 1 \in (i + 1)..Len(w) /\ j \in 1..Len(u)
      BY <1>2, <1>3, <3>1
    <3>4. \A j \in (k + 1)..Len(u) : Code(u[j].node) \in {"FUNCTION", "STATEMENT_LIST"}
      BY <1>3, <3>3
    <3> QED BY <2>1, <3>1, <3>2, <3>4 DEF OwnBlock
  <2> QED BY <2>2, <2>3
<1>8. w # <<>> /\ 1 # Len(w) BY <1>2, <1>3
<1> QED BY <1>3, <1>5, <1>6, <1>7, <1>8 DEF StackOK, Level, Pushed

(* A callback ends.                                                        *)
LEMMA PopFrame ==
  ASSUME NEW s, StackOK(s), Len(s) > 1, NEW t, t = Tail(s)
  PROVE  /\ StackOK(t) /\ t # <<>> /\ Len(t) = Len(s) - 1 /\ t[1].seen # {}
         /\ \A i \in 1..Len(t) : t[i] = s[i + 1]
         /\ Level(t, 1) = s[1].entry
<1>1. s \in Seq(Frame) /\ s # <<>> BY DEF StackOK
<1>2. Len(s) \in Nat BY <1>1
<1>3. t \in Seq(Frame) /\ Len(t) = Len(s) - 1 /\ \A i \in 1..Len(t) : t[i] = s[i + 1]
  BY <1>1
<1>4. \A i \in 1..Len(t) : Level(t, i) = Level(s, i + 1)
  <2> TAKE i \in 1..Len(t)
  <2>1. t[i] = s[i + 1] /\ (i = Len(t) <=> i + 1 = Len(s)) BY <1>2, <1>3
  <2> QED BY <2>1 DEF Level
<1>5. ASSUME NEW i \in 1..(Len(t) - 1)
      PROVE  /\ Inner(t[i]) /\ t[i].entry = Level(t, i + 1) /\ t[i + 1].seen # {}
             /\ JumpLabel(t[i], t[i + 1]) => ~t[i].location
  <2> DEFINE k == i + 1
  <2>1. k \in 1..(Len(s) - 1) /\ i \in 1..Len(t) /\ k \in 1..Len(t) BY <1>2, <1>3
  <2>2. t[i] = s[k] /\ t[k] = s[k + 1] /\ Level(t, k) = Level(s, k + 1) BY <1>3, <1>4, <2>1
  <2>3. /\ Inner(s[k]) /\ s[k].entry = Level(s, k + 1) /\ s[k + 1].seen # {}
        /\ JumpLabel(s[k], s[k + 1]) => ~s[k].location
    BY <2>1 DEF StackOK
  <2> QED BY <2>2, <2>3
<1>6. Bottom(t[Len(t)])
  <2>1. Bottom(s[Len(s)]) BY <1>1 DEF StackOK
  <2>2. t[Len(t)] = s[Len(s)] BY <1>2, <1>3
  <2> QED BY <2>1, <2>2
<1>7. OwnBlock(t)
  <2>1. OwnBlock(s) BY DEF StackOK
  <2> SUFFICES ASSUME NEW i \in 1..Len(t), Code(t[i].node) \in Call,
                      \A j \in (i + 1)..Len(t) : Code(t[j].node) \in {"FUNCTION", "STATEMENT_LIST"}
               PROVE  t[i].location
    BY DEF OwnBlock
  <2> DEFINE k == i + 1
  <2>2. k \in 1..Len(s) /\ t[i] = s[k] BY <1>2, <1>3
  <2>3. ASSUME NEW m \in (k + 1)..Len(s)
        PROVE  Code(s[m].node) \in {"FUNCTION", "STATEMENT_LIST"}
    <3>1. m - 1 \in (i + 1)..Len(t) /\ m - 1 \in 1..Len(t) /\ (m - 1) + 1 = m BY <1>2, <1>3
    <3>2. t[m - 1] = s[m] BY <1>3, <3>1
    <3> QED BY <3>1, <3>2
  <2> QED BY <2>1, <2>2, <2>3 DEF OwnBlock
<1>8. t # <<>> /\ 1 \in 1..Len(t)
  <2>1. Len(t) \in Nat /\ Len(t) > 0 BY <1>2, <1>3
  <2>2. Len(<<>>) = 0 BY EmptySeq
  <2> QED BY <2>1, <2>2
<1>9. s[1].entry = Level(s, 2) /\ s[2].seen # {} /\ t[1] = s[2]
  <2>1. 1 \in 1..(Len(s) - 1) BY <1>2
  <2> QED BY <1>3, <1>8, <2>1 DEF StackOK
<1> QED BY <1>3, <1>4, <1>5, <1>6, <1>7, <1>8, <1>9 DEF StackOK

-----------------------------------------------------------------------------
(* Facts about the innermost frame in a state of the invariant.            *)
LEMMA TopFacts ==
  ASSUME IInv, stack # <<>>
  PROVE  /\ stack \in Seq(Frame) /\ Len(stack) \in Nat \ {0} /\ stack[1] \in Frame
         /\ \A i \in 1..Len(stack) : stack[i] \in Frame
         /\ DOMAIN stack = 1..Len(stack)
         /\ Level(stack, 1) = walker_depth /\ walker_depth \in Nat
         /\ Code(stack[Len(stack)].node) = "FUNCTION" /\ ~stack[Len(stack)].resets
         /\ stack[1].todo \in Seq(Item)
         /\ stack[1].todo # <<>> =>
              /\ Head(stack[1].todo) \in Item /\ Tail(stack[1].todo) \in Seq(Item)
              /\ \E k \in 1..Len(stack[1].todo) : stack[1].todo[k] = Head(stack[1].todo)
              /\ \A k \in 1..Len(Tail(stack[1].todo)) :
                   Tail(stack[1].todo)[k] = stack[1].todo[k + 1] /\ k + 1 \in 1..Len(stack[1].todo)
<1>1. stack \in Seq(Frame) /\ walker_depth \in Nat BY DEF IInv, TypeOK
<1>2. Len(stack) \in Nat \ {0} /\ stack[1] \in Frame /\ DOMAIN stack = 1..Len(stack)
      /\ \A i \in 1..Len(stack) : stack[i] \in Frame BY <1>1
<1>3. stack[1].todo \in Seq(Item) BY <1>2 DEF Frame
<1>4. Bottom(stack[Len(stack)]) BY DEF IInv, StackOK
<1>5. Code(stack[Len(stack)].node) = "FUNCTION" BY <1>4, FunctionAssumption DEF Bottom
<1> DEFINE todo == stack[1].todo
<1>6. todo \in Seq(Item) BY <1>3
<1> HIDE DEF todo
<1>7. ASSUME todo # <<>>
      PROVE  /\ Head(todo) \in Item /\ Tail(todo) \in Seq(Item)
             /\ \E k \in 1..Len(todo) : todo[k] = Head(todo)
             /\ \A k \in 1..Len(Tail(todo)) :
                  Tail(todo)[k] = todo[k + 1] /\ k + 1 \in 1..Len(todo)
  <2>1. 1 \in 1..Len(todo) /\ todo[1] = Head(todo) BY <1>6, <1>7
  <2> QED BY <1>6, <1>7, <2>1
<1> QED BY <1>1, <1>2, <1>3, <1>4, <1>5, <1>7 DEF IInv, Bottom, todo

(* The empty stack.                                                        *)
LEMMA EmptyStack ==
  ASSUME NEW s, s = <<>>
  PROVE  s \in Seq(Frame) /\ Len(s) = 0 /\ DOMAIN s = {} /\ StackOK(s)
<1>1. s \in Seq(Frame) /\ Len(s) = 0 BY EmptySeq
<1>2. DOMAIN s = 1..0 BY <1>1, LenProperties
<1>3. 1..0 = {} OBVIOUS
<1>4. 1..Len(s) = {} /\ 1..(Len(s) - 1) = {} BY <1>1
<1>5. StackOK(s) BY <1>1, <1>4 DEF StackOK, OwnBlock
<1> QED BY <1>1, <1>2, <1>3, <1>5

(* The walker starts with no frame and its statics cleared.                 *)
LEMMA InitIInv == Init => IInv
<1> SUFFICES ASSUME Init PROVE IInv OBVIOUS
<1>1. stack = <<>> /\ walker_depth = 0 /\ is_expr = FALSE /\ symbol_prefix = "" BY DEF Init
<1>2. stack \in Seq(Frame) /\ Len(stack) = 0 BY <1>1, EmptyStack
<1>3. StackOK(stack) BY <1>1, EmptyStack
<1>4. TypeOK BY <1>1, <1>2 DEF TypeOK
<1> QED BY <1>1, <1>3, <1>4 DEF IInv, ExprContained, PrefixOnFirstLeaf

(* Between functions nothing is pending.                                   *)
LEMMA StartIInv ==
  ASSUME IInv, NEW f \in Functions, StartFunction(f) PROVE IInv'
<1>1. /\ stack = <<>> /\ walker_depth' = walker_depth /\ is_expr' = is_expr
      /\ symbol_prefix' = symbol_prefix
  BY DEF StartFunction
<1>2. walker_depth = 0 /\ is_expr \in BOOLEAN /\ DOMAIN stack = {}
  BY <1>1, EmptyStack DEF IInv, TypeOK
<1>3. ~is_expr BY <1>2 DEF IInv, ExprContained
<1>4. symbol_prefix = "" BY <1>2 DEF IInv, PrefixOnFirstLeaf
<1> DEFINE g == [node |-> f, todo |-> FunctionWalks(f), shift |-> 0, entry |-> walker_depth,
                 saved |-> walker_depth, resets |-> FALSE, location |-> FALSE, seen |-> {}]
<1>5. f \in Node /\ Code(f) = "FUNCTION" BY FunctionAssumption
<1>6. FunctionWalks(f) \in Seq(Item)
      /\ \A k \in 1..Len(FunctionWalks(f)) : FunctionWalks(f)[k].shift # -1
  BY <1>5, FunctionWalksType DEF Good
<1>7. g \in Frame BY <1>2, <1>5, <1>6 DEF Frame
<1>8. Bottom(g) BY <1>2, <1>6 DEF Bottom
<1>9. Code(g.node) = "FUNCTION" BY <1>5
<1>10. stack' = <<g>> BY DEF StartFunction
<1> HIDE DEF g
<1>11. stack' \in Seq(Frame) /\ Len(stack') = 1 /\ stack'[1] = g /\ stack' # <<>>
  BY <1>7, <1>10
<1>12. StackOK(stack')
  <2>1. OwnBlock(stack') BY <1>9, <1>11 DEF OwnBlock, Call
  <2> QED BY <1>8, <1>11, <2>1 DEF StackOK
<1>13. Level(stack', 1) = 0 BY <1>11 DEF Level
<1>14. TypeOK' BY <1>1, <1>11 DEF IInv, TypeOK
<1>15. "FUNCTION" \notin SetsExpr BY DEF SetsExpr, Located, Unary, Binary, Modify, PostIncDec
<1>16. Level(stack, 1)' = Level(stack', 1) BY DEF Level
<1> QED BY <1>1, <1>2, <1>3, <1>4, <1>9, <1>11, <1>12, <1>13, <1>14, <1>15, <1>16
        DEF IInv, ExprContained, PrefixOnFirstLeaf

(* The end of a function leaves the statics as it found them.               *)
LEMMA EndIInv == ASSUME IInv, EndFunction PROVE IInv'
<1>1. /\ Len(stack) = 1 /\ stack' = <<>> /\ walker_depth' = walker_depth
      /\ is_expr' = is_expr /\ symbol_prefix' = symbol_prefix
  BY DEF EndFunction
<1>2. stack # <<>> BY <1>1
<1>3. walker_depth = 0 BY <1>1, <1>2 DEF IInv, Level
<1>4. ~is_expr BY <1>1, <1>2, TopFacts DEF IInv, ExprContained
<1>5. symbol_prefix = ""
  <2>1. ~SetsPrefix(stack[1].node) BY <1>1, <1>2, TopFacts DEF SetsPrefix, Unary
  <2>2. DOMAIN stack = 1..1 BY <1>1, <1>2, TopFacts
  <2>3. \A i \in DOMAIN stack : ~SetsPrefix(stack[i].node) BY <2>1, <2>2
  <2> QED BY <2>3 DEF IInv, PrefixOnFirstLeaf
<1>6. StackOK(stack') /\ stack' \in Seq(Frame) BY <1>1, EmptyStack
<1>7. TypeOK' BY <1>1, <1>6 DEF IInv, TypeOK
<1> QED BY <1>1, <1>3, <1>4, <1>5, <1>6, <1>7 DEF IInv, ExprContained, PrefixOnFirstLeaf

(* A step that makes no callback of a node with a case.                    *)
LEMMA StayIInv ==
  ASSUME IInv, stack # <<>>, Top.todo # <<>>, NEW todo, MayWalk(stack, todo),
         stack' = <<After(Top, todo)>> \o Tail(stack),
         UNCHANGED <<walker_depth, is_expr>>, symbol_prefix' = ""
  PROVE  IInv'
<1>1. /\ StackOK(stack') /\ stack' # <<>> /\ Len(stack') = Len(stack)
      /\ stack'[1].seen # {}
      /\ \A i \in 1..Len(stack) : stack[i].resets => stack'[i].resets
      /\ Level(stack', 1) = Level(stack, 1)
  <2>1. StackOK(stack) /\ stack[1].todo # <<>> BY DEF IInv, Top
  <2>2. stack' = <<After(stack[1], todo)>> \o Tail(stack) BY DEF Top
  <2>3. Changed(stack, stack', After(stack[1], todo)) BY <2>1, <2>2, ChangeTop
  <2> QED BY <2>3 DEF Changed
<1>2. stack' \in Seq(Frame) BY <1>1 DEF StackOK
<1>3. TypeOK' BY <1>2 DEF IInv, TypeOK
<1>4. walker_depth' = Level(stack', 1) BY <1>1, TopFacts
<1>5. ExprContained'
  <2>1. DOMAIN stack = 1..Len(stack) /\ DOMAIN stack' = 1..Len(stack)
    BY <1>1, <1>2, TopFacts, LenProperties
  <2> QED BY <1>1, <2>1 DEF IInv, ExprContained
<1> QED BY <1>1, <1>3, <1>4, <1>5 DEF IInv, PrefixOnFirstLeaf, Level

(* Passing over a node already seen keeps the invariant.                    *)
LEMMA SkipIInv == ASSUME IInv, SkipSeen PROVE IInv'
<1>1. /\ stack # <<>> /\ Top.todo # <<>> /\ AlreadySeen(Top, Head(Top.todo))
      /\ stack' = <<After(Top, Rest(Top))>> \o Tail(stack)
      /\ UNCHANGED <<walker_depth, is_expr, symbol_prefix>>
  BY DEF SkipSeen
<1>2. Top.seen # {} BY <1>1 DEF AlreadySeen, SeenBefore
<1>3. symbol_prefix = "" BY <1>2 DEF IInv, PrefixOnFirstLeaf, Top
<1>4. /\ Rest(Top) \in Seq(Item)
      /\ \A k \in 1..Len(Rest(Top)) :
           Rest(Top)[k] = Top.todo[k + 1] /\ k + 1 \in 1..Len(Top.todo)
  BY <1>1, TopFacts DEF Top, Rest
<1>5. Len(stack) > 1 => Inner(Top)
  <2>1. Len(stack) \in Nat BY <1>1, TopFacts
  <2>2. Len(stack) > 1 => 1 \in 1..(Len(stack) - 1) BY <2>1
  <2> QED BY <2>2 DEF IInv, StackOK, Top
<1>6. ~(/\ Len(stack) > 1 /\ Code(Top.node) \in {"GOTO_EXPR", "LABEL_EXPR"}
        /\ Code(Op(Top.node, 1)) \notin Default)
  BY <1>1, <1>2, <1>5 DEF Inner
<1>7. MayWalk(stack, Rest(Top)) BY <1>4, <1>6 DEF MayWalk, Top
<1> QED BY <1>1, <1>3, <1>7, StayIInv

(* So does a node without a case, which clears the prefix.                  *)
LEMMA DefaultIInv == ASSUME IInv, EnterDefault PROVE IInv'
<1> DEFINE item == Head(Top.todo)
           below == Items(Ops(item.node), item.shift, FALSE)
<1>1. /\ stack # <<>> /\ Top.todo # <<>> /\ Code(item.node) \in Default
      /\ stack' = <<After(Top, below \o Rest(Top))>> \o Tail(stack)
      /\ UNCHANGED <<walker_depth, is_expr>> /\ symbol_prefix' = ""
  BY DEF EnterDefault, PrefixAtEnd
<1>2. /\ item \in Item /\ Rest(Top) \in Seq(Item)
      /\ \E k \in 1..Len(Top.todo) : Top.todo[k] = item
      /\ \A k \in 1..Len(Rest(Top)) :
           Rest(Top)[k] = Top.todo[k + 1] /\ k + 1 \in 1..Len(Top.todo)
  BY <1>1, TopFacts DEF Top, Rest
<1>3. item.node \in Node /\ item.shift \in {-1, 0, 1} BY <1>2 DEF Item
<1> HIDE DEF item
<1>4. below \in Seq(Item) /\ \A k \in 1..Len(below) : below[k].shift = item.shift
  <2>1. Ops(item.node) \in Seq(Node) /\ FALSE \in BOOLEAN BY <1>3, NodeType
  <2> QED BY <1>3, <2>1, ItemsType
<1> HIDE DEF below
<1>5. below \o Rest(Top) \in Seq(Item) BY <1>2, <1>4
<1>6. (\A k \in 1..Len(Top.todo) : Top.todo[k].shift # -1)
        => \A k \in 1..Len(below \o Rest(Top)) : (below \o Rest(Top))[k].shift # -1
  <2> SUFFICES ASSUME \A k \in 1..Len(Top.todo) : Top.todo[k].shift # -1
               PROVE  \A k \in 1..Len(below \o Rest(Top)) : (below \o Rest(Top))[k].shift # -1
    OBVIOUS
  <2>1. item.shift # -1 BY <1>2
  <2>2. \A k \in 1..Len(Rest(Top)) : Rest(Top)[k].shift # -1 BY <1>2
  <2> QED BY <1>2, <1>4, <2>1, <2>2, ConcatItems
<1>7. ~(/\ Len(stack) > 1 /\ Code(Top.node) \in {"GOTO_EXPR", "LABEL_EXPR"}
        /\ Code(Op(Top.node, 1)) \notin Default)
  <2> SUFFICES ASSUME Len(stack) > 1, Code(Top.node) \in {"GOTO_EXPR", "LABEL_EXPR"},
                      Code(Op(Top.node, 1)) \notin Default
               PROVE  FALSE
    OBVIOUS
  <2>1. Inner(Top)
    <3>1. Len(stack) \in Nat BY <1>1, TopFacts
    <3>2. 1 \in 1..(Len(stack) - 1) BY <3>1
    <3> QED BY <3>2 DEF IInv, StackOK, Top
  <2>2. Top.todo = Walks(Top.node) BY <1>1, <2>1 DEF Inner
  <2>3. Top.node \in Node BY <1>1, TopFacts DEF Top, Frame
  <2>4. Len(Walks(Top.node)) = 1 /\ Walks(Top.node)[1].node = Op(Top.node, 1)
    BY <1>1, <2>2, <2>3, JumpWalks
  <2>5. item.node = Op(Top.node, 1)
    BY <1>2, <2>2, <2>4
  <2> QED BY <1>1, <2>5
<1>8. MayWalk(stack, below \o Rest(Top)) BY <1>5, <1>6, <1>7 DEF MayWalk, Top
<1> QED BY <1>1, <1>8, StayIInv

(* The end of a callback restores what its frame recorded.                  *)
LEMMA LeaveIInv == ASSUME IInv, Leave PROVE IInv'
<1>1. /\ stack # <<>> /\ Len(stack) > 1 /\ stack' = Tail(stack)
      /\ walker_depth' = DepthAfter(Top) /\ is_expr' = (is_expr /\ ~Top.resets)
      /\ symbol_prefix' = ""
  BY DEF Leave, PrefixAtEnd
<1>0. Len(stack) \in Nat /\ Len(stack) > 1 /\ 1 # Len(stack) /\ 1 \in 1..(Len(stack) - 1)
  <2>1. Len(stack) > 1 BY <1>1
  <2>2. Len(stack) \in Nat BY <1>1, TopFacts
  <2>3. \A n \in Nat : n > 1 => 1 # n /\ 1 \in 1..(n - 1) OBVIOUS
  <2> QED BY <2>1, <2>2, <2>3, Zenon
<1>2. /\ StackOK(stack') /\ stack' # <<>> /\ Len(stack') = Len(stack) - 1
      /\ stack'[1].seen # {} /\ \A i \in 1..Len(stack') : stack'[i] = stack[i + 1]
      /\ Level(stack', 1) = stack[1].entry
  <2>1. StackOK(stack) BY DEF IInv
  <2> QED BY <1>1, <2>1, PopFrame
<1>3. stack' \in Seq(Frame) BY <1>2 DEF StackOK
<1>4. walker_depth' = stack[1].entry /\ stack[1].entry \in Nat
  <2>1. Inner(stack[1])
    BY <1>0 DEF IInv, StackOK
  <2>2. stack[1].entry \in Nat /\ stack[1].shift \in {-1, 0, 1}
    BY <1>1, TopFacts DEF Frame
  <2>3. walker_depth = stack[1].entry + stack[1].shift + 1
    <3>1. walker_depth = Level(stack, 1) BY <1>1, TopFacts
    <3> QED BY <1>0, <3>1 DEF Level
  <2>4. DepthAtEnd(Top) = stack[1].entry + stack[1].shift + 1
    BY <2>1, <2>3 DEF DepthAtEnd, Inner, Top
  <2>5. walker_depth' = DepthAtEnd(Top) - 1 - stack[1].shift BY <1>1 DEF DepthAfter, Top
  <2>6. \A e \in Nat, d \in {-1, 0, 1} : (e + d + 1) - 1 - d = e OBVIOUS
  <2>7. walker_depth' = (stack[1].entry + stack[1].shift + 1) - 1 - stack[1].shift
    BY <2>4, <2>5, Zenon
  <2> QED BY <2>2, <2>6, <2>7, Zenon
<1>5. TypeOK' BY <1>1, <1>3, <1>4 DEF IInv, TypeOK
<1>6. ExprContained'
  <2> SUFFICES ASSUME is_expr' PROVE \E i \in DOMAIN stack' : stack'[i].resets
    BY DEF ExprContained
  <2>1. is_expr /\ ~stack[1].resets BY <1>1 DEF Top
  <2>2. PICK i \in DOMAIN stack : stack[i].resets BY <2>1 DEF IInv, ExprContained
  <2>3. i \in 1..Len(stack) /\ i # 1 /\ Len(stack) \in Nat
    BY <1>1, <2>1, <2>2, TopFacts
  <2>4. i - 1 \in 1..Len(stack') /\ (i - 1) + 1 = i BY <1>2, <2>3
  <2>5. stack'[i - 1] = stack[i] BY <1>2, <2>4
  <2>6. DOMAIN stack' = 1..Len(stack') BY <1>3, LenProperties
  <2> QED BY <2>2, <2>4, <2>5, <2>6
<1> QED BY <1>1, <1>2, <1>4, <1>5, <1>6 DEF IInv, PrefixOnFirstLeaf, Level

(* The frame of a callback may be pushed.                                  *)
LEMMA EnterFrame ==
  ASSUME IInv, Enter, NEW u, Changed(stack, u, After(Top, Rest(Top)))
  PROVE  MayPush(u, FrameOf(Head(Top.todo)))
<1> DEFINE item == Head(Top.todo)
           h == FrameOf(item)
<1>1. stack # <<>> /\ Top.todo # <<>> BY DEF Enter
<1>2. item \in Item /\ \E k \in 1..Len(Top.todo) : Top.todo[k] = item
  BY <1>1, TopFacts DEF Top
<1>3. item.node \in Node /\ item.shift \in {-1, 0, 1} BY <1>2 DEF Item
<1> HIDE DEF item
<1>4. Len(stack) # 1 => Inner(stack[1])
  <2>1. Len(stack) \in Nat \ {0} BY <1>1, TopFacts
  <2>2. \A n \in Nat \ {0} : n # 1 => 1 \in 1..(n - 1) OBVIOUS
  <2>3. Len(stack) # 1 => 1 \in 1..(Len(stack) - 1) BY <2>1, <2>2
  <2> QED BY <2>3 DEF IInv, StackOK
<1>5. walker_depth \in Nat /\ Level(stack, 1) = walker_depth /\ stack[1] \in Frame
  BY <1>1, TopFacts
<1>6. walker_depth + item.shift >= 0
  <2>1. CASE item.shift = -1
    <3>1. Len(stack) # 1
      <4>1. Bottom(stack[Len(stack)]) BY <1>1 DEF IInv, StackOK
      <4> QED BY <1>2, <2>1, <4>1 DEF Bottom, Top
    <3>2. Inner(stack[1]) BY <1>4, <3>1
    <3>3. walker_depth = stack[1].entry + stack[1].shift + 1 BY <1>5, <3>1 DEF Level
    <3>4. stack[1].entry + stack[1].shift >= 0 BY <3>2 DEF Inner
    <3>5. stack[1].entry \in Nat /\ stack[1].shift \in {-1, 0, 1} BY <1>5 DEF Frame
    <3> QED BY <2>1, <3>3, <3>4, <3>5
  <2>2. CASE item.shift # -1 BY <1>3, <1>5, <2>2
  <2> QED BY <2>1, <2>2
<1>7. /\ h.node = item.node /\ h.todo = Walks(item.node) /\ h.shift = item.shift
      /\ h.entry = walker_depth /\ h.saved = walker_depth + item.shift + 1 /\ h.seen = {}
  BY DEF FrameOf
<1>8. (h.resets <=> Resets(item.node)) /\ (h.location <=> Locates(item.node))
  BY DEF FrameOf
<1>9. h \in Frame
  <2>1. Walks(item.node) \in Seq(Item) BY <1>3, WalksType
  <2>2. Resets(item.node) \in BOOLEAN /\ Locates(item.node) \in BOOLEAN
    BY DEF Resets, Locates
  <2>3. walker_depth + item.shift + 1 \in Nat BY <1>3, <1>5, <1>6
  <2> QED BY <1>3, <1>5, <2>1, <2>2, <2>3 DEF FrameOf, Frame
<1> HIDE DEF h
<1>10. Inner(h)
  <2>1. h.resets => Code(h.node) \in SetsExpr \cup Call BY <1>7, <1>8 DEF Resets
  <2>2. Code(h.node) # "STATEMENT_LIST" => \A k \in 1..Len(h.todo) : h.todo[k].shift # -1
    BY <1>3, <1>7, WalksType
  <2> QED BY <1>6, <1>7, <2>1, <2>2 DEF Inner
<1>11. h.entry = Level(u, 1) BY <1>5, <1>7 DEF Changed
<1>12. \A i \in 1..Len(stack) : u[i].node = stack[i].node BY DEF Changed
<1>13. Len(stack) \in Nat \ {0} /\ Len(u) = Len(stack) /\ DOMAIN stack = 1..Len(stack)
  BY <1>1, TopFacts DEF Changed
<1>14. ASSUME JumpLabel(h, u[1]) PROVE ~h.location
  <2>1. /\ Code(item.node) = "LABEL_DECL" /\ Code(stack[1].node) \in {"GOTO_EXPR", "LABEL_EXPR"}
        /\ item.node = Op(stack[1].node, 1)
    BY <1>7, <1>12, <1>13, <1>14 DEF JumpLabel
  <2>2. Len(stack) # 1 BY <1>1, <2>1, TopFacts
  <2>3. stack[1].seen = {}
    BY <1>1, <1>4, <2>1, <2>2 DEF Inner, Default, Top
  <2>4. is_expr BY <1>1, <2>1, <2>3 DEF IInv, SetsExpr, Located
  <2> QED BY <1>8, <2>1, <2>4 DEF Locates, Located, Modify, PostIncDec
<1>15. ASSUME Code(h.node) \in Call,
              \A j \in 1..Len(u) : Code(u[j].node) \in {"FUNCTION", "STATEMENT_LIST"}
       PROVE  h.location
  <2>1. ASSUME is_expr PROVE FALSE
    <3>1. PICK i \in 1..Len(stack) : stack[i].resets BY <1>13, <2>1 DEF IInv, ExprContained
    <3>2. i # Len(stack) BY <1>1, <3>1, TopFacts
    <3>3. i \in 1..(Len(stack) - 1) BY <1>13, <3>2
    <3>4. Code(stack[i].node) \in SetsExpr \cup Call
      BY <3>1, <3>3 DEF IInv, StackOK, Inner
    <3>5. Code(stack[i].node) \in {"FUNCTION", "STATEMENT_LIST"} BY <1>12, <1>13, <1>15
    <3> QED BY <3>4, <3>5 DEF SetsExpr, Call, Located, Unary, Binary, Modify, PostIncDec
  <2> QED BY <1>7, <1>8, <1>15, <2>1 DEF Locates
<1> QED BY <1>9, <1>10, <1>11, <1>14, <1>15 DEF MayPush, h, item

(* Arithmetic on the positions of a stack that grows by one frame. *)
LEMMA Positions ==
  ASSUME NEW N \in Nat \ {0}
  PROVE  /\ 1 \in 1..(N + 1)
         /\ \A j \in 2..1 : FALSE
         /\ \A i \in 1..N : i + 1 \in 1..(N + 1)
         /\ \A i \in 1..N : i # N => N # 1
<1>1. 1 \in 1..(N + 1) OBVIOUS
<1>2. \A j \in 2..1 : FALSE OBVIOUS
<1>3. \A i \in 1..N : i + 1 \in 1..(N + 1) OBVIOUS
<1>4. \A i \in 1..N : i # N => N # 1 OBVIOUS
<1> QED BY <1>1, <1>2, <1>3, <1>4

(* A position below the new top is one more than a position before.        *)
LEMMA Below ==
  ASSUME NEW N \in Nat \ {0}, NEW i \in 1..N, NEW j \in 2..(i + 1)
  PROVE  \E k \in 1..i : k \in 1..N /\ j = k + 1 /\ (k # 1 => k \in 2..i /\ k \in 2..N)
<1>1. j - 1 \in 1..i /\ j - 1 \in 1..N /\ j = (j - 1) + 1 OBVIOUS
<1>2. j - 1 # 1 => j - 1 \in 2..i /\ j - 1 \in 2..N OBVIOUS
<1> QED BY <1>1, <1>2

(* Nothing is left of a list of one item once that is taken. *)
LEMMA TailOfOne == ASSUME NEW s \in Seq(Item), Len(s) = 1 PROVE Tail(s) = <<>>
<1>1. Tail(s) \in Seq(Item) /\ Len(Tail(s)) = 0 OBVIOUS
<1> QED BY <1>1, EmptySeq

(* The start of a callback adds a frame that agrees with the statics it set. *)
LEMMA EnterIInv == ASSUME IInv, Enter PROVE IInv'
<1> DEFINE item == Head(Top.todo)
           n == item.node
           u == <<After(Top, Rest(Top))>> \o Tail(stack)
           h == FrameOf(item)
<1>1. /\ stack # <<>> /\ Top.todo # <<>> /\ stack' = <<h>> \o u
      /\ walker_depth' = walker_depth + item.shift + 1
      /\ is_expr' = (is_expr \/ Resets(n))
      /\ symbol_prefix' = (IF SetsPrefix(n) THEN Symbol(Code(n)) ELSE symbol_prefix)
      /\ Code(n) \notin Default
  BY DEF Enter
<1>2. item \in Item /\ Rest(Top) \in Seq(Item)
      /\ \A k \in 1..Len(Rest(Top)) :
           Rest(Top)[k] = Top.todo[k + 1] /\ k + 1 \in 1..Len(Top.todo)
  BY <1>1, TopFacts DEF Top, Rest
<1>3. n \in Node /\ item.shift \in {-1, 0, 1} BY <1>2 DEF Item
<1>4. Len(stack) # 1 => Inner(stack[1])
  <2>1. Len(stack) \in Nat \ {0} BY <1>1, TopFacts
  <2>2. \A m \in Nat \ {0} : m # 1 => 1 \in 1..(m - 1) OBVIOUS
  <2>3. Len(stack) # 1 => 1 \in 1..(Len(stack) - 1) BY <2>1, <2>2
  <2> QED BY <2>3 DEF IInv, StackOK
<1>5. Len(stack) > 1 => Len(stack) # 1
  <2>1. \A m : m = 1 => ~(m > 1) OBVIOUS
  <2> QED BY <2>1, Zenon
<1>6. MayWalk(stack, Rest(Top))
  <2>1. ASSUME Len(stack) > 1, Code(stack[1].node) \in {"GOTO_EXPR", "LABEL_EXPR"},
               Code(Op(stack[1].node, 1)) \notin Default
        PROVE  Rest(Top) = <<>>
    <3>1. stack[1].todo = Walks(stack[1].node) BY <1>1, <1>4, <1>5, <2>1 DEF Inner, Top
    <3>2. stack[1].node \in Node /\ Top.todo \in Seq(Item) BY <1>1, TopFacts DEF Frame, Top
    <3>3. Len(Top.todo) = 1 BY <1>1, <2>1, <3>1, <3>2, JumpWalks DEF Top
    <3>4. Tail(Top.todo) = <<>> BY <3>2, <3>3, TailOfOne
    <3> QED BY <3>4 DEF Rest
  <2> QED BY <1>2, <2>1 DEF MayWalk, Top
<1> HIDE DEF item, n, u, h
<1>7. Changed(stack, u, After(Top, Rest(Top)))
  <2>1. StackOK(stack) /\ stack[1].todo # <<>> /\ u = <<After(stack[1], Rest(Top))>> \o Tail(stack)
    BY <1>1 DEF IInv, Top, u
  <2>2. Changed(stack, u, After(stack[1], Rest(Top))) BY <1>1, <1>6, <2>1, ChangeTop
  <2> QED BY <2>2 DEF Top
<1>8. MayPush(u, h) BY <1>7, EnterFrame DEF h, item
<1>9. Pushed(u, stack', h)
  <2>1. StackOK(u) /\ u # <<>> /\ u[1].seen # {} BY <1>7 DEF Changed
  <2> QED BY <1>1, <1>8, <2>1, PushFrame
<1>10. h.node = n /\ h.shift = item.shift /\ h.entry = walker_depth /\ h.seen = {}
       /\ (h.resets <=> Resets(n))
  BY DEF h, n, FrameOf
<1>11. PICK N \in Nat \ {0} :
       /\ Len(stack) = N /\ DOMAIN stack = 1..N
       /\ Len(stack') = N + 1 /\ stack'[1] = h
       /\ \A i \in 1..N : stack'[i + 1] = u[i]
       /\ \A i \in 2..N : u[i] = stack[i]
       /\ \A i \in 1..N : u[i].node = stack[i].node /\ (stack[i].resets => u[i].resets)
       /\ u[1] = After(stack[1], Rest(Top))
  <2>1. Len(stack) \in Nat \ {0} /\ DOMAIN stack = 1..Len(stack) BY <1>1, TopFacts
  <2>2. Len(u) = Len(stack) BY <1>7 DEF Changed
  <2>3. /\ Len(stack') = Len(stack) + 1 /\ stack'[1] = h
        /\ \A i \in 1..Len(stack) : stack'[i + 1] = u[i]
    BY <1>9, <2>2 DEF Pushed
  <2>4. /\ \A i \in 2..Len(stack) : u[i] = stack[i]
        /\ \A i \in 1..Len(stack) : u[i].node = stack[i].node /\ (stack[i].resets => u[i].resets)
        /\ u[1] = After(stack[1], Rest(Top))
    BY <1>7 DEF Changed, Top
  <2> QED BY <2>1, <2>3, <2>4, Zenon
<1>12. StackOK(stack') /\ stack' \in Seq(Frame) /\ stack' # <<>>
       /\ DOMAIN stack' = 1..(N + 1)
  <2>1. StackOK(stack') /\ stack' # <<>> BY <1>9 DEF Pushed
  <2>2. stack' \in Seq(Frame) BY <2>1 DEF StackOK
  <2>3. DOMAIN stack' = 1..Len(stack') BY <2>2, LenProperties
  <2> QED BY <1>11, <2>1, <2>2, <2>3
<1>13. walker_depth' = Level(stack', 1) BY <1>1, <1>9, <1>10 DEF Pushed
<1>14. TypeOK'
  <2>1. walker_depth' \in Nat
    <3>1. Inner(h) BY <1>8 DEF MayPush
    <3>2. walker_depth + item.shift >= 0 BY <1>10, <3>1 DEF Inner
    <3>3. walker_depth \in Nat BY DEF IInv, TypeOK
    <3> QED BY <1>1, <1>3, <3>2, <3>3
  <2>2. is_expr' \in BOOLEAN BY <1>1 DEF IInv, TypeOK, Resets
  <2>3. symbol_prefix' \in {"", "&", "-", "~", "!", "--", "++", "*"}
    BY <1>1 DEF IInv, TypeOK, Symbol
  <2> QED BY <1>12, <2>1, <2>2, <2>3 DEF TypeOK
<1>15. ExprContained'
  <2> SUFFICES ASSUME is_expr' PROVE \E i \in 1..(N + 1) : stack'[i].resets
    BY <1>12 DEF ExprContained
  <2>1. CASE Resets(n)
    <3>1. 1 \in 1..(N + 1) BY Positions, Zenon
    <3> QED BY <1>10, <1>11, <2>1, <3>1, Zenon
  <2>2. CASE is_expr
    <3>1. PICK i \in 1..N : stack[i].resets BY <1>11, <2>2 DEF IInv, ExprContained
    <3>2. i + 1 \in 1..(N + 1) BY Positions, Zenon
    <3>3. stack'[i + 1].resets BY <1>11, <3>1
    <3> QED BY <3>2, <3>3, Zenon
  <2> QED BY <1>1, <2>1, <2>2
<1>16. PrefixOnFirstLeaf'
  <2> SUFFICES ASSUME symbol_prefix' # ""
               PROVE  \E i \in 1..(N + 1) :
                        /\ SetsPrefix(stack'[i].node)
                        /\ symbol_prefix' = Symbol(Code(stack'[i].node))
                        /\ stack'[1].seen = {}
                        /\ \A j \in 2..i : stack'[j].todo = Tail(Walks(stack'[j].node))
    BY <1>12 DEF PrefixOnFirstLeaf
  <2>1. CASE SetsPrefix(n)
    <3>1. 1 \in 1..(N + 1) BY Positions, Zenon
    <3>2. \A j \in 2..1 : FALSE BY Positions, Zenon
    <3>3. symbol_prefix' = Symbol(Code(n)) BY <1>1, <2>1
    <3> WITNESS 1 \in 1..(N + 1)
    <3> QED BY <1>10, <1>11, <2>1, <3>2, <3>3
  <2>2. CASE ~SetsPrefix(n)
    <3>1. symbol_prefix' = symbol_prefix /\ symbol_prefix # "" BY <1>1, <2>2
    <3>2. PICK i \in 1..N :
            /\ SetsPrefix(stack[i].node) /\ symbol_prefix = Symbol(Code(stack[i].node))
            /\ stack[1].seen = {}
            /\ \A j \in 2..i : stack[j].todo = Tail(Walks(stack[j].node))
      BY <1>11, <3>1 DEF IInv, PrefixOnFirstLeaf
    <3>3. i # N BY <1>1, <1>11, <3>2, TopFacts DEF SetsPrefix, Unary
    <3>4. N # 1 BY <3>3, Positions, Zenon
    <3>5. stack[1].todo = Walks(stack[1].node) BY <1>4, <1>11, <3>2, <3>4 DEF Inner
    <3>6. u[1].todo = Tail(Walks(stack[1].node))
      <4>1. stack[1] \in Frame BY <1>1, TopFacts
      <4>2. After(stack[1], Rest(Top)).todo = Rest(Top) BY <1>1, <1>2, <4>1, AfterType DEF Top
      <4> QED BY <1>11, <3>5, <4>2 DEF Rest, Top
    <3>7. ASSUME NEW j \in 2..(i + 1) PROVE stack'[j].todo = Tail(Walks(stack'[j].node))
      <4>1. PICK k \in 1..i :
              k \in 1..N /\ j = k + 1 /\ (k # 1 => k \in 2..i /\ k \in 2..N)
        BY Below
      <4>2. stack'[j] = u[k] /\ u[k].node = stack[k].node BY <1>11, <4>1
      <4>3. CASE k = 1 BY <3>6, <4>2, <4>3
      <4>4. CASE k # 1
        <5>1. k \in 2..i /\ k \in 2..N BY <4>1, <4>4
        <5>2. u[k] = stack[k] BY <1>11, <5>1
        <5>3. stack[k].todo = Tail(Walks(stack[k].node)) BY <3>2, <5>1
        <5> QED BY <4>2, <5>2, <5>3
      <4> QED BY <4>3, <4>4
    <3>8. i + 1 \in 1..(N + 1) /\ stack'[i + 1].node = stack[i].node
      <4>1. i + 1 \in 1..(N + 1) BY Positions, Zenon
      <4> QED BY <1>11, <4>1
    <3> QED BY <1>10, <1>11, <3>1, <3>2, <3>7, <3>8
  <2> QED BY <2>1, <2>2
<1>17. Code(stack'[1].node) \in SetsExpr => is_expr' BY <1>1, <1>10, <1>11 DEF Resets
<1> QED BY <1>12, <1>13, <1>14, <1>15, <1>16, <1>17 DEF IInv, Level

(* Every step of the walk keeps the invariant.                              *)
LEMMA NextIInv == IInv /\ [Next]_vars => IInv'
<1> SUFFICES ASSUME IInv, [Next]_vars PROVE IInv' OBVIOUS
<1>1. CASE SkipSeen BY <1>1, SkipIInv
<1>2. CASE EnterDefault BY <1>2, DefaultIInv
<1>3. CASE Enter BY <1>3, EnterIInv
<1>4. CASE Leave BY <1>4, LeaveIInv
<1>5. CASE EndFunction BY <1>5, EndIInv
<1>6. ASSUME NEW f \in Functions, StartFunction(f) PROVE IInv' BY <1>6, StartIInv
<1>7. CASE UNCHANGED vars
  BY <1>7 DEF IInv, TypeOK, ExprContained, PrefixOnFirstLeaf, Level, vars
<1> QED BY <1>1, <1>2, <1>3, <1>4, <1>5, <1>6, <1>7 DEF Next, Walk

(* The invariant implies the properties the runs check.                    *)
LEMMA IInvImplies ==
  ASSUME IInv
  PROVE  TypeOK /\ DepthMatchesStack /\ ExprContained /\ PrefixOnFirstLeaf
         /\ LocationsPrinted
<1>1. stack \in Seq(Frame) /\ DOMAIN stack = 1..Len(stack)
  <2>1. stack \in Seq(Frame) BY DEF IInv, TypeOK
  <2> QED BY <2>1, LenProperties
<1>2. DepthMatchesStack BY DEF IInv, StackOK, DepthMatchesStack
<1>3. TopLevelCallsLocated BY <1>1 DEF IInv, StackOK, OwnBlock, TopLevelCallsLocated
<1>4. JumpHasOneLocation BY DEF IInv, StackOK, JumpLabel, JumpHasOneLocation
<1> QED BY <1>2, <1>3, <1>4 DEF IInv, LocationsPrinted

(* For every heap of trees and every sequence of functions walked: the     *)
(* depth is that of the nesting, is_expr and symbol_prefix do not leak, and *)
(* the calls of a function's own block and the jumps print one location.   *)
THEOREM WalkerSafe ==
  Spec => [](/\ TypeOK /\ DepthMatchesStack /\ ExprContained /\ PrefixOnFirstLeaf
             /\ LocationsPrinted)
<1>1. Spec => []IInv BY InitIInv, NextIInv, PTL DEF Spec
<1> QED BY <1>1, IInvImplies, PTL

-----------------------------------------------------------------------------
(* What a frame has left to walk is lower than its node, and so is the     *)
(* frame within it: the heights grow along the stack.                      *)
Descending(s) ==
  /\ \A i \in 1..Len(s) : Lower(s[i].todo, s[i].node)
  /\ \A i \in 1..(Len(s) - 1) : Height[s[i].node] < Height[s[i + 1].node]

HeightInv == IInv /\ Descending(stack)

LEMMA FrameNode ==
  ASSUME NEW f \in Frame
  PROVE  /\ f.node \in Node /\ f.todo \in Seq(Item)
         /\ \A k \in 1..Len(f.todo) : f.todo[k] \in Item /\ f.todo[k].node \in Node
<1>1. f.node \in Node /\ f.todo \in Seq(Item) BY DEF Frame
<1>2. \A k \in 1..Len(f.todo) : f.todo[k] \in Item BY <1>1, ElementOfSeq
<1> QED BY <1>1, <1>2 DEF Item

(* Heights that grow from each frame to the next grow from each frame to   *)
(* every later one.                                                        *)
LEMMA HeightsGrow ==
  ASSUME NEW s \in Seq(Frame), Descending(s),
         NEW i \in 1..Len(s), NEW j \in 1..Len(s), i < j
  PROVE  Height[s[i].node] < Height[s[j].node]
<1> DEFINE n == j - i - 1
           T == {m \in 0..n : Height[s[i].node] < Height[s[i + m + 1].node]}
<1>1. \A k \in 1..Len(s) : s[k].node \in Node
  <2>1. \A k \in 1..Len(s) : s[k] \in Frame BY ElementOfSeq
  <2> QED BY <2>1, FrameNode
<1>2. Len(s) \in Nat /\ i \in Nat /\ j \in Nat OBVIOUS
<1>3. n \in Nat /\ i + n + 1 = j BY <1>2
<1>4. 0 \in T
  <2>1. i \in 1..(Len(s) - 1) /\ i + 0 + 1 = i + 1 /\ 0 \in 0..n BY <1>2, <1>3
  <2> QED BY <2>1 DEF Descending
<1>5. ASSUME NEW m \in 1..n, m - 1 \in T PROVE m \in T
  <2> DEFINE k == i + m
  <2>1. /\ k \in 1..(Len(s) - 1) /\ k \in 1..Len(s) /\ k + 1 \in 1..Len(s)
        /\ i + (m - 1) + 1 = k /\ i + m + 1 = k + 1 /\ m \in 0..n
    BY <1>2, <1>3
  <2>2. Height[s[i].node] < Height[s[i + (m - 1) + 1].node] BY <1>5
  <2>3. Height[s[k].node] < Height[s[k + 1].node] BY <2>1 DEF Descending
  <2> HIDE DEF k, n
  <2>4. Height[s[i].node] < Height[s[k + 1].node] BY <1>1, <2>1, <2>2, <2>3, HeightLess
  <2> QED BY <2>1, <2>4
<1>6. n \in T
  <2>1. 0..n \subseteq T
    <3> HIDE DEF T, n
    <3> QED BY <1>3, <1>4, <1>5, UpTo
  <2> HIDE DEF T, n
  <2>2. n \in 0..n BY <1>3
  <2> QED BY <2>1, <2>2
<1> QED BY <1>3, <1>6

LEMMA Distinct ==
  ASSUME HeightInv
  PROVE  NothingInItself
<1>1. stack \in Seq(Frame) /\ DOMAIN stack = 1..Len(stack) /\ Descending(stack)
  <2>1. stack \in Seq(Frame) /\ Descending(stack) BY DEF HeightInv, IInv, TypeOK
  <2> QED BY <2>1, LenProperties
<1> SUFFICES ASSUME NEW i \in 1..Len(stack), NEW j \in 1..Len(stack),
                    stack[i].node = stack[j].node, i # j
             PROVE  FALSE
  BY <1>1 DEF NothingInItself
<1>2. stack[i].node \in Node
  <2>1. stack[i] \in Frame BY <1>1, ElementOfSeq
  <2> QED BY <2>1, FrameNode
<1>3. i < j \/ j < i OBVIOUS
<1>4. Height[stack[i].node] < Height[stack[i].node] BY <1>1, <1>3, HeightsGrow
<1>5. Height[stack[i].node] \in Nat BY <1>2, HeightAssumption
<1> QED BY <1>4, <1>5

(* The innermost frame moves on to lower nodes. *)
LEMMA ChangeDescends ==
  ASSUME NEW s \in Seq(Frame), Descending(s), s # <<>>, s[1].todo # <<>>,
         NEW todo \in Seq(Item), Lower(todo, s[1].node),
         NEW u, u = <<After(s[1], todo)>> \o Tail(s)
  PROVE  Descending(u) /\ u \in Seq(Frame) /\ u # <<>> /\ u[1].node = s[1].node
<1> DEFINE g == After(s[1], todo)
<1>1. s[1] \in Frame /\ Len(s) \in Nat \ {0} OBVIOUS
<1>2. g \in Frame /\ g.todo = todo /\ g.node = s[1].node BY <1>1, AfterType
<1> HIDE DEF g
<1>3. /\ u \in Seq(Frame) /\ Len(u) = Len(s) /\ u[1] = g /\ u # <<>>
      /\ \A i \in 2..Len(s) : u[i] = s[i]
  BY <1>2, StackOps DEF g
<1>4. \A i \in 1..Len(s) : i = 1 \/ i \in 2..Len(s) BY <1>1
<1>5. \A i \in 1..Len(s) : u[i].node = s[i].node BY <1>2, <1>3, <1>4
<1>6. \A i \in 1..Len(s) : Lower(u[i].todo, u[i].node) BY <1>2, <1>3, <1>4 DEF Descending
<1>7. \A i \in 1..(Len(s) - 1) : i \in 1..Len(s) /\ i + 1 \in 1..Len(s) BY <1>1
<1>8. \A i \in 1..(Len(s) - 1) : Height[u[i].node] < Height[u[i + 1].node]
  BY <1>5, <1>7 DEF Descending
<1> QED BY <1>2, <1>3, <1>6, <1>8 DEF Descending

(* A frame of a lower node is pushed. *)
LEMMA PushDescends ==
  ASSUME NEW u \in Seq(Frame), Descending(u), u # <<>>, NEW h \in Frame,
         Lower(h.todo, h.node), Height[h.node] < Height[u[1].node],
         NEW w, w = <<h>> \o u
  PROVE  Descending(w)
<1>1. Len(u) \in Nat \ {0} OBVIOUS
<1>2. Len(w) = Len(u) + 1 /\ w[1] = h /\ \A i \in 1..Len(u) : w[i + 1] = u[i]
  BY StackOps
<1>3. ASSUME NEW i \in 1..Len(w) PROVE Lower(w[i].todo, w[i].node)
  <2>1. CASE i = 1 BY <1>2, <2>1
  <2>2. CASE i # 1
    <3>1. i - 1 \in 1..Len(u) /\ (i - 1) + 1 = i BY <1>1, <1>2, <2>2
    <3>2. w[i] = u[i - 1] BY <1>2, <3>1
    <3> QED BY <3>1, <3>2 DEF Descending
  <2> QED BY <2>1, <2>2
<1>4. ASSUME NEW i \in 1..(Len(w) - 1) PROVE Height[w[i].node] < Height[w[i + 1].node]
  <2>0. i \in 1..Len(u) BY <1>1, <1>2
  <2>1. CASE i = 1 BY <1>2, <2>0, <2>1
  <2>2. CASE i # 1
    <3>1. i - 1 \in 1..(Len(u) - 1) /\ i - 1 \in 1..Len(u) /\ (i - 1) + 1 = i
      BY <1>1, <2>0, <2>2
    <3>2. w[i] = u[i - 1] /\ w[i + 1] = u[i] BY <1>2, <2>0, <3>1
    <3>3. Height[u[i - 1].node] < Height[u[(i - 1) + 1].node] BY <3>1 DEF Descending
    <3> QED BY <3>1, <3>2, <3>3
  <2> QED BY <2>1, <2>2
<1> QED BY <1>3, <1>4 DEF Descending

(* What is left of a list of lower items, and its first one, are lower.    *)
LEMMA RestLower ==
  ASSUME NEW s \in Seq(Item), s # <<>>, NEW n \in Node, Lower(s, n)
  PROVE  /\ Tail(s) \in Seq(Item) /\ Lower(Tail(s), n)
         /\ Head(s) \in Item /\ Height[Head(s).node] < Height[n]
<1>1. 1 \in 1..Len(s) /\ Head(s) = s[1] /\ Head(s) \in Item OBVIOUS
<1>2. Height[Head(s).node] < Height[n] BY <1>1 DEF Lower
<1> DEFINE t == Tail(s)
<1>3. t \in Seq(Item) /\ Len(t) = Len(s) - 1 /\ \A k \in 1..Len(t) : t[k] = s[k + 1]
  OBVIOUS
<1>4. \A k \in 1..Len(t) : k + 1 \in 1..Len(s) BY <1>3
<1> HIDE DEF t
<1>5. Lower(t, n) BY <1>3, <1>4 DEF Lower
<1> QED BY <1>1, <1>2, <1>3, <1>5 DEF t

(* The frames stay in order under every step. *)
LEMMA NextDescends ==
  ASSUME HeightInv, [Next]_vars
  PROVE  Descending(stack')
<1>1. stack \in Seq(Frame) /\ Len(stack) \in Nat /\ Descending(stack)
  <2>1. stack \in Seq(Frame) /\ Descending(stack) BY DEF HeightInv, IInv, TypeOK
  <2> QED BY <2>1
<1>2. ASSUME stack # <<>>, Top.todo # <<>>
      PROVE  /\ Top.node \in Node /\ Rest(Top) \in Seq(Item) /\ Lower(Rest(Top), Top.node)
             /\ Head(Top.todo) \in Item /\ Head(Top.todo).node \in Node
             /\ Height[Head(Top.todo).node] < Height[Top.node]
  <2>1. stack[1] \in Frame /\ 1 \in 1..Len(stack) BY <1>1, <1>2
  <2>2. Top.node \in Node /\ Top.todo \in Seq(Item) BY <2>1, FrameNode DEF Top
  <2>3. Lower(Top.todo, Top.node) BY <1>1, <2>1 DEF Descending, Top
  <2>4. /\ Tail(Top.todo) \in Seq(Item) /\ Lower(Tail(Top.todo), Top.node)
        /\ Head(Top.todo) \in Item /\ Height[Head(Top.todo).node] < Height[Top.node]
    BY <1>2, <2>2, <2>3, RestLower
  <2>5. Head(Top.todo).node \in Node BY <2>4 DEF Item
  <2> QED BY <2>2, <2>4, <2>5 DEF Rest
<1>3. CASE SkipSeen
  <2>1. stack # <<>> /\ Top.todo # <<>> /\ stack' = <<After(Top, Rest(Top))>> \o Tail(stack)
    BY <1>3 DEF SkipSeen
  <2> QED BY <1>1, <1>2, <2>1, ChangeDescends DEF Top
<1>4. CASE EnterDefault
  <2> DEFINE item == Head(Top.todo)
             m == item.node
             below == Items(Ops(m), item.shift, FALSE)
  <2>1. /\ stack # <<>> /\ Top.todo # <<>> /\ Code(m) \in Default
        /\ stack' = <<After(Top, below \o Rest(Top))>> \o Tail(stack)
    BY <1>4 DEF EnterDefault
  <2>2. item.shift \in {-1, 0, 1} /\ m \in Node /\ Top.node \in Node
        /\ Height[m] < Height[Top.node]
    BY <1>2, <2>1 DEF Item
  <2>3. Code(m) \notin Records /\ Code(m) # "TYPE_DECL" BY <2>1 DEF Default, Records
  <2> HIDE DEF item, m
  <2>4. Ops(m) \in Seq(Node)
        /\ \A i \in 1..Len(Ops(m)) : Height[Op(m, i)] < Height[Top.node]
    BY <2>2, <2>3, OperandsGood
  <2>5. FALSE \in BOOLEAN OBVIOUS
  <2>6. /\ below \in Seq(Item) /\ Len(below) = Len(Ops(m))
        /\ \A k \in 1..Len(below) : below[k].node = Ops(m)[k]
    BY <2>2, <2>4, <2>5, ItemsType
  <2> HIDE DEF below
  <2>7. Lower(below, Top.node) BY <2>4, <2>6 DEF Lower, Op
  <2>8. below \o Rest(Top) \in Seq(Item) BY <1>2, <2>1, <2>6, ConcatProperties
  <2>9. Lower(below \o Rest(Top), Top.node) BY <1>2, <2>1, <2>2, <2>6, <2>7, ConcatLower
  <2> QED BY <1>1, <2>1, <2>8, <2>9, ChangeDescends DEF Top
<1>5. CASE Enter
  <2> DEFINE item == Head(Top.todo)
             u == <<After(Top, Rest(Top))>> \o Tail(stack)
             h == FrameOf(item)
  <2>1. stack # <<>> /\ Top.todo # <<>> /\ stack' = <<h>> \o u BY <1>5 DEF Enter
  <2>2. Descending(u) /\ u \in Seq(Frame) /\ u # <<>> /\ u[1].node = Top.node
    BY <1>1, <1>2, <2>1, ChangeDescends DEF Top
  <2>3. h.node = item.node /\ h.todo = Walks(item.node) BY DEF FrameOf
  <2>4. item.node \in Node /\ Height[item.node] < Height[Top.node] BY <1>2, <2>1
  <2>5. h \in Frame
    <3>1. StackOK(stack) /\ stack[1].todo # <<>> BY <2>1 DEF HeightInv, IInv, Top
    <3>2. stack' \in Seq(Frame)
      <4>1. IInv' BY EnterIInv, <1>5 DEF HeightInv
      <4> QED BY <4>1 DEF IInv, TypeOK
    <3> HIDE DEF h, u
    <3>3. 1 \in 1..Len(stack') /\ stack'[1] = h
      <4>1. Len(u) \in Nat BY <2>2
      <4>2. u \in Seq(Frame) BY <2>2
      <4> QED BY <2>1, <4>1, <4>2
    <3> QED BY <3>2, <3>3, ElementOfSeq
  <2> HIDE DEF item, u, h
  <2>6. Lower(h.todo, h.node) BY <2>3, <2>4, WalksType
  <2>7. Height[h.node] < Height[u[1].node] BY <2>2, <2>3, <2>4
  <2> QED BY <2>1, <2>2, <2>5, <2>6, <2>7, PushDescends
<1>6. CASE Leave
  <2>1. stack # <<>> /\ stack' = Tail(stack) BY <1>6 DEF Leave
  <2>2. /\ Len(stack') = Len(stack) - 1
        /\ \A i \in 1..Len(stack') : stack'[i] = stack[i + 1] /\ i + 1 \in 1..Len(stack)
    BY <1>1, <2>1
  <2>3. \A i \in 1..Len(stack') : Lower(stack'[i].todo, stack'[i].node)
    BY <1>1, <2>2 DEF Descending
  <2>4. ASSUME NEW i \in 1..(Len(stack') - 1)
        PROVE  Height[stack'[i].node] < Height[stack'[i + 1].node]
    <3>1. i \in 1..Len(stack') /\ i + 1 \in 1..Len(stack') /\ i + 1 \in 1..(Len(stack) - 1)
      BY <1>1, <2>2
    <3>2. stack'[i] = stack[i + 1] /\ stack'[i + 1] = stack[(i + 1) + 1] BY <2>2, <3>1
    <3> QED BY <1>1, <3>1, <3>2 DEF Descending
  <2> QED BY <2>3, <2>4 DEF Descending
<1>7. CASE EndFunction
  <2>1. stack' = <<>> BY <1>7 DEF EndFunction
  <2>2. Len(stack') = 0 BY <2>1, EmptyStack
  <2> QED BY <2>2 DEF Descending
<1>8. ASSUME NEW f \in Functions, StartFunction(f) PROVE Descending(stack')
  <2> DEFINE g == [node |-> f, todo |-> FunctionWalks(f), shift |-> 0, entry |-> walker_depth,
                   saved |-> walker_depth, resets |-> FALSE, location |-> FALSE, seen |-> {}]
  <2>1. stack' = <<g>> BY <1>8 DEF StartFunction
  <2>2. f \in Node /\ Code(f) = "FUNCTION" BY FunctionAssumption
  <2>3. Lower(g.todo, g.node) BY <2>2, FunctionWalksType DEF Good
  <2> HIDE DEF g
  <2>4. Len(stack') = 1 /\ stack'[1] = g BY <2>1
  <2> QED BY <2>3, <2>4 DEF Descending
<1>9. CASE UNCHANGED vars BY <1>1, <1>9 DEF vars
<1> QED BY <1>3, <1>4, <1>5, <1>6, <1>7, <1>8, <1>9 DEF Next, Walk

(* For every tree whose nodes are higher than their parts: no walk comes   *)
(* to the node it is a walk of, though the fields of a structure and the   *)
(* names of types refer back.                                              *)
THEOREM NeverInItself == Spec => []NothingInItself
<1>1. Init => HeightInv
  <2> SUFFICES ASSUME Init PROVE HeightInv OBVIOUS
  <2>1. Len(stack) = 0 BY EmptyStack DEF Init
  <2>2. Descending(stack) BY <2>1 DEF Descending
  <2> QED BY <2>2, InitIInv DEF HeightInv
<1>2. HeightInv /\ [Next]_vars => HeightInv'
  <2> SUFFICES ASSUME HeightInv, [Next]_vars PROVE HeightInv' OBVIOUS
  <2>1. IInv' BY NextIInv DEF HeightInv
  <2>2. Descending(stack') BY NextDescends
  <2>3. Descending(stack)' BY <2>2 DEF Descending, Lower
  <2> QED BY <2>1, <2>3 DEF HeightInv
<1>3. HeightInv => NothingInItself BY Distinct
<1> QED BY <1>1, <1>2, <1>3, PTL DEF Spec
=============================================================================
