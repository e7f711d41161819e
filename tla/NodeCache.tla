------------------------------ MODULE NodeCache ------------------------------
(***************************************************************************)
(* cache-nodes.c: the pointer map that numbers the tree nodes a plugin     *)
(* meets and queues them in the order it met them.  The splay tree beside  *)
(* it, sptree_nodes, is the same algorithm over another container.         *)
(*                                                                         *)
(* One cache lives from start_unit to finish_unit.  Any number of loops    *)
(* over pmap_nodes_next_node may be under way while nodes are inserted,    *)
(* each with its own `struct pmap_queue *idx'.                             *)
(***************************************************************************)
EXTENDS Naturals, Sequences, FiniteSets

CONSTANTS
  Nodes,      \* the tree nodes
  Null,       \* NULL_TREE
  Loops,      \* the callers' iterations
  IndexMod    \* 2^32: an index is an unsigned int

ASSUME NodesAssumption ==
  /\ IsFiniteSet(Nodes) /\ Null \notin Nodes
  /\ IndexMod \in Nat /\ Cardinality(Nodes) < IndexMod

VARIABLES
  live,     \* between pmap_nodes_init and pmap_nodes_finish
  index,    \* the last index given out
  pmap,     \* the pointer map: node to index
  queue,    \* the queued nodes, first to last
  idx,      \* each loop's entry: its place in the queue, 0 for NULL
  seen,     \* the nodes each loop was given since it last started
  ret       \* the last insert or lookup: the node and the index returned

cache == <<live, index, pmap, queue>>
loops == <<idx, seen>>
cacheVars == <<cache, loops, ret>>

Contains(n) == n \in DOMAIN pmap

Answer(n, i) == [of |-> n, index |-> i]

NoAnswer == Answer(Null, 0)

CacheInit ==
  /\ live = FALSE
  /\ index = 0 /\ pmap = [n \in {} |-> 0] /\ queue = <<>>
  /\ idx = [l \in Loops |-> 0] /\ seen = [l \in Loops |-> <<>>]
  /\ ret = NoAnswer

pmap_nodes_init ==
  /\ ~live
  /\ live' = TRUE
  /\ index' = 0 /\ pmap' = [n \in {} |-> 0] /\ queue' = <<>> /\ ret' = NoAnswer
  /\ UNCHANGED loops

(* The entries a loop still points to are freed with the queue, so no loop *)
(* outlives its cache.                                                     *)
pmap_nodes_finish ==
  /\ live /\ \A l \in Loops : idx[l] = 0
  /\ live' = FALSE
  /\ index' = 0 /\ pmap' = [n \in {} |-> 0] /\ queue' = <<>> /\ ret' = NoAnswer
  /\ seen' = [l \in Loops |-> <<>>]
  /\ UNCHANGED idx

NextIndex == (index + 1) % IndexMod

(* Mutant of InsertNew: the index is taken before it is incremented. *)
InsertStale(n) ==
  /\ index' = NextIndex
  /\ pmap' = [m \in DOMAIN pmap \cup {n} |-> IF m = n THEN index ELSE pmap[m]]
  /\ queue' = Append(queue, n)
  /\ ret' = Answer(n, index)

InsertNew(n) ==
  /\ index' = NextIndex
  /\ pmap' = [m \in DOMAIN pmap \cup {n} |-> IF m = n THEN NextIndex ELSE pmap[m]]
  /\ queue' = Append(queue, n)
  /\ ret' = Answer(n, NextIndex)

pmap_nodes_index_by_key(n) ==
  /\ live
  /\ ret' = Answer(n, IF Contains(n) THEN pmap[n] ELSE 0)
  /\ UNCHANGED <<cache, loops>>

(* Mutant of pmap_nodes_insert: NULL_TREE is not refused. *)
InsertNull(n) ==
  /\ live
  /\ IF Contains(n)
     THEN ret' = Answer(n, pmap[n]) /\ UNCHANGED <<index, pmap, queue>>
     ELSE InsertNew(n)
  /\ UNCHANGED <<live, loops>>

(* Mutant of pmap_nodes_insert: a known node is answered with the last     *)
(* index given out.                                                        *)
InsertLast(n) ==
  /\ live
  /\ IF n = Null
     THEN ret' = Answer(n, 0) /\ UNCHANGED <<index, pmap, queue>>
     ELSE IF Contains(n)
          THEN ret' = Answer(n, index) /\ UNCHANGED <<index, pmap, queue>>
          ELSE InsertNew(n)
  /\ UNCHANGED <<live, loops>>

pmap_nodes_insert(n) ==
  /\ live
  /\ IF n = Null
     THEN ret' = Answer(n, 0) /\ UNCHANGED <<index, pmap, queue>>
     ELSE IF Contains(n)
          THEN ret' = Answer(n, pmap[n]) /\ UNCHANGED <<index, pmap, queue>>
          ELSE InsertNew(n)
  /\ UNCHANGED <<live, loops>>

(* Mutant of NextEntry: the entry without a successor is taken for the end. *)
NextButLast(i) ==
  IF i + 1 < Len(queue) THEN i + 1 ELSE 0

(* The next entry, or the first one if the loop has not started: `idx' is  *)
(* NULL before the first call and again once the end was reported.         *)
NextEntry(i) ==
  IF i < Len(queue) THEN i + 1 ELSE 0

pmap_nodes_next_node(l) ==
  /\ live
  /\ idx' = [idx EXCEPT ![l] = NextEntry(@)]
  /\ seen' = [seen EXCEPT ![l] =
                (IF idx[l] = 0 THEN <<>> ELSE @)
                \o (IF idx'[l] = 0 THEN <<>> ELSE <<queue[idx'[l]]>>)]
  /\ UNCHANGED <<cache, ret>>

CacheNext ==
  \/ pmap_nodes_init
  \/ pmap_nodes_finish
  \/ \E n \in Nodes \cup {Null} : pmap_nodes_insert(n) \/ pmap_nodes_index_by_key(n)
  \/ \E l \in Loops : pmap_nodes_next_node(l)

CacheSpec == CacheInit /\ [][CacheNext]_cacheVars

(***************************************************************************)
(* Correctness.                                                            *)
(***************************************************************************)
(* The map holds an index for each queued node, a loop points into the     *)
(* queue or nowhere.                                                       *)
CacheTypeOK ==
  /\ live \in BOOLEAN
  /\ index \in 0..(IndexMod - 1)
  /\ ret \in [of : Nodes \cup {Null}, index : 0..(IndexMod - 1)]
  /\ DOMAIN pmap \subseteq Nodes
  /\ pmap \in [DOMAIN pmap -> 0..(IndexMod - 1)]
  /\ queue \in Seq(Nodes)
  /\ idx \in [Loops -> 0..Len(queue)]
  /\ seen \in [Loops -> Seq(Nodes)]

(* Map and queue stay two views of one numbering: the node in place i of   *)
(* the queue has index i, every node of the map is queued, and the counter *)
(* is the length.  No index handed out is 0, which callers take for a      *)
(* failure (ahaggar-ast.c:100,169,288).                                    *)
MapMatchesQueue ==
  /\ index = Len(queue)
  /\ DOMAIN pmap = {queue[i] : i \in 1..Len(queue)}
  /\ \A i \in 1..Len(queue) : pmap[queue[i]] = i

(* When a loop is told there is no more it has been given every node the   *)
(* cache holds at that moment, the ones inserted by its own body included. *)
LoopComplete ==
  [][\A l \in Loops : idx[l] # 0 /\ idx'[l] = 0 => seen[l] = queue]_cacheVars

Num == INSTANCE Numbering WITH num <- pmap, given <- index, answer <- ret

(* The cache numbers nodes in order of first insertion and forgets them    *)
(* only with the unit.                                                     *)
ImplementsNumbering == Num!NumSpec
=============================================================================
