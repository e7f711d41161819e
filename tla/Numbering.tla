------------------------------ MODULE Numbering ------------------------------
(***************************************************************************)
(* What the node caches of cache-nodes.c promise: each node is given a     *)
(* number the first time it is seen, the numbers are 1, 2, 3, ... in the   *)
(* order of first sight, a node keeps its number, and 0 is the answer only *)
(* for the null node or one never seen.                                    *)
(***************************************************************************)
EXTENDS Naturals

CONSTANTS Nodes, Null

VARIABLES
  num,      \* the numbered nodes and their numbers
  given,    \* how many were given out
  answer    \* the last call: the node asked about and its number

Known == DOMAIN num

NoAnswer == [of |-> Null, index |-> 0]

NumInit == num = [n \in {} |-> 0] /\ given = 0 /\ answer = NoAnswer

(* A node seen for the first time takes the next number. *)
Number(n) ==
  /\ n \notin Known
  /\ given' = given + 1 /\ answer' = [of |-> n, index |-> given']
  /\ num' = [m \in Known \cup {n} |-> IF m = n THEN given' ELSE num[m]]

(* A known node, or a question about one. *)
Recall(n) ==
  /\ answer' = [of |-> n, index |-> IF n \in Known THEN num[n] ELSE 0]
  /\ UNCHANGED <<num, given>>

Forget == num' = [n \in {} |-> 0] /\ given' = 0 /\ answer' = NoAnswer

NumNext ==
  \/ \E n \in Nodes : Number(n)
  \/ \E n \in Nodes \cup {Null} : Recall(n)
  \/ Forget

NumSpec == NumInit /\ [][NumNext]_<<num, given, answer>>
=============================================================================
