---------------------------- MODULE MCNodeCache ----------------------------
(* Three nodes and an unsigned int of two bits: every index but 0 is used. *)
EXTENDS NodeCache

CONSTANTS n1, n2, n3, l1, l2
=============================================================================
