------------------------------ MODULE MCAllPaths ------------------------------
(***************************************************************************)
(* A graph for the model checker: a square n1-n2-n3-n4 with the diagonal   *)
(* n2-n4, and n5 hanging on n3.  Edges go both ways, as in the graph that  *)
(* newDominikGraph makes.                                                  *)
(***************************************************************************)
EXTENDS AllPaths

CONSTANTS n1, n2, n3, n4, n5

Edges == {{n1, n2}, {n2, n3}, {n3, n4}, {n4, n1}, {n2, n4}, {n3, n5}}

Both == [n \in Node |-> {m \in Node : {m, n} \in Edges}]

=============================================================================
