----------------------------- MODULE SimplePaths -----------------------------
(***************************************************************************)
(* The simple paths of a finite graph between two of its vertices: what    *)
(* AllPathsBetween looks for, and what the path handler gets from it.      *)
(***************************************************************************)
EXTENDS Naturals, Sequences, FiniteSets

CONSTANTS
  Node,        \* the addresses
  Adj,         \* the adjacency map; a vertex outside the graph has no neighbours
  Start, End

\* The sequences among which the simple paths are.
Walks == UNION {[1..n -> Node] : n \in 1..Cardinality(Node)}

\* A simple walk from Start.
IsWalk(p) ==
  /\ Len(p) > 0 => p[1] = Start
  /\ \A i \in 1..(Len(p) - 1) : p[i + 1] \in Adj[p[i]]
  /\ \A i, j \in 1..Len(p) : p[i] = p[j] => i = j

\* A simple path from Start to End.
IsPath(p) == Len(p) > 0 /\ p[Len(p)] = End /\ IsWalk(p)

Paths == {p \in Walks : IsPath(p)}

=============================================================================
