------------------------------- MODULE Collapse -------------------------------
(***************************************************************************)
(* CollapseTxs (api/handlers/schemas/root.go): the edges between two       *)
(* addresses become one.  The edges come in any order, that of a Go map.   *)
(*                                                                         *)
(* A Go map is a reference: the collapsed edge takes over the              *)
(* FlowByCurrency map of the first edge of its pair, and the amounts of    *)
(* the later ones are added in that map.  heap holds the maps; each is     *)
(* named after the row that it was made for.                               *)
(***************************************************************************)
EXTENDS Integers, FiniteSets, Functions

CONSTANTS
  Addr, Hash, Currency,
  Row       \* lines of stored blocks

\* What an edge shows of a line, and the block of the line.
Edge == [hash : Hash, from : Addr, to : Addr, block : Nat,
         currency : Currency, amount : Nat, usd : Nat]

ASSUME RowAssumption == Row \subseteq Edge
ASSUME RowsAssumption == IsFiniteSet(Row)

VARIABLES
  graph,      \* the edges: the rows found by the traversal, by hash
  todo,       \* the edges that the loop has not come to
  heap,       \* the FlowByCurrency maps
  collapsed   \* txsMap: the collapsed edge of a pair of addresses

NoMap == [k \in {} |-> {}]

\* A line has its amount in the columns for ether or in those for the token,
\* and zeros in the others.
FlowByCurrency(r) == [c \in Currency |-> IF c = r.currency THEN r.amount ELSE 0]

\* The key of txsMap.
Pair(r) == <<r.from, r.to>>

\* CollapseTxs, before its loop.
CollapseTxs ==
  /\ todo' = graph
  /\ heap' = [r \in graph |-> FlowByCurrency(r)]
  /\ collapsed' = NoMap

\* The edges of this pair that the loop has come to.
Merged(k) == {r \in graph \ todo : Pair(r) = k}

\* The first edge of its pair: its map becomes that of the collapsed edge.
MergeFirst(r) ==
  /\ Pair(r) \notin DOMAIN collapsed
  /\ collapsed' = [k \in DOMAIN collapsed \cup {Pair(r)} |->
       IF k = Pair(r)
         THEN [id |-> Cardinality(DOMAIN collapsed), count |-> 1, usd |-> r.usd, flow |-> r]
         ELSE collapsed[k]]
  /\ UNCHANGED heap

\* Variant: the copy of the collapsed edge is not put back in the map.
MergeNext_NotPutBack(r) ==
  /\ Pair(r) \in DOMAIN collapsed
  /\ heap' = [heap EXCEPT ![collapsed[Pair(r)].flow] =
                [c \in Currency |-> @[c] + heap[r][c]]]
  /\ UNCHANGED collapsed

\* Variant: the amounts are added in the map of the edge that is merged.
MergeNext_OtherMap(r) ==
  /\ Pair(r) \in DOMAIN collapsed
  /\ collapsed' = [collapsed EXCEPT ![Pair(r)].count = @ + 1,
                                    ![Pair(r)].usd = @ + r.usd]
  /\ heap' = [heap EXCEPT ![r] =
                [c \in Currency |-> @[c] + heap[collapsed[Pair(r)].flow][c]]]

\* A later edge of its pair.
MergeNext(r) ==
  /\ Pair(r) \in DOMAIN collapsed
  /\ collapsed' = [collapsed EXCEPT ![Pair(r)].count = @ + 1,
                                    ![Pair(r)].usd = @ + r.usd]
  /\ heap' = [heap EXCEPT ![collapsed[Pair(r)].flow] =
                [c \in Currency |-> @[c] + heap[r][c]]]

\* A turn of the loop.
Merge(r) == todo' = todo \ {r} /\ (MergeFirst(r) \/ MergeNext(r))

\* The result has every edge of txsMap, and each pair of addresses once.
CollapsedTxs == DOMAIN collapsed

-----------------------------------------------------------------------------
(* Properties.                                                             *)

CollapsedEdge == [id : Nat, count : Nat, usd : Nat, flow : Row]

CollapseTypeOK ==
  /\ graph \subseteq Row
  /\ todo \subseteq graph
  /\ DOMAIN heap \subseteq graph
  /\ heap \in [DOMAIN heap -> [Currency -> Nat]]
  /\ DOMAIN collapsed \subseteq Addr \X Addr
  /\ collapsed \in [DOMAIN collapsed -> CollapsedEdge]

\* Each pair met so far has one collapsed edge, which counts the edges of that
\* pair, no more and no fewer, and no two of them have the same id.  The map of a
\* collapsed edge is that of one of its own edges, and every other map is as it
\* was made: what is added for one pair is never seen by another, nor in an edge
\* that the loop has yet to read.
MapsKept ==
  /\ DOMAIN heap # {} =>
       /\ DOMAIN collapsed = {Pair(r) : r \in graph \ todo}
       /\ \A r \in graph : \/ heap[r] = FlowByCurrency(r)
                           \/ r \notin todo /\ r = collapsed[Pair(r)].flow
  /\ \A k \in DOMAIN collapsed :
       /\ collapsed[k].flow \in Merged(k)
       /\ collapsed[k].count = Cardinality(Merged(k))
       /\ \A l \in DOMAIN collapsed : collapsed[k].id = collapsed[l].id => k = l

Dollars == [r \in Row |-> r.usd]
AmountIn(c) == [r \in Row |-> FlowByCurrency(r)[c]]

\* Nothing is lost or counted twice, whatever the order: a collapsed edge has the
\* dollars, and in its map for each currency the amounts, of all its edges.
Conserved ==
  \A k \in DOMAIN collapsed :
    /\ collapsed[k].usd = SumFunctionOnSet(Dollars, Merged(k))
    /\ \A c \in Currency :
         heap[collapsed[k].flow][c] = SumFunctionOnSet(AmountIn(c), Merged(k))

=============================================================================
