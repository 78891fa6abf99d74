--------------------------------- MODULE Dfs ---------------------------------
(***************************************************************************)
(* CollectDFS (internal/traverser/dfs.go): a stack of addresses, each with *)
(* the depth at which it was met.  An address is visited once.  Its blocks *)
(* are read by a goroutine each, and their rows come together in the order *)
(* in which the goroutines report: an action is a round of the loop, and   *)
(* that order is what it leaves open.                                      *)
(***************************************************************************)
EXTENDS TxGraph

\* ParamsDFS.  The limit is GraphSizeLimit: 5_000 for the graph handler, 500_000
\* for the path handler.
CONSTANT Requests

ASSUME RequestsAssumption ==
  Requests \subseteq [depth : Int, flow : {"input", "output", "all"}, limit : Nat \ {0}]

VARIABLES
  asked,          \* the request
  stack,          \* a sequence of addresses with their depth
  visited,        \* the keys of graph.Addrs
  txs,            \* graph.Txs
  missed,         \* has a read of Redis failed so far? (history)
  pc              \* "loop" or "done"

vars == <<asked, stack, visited, txs, missed, pc>>

Entry(a, d) == [hash |-> a, depth |-> d]

Init ==
  /\ asked \in Requests
  /\ stack = <<Entry(Source, 0)>>
  /\ visited = {}
  /\ txs = {}
  /\ missed = FALSE
  /\ pc = "loop"

-----------------------------------------------------------------------------
\* Variant: the number of rows is not looked at.
Going_AnySize ==
  /\ stack # <<>>
  /\ Cardinality(visited) < asked.limit
  /\ asked.depth > 0

\* The condition of the loop.  depthCnt, which it compares with the depth of the
\* request, is never anything but 0.
Going ==
  /\ stack # <<>>
  /\ Cardinality(visited) < asked.limit
  /\ Cardinality(txs) < asked.limit
  /\ asked.depth > 0

Top == stack[Len(stack)]
Rest == SubSeq(stack, 1, Len(stack) - 1)

\* Variant: the depth of an address is not looked at.
Due_AnyDepth(e) == e.hash \notin visited

Due(e) == e.depth < asked.depth /\ e.hash \notin visited

\* getAddress: an address with too many transactions is not traversed, unless it
\* is the first.
Skipped(e) == e.depth # 0 /\ e.hash \in Hubs

\* Variant: the direction is not looked at.
Follows_AnyFlow(r, a) == r.from = a \/ r.to = a

\* Variant: the address is not looked at when all rows are asked for.
Follows_AnyRow(r, a) ==
  \/ asked.flow = "all"
  \/ asked.flow = "input" /\ r.to = a
  \/ asked.flow = "output" /\ r.from = a

\* The rows that blockTransactions selects.
Follows(r, a) ==
  \/ asked.flow # "input" /\ r.from = a
  \/ asked.flow # "output" /\ r.to = a

\* Variant: the payee is taken to be the other address.
Other_Payee(r, a) == r.to

\* The other address of a row of a.
Other(r, a) == IF r.to = a THEN r.from ELSE r.to

\* addressBlocks: the positions in the list of blocks of an address that are
\* read, within the range of the request.
Positions(a) ==
  {k \in DOMAIN Index[a] : k <= ListCap /\ InRange(Index[a][k])}

\* The rows of an address in the blocks at some of the positions of its list,
\* each as the position of its block and its own in the block.
RowAt(a, p) == Blob[Index[a][p.block]][p.row]

Selected(a, positions) ==
  {p \in [block : positions, row : UNION {DOMAIN Blob[Index[a][k]] : k \in positions}] :
     p.row \in DOMAIN Blob[Index[a][p.block]] /\ Follows(RowAt(a, p), a)}

\* The orders in which they can come: one block after the other, whichever of
\* them is first, and the rows of a block as they are stored.
Arrivals(P) ==
  {t \in [1..Cardinality(P) -> P] :
     /\ \A i, j \in DOMAIN t : i < j => t[i] # t[j]
     /\ \A i, j \in DOMAIN t : i < j /\ t[i].block = t[j].block => t[i].row < t[j].row
     /\ \A i, j, k \in DOMAIN t :
          i < j /\ j < k /\ t[i].block = t[k].block => t[j].block = t[i].block}

-----------------------------------------------------------------------------
\* Variant: the address is taken from the stack only to be visited.
Skip_Peeks ==
  /\ pc = "loop"
  /\ Going
  /\ ~Due(Top)
  /\ UNCHANGED <<asked, stack, visited, txs, missed, pc>>

\* The address has been visited, or is too far away.
Skip ==
  /\ pc = "loop"
  /\ Going
  /\ ~Due(Top)
  /\ stack' = Rest
  /\ UNCHANGED <<asked, visited, txs, missed, pc>>

\* The address is noted but not traversed: it has too many transactions, or the
\* list of its blocks cannot be read.
Note ==
  /\ pc = "loop"
  /\ Going
  /\ Due(Top)
  /\ \/ Skipped(Top) /\ UNCHANGED missed
     \/ missed' = TRUE
  /\ visited' = visited \cup {Top.hash}
  /\ stack' = Rest
  /\ UNCHANGED <<asked, txs, pc>>

\* The address is traversed: its rows are put in the graph, those of the blocks
\* that could be read, and their other ends on the stack.  A counter that cannot
\* be read is 0, so that a hub may be traversed as well.
Visit ==
  LET a == Top.hash
      next(p) == Entry(Other(RowAt(a, p), a), Top.depth + 1)
  IN
  /\ pc = "loop"
  /\ Going
  /\ Due(Top)
  /\ visited' = visited \cup {a}
  /\ \E failed \in SUBSET Positions(a) :
       LET P == Selected(a, Positions(a) \ failed) IN
       /\ missed' = (missed \/ failed # {} \/ Skipped(Top))
       /\ txs' = txs \cup {RowAt(a, p) : p \in P}
       /\ \E t \in Arrivals({p \in P : Other(RowAt(a, p), a) # a}) :
            stack' = Rest \o [i \in DOMAIN t |-> next(t[i])]
  /\ UNCHANGED <<asked, pc>>

Return ==
  /\ pc = "loop"
  /\ ~Going
  /\ pc' = "done"
  /\ UNCHANGED <<asked, stack, visited, txs, missed>>

Next == Skip \/ Note \/ Visit \/ Return

Spec == Init /\ [][Next]_vars

\* The handler runs until it answers.
FairSpec == Spec /\ WF_vars(Next)

-----------------------------------------------------------------------------
(* Properties.                                                             *)

TypeOK ==
  /\ asked \in Requests
  /\ stack \in Seq([hash : Address, depth : Nat])
  /\ \A i \in DOMAIN stack : stack[i].depth <= asked.depth \/ asked.depth < 0
  /\ visited \subseteq Address
  /\ txs \subseteq RowsInRange
  /\ missed \in BOOLEAN
  /\ pc \in {"loop", "done"}

\* The rows of the graph outgrow the limit by those of one address at the most,
\* and the addresses visited never do.
SizeKept ==
  /\ Cardinality(visited) <= asked.limit
  /\ \E a \in Address : Cardinality({r \in txs : a \notin Ends(r)}) < asked.limit

\* The rows that lead on from a set of addresses, and where they lead.
RowsAlong(S) == {r \in RowsInRange : \E a \in S : Follows(r, a)}
Blocked == Hubs \ {Source}

\* The addresses at most n hops from the source, by a way that crosses no hub.
Hops == {e \in Address \X Address :
           e[1] \notin Blocked /\ \E r \in RowsAlong({e[1]}) : e[2] \in Ends(r)}

Near(n) == Within(n, Hops)

\* A row is in the graph only if it leads on from an address less than the depth
\* asked for away, by a way that crosses no hub, unless a counter could not be read.
DepthSound ==
  ~missed /\ asked.depth > 0 => txs \subseteq RowsAlong(Near(asked.depth - 1) \ Blocked)

\* The request was answered as the loop would have it: nothing failed or was cut,
\* and it was not the limit that ended the loop.
Undisturbed == pc = "done" /\ ~missed /\ ListsFit /\ stack = <<>>

\* For depths 1 and 2 the answer has all of these rows.
ShallowComplete ==
  Undisturbed /\ asked.depth \in {1, 2} =>
    RowsAlong(Near(asked.depth - 1) \ Blocked) \subseteq txs

\* The README's "depth (query): Graph traversal depth" for any depth: every row
\* that is less than so many hops away is found.
DepthComplete ==
  Undisturbed /\ asked.depth > 0 => RowsAlong(Near(asked.depth - 1) \ Blocked) \subseteq txs

\* The loop ends on every graph.
Terminates == <>(pc = "done")

Traversal == INSTANCE Exploration WITH
               Row <- RowsInRange,
               flow <- asked.flow,
               graph <- txs,
               status <- IF pc = "done" THEN "answered" ELSE "running"

\* Every address in the graph is led to from the address asked for, by rows that
\* all go in the direction asked for.
Led == Traversal!Led

\* The traversal grows a graph from the source by rows that lead on from it in
\* the direction asked for, and never takes a row back.
ExplorationSpec == Traversal!Spec

=============================================================================
