--------------------------------- MODULE Bfs ---------------------------------
(***************************************************************************)
(* CollectBFS (internal/traverser/root.go): a level of addresses at a time.*)
(* For a level the counters are read, then the lists of blocks, then each  *)
(* block is searched by a goroutine of its own; the goroutines share a     *)
(* limiter, which each of them tests before it looks at a row and takes    *)
(* from after it has kept one.                                             *)
(*                                                                         *)
(* The reads of the counters, and those of the lists, go on in parallel    *)
(* too, but they share nothing and are joined: one action each.            *)
(* The direction asked for does not reach CollectBFS.                      *)
(***************************************************************************)
EXTENDS TxGraph

\* A request has a depth and a direction.  The limit is a constant of the program,
\* GRAPH_LIMIT; it is with the request so that several can be looked at.
CONSTANT Requests

ASSUME RequestsAssumption ==
  Requests \subseteq [depth : Int, flow : {"input", "output", "all"}, limit : Nat \ {0}]

VARIABLES
  asked,         \* the request
  depth,         \* the levels still to go, this one included
  addrs,         \* the addresses of this level
  traverse,      \* those that NeedTraverse
  work,          \* for each block of this level, where its goroutine is
  found,         \* the rows the goroutines of this level have kept
  txs,           \* the rows of the levels that are over
  limiter,       \* AtomicLimiter.counter
  missed,        \* has a read of Redis failed so far? (history)
  pc             \* "counters", "blocks", "rows", "done" or "panicked"

vars == <<asked, depth, addrs, traverse, work, found, txs, limiter, missed, pc>>

Blocks == DOMAIN work

\* A goroutine is about to read its block, to look at a row, or to take from
\* the limiter for the row it has kept; or it has sent its result.
At(step, row) == [step |-> step, row |-> row]
Over == At("over", 0)
NoWork == [b \in {} |-> Over]

Goroutines(step) == {b \in Blocks : work[b].step = step}

Init ==
  /\ asked \in Requests
  /\ depth = asked.depth
  /\ addrs = {Source}
  /\ traverse = {}
  /\ work = NoWork
  /\ found = {}
  /\ txs = {}
  /\ limiter = asked.limit
  /\ missed = FALSE
  /\ pc = "counters"

-----------------------------------------------------------------------------
\* getAddressTransactions(depth 0) returns nil for the rows, and CollectBFS
\* dereferences it.
ZeroDepth ==
  /\ pc = "counters"
  /\ depth = 0
  /\ pc' = "panicked"
  /\ UNCHANGED <<asked, depth, addrs, traverse, work, found, txs, limiter, missed>>

\* setCounters.  GetAddressTxNumber returns 0 and no error when it cannot read
\* the counter, so an address whose read fails is traversed.
SetCounters ==
  /\ pc = "counters"
  /\ depth # 0
  /\ \E failed \in SUBSET addrs :
       /\ traverse' = (addrs \ Hubs) \cup failed
       /\ missed' = (missed \/ failed # {})
  /\ pc' = "blocks"
  /\ UNCHANGED <<asked, depth, addrs, work, found, txs, limiter>>

\* getBlocks, and the loop that starts the goroutines.  A list that cannot be
\* read is left out.
GetBlocks ==
  /\ pc = "blocks"
  /\ \E failed \in SUBSET traverse :
       /\ work' = [b \in UNION {AddressBlocks(a) : a \in traverse \ failed} |-> At("read", 1)]
       /\ missed' = (missed \/ failed # {})
  /\ pc' = "rows"
  /\ UNCHANGED <<asked, depth, addrs, traverse, found, txs, limiter>>

Move(b, w) ==
  /\ work' = [work EXCEPT ![b] = w]
  /\ UNCHANGED <<asked, depth, addrs, traverse, txs, pc>>

\* A block outside the range of the request has no rows to give.
SkipBlock(b) ==
  /\ work[b].step = "read"
  /\ ~InRange(b)
  /\ Move(b, Over)
  /\ UNCHANGED <<found, limiter, missed>>

\* Variant: a goroutine whose read fails returns without a word.
FailBlock_Silent(b) ==
  /\ work[b].step = "read"
  /\ InRange(b)
  /\ Move(b, At("gone", 0))
  /\ missed' = TRUE
  /\ UNCHANGED <<found, limiter>>

\* GetBlock fails, or the block is not there: the goroutine reports the error.
FailBlock(b) ==
  /\ work[b].step = "read"
  /\ InRange(b)
  /\ Move(b, Over)
  /\ missed' = TRUE
  /\ UNCHANGED <<found, limiter>>

ReadBlock(b) ==
  /\ work[b].step = "read"
  /\ InRange(b)
  /\ Move(b, At("row", 1))
  /\ UNCHANGED <<found, limiter, missed>>

\* The end of the block, or the limiter says that enough has been kept.
LeaveBlock(b) ==
  /\ work[b].step = "row"
  /\ work[b].row > Len(Blob[b]) \/ limiter <= 0
  /\ Move(b, Over)
  /\ UNCHANGED <<found, limiter, missed>>

\* Variant: a row that touches no address of the level is kept as well.
Wanted_Any(r) == traverse # {}

\* Variant: a row between addresses that are not traversed is kept.
Wanted_Hubs(r) == Ends(r) \cap addrs # {}

\* The four conditions on the ends of a row come to this: one of them is an
\* address of the level that is to be traversed.
Wanted(r) == Ends(r) \cap traverse # {}

\* Variant: the limiter is looked at when the block is read, and not again.
KeepRow_Unchecked(b) ==
  LET i == work[b].row IN
  /\ work[b].step = "row"
  /\ i <= Len(Blob[b])
  /\ i > 1 \/ limiter > 0
  /\ Wanted(Blob[b][i])
  /\ found' = found \cup {Blob[b][i]}
  /\ Move(b, At("consume", i))
  /\ UNCHANGED <<limiter, missed>>

\* The limiter is not used up, and the row is one of those looked for.
KeepRow(b) ==
  LET i == work[b].row IN
  /\ work[b].step = "row"
  /\ i <= Len(Blob[b])
  /\ limiter > 0
  /\ Wanted(Blob[b][i])
  /\ found' = found \cup {Blob[b][i]}
  /\ Move(b, At("consume", i))
  /\ UNCHANGED <<limiter, missed>>

PassRow(b) ==
  LET i == work[b].row IN
  /\ work[b].step = "row"
  /\ i <= Len(Blob[b])
  /\ limiter > 0
  /\ ~Wanted(Blob[b][i])
  /\ Move(b, At("row", i + 1))
  /\ UNCHANGED <<found, limiter, missed>>

\* limiter.Consume, an atomic operation of its own.
Consume(b) ==
  /\ work[b].step = "consume"
  /\ limiter' = limiter - 1
  /\ Move(b, At("row", work[b].row + 1))
  /\ UNCHANGED <<found, missed>>

\* A step of the goroutine of block b.
Search(b) ==
  \/ SkipBlock(b)
  \/ FailBlock(b)
  \/ ReadBlock(b)
  \/ LeaveBlock(b)
  \/ KeepRow(b)
  \/ PassRow(b)
  \/ Consume(b)

\* Every goroutine of the last level has reported.
Finish ==
  /\ pc = "rows"
  /\ Blocks = Goroutines("over")
  /\ depth = 1
  /\ txs' = txs \cup found
  /\ pc' = "done"
  /\ UNCHANGED <<asked, depth, addrs, traverse, work, found, limiter, missed>>

\* Variant: the level below is given one depth too little.
Below_Skips(d) == IF d < 0 THEN d ELSE d - 2

\* The depth that is left for the level below.  A negative depth comes to
\* neither 0 nor 1 on its way down, and one is as good as another.
Below(d) == IF d < 0 THEN d ELSE d - 1

\* Variant: only the receiving addresses are followed.
NextLevel_Payees ==
  /\ pc = "rows"
  /\ Blocks = Goroutines("over")
  /\ depth # 1
  /\ txs' = txs \cup found
  /\ addrs' = {r.to : r \in found} \ addrs
  /\ depth' = Below(depth)
  /\ traverse' = {}
  /\ work' = NoWork
  /\ found' = {}
  /\ pc' = "counters"
  /\ UNCHANGED <<asked, limiter, missed>>

\* Variant: the addresses of the level that is over stay marked.
NextLevel_Marked ==
  /\ pc = "rows"
  /\ Blocks = Goroutines("over")
  /\ depth # 1
  /\ txs' = txs \cup found
  /\ addrs' = AllEnds(found) \ addrs
  /\ depth' = Below(depth)
  /\ work' = NoWork
  /\ found' = {}
  /\ pc' = "counters"
  /\ UNCHANGED <<asked, traverse, limiter, missed>>

\* Every goroutine of a level has reported: the addresses that its rows lead
\* to, but for those of this very level, make up the next.
NextLevel ==
  /\ pc = "rows"
  /\ Blocks = Goroutines("over")
  /\ depth # 1
  /\ txs' = txs \cup found
  /\ addrs' = AllEnds(found) \ addrs
  /\ depth' = Below(depth)
  /\ traverse' = {}
  /\ work' = NoWork
  /\ found' = {}
  /\ pc' = "counters"
  /\ UNCHANGED <<asked, limiter, missed>>

Next ==
  \/ ZeroDepth
  \/ SetCounters
  \/ GetBlocks
  \/ \E b \in Blocks : Search(b)
  \/ Finish
  \/ NextLevel

Spec == Init /\ [][Next]_vars

\* The Go runtime runs a goroutine that can go on.
FairSpec == Spec /\ WF_vars(Next)

-----------------------------------------------------------------------------
(* Properties.                                                             *)

Steps == [step : {"read", "row", "consume", "over"}, row : Nat]

TypeOK ==
  /\ asked \in Requests
  /\ IF asked.depth < 0 THEN depth = asked.depth ELSE depth \in 0..asked.depth
  /\ addrs \subseteq Address
  /\ traverse \subseteq addrs
  /\ Blocks \subseteq Block
  /\ work \in [Blocks -> Steps]
  /\ found \subseteq RowsInRange
  /\ txs \subseteq RowsInRange
  /\ limiter \in Int
  /\ missed \in BOOLEAN
  /\ pc \in {"counters", "blocks", "rows", "done", "panicked"}

\* A goroutine is at a row that its block has, or just behind the last one.
RowsInBlock ==
  \A b \in Blocks :
    /\ work[b].step \in {"row", "consume"} => InRange(b) /\ work[b].row \in 1..(Len(Blob[b]) + 1)
    /\ work[b].step = "consume" => work[b].row <= Len(Blob[b])

\* The limit of the graph, with goroutines that test it and take from it in two
\* steps: it can be overrun, but never by as much as a row for each goroutine;
\* and there is no row in the graph that was not, or is not about to be, taken
\* from the limiter.
LimitKept ==
  /\ limiter > Cardinality(Goroutines("consume")) - Cardinality(Block)
  /\ Cardinality(txs \cup found) <= asked.limit - limiter + Cardinality(Goroutines("consume"))

\* No row of the graph is between two hubs: a hub may be in the graph, with the
\* transactions of those who have dealt with it, and never with those it has
\* with other hubs, unless a counter could not be read.
HubsAreLeaves == ~missed => \A r \in txs \cup found : ~(Ends(r) \subseteq Hubs)

\* The rows in range that touch a set of addresses.
RowsAt(S) == {r \in RowsInRange : Ends(r) \cap S # {}}

\* The addresses within n hops of the source, never crossing a hub.
Hops == {e \in Address \X Address :
           e[1] \notin Hubs /\ \E r \in RowsAt({e[1]}) : e[2] \in Ends(r)}

Ball(n) == Within(n, Hops)

\* When nothing has failed or been cut and the limit was not met, the answer to a
\* request for depth d has the rows of every address that is less than d hops
\* away, and no others.
BallComplete ==
  pc = "done" /\ ~missed /\ ListsFit /\ limiter > 0 =>
    txs = RowsAt(Ball(asked.depth - 1) \ Hubs)

\* Only the request for depth 0 meets a nil list of rows.
NoNilAnswer == pc = "panicked" => asked.depth = 0

\* Every request comes to an end, whatever reads fail on the way.  A negative
\* depth is not one of them: the recursion goes on when nothing is left to read.
Terminates == asked.depth >= 0 => <>(pc \in {"done", "panicked"})

\* The README's "flow (query): Transaction direction": the rows found around
\* the source go in the direction asked for.
FlowRespected ==
  asked.depth = 1 => \A r \in txs \cup found :
                       /\ asked.flow = "input" => r.to = Source
                       /\ asked.flow = "output" => r.from = Source

Traversal == INSTANCE Exploration WITH
               Row <- RowsInRange,
               flow <- "all",
               graph <- txs \cup found,
               status <- CASE pc = "done" -> "answered"
                           [] pc = "panicked" -> "failed"
                           [] OTHER -> "running"

\* Nothing in the graph is detached from the address asked for, while it grows
\* and in the answer.
Connected == Traversal!Led

\* The traversal grows a graph from the source by rows that touch it, and it
\* never takes a row back.
ExplorationSpec == Traversal!Spec

=============================================================================
