------------------------------ MODULE BfsProofs ------------------------------
(***************************************************************************)
(* The breadth-first traversal: the limiter is overrun by less than one    *)
(* row for each goroutine, hubs stay leaves, the graph is attached to the  *)
(* source and only grows, on every content of Redis; the answer has what   *)
(* is near enough, and nothing else, when no read fails; and a request for *)
(* no negative depth comes to its end.                                     *)
(***************************************************************************)
EXTENDS Bfs, TxGraphProofs, FiniteSetTheorems, TLAPS

\* Between the levels there are no goroutines, at the end none is at work, and
\* depth 0 is only met by those who ask for it.
Phases ==
  /\ pc \in {"counters", "blocks"} => Blocks = {}
  /\ pc # "rows" => Blocks = Goroutines("over")
  /\ pc \in {"blocks", "rows"} => depth # 0
  /\ depth = 0 => asked.depth = 0

\* The addresses of a level are in the graph.
Attached == addrs \subseteq Traversal!Known

\* No hub is to be traversed, unless its counter could not be read.
HubsAvoided == ~missed => traverse \cap Hubs = {}

\* The inductive invariant.  LimitKept needs to know that no goroutine outlives
\* its level, and HubsAreLeaves that no hub is to be traversed.
IInv ==
  /\ TypeOK
  /\ RowsInBlock
  /\ Phases
  /\ Attached
  /\ LimitKept
  /\ IsFiniteSet(txs \cup found)
  /\ HubsAvoided
  /\ HubsAreLeaves

-----------------------------------------------------------------------------
(* Where the goroutines are.                                               *)

LEMMA BlockCard == Cardinality(Block) \in Nat /\ IsFiniteSet(Block)
  BY BlockAssumption, FS_CardinalityType

LEMMA ConsumersFinite ==
  ASSUME TypeOK
  PROVE  /\ Goroutines("consume") \subseteq Block
         /\ IsFiniteSet(Goroutines("consume"))
         /\ Cardinality(Goroutines("consume")) \in Nat
         /\ Cardinality(Goroutines("consume")) <= Cardinality(Block)
<1>1. Goroutines("consume") \subseteq Block
  BY DEF TypeOK, Goroutines
<1>2. IsFiniteSet(Goroutines("consume")) /\ Cardinality(Goroutines("consume")) <= Cardinality(Block)
  BY <1>1, BlockCard, FS_Subset
<1> QED
  BY <1>1, <1>2, FS_CardinalityType

\* A goroutine that moves changes its own step and no other.
LEMMA MoveProps ==
  ASSUME TypeOK, NEW b \in Blocks, NEW w \in Steps, work' = [work EXCEPT ![b] = w]
  PROVE  /\ Blocks' = Blocks
         /\ work' \in [Blocks -> Steps]
         /\ work'[b] = w
         /\ \A d \in Blocks : d # b => work'[d] = work[d]
         /\ Goroutines("consume")' =
              IF w.step = "consume" THEN Goroutines("consume") \cup {b}
                                    ELSE Goroutines("consume") \ {b}
<1>1. work \in [Blocks -> Steps]
  BY DEF TypeOK
<1>2. /\ Blocks' = Blocks
      /\ work' \in [Blocks -> Steps]
      /\ work'[b] = w
      /\ \A d \in Blocks : d # b => work'[d] = work[d]
  BY <1>1 DEF Blocks
<1>3. Goroutines("consume")' = {d \in Blocks : work'[d].step = "consume"}
  BY <1>2 DEF Goroutines
<1> QED
  BY <1>2, <1>3 DEF Goroutines

\* A row of a block in range is one of those that may be found.
LEMMA RowFound ==
  ASSUME IInv, NEW b \in Blocks, work[b].step \in {"row", "consume"},
         work[b].row <= Len(Blob[b])
  PROVE  Blob[b][work[b].row] \in RowsInRange
<1>1. /\ b \in Block /\ InRange(b) /\ work[b].row \in 1..(Len(Blob[b]) + 1)
      /\ Blob[b] \in Seq(Row)
  BY BlobAssumption DEF IInv, TypeOK, RowsInBlock
<1>2. work[b].row \in 1..Len(Blob[b]) /\ 1..Len(Blob[b]) = DOMAIN Blob[b]
  BY <1>1
<1>3. Blob[b][work[b].row] \in Row
  BY <1>1, <1>2
<1> QED
  BY <1>1, <1>2, <1>3 DEF RowsInRange

LEMMA RequestProps ==
  ASSUME asked \in Requests
  PROVE  asked.depth \in Int /\ asked.limit \in Nat \ {0}
  BY RequestsAssumption

LEMMA RowEnds ==
  ASSUME NEW r \in RowsInRange
  PROVE  r.from \in Address /\ r.to \in Address
  BY RowAssumption DEF RowsInRange

-----------------------------------------------------------------------------
(* A step of a goroutine.                                                  *)

\* What every such step keeps.
LEMMA MoveStep ==
  ASSUME IInv, NEW b \in Blocks, NEW w \in Steps, Move(b, w), work[b].step # "over",
         w.step \in {"row", "consume"} => InRange(b) /\ w.row \in 1..(Len(Blob[b]) + 1),
         w.step = "consume" => w.row <= Len(Blob[b])
  PROVE  /\ asked' \in Requests
         /\ IF asked'.depth < 0 THEN depth' = asked'.depth ELSE depth' \in 0..asked'.depth
         /\ addrs' \subseteq Address /\ traverse' \subseteq addrs'
         /\ Blocks' \subseteq Block /\ work' \in [Blocks' -> Steps]
         /\ txs' \subseteq RowsInRange
         /\ pc' \in {"counters", "blocks", "rows", "done", "panicked"}
         /\ RowsInBlock'
         /\ Phases'
<1>1. /\ Blocks' = Blocks
      /\ work' \in [Blocks -> Steps]
      /\ work'[b] = w
      /\ \A d \in Blocks : d # b => work'[d] = work[d]
  BY MoveProps DEF IInv, Move
<1>2. UNCHANGED <<asked, depth, addrs, traverse, txs, pc>>
  BY DEF Move
<1>3. RowsInBlock'
  <2> SUFFICES ASSUME NEW d \in Blocks
               PROVE  /\ work'[d].step \in {"row", "consume"}
                           => InRange(d) /\ work'[d].row \in 1..(Len(Blob[d]) + 1)
                      /\ work'[d].step = "consume" => work'[d].row <= Len(Blob[d])
    BY <1>1 DEF RowsInBlock
  <2>1. CASE d = b
    BY <1>1, <2>1
  <2>2. CASE d # b
    BY <1>1, <2>2 DEF IInv, RowsInBlock
  <2> QED
    BY <2>1, <2>2
<1>4. pc = "rows"
  BY DEF IInv, Phases, Goroutines
<1>5. Phases'
  BY <1>1, <1>2, <1>4 DEF IInv, Phases
<1> QED
  BY <1>1, <1>2, <1>3, <1>5 DEF IInv, TypeOK

\* A step that neither keeps a row nor takes from the limiter.
LEMMA PlainMove ==
  ASSUME IInv, NEW b \in Blocks, NEW w \in Steps, Move(b, w), UNCHANGED <<found, limiter>>,
         work[b].step \in {"read", "row"}, w.step # "consume",
         missed' \in BOOLEAN, missed => missed',
         w.step = "row" => InRange(b) /\ w.row \in 1..(Len(Blob[b]) + 1)
  PROVE  IInv'
<1>1. Goroutines("consume")' = Goroutines("consume")
  <2>1. b \notin Goroutines("consume")
    BY DEF Goroutines
  <2>2. TypeOK /\ work' = [work EXCEPT ![b] = w]
    BY DEF IInv, Move
  <2>3. Goroutines("consume")' = Goroutines("consume") \ {b}
    BY <2>2, MoveProps
  <2> QED
    BY <2>1, <2>3
<1>2. UNCHANGED <<asked, depth, addrs, traverse, txs, pc, found, limiter>>
  BY DEF Move
<1>3. TypeOK' /\ RowsInBlock' /\ Phases'
  BY <1>2, MoveStep DEF IInv, TypeOK
<1>4. LimitKept'
  BY <1>1, <1>2 DEF IInv, LimitKept
<1>5. Attached'
  BY <1>2 DEF IInv, Attached, Traversal!Known
<1>6. HubsAvoided' /\ HubsAreLeaves'
  BY <1>2 DEF IInv, HubsAvoided, HubsAreLeaves
<1> QED
  BY <1>2, <1>3, <1>4, <1>5, <1>6 DEF IInv

\* The row that is kept has an end among the addresses to traverse.
LEMMA KeepRowStep ==
  ASSUME IInv, NEW b \in Blocks, KeepRow(b)
  PROVE  /\ IInv'
         /\ \E r \in RowsInRange :
              found' = found \cup {r} /\ Ends(r) \cap Traversal!Known # {}
<1> DEFINE i == work[b].row
           r == Blob[b][i]
           C == Goroutines("consume")
<1>1. /\ work[b].step = "row" /\ i <= Len(Blob[b]) /\ limiter > 0 /\ Wanted(r)
      /\ found' = found \cup {r} /\ Move(b, At("consume", i)) /\ limiter' = limiter
      /\ missed' = missed
  BY DEF KeepRow
<1>2. /\ InRange(b) /\ i \in 1..(Len(Blob[b]) + 1) /\ i \in Nat
  BY <1>1 DEF IInv, RowsInBlock
<1>3. r \in RowsInRange
  BY <1>1, RowFound
<1>4. At("consume", i) \in Steps /\ At("consume", i).step = "consume" /\ At("consume", i).row = i
  BY <1>2 DEF At, Steps
<1>5. UNCHANGED <<asked, depth, addrs, traverse, txs, pc>>
  BY <1>1 DEF Move
<1>6. C' = C \cup {b} /\ b \notin C
  BY <1>1, <1>4, MoveProps DEF IInv, Move, Goroutines
<1> HIDE DEF i, r, C
<1>7. TypeOK' /\ RowsInBlock' /\ Phases'
  BY <1>1, <1>2, <1>3, <1>4, MoveStep DEF IInv, TypeOK
<1>8. /\ IsFiniteSet(C) /\ Cardinality(C) \in Nat /\ Cardinality(C') \in Nat
      /\ Cardinality(C') <= Cardinality(Block) /\ Cardinality(C') = Cardinality(C) + 1
  <2>1. IsFiniteSet(C) /\ Cardinality(C) \in Nat
    BY ConsumersFinite DEF IInv, C
  <2>2. Cardinality(C') = Cardinality(C) + 1
    BY <1>6, <2>1, FS_AddElement
  <2>3. C' \subseteq Block
    BY <1>6, ConsumersFinite DEF IInv, TypeOK, C
  <2>4. Cardinality(C') <= Cardinality(Block)
    BY <2>3, BlockCard, FS_Subset
  <2> QED
    BY <2>1, <2>2, <2>4
<1>9. /\ IsFiniteSet(txs' \cup found')
      /\ Cardinality(txs' \cup found') <= Cardinality(txs \cup found) + 1
      /\ Cardinality(txs \cup found) \in Nat /\ Cardinality(txs' \cup found') \in Nat
  <2>1. IsFiniteSet(txs \cup found)
    BY DEF IInv
  <2>2. txs' \cup found' = (txs \cup found) \cup {r}
    BY <1>1, <1>5
  <2> QED
    BY <2>1, <2>2, FS_AddElement, FS_CardinalityType
<1>10. LimitKept'
  <2>1. limiter \in Int /\ asked.limit \in Nat
        /\ Cardinality(txs \cup found) <= asked.limit - limiter + Cardinality(C)
    BY RequestProps DEF IInv, TypeOK, LimitKept, C
  <2>2. limiter > Cardinality(C') - Cardinality(Block)
    BY <1>1, <1>8, <2>1, BlockCard
  <2>3. Cardinality(txs' \cup found') <= asked.limit - limiter + Cardinality(C')
    BY <1>8, <1>9, <2>1
  <2> QED
    BY <1>1, <1>5, <2>2, <2>3 DEF LimitKept, C
<1>11. Attached'
  BY <1>1, <1>5 DEF IInv, Attached, Traversal!Known
<1>12. HubsAvoided' /\ HubsAreLeaves'
  <2>1. ASSUME ~missed PROVE ~(Ends(r) \subseteq Hubs)
    BY <1>1, <2>1 DEF IInv, HubsAvoided, Wanted
  <2> QED
    BY <1>1, <1>5, <2>1 DEF IInv, HubsAvoided, HubsAreLeaves
<1>13. Ends(r) \cap Traversal!Known # {}
  BY <1>1 DEF Wanted, IInv, TypeOK, Attached
<1> QED
  BY <1>1, <1>3, <1>7, <1>9, <1>10, <1>11, <1>12, <1>13 DEF IInv

\* The limiter pays for a row that has been kept.
LEMMA ConsumeStep ==
  ASSUME IInv, NEW b \in Blocks, Consume(b)
  PROVE  IInv' /\ found' = found
<1> DEFINE i == work[b].row
           C == Goroutines("consume")
<1>1. /\ work[b].step = "consume" /\ limiter' = limiter - 1 /\ found' = found /\ missed' = missed
      /\ Move(b, At("row", i + 1))
  BY DEF Consume
<1>2. InRange(b) /\ i \in 1..(Len(Blob[b]) + 1) /\ i <= Len(Blob[b]) /\ Len(Blob[b]) \in Nat
  <2>1. b \in Block /\ Blob[b] \in Seq(Row)
    BY BlobAssumption DEF IInv, TypeOK
  <2> QED
    BY <1>1, <2>1 DEF IInv, RowsInBlock
<1>3. /\ At("row", i + 1) \in Steps /\ At("row", i + 1).step = "row"
      /\ At("row", i + 1).row \in 1..(Len(Blob[b]) + 1)
  BY <1>2 DEF At, Steps
<1>4. UNCHANGED <<asked, depth, addrs, traverse, txs, pc>>
  BY <1>1 DEF Move
<1>5. C' = C \ {b} /\ b \in C
  BY <1>1, <1>3, MoveProps DEF IInv, Move, Goroutines
<1> HIDE DEF i, C
<1>6. TypeOK' /\ RowsInBlock' /\ Phases'
  BY <1>1, <1>2, <1>3, MoveStep DEF IInv, TypeOK
<1>7. Cardinality(C') = Cardinality(C) - 1 /\ Cardinality(C) \in Nat
  BY <1>5, ConsumersFinite, FS_RemoveElement DEF IInv, C
<1>8. LimitKept'
  <2>1. /\ limiter \in Int /\ asked.limit \in Nat /\ Cardinality(Block) \in Nat
        /\ Cardinality(txs \cup found) <= asked.limit - limiter + Cardinality(C)
        /\ limiter > Cardinality(C) - Cardinality(Block)
    BY RequestProps, BlockCard DEF IInv, TypeOK, LimitKept, C
  <2>2. limiter - 1 > Cardinality(C') - Cardinality(Block)
    BY <1>7, <2>1
  <2>3. asked.limit - (limiter - 1) + Cardinality(C') = asked.limit - limiter + Cardinality(C)
    BY <1>7, <2>1
  <2> QED
    BY <1>1, <1>4, <2>1, <2>2, <2>3 DEF LimitKept, C
<1>9. Attached'
  BY <1>1, <1>4 DEF IInv, Attached, Traversal!Known
<1>10. HubsAvoided' /\ HubsAreLeaves'
  BY <1>1, <1>4 DEF IInv, HubsAvoided, HubsAreLeaves
<1> QED
  BY <1>1, <1>4, <1>6, <1>8, <1>9, <1>10 DEF IInv

\* A step of a goroutine keeps the invariant, and adds at most a row that touches
\* the graph.
LEMMA SearchStep ==
  ASSUME IInv, NEW b \in Blocks, Search(b)
  PROVE  /\ IInv' /\ UNCHANGED <<txs, pc>>
         /\ \/ found' = found
            \/ \E r \in RowsInRange :
                 found' = found \cup {r} /\ Ends(r) \cap Traversal!Known # {}
<1>1. b \in Block /\ Len(Blob[b]) \in Nat /\ work[b].row \in Nat
  BY BlobAssumption DEF IInv, TypeOK, Steps
<1>2. Over \in Steps /\ Over.step = "over" /\ missed \in BOOLEAN
  BY DEF Over, At, Steps, IInv, TypeOK
<1>3. CASE SkipBlock(b)
  BY <1>2, <1>3, PlainMove DEF SkipBlock, Move
<1>4. CASE ReadBlock(b)
  <2>1. At("row", 1) \in Steps /\ At("row", 1).step = "row" /\ At("row", 1).row \in 1..(Len(Blob[b]) + 1)
    BY <1>1 DEF At, Steps
  <2> QED
    BY <1>2, <1>4, <2>1, PlainMove DEF ReadBlock, Move
<1>5. CASE LeaveBlock(b)
  BY <1>2, <1>5, PlainMove DEF LeaveBlock, Move
<1>6. CASE KeepRow(b)
  BY <1>6, KeepRowStep DEF KeepRow, Move
<1>7. CASE PassRow(b)
  <2> DEFINE i == work[b].row
  <2>1. work[b].step = "row" /\ i <= Len(Blob[b]) /\ Move(b, At("row", i + 1)) /\ UNCHANGED <<found, limiter, missed>>
    BY <1>7 DEF PassRow
  <2>2. InRange(b) /\ i \in 1..(Len(Blob[b]) + 1)
    BY <2>1 DEF IInv, RowsInBlock
  <2>3. /\ At("row", i + 1) \in Steps /\ At("row", i + 1).step = "row"
        /\ At("row", i + 1).row \in 1..(Len(Blob[b]) + 1)
    BY <1>1, <2>1, <2>2 DEF At, Steps
  <2> QED
    BY <1>2, <2>1, <2>2, <2>3, PlainMove DEF Move
<1>8. CASE Consume(b)
  BY <1>8, ConsumeStep DEF Consume, Move
<1>9. CASE FailBlock(b)
  BY <1>2, <1>9, PlainMove DEF FailBlock, Move
<1> QED
  BY <1>3, <1>4, <1>5, <1>6, <1>7, <1>8, <1>9 DEF Search

-----------------------------------------------------------------------------
(* The steps between the levels.                                           *)

LEMMA NoConsumers == ASSUME Blocks = {} PROVE Goroutines("consume") = {}
  BY DEF Goroutines

\* The empty function has no goroutine.
LEMMA NoWorkProps ==
  ASSUME work' = NoWork
  PROVE  Blocks' = {} /\ work' \in [Blocks' -> Steps] /\ Goroutines("consume")' = {}
  BY DEF NoWork, Blocks, Goroutines

LEMMA CountersStep ==
  ASSUME IInv, SetCounters \/ ZeroDepth
  PROVE  IInv' /\ UNCHANGED <<txs, found>>
<1>1. UNCHANGED <<asked, depth, addrs, work, found, txs, limiter>>
  BY DEF SetCounters, ZeroDepth
<1>2. /\ pc' \in {"counters", "blocks", "rows", "done", "panicked"}
      /\ pc' \in {"blocks", "rows"} => depth # 0
      /\ pc' \in {"counters", "blocks"} => Blocks = {}
  BY DEF SetCounters, ZeroDepth, IInv, TypeOK, Phases
<1>3. traverse' \subseteq addrs /\ HubsAvoided' /\ missed' \in BOOLEAN /\ (missed => missed')
  <2>1. CASE ZeroDepth
    BY <2>1 DEF ZeroDepth, IInv, TypeOK, HubsAvoided
  <2>2. CASE SetCounters
    <3>1. PICK failed \in SUBSET addrs :
            /\ traverse' = (addrs \ Hubs) \cup failed
            /\ missed' = (missed \/ failed # {})
      BY <2>2 DEF SetCounters
    <3> QED
      BY <3>1 DEF IInv, TypeOK, HubsAvoided
  <2> QED
    BY <2>1, <2>2
<1>4. TypeOK'
  BY <1>1, <1>2, <1>3 DEF IInv, TypeOK, Blocks
<1>5. RowsInBlock'
  BY <1>1 DEF IInv, RowsInBlock, Blocks
<1>6. Phases'
  <2>1. Blocks = {} /\ Goroutines("over") = {}
    BY DEF SetCounters, ZeroDepth, IInv, Phases, Goroutines
  <2>2. Blocks' = {} /\ Goroutines("over")' = {}
    BY <1>1, <2>1 DEF Blocks, Goroutines
  <2> QED
    BY <1>1, <1>2, <2>2 DEF IInv, Phases
<1>7. LimitKept'
  BY <1>1 DEF IInv, LimitKept, Goroutines, Blocks
<1>8. Attached' /\ HubsAreLeaves'
  BY <1>1, <1>3 DEF IInv, Attached, Traversal!Known, HubsAreLeaves
<1> QED
  BY <1>1, <1>3, <1>4, <1>5, <1>6, <1>7, <1>8 DEF IInv

LEMMA GetBlocksStep ==
  ASSUME IInv, GetBlocks
  PROVE  IInv' /\ UNCHANGED <<txs, found>>
<1>1. UNCHANGED <<asked, depth, addrs, traverse, found, txs, limiter>> /\ pc' = "rows"
  BY DEF GetBlocks
<1>2. PICK failed \in SUBSET traverse :
        /\ work' = [b \in UNION {AddressBlocks(a) : a \in traverse \ failed} |-> At("read", 1)]
        /\ missed' = (missed \/ failed # {})
  BY DEF GetBlocks
<1> DEFINE B == UNION {AddressBlocks(a) : a \in traverse \ failed}
<1>3. B \subseteq Block
  <2>1. \A a \in Address : AddressBlocks(a) \subseteq Block
    BY IndexAssumption DEF AddressBlocks
  <2> QED
    BY <2>1 DEF IInv, TypeOK
<1>4. At("read", 1) \in Steps /\ At("read", 1).step = "read"
  BY DEF At, Steps
<1>5. /\ Blocks' = B /\ work' \in [B -> Steps]
      /\ \A b \in B : work'[b].step = "read"
  BY <1>2, <1>4 DEF Blocks
<1> HIDE DEF B
<1>6. Goroutines("consume")' = {} /\ Goroutines("consume") = {}
  BY <1>5, NoConsumers DEF Goroutines, IInv, Phases, GetBlocks
<1>7. TypeOK'
  BY <1>1, <1>2, <1>3, <1>5 DEF IInv, TypeOK
<1>8. RowsInBlock' /\ Phases'
  BY <1>1, <1>5 DEF IInv, RowsInBlock, Phases, GetBlocks
<1>9. LimitKept'
  BY <1>1, <1>6 DEF IInv, LimitKept
<1>10. Attached' /\ HubsAvoided' /\ HubsAreLeaves'
  BY <1>1, <1>2 DEF IInv, Attached, Traversal!Known, HubsAvoided, HubsAreLeaves
<1> QED
  BY <1>1, <1>7, <1>8, <1>9, <1>10 DEF IInv

LEMMA FinishStep ==
  ASSUME IInv, Finish
  PROVE  IInv' /\ txs' \cup found' = txs \cup found
<1>1. /\ UNCHANGED <<asked, depth, addrs, traverse, work, found, limiter, missed>>
      /\ pc' = "done" /\ txs' = txs \cup found
  BY DEF Finish
<1>2. txs' \cup found' = txs \cup found
  BY <1>1
<1>3. TypeOK'
  BY <1>1 DEF IInv, TypeOK, Blocks
<1>4. RowsInBlock' /\ Phases'
  <2>1. Blocks' = Blocks /\ Goroutines("over")' = Goroutines("over") /\ Blocks = Goroutines("over")
    BY <1>1 DEF Finish, Blocks, Goroutines
  <2>2. RowsInBlock'
    BY <1>1, <2>1 DEF IInv, RowsInBlock
  <2> QED
    BY <1>1, <2>1, <2>2 DEF IInv, Phases
<1>5. LimitKept'
  <2>1. Goroutines("consume")' = Goroutines("consume")
    BY <1>1 DEF Goroutines, Blocks
  <2> QED
    BY <1>1, <1>2, <2>1 DEF IInv, LimitKept
<1>6. Attached' /\ HubsAvoided' /\ HubsAreLeaves'
  BY <1>1, <1>2 DEF IInv, Attached, Traversal!Known, HubsAvoided, HubsAreLeaves
<1> QED
  BY <1>2, <1>3, <1>4, <1>5, <1>6 DEF IInv

LEMMA NextLevelStep ==
  ASSUME IInv, NextLevel
  PROVE  IInv' /\ txs' \cup found' = txs \cup found
<1>1. /\ UNCHANGED <<asked, limiter, missed>> /\ pc' = "counters"
      /\ txs' = txs \cup found /\ found' = {} /\ traverse' = {}
      /\ addrs' = AllEnds(found) \ addrs
      /\ depth' = Below(depth) /\ depth # 1 /\ work' = NoWork
      /\ Blocks = Goroutines("over") /\ pc = "rows"
  BY DEF NextLevel
<1>2. txs' \cup found' = txs \cup found
  BY <1>1
<1>3. Blocks' = {} /\ work' \in [Blocks' -> Steps] /\ Goroutines("consume")' = {}
  BY <1>1, NoWorkProps
<1>4. Goroutines("consume") = {}
  BY <1>1 DEF Goroutines
<1>5. /\ IF asked.depth < 0 THEN depth' = asked.depth ELSE depth' \in 0..asked.depth
      /\ depth' # 0
  <2>1. /\ asked.depth \in Int /\ depth # 0 /\ depth # 1
        /\ IF asked.depth < 0 THEN depth = asked.depth ELSE depth \in 0..asked.depth
    BY <1>1, RequestProps DEF IInv, TypeOK, Phases
  <2> QED
    BY <1>1, <2>1 DEF Below
<1>6. addrs' \subseteq Address
  <2>1. \A r \in found : Ends(r) \subseteq Address
    BY RowEnds DEF Ends, IInv, TypeOK
  <2> QED
    BY <1>1, <2>1 DEF AllEnds
<1>7. TypeOK'
  BY <1>1, <1>3, <1>5, <1>6 DEF IInv, TypeOK
<1>8. RowsInBlock' /\ Phases'
  BY <1>1, <1>3, <1>5 DEF RowsInBlock, Phases, Goroutines
<1>9. LimitKept'
  BY <1>1, <1>2, <1>3, <1>4 DEF IInv, LimitKept
<1>10. Attached'
  <2>1. AllEnds(found) \subseteq Traversal!Known
    BY DEF AllEnds, Ends, Traversal!Known
  <2> QED
    BY <1>1, <1>2, <2>1 DEF Attached, Traversal!Known
<1>11. HubsAvoided' /\ HubsAreLeaves'
  BY <1>1, <1>2 DEF IInv, HubsAvoided, HubsAreLeaves
<1> QED
  BY <1>2, <1>7, <1>8, <1>9, <1>10, <1>11 DEF IInv

-----------------------------------------------------------------------------
(* The invariant of every execution.                                       *)

LEMMA IInvInit == Init => IInv
<1> SUFFICES ASSUME Init PROVE IInv
  OBVIOUS
<1>1. Blocks = {} /\ work \in [Blocks -> Steps] /\ Goroutines("consume") = {}
  BY DEF Init, NoWork, Blocks, Goroutines
<1>2. /\ asked \in Requests /\ asked.depth \in Int /\ asked.limit \in Nat \ {0}
      /\ depth = asked.depth /\ limiter = asked.limit
  BY RequestProps DEF Init
<1>3. TypeOK
  <2>1. IF asked.depth < 0 THEN depth = asked.depth ELSE depth \in 0..asked.depth
    BY <1>2
  <2>2. missed \in BOOLEAN
    BY DEF Init
  <2> QED
    BY <1>1, <1>2, <2>1, <2>2, SourceAssumption DEF Init, TypeOK
<1>4. RowsInBlock /\ Phases
  BY <1>1 DEF Init, RowsInBlock, Phases, Goroutines
<1>5. txs \cup found = {} /\ IsFiniteSet(txs \cup found)
  BY FS_EmptySet DEF Init
<1>6. LimitKept
  <2>1. Cardinality(Goroutines("consume")) = 0 /\ Cardinality(txs \cup found) = 0 /\ limiter = asked.limit
    BY <1>1, <1>5, FS_EmptySet DEF Init
  <2> QED
    BY <1>2, <2>1, BlockCard DEF LimitKept
<1>7. Attached
  BY DEF Init, Attached, Traversal!Known
<1>8. HubsAvoided /\ HubsAreLeaves
  BY DEF Init, HubsAvoided, HubsAreLeaves
<1> QED
  BY <1>3, <1>4, <1>5, <1>6, <1>7, <1>8 DEF IInv

LEMMA IInvStep == IInv /\ [Next]_vars => IInv'
<1> SUFFICES ASSUME IInv, [Next]_vars PROVE IInv'
  OBVIOUS
<1>1. CASE ZeroDepth
  BY <1>1, CountersStep
<1>2. CASE SetCounters
  BY <1>2, CountersStep
<1>3. CASE GetBlocks
  BY <1>3, GetBlocksStep
<1>4. CASE \E b \in Blocks : Search(b)
  BY <1>4, SearchStep
<1>5. CASE Finish
  BY <1>5, FinishStep
<1>6. CASE NextLevel
  BY <1>6, NextLevelStep
<1>7. CASE UNCHANGED vars
  BY <1>7 DEF vars, IInv, TypeOK, RowsInBlock, Phases, Attached, LimitKept, HubsAvoided,
              HubsAreLeaves,
              Blocks, Goroutines, Traversal!Known
<1> QED
  BY <1>1, <1>2, <1>3, <1>4, <1>5, <1>6, <1>7 DEF Next

\* The inductive invariant holds of every execution of CollectBFS.
THEOREM BfsInvariant == Spec => []IInv
<1> QED
  BY IInvInit, IInvStep, PTL DEF Spec

\* The variables keep their types: what a goroutine is at, in particular.
THEOREM BfsTypes == Spec => []TypeOK
<1>1. IInv => TypeOK
  BY DEF IInv
<1> QED
  BY <1>1, BfsInvariant, PTL

\* The goroutines that share the limiter overrun the limit of the graph by less
\* than one row each, however many there are and however they interleave.
THEOREM BfsLimit == Spec => []LimitKept
<1>1. IInv => LimitKept
  BY DEF IInv
<1> QED
  BY <1>1, BfsInvariant, PTL

\* As long as the counters can be read, no row of the graph is between two hubs.
THEOREM BfsHubs == Spec => []HubsAreLeaves
<1>1. IInv => HubsAreLeaves
  BY DEF IInv
<1> QED
  BY <1>1, BfsInvariant, PTL

\* A nil list of rows is met by a request for depth 0 only.
THEOREM BfsNil == Spec => []NoNilAnswer
<1> DEFINE J == IInv /\ NoNilAnswer
<1>1. Init => J
  BY IInvInit DEF Init, NoNilAnswer
<1>2. J /\ [Next]_vars => J'
  <2> SUFFICES ASSUME J, [Next]_vars PROVE NoNilAnswer'
    BY IInvStep
  <2>1. CASE ZeroDepth
    BY <2>1 DEF ZeroDepth, NoNilAnswer, IInv, Phases
  <2>2. CASE SetCounters
    BY <2>2 DEF SetCounters, NoNilAnswer
  <2>3. CASE GetBlocks
    BY <2>3 DEF GetBlocks, NoNilAnswer
  <2>4. CASE \E b \in Blocks : Search(b)
    BY <2>4 DEF Search, SkipBlock, FailBlock, ReadBlock, LeaveBlock, KeepRow, PassRow, Consume, Move,
                NoNilAnswer
  <2>5. CASE Finish
    BY <2>5 DEF Finish, NoNilAnswer
  <2>6. CASE NextLevel
    BY <2>6 DEF NextLevel, NoNilAnswer
  <2>7. CASE UNCHANGED vars
    BY <2>7 DEF vars, NoNilAnswer
  <2> QED
    BY <2>1, <2>2, <2>3, <2>4, <2>5, <2>6, <2>7 DEF Next
<1> QED
  BY <1>1, <1>2, PTL DEF Spec

-----------------------------------------------------------------------------
(* CollectBFS implements Exploration.                                      *)

\* Every execution of CollectBFS is one that Exploration allows: the graph grows
\* by rows that touch it, it loses none, and then there is an answer or none.
THEOREM BfsExplores == Spec => ExplorationSpec
<1>1. Init => Traversal!Init
  BY DEF Init, Traversal!Init
<1>2. IInv /\ [Next]_vars => [Traversal!Next]_(Traversal!vars)
  <2> SUFFICES ASSUME IInv, [Next]_vars PROVE [Traversal!Next]_(Traversal!vars)
    OBVIOUS
  <2>1. CASE ZeroDepth
    BY <2>1 DEF ZeroDepth, Traversal!Next, Traversal!Fail
  <2>2. CASE SetCounters
    BY <2>2 DEF SetCounters, Traversal!vars
  <2>3. CASE GetBlocks
    BY <2>3 DEF GetBlocks, Traversal!vars
  <2>4. CASE \E b \in Blocks : Search(b)
    <3>1. UNCHANGED <<txs, pc>>
      BY <2>4, SearchStep
    <3>2. CASE found' = found
      BY <3>1, <3>2 DEF Traversal!vars
    <3>3. CASE \E r \in RowsInRange :
                 found' = found \cup {r} /\ Ends(r) \cap Traversal!Known # {}
      <4>1. PICK r \in RowsInRange :
                 found' = found \cup {r} /\ Ends(r) \cap Traversal!Known # {}
        BY <3>3
      <4>2. PICK a \in Traversal!Known : a \in Ends(r)
        BY <4>1
      <4>3. Traversal!Follows(r, a)
        BY <4>2 DEF Traversal!Follows, Ends
      <4>4. {r} \in SUBSET {x \in RowsInRange : Traversal!Follows(x, a)}
        BY <4>3
      <4>5. txs' \cup found' = (txs \cup found) \cup {r}
        BY <3>1, <4>1
      <4>6. pc = "rows"
        BY <2>4 DEF Search, SkipBlock, FailBlock, ReadBlock, LeaveBlock, KeepRow, PassRow, Consume,
                    IInv, Phases, Goroutines
      <4> QED
        BY <3>1, <4>2, <4>4, <4>5, <4>6 DEF Traversal!Next, Traversal!Grow
    <3> QED
      BY <2>4, <3>2, <3>3, SearchStep
  <2>5. CASE Finish
    BY <2>5, FinishStep DEF Finish, Traversal!Next, Traversal!Answer
  <2>6. CASE NextLevel
    BY <2>6, NextLevelStep DEF NextLevel, Traversal!vars
  <2>7. CASE UNCHANGED vars
    BY <2>7 DEF vars, Traversal!vars
  <2> QED
    BY <2>1, <2>2, <2>3, <2>4, <2>5, <2>6, <2>7 DEF Next
<1> QED
  BY <1>1, <1>2, BfsInvariant, PTL DEF Spec, ExplorationSpec, Traversal!Spec

\* The graph is in one piece, on every content of Redis and whatever reads fail.
THEOREM BfsConnected == Spec => []Connected
<1>1. Traversal!Spec => []Traversal!Led
  BY Traversal!ExplorationLed
<1> QED
  BY <1>1, BfsExplores, PTL DEF ExplorationSpec, Connected

-----------------------------------------------------------------------------
(* What the traversal finds when nothing disturbs it.                      *)

\* The levels that are over, and the addresses whose rows they have found.
Level == asked.depth - depth
Inner(n) == IF n = 0 THEN {} ELSE Ball(n - 1)

\* The addresses of a level are those at its distance, and some that are nearer.
Layered ==
  /\ addrs \subseteq Ball(Level)
  /\ Ball(Level) \subseteq addrs \cup Inner(Level)
  /\ txs = RowsAt(Inner(Level) \ Hubs)

\* The rows of its block that a goroutine is done with.
Behind(b, i) ==
  \/ work[b].step = "over"
  \/ work[b].step = "row" /\ i < work[b].row
  \/ work[b].step = "consume" /\ i <= work[b].row

\* Every block of an address to be traversed has its goroutine, and the goroutines
\* have kept what they should of the rows behind them.
Searched ==
  /\ \A a \in traverse : AddressBlocks(a) \subseteq Blocks
  /\ found \subseteq RowsAt(traverse)
  /\ \A b \in Blocks : InRange(b) =>
       \A i \in DOMAIN Blob[b] : Behind(b, i) /\ Wanted(Blob[b][i]) => Blob[b][i] \in found

Calm == ListsFit /\ ~missed /\ limiter > 0 /\ asked.depth > 0

Sweep ==
  /\ pc = "done" => depth = 1
  /\ Calm =>
       /\ pc \in {"counters", "blocks", "rows"} => Layered
       /\ pc \in {"counters", "blocks"} => found = {}
       /\ pc \in {"blocks", "rows"} => traverse = addrs \ Hubs
       /\ pc = "rows" => Searched
       /\ pc = "done" => txs = RowsAt(Ball(asked.depth - 1) \ Hubs)

\* A step along a row of an address that is no hub leads one hop further.
LEMMA HopRow ==
  ASSUME NEW r \in RowsInRange, NEW a \in Ends(r), a \notin Hubs, NEW b \in Ends(r)
  PROVE  <<a, b>> \in Hops
<1>1. a \in Address /\ b \in Address /\ r \in RowsAt({a})
  BY RowEnds DEF Ends, RowsAt
<1>2. <<a, b>> \in Address \X Address /\ <<a, b>>[1] = a /\ <<a, b>>[2] = b
  BY <1>1
<1> QED
  BY <1>1, <1>2 DEF Hops

\* What is found around the addresses of a level belongs to the next.
LEMMA NextLayer ==
  ASSUME NEW n \in Nat, NEW S, S \subseteq Ball(n), Ball(n) \subseteq S \cup Inner(n)
  PROVE  LET R == RowsAt(S \ Hubs) IN
         /\ AllEnds(R) \ S \subseteq Ball(n + 1)
         /\ Ball(n + 1) \subseteq (AllEnds(R) \ S) \cup Ball(n)
         /\ RowsAt(Inner(n) \ Hubs) \cup R = RowsAt(Ball(n) \ Hubs)
<1> DEFINE R == RowsAt(S \ Hubs)
<1>1. ASSUME NEW b \in AllEnds(R) PROVE b \in Ball(n + 1)
  <2>1. PICK r \in R : b \in Ends(r)
    BY DEF AllEnds
  <2>2. PICK a \in S \ Hubs : a \in Ends(r) /\ r \in RowsInRange
    BY <2>1 DEF RowsAt
  <2>3. <<a, b>> \in Hops /\ b \in Address
    BY <2>1, <2>2, HopRow, RowEnds DEF Ends
  <2> QED
    BY <2>2, <2>3, WithinStep DEF Ball
<1>2. ASSUME NEW b \in Ball(n + 1), b \notin Ball(n) PROVE b \in AllEnds(R) \ S
  <2>1. PICK a \in Ball(n) : <<a, b>> \in Hops
    BY <1>2, WithinLast DEF Ball
  <2>2. a \notin Hubs /\ b \in Address /\ \E r \in RowsAt({a}) : b \in Ends(r)
    BY <2>1 DEF Hops
  <2>3. a \notin Inner(n)
    <3> SUFFICES ASSUME a \in Inner(n) PROVE FALSE
      OBVIOUS
    <3>1. n # 0 /\ n - 1 \in Nat /\ (n - 1) + 1 = n /\ a \in Ball(n - 1)
      BY DEF Inner
    <3>2. b \in Within((n - 1) + 1, Hops)
      BY <2>1, <2>2, <3>1, WithinStep DEF Ball
    <3> QED
      BY <1>2, <3>1, <3>2 DEF Ball
  <2>4. a \in S \ Hubs
    BY <2>1, <2>2, <2>3
  <2>5. PICK r \in RowsAt({a}) : b \in Ends(r)
    BY <2>2
  <2>6. r \in R
    BY <2>4, <2>5 DEF RowsAt
  <2> QED
    BY <1>2, <2>5, <2>6 DEF AllEnds
<1>3. Inner(n) \subseteq Ball(n)
  <2>1. CASE n = 0
    BY <2>1 DEF Inner
  <2>2. CASE n # 0
    <3>1. n - 1 \in Nat /\ n - 1 <= n
      BY <2>2
    <3> QED
      BY <2>2, <3>1, WithinMore DEF Inner, Ball
  <2> QED
    BY <2>1, <2>2
<1>4. RowsAt(Inner(n) \ Hubs) \cup R = RowsAt(Ball(n) \ Hubs)
  <2>1. Inner(n) \cup S = Ball(n)
    BY <1>3
  <2> QED
    BY <2>1 DEF RowsAt
<1> QED
  BY <1>1, <1>2, <1>4

\* When its goroutines are over, a level has found all the rows there are around
\* its addresses.
LEMMA LevelFound ==
  ASSUME IInv, ListsFit, Searched, Blocks = Goroutines("over")
  PROVE  found = RowsAt(traverse)
<1> SUFFICES ASSUME NEW r \in RowsAt(traverse) PROVE r \in found
  BY DEF Searched
<1>1. PICK a \in traverse : a \in Ends(r)
  BY DEF RowsAt
<1>2. PICK b \in Block : InRange(b) /\ \E i \in DOMAIN Blob[b] : Blob[b][i] = r
  BY DEF RowsAt, RowsInRange
<1>3. PICK i \in DOMAIN Blob[b] : Blob[b][i] = r
  BY <1>2
<1>4. b \in Blocks
  BY <1>1, <1>2, <1>3 DEF ListsFit, Searched
<1>5. Behind(b, i) /\ Wanted(r)
  BY <1>1, <1>4 DEF Goroutines, Behind, Wanted
<1> QED
  BY <1>2, <1>3, <1>4, <1>5 DEF Searched


\* A step of a goroutine is right if it is right about its own block.
LEMMA SearchedMove ==
  ASSUME IInv, Searched, NEW b \in Blocks, NEW w \in Steps, Move(b, w),
         found \subseteq found', found' \subseteq RowsAt(traverse),
         InRange(b) => \A i \in DOMAIN Blob[b] :
           Behind(b, i)' /\ Wanted(Blob[b][i]) => Blob[b][i] \in found'
  PROVE  Searched'
<1>1. /\ Blocks' = Blocks /\ work'[b] = w
      /\ \A d \in Blocks : d # b => work'[d] = work[d]
  BY MoveProps DEF IInv, Move
<1>2. traverse' = traverse
  BY DEF Move
<1>3. \A r : Wanted(r)' <=> Wanted(r)
  BY <1>2 DEF Wanted
<1>4. ASSUME NEW d \in Blocks, InRange(d), NEW i \in DOMAIN Blob[d], Behind(d, i)', Wanted(Blob[d][i])
      PROVE  Blob[d][i] \in found'
  <2>1. CASE d = b
    BY <1>4, <2>1
  <2>2. CASE d # b
    <3>1. Behind(d, i)
      BY <1>1, <1>4, <2>2 DEF Behind
    <3> QED
      BY <1>4, <3>1 DEF Searched
  <2> QED
    BY <2>1, <2>2
<1>5. found' \subseteq RowsAt(traverse')
  BY <1>2
<1>6. \A a \in traverse' : AddressBlocks(a) \subseteq Blocks'
  BY <1>1, <1>2 DEF Searched
<1> QED
  BY <1>1, <1>3, <1>4, <1>5, <1>6 DEF Searched

\* A goroutine goes on only when it has kept the row it leaves behind, or need not.
LEMMA SearchedStep ==
  ASSUME IInv, Searched, NEW b \in Blocks, Search(b), ~missed', limiter' > 0
  PROVE  Searched'
<1>1. b \in Block /\ Blob[b] \in Seq(Row) /\ work[b].row \in Nat
      /\ DOMAIN Blob[b] = 1..Len(Blob[b]) /\ Len(Blob[b]) \in Nat
  BY BlobAssumption DEF IInv, TypeOK, Steps
<1>2. Over \in Steps /\ Over.step = "over"
  BY DEF Over, At, Steps
<1>3. found \subseteq RowsAt(traverse)
  BY DEF Searched
<1>4. InRange(b) => \A i \in DOMAIN Blob[b] :
        Behind(b, i) /\ Wanted(Blob[b][i]) => Blob[b][i] \in found
  BY DEF Searched
<1>w. work \in [Blocks -> Steps]
  BY DEF IInv, TypeOK
<1>5. CASE SkipBlock(b)
  BY <1>2, <1>3, <1>5, SearchedMove DEF SkipBlock
<1>6. CASE FailBlock(b)
  BY <1>6 DEF FailBlock
<1>7. CASE ReadBlock(b)
  <2>1. At("row", 1) \in Steps /\ Move(b, At("row", 1)) /\ found' = found
    BY <1>7 DEF ReadBlock, At, Steps
  <2>2. work'[b] = At("row", 1)
    BY <1>w, <2>1 DEF Move
  <2>3. \A i \in DOMAIN Blob[b] : ~Behind(b, i)'
    BY <1>1, <2>2 DEF Behind, At
  <2> QED
    BY <1>3, <2>1, <2>3, SearchedMove
<1>8. CASE LeaveBlock(b)
  <2>1. Move(b, Over) /\ found' = found /\ work[b].step = "row" /\ work[b].row > Len(Blob[b])
    BY <1>8 DEF LeaveBlock, IInv, TypeOK
  <2>2. \A i \in DOMAIN Blob[b] : Behind(b, i)
    BY <1>1, <2>1 DEF Behind
  <2> QED
    BY <1>2, <1>3, <1>4, <2>1, <2>2, SearchedMove
<1>9. CASE KeepRow(b)
  <2> DEFINE k == work[b].row
  <2>1. /\ work[b].step = "row" /\ Move(b, At("consume", k)) /\ Wanted(Blob[b][k])
        /\ found' = found \cup {Blob[b][k]} /\ k <= Len(Blob[b])
    BY <1>9 DEF KeepRow
  <2>2. At("consume", k) \in Steps /\ work'[b] = At("consume", k)
    BY <1>1, <1>w, <2>1 DEF Move, At, Steps
  <2>3. Blob[b][k] \in RowsAt(traverse)
    BY <2>1, RowFound DEF RowsAt, Wanted
  <2>4. ASSUME NEW i \in DOMAIN Blob[b], Behind(b, i)', i # k PROVE Behind(b, i)
    <3>1. i <= k
      BY <2>2, <2>4 DEF Behind, At
    <3>2. i < k
      BY <1>1, <2>4, <3>1
    <3> QED
      BY <2>1, <3>2 DEF Behind
  <2>5. InRange(b) => \A i \in DOMAIN Blob[b] :
          Behind(b, i)' /\ Wanted(Blob[b][i]) => Blob[b][i] \in found'
    BY <1>4, <2>1, <2>4
  <2>6. found' \subseteq RowsAt(traverse) /\ found \subseteq found'
    BY <1>3, <2>1, <2>3
  <2> QED
    BY <2>1, <2>2, <2>5, <2>6, SearchedMove
<1>10. CASE PassRow(b)
  <2> DEFINE k == work[b].row
  <2>1. work[b].step = "row" /\ Move(b, At("row", k + 1)) /\ ~Wanted(Blob[b][k]) /\ found' = found
    BY <1>10 DEF PassRow
  <2>2. At("row", k + 1) \in Steps /\ work'[b] = At("row", k + 1)
    BY <1>1, <1>w, <2>1 DEF Move, At, Steps
  <2>3. ASSUME NEW i \in DOMAIN Blob[b], Behind(b, i)', i # k PROVE Behind(b, i)
    <3>1. i < k + 1
      BY <2>2, <2>3 DEF Behind, At
    <3>2. i < k
      BY <1>1, <2>3, <3>1
    <3> QED
      BY <2>1, <3>2 DEF Behind
  <2>4. InRange(b) => \A i \in DOMAIN Blob[b] :
          Behind(b, i)' /\ Wanted(Blob[b][i]) => Blob[b][i] \in found'
    BY <1>4, <2>1, <2>3
  <2> QED
    BY <1>3, <2>1, <2>2, <2>4, SearchedMove
<1>11. CASE Consume(b)
  <2> DEFINE k == work[b].row
  <2>1. work[b].step = "consume" /\ Move(b, At("row", k + 1)) /\ found' = found
    BY <1>11 DEF Consume
  <2>2. At("row", k + 1) \in Steps /\ work'[b] = At("row", k + 1)
    BY <1>1, <1>w, <2>1 DEF Move, At, Steps
  <2>3. ASSUME NEW i \in DOMAIN Blob[b], Behind(b, i)' PROVE Behind(b, i)
    <3>1. i < k + 1
      BY <2>2, <2>3 DEF Behind, At
    <3>2. i <= k
      BY <1>1, <3>1
    <3> QED
      BY <2>1, <3>2 DEF Behind
  <2>4. InRange(b) => \A i \in DOMAIN Blob[b] :
          Behind(b, i)' /\ Wanted(Blob[b][i]) => Blob[b][i] \in found'
    BY <1>4, <2>1, <2>3
  <2> QED
    BY <1>3, <2>1, <2>2, <2>4, SearchedMove
<1> QED
  BY <1>5, <1>6, <1>7, <1>8, <1>9, <1>10, <1>11 DEF Search

\* What disturbs the traversal disturbs it for good.
LEMMA CalmBefore == ASSUME IInv, Next, Calm' PROVE Calm
<1>1. limiter \in Int
  BY DEF IInv, TypeOK
<1>2. CASE SetCounters
  BY <1>2 DEF SetCounters, Calm
<1>3. CASE GetBlocks
  BY <1>3 DEF GetBlocks, Calm
<1>4. CASE \E b \in Blocks : Search(b)
  BY <1>1, <1>4 DEF Search, SkipBlock, FailBlock, ReadBlock, LeaveBlock, KeepRow, PassRow, Consume,
                    Move, Calm
<1>5. CASE ZeroDepth \/ Finish \/ NextLevel
  BY <1>5 DEF ZeroDepth, Finish, NextLevel, Calm
<1> QED
  BY <1>2, <1>3, <1>4, <1>5 DEF Next

\* The levels that are over are counted from 0.
LEMMA LevelNat ==
  ASSUME TypeOK, asked.depth > 0
  PROVE  Level \in Nat /\ depth \in Nat /\ depth <= asked.depth /\ asked.depth \in Nat
<1>1. asked.depth \in Int /\ depth \in 0..asked.depth
  BY RequestProps DEF TypeOK
<1> QED
  BY <1>1 DEF Level

LEMMA SweepStep == IInv /\ Sweep /\ [Next]_vars => Sweep'
<1> SUFFICES ASSUME IInv, Sweep, [Next]_vars PROVE Sweep'
  OBVIOUS
<1>1. CASE ZeroDepth
  <2>1. ~Calm
    BY <1>1 DEF ZeroDepth, Calm, IInv, Phases
  <2>2. ~Calm'
    BY <1>1, <2>1, CalmBefore DEF Next
  <2> QED
    BY <1>1, <2>2 DEF ZeroDepth, Sweep
<1>2. CASE SetCounters
  <2>1. /\ UNCHANGED <<asked, depth, addrs, work, found, txs, limiter>>
        /\ pc = "counters" /\ pc' = "blocks"
    BY <1>2 DEF SetCounters
  <2>2. ASSUME Calm' PROVE Layered' /\ found' = {} /\ traverse' = addrs' \ Hubs
    <3>1. Calm
      BY <1>2, <2>2, CalmBefore DEF Next
    <3>2. Layered /\ found = {}
      BY <2>1, <3>1 DEF Sweep
    <3>3. traverse' = addrs \ Hubs
      BY <1>2, <2>2 DEF SetCounters, Calm
    <3> QED
      BY <2>1, <3>2, <3>3 DEF Layered, Level
  <2> QED
    BY <2>1, <2>2 DEF Sweep
<1>3. CASE GetBlocks
  <2>1. /\ UNCHANGED <<asked, depth, addrs, traverse, found, txs, limiter>>
        /\ pc = "blocks" /\ pc' = "rows"
    BY <1>3 DEF GetBlocks
  <2>2. ASSUME Calm' PROVE Layered' /\ traverse' = addrs' \ Hubs /\ Searched'
    <3>1. Calm
      BY <1>3, <2>2, CalmBefore DEF Next
    <3>2. Layered /\ found = {} /\ traverse = addrs \ Hubs
      BY <2>1, <3>1 DEF Sweep
    <3>3. work' = [b \in UNION {AddressBlocks(a) : a \in traverse} |-> At("read", 1)]
      <4>1. PICK failed \in SUBSET traverse :
              /\ work' = [b \in UNION {AddressBlocks(a) : a \in traverse \ failed} |-> At("read", 1)]
              /\ missed' = (missed \/ failed # {})
        BY <1>3 DEF GetBlocks
      <4>2. failed = {} /\ traverse \ failed = traverse
        BY <2>2, <4>1 DEF Calm
      <4> QED
        BY <4>1, <4>2
    <3>4. Blocks' = UNION {AddressBlocks(a) : a \in traverse}
      BY <3>3 DEF Blocks
    <3>5. \A b \in Blocks' : work'[b] = At("read", 1)
      BY <3>3, <3>4
    <3>6. \A b \in Blocks' : \A i : ~Behind(b, i)'
      BY <3>5 DEF Behind, At
    <3>7. \A a \in traverse : AddressBlocks(a) \subseteq Blocks'
      BY <3>4
    <3>8. Searched'
      BY <2>1, <3>2, <3>6, <3>7 DEF Searched
    <3> QED
      BY <2>1, <3>2, <3>8 DEF Layered, Level
  <2> QED
    BY <2>1, <2>2 DEF Sweep
<1>4. CASE \E b \in Blocks : Search(b)
  <2>1. PICK b \in Blocks : Search(b)
    BY <1>4
  <2>2. UNCHANGED <<asked, depth, addrs, traverse, txs, pc>>
    BY <2>1 DEF Search, SkipBlock, FailBlock, ReadBlock, LeaveBlock, KeepRow, PassRow, Consume, Move
  <2>3. pc = "rows"
    BY <2>1 DEF Search, SkipBlock, FailBlock, ReadBlock, LeaveBlock, KeepRow, PassRow, Consume,
                IInv, Phases, Goroutines
  <2>4. ASSUME Calm' PROVE Layered' /\ traverse' = addrs' \ Hubs /\ Searched'
    <3>1. Calm
      BY <1>4, <2>4, CalmBefore DEF Next
    <3>2. Layered /\ traverse = addrs \ Hubs /\ Searched
      BY <2>3, <3>1 DEF Sweep
    <3>3. Searched'
      BY <2>1, <2>4, <3>2, SearchedStep DEF Calm
    <3> QED
      BY <2>2, <3>2, <3>3 DEF Layered, Level
  <2> QED
    BY <2>2, <2>3, <2>4 DEF Sweep
<1>5. CASE Finish
  <2>1. /\ UNCHANGED <<asked, depth, addrs, traverse, work, found, limiter, missed>>
        /\ pc = "rows" /\ depth = 1 /\ Blocks = Goroutines("over")
        /\ pc' = "done" /\ txs' = txs \cup found
    BY <1>5 DEF Finish
  <2>2. ASSUME Calm' PROVE txs' = RowsAt(Ball(asked.depth - 1) \ Hubs)
    <3>1. Calm
      BY <1>5, <2>2, CalmBefore DEF Next
    <3>2. Layered /\ traverse = addrs \ Hubs /\ Searched
      BY <2>1, <3>1 DEF Sweep
    <3>3. found = RowsAt(addrs \ Hubs)
      BY <2>1, <3>1, <3>2, LevelFound DEF Calm
    <3>4. Level \in Nat /\ Level = asked.depth - 1
      BY <2>1, <3>1, LevelNat DEF Calm, IInv, Level
    <3>5. RowsAt(Inner(Level) \ Hubs) \cup RowsAt(addrs \ Hubs) = RowsAt(Ball(Level) \ Hubs)
      BY <3>2, <3>4, NextLayer DEF Layered
    <3> QED
      BY <2>1, <3>2, <3>3, <3>4, <3>5 DEF Layered
  <2> QED
    BY <2>1, <2>2 DEF Sweep
<1>6. CASE NextLevel
  <2>1. /\ UNCHANGED <<asked, limiter, missed>>
        /\ pc = "rows" /\ depth # 1 /\ Blocks = Goroutines("over")
        /\ pc' = "counters" /\ txs' = txs \cup found /\ found' = {}
        /\ addrs' = AllEnds(found) \ addrs /\ depth' = Below(depth)
    BY <1>6 DEF NextLevel
  <2>2. ASSUME Calm' PROVE Layered'
    <3>1. Calm
      BY <1>6, <2>2, CalmBefore DEF Next
    <3>2. Layered /\ traverse = addrs \ Hubs /\ Searched
      BY <2>1, <3>1 DEF Sweep
    <3>3. found = RowsAt(addrs \ Hubs)
      BY <2>1, <3>1, <3>2, LevelFound DEF Calm
    <3>4. /\ Level \in Nat /\ Level' = Level + 1 /\ Level' # 0 /\ Level' - 1 = Level
      <4>1. Level \in Nat /\ depth \in Nat /\ asked.depth \in Nat
        BY <3>1, LevelNat DEF Calm, IInv
      <4>2. depth' = depth - 1
        BY <2>1, <4>1 DEF Below
      <4> QED
        BY <2>1, <4>1, <4>2 DEF Level
    <3>5. LET R == RowsAt(addrs \ Hubs) IN
          /\ AllEnds(R) \ addrs \subseteq Ball(Level + 1)
          /\ Ball(Level + 1) \subseteq (AllEnds(R) \ addrs) \cup Ball(Level)
          /\ RowsAt(Inner(Level) \ Hubs) \cup R = RowsAt(Ball(Level) \ Hubs)
      BY <3>2, <3>4, NextLayer DEF Layered
    <3>6. Inner(Level + 1) = Ball(Level)
      BY <3>4 DEF Inner
    <3>7. /\ addrs' \subseteq Ball(Level + 1)
          /\ Ball(Level + 1) \subseteq addrs' \cup Inner(Level + 1)
          /\ txs' = RowsAt(Inner(Level + 1) \ Hubs)
      BY <2>1, <3>2, <3>3, <3>5, <3>6 DEF Layered
    <3> QED
      BY <3>4, <3>7 DEF Layered
  <2> QED
    BY <2>1, <2>2 DEF Sweep
<1>7. CASE UNCHANGED vars
  BY <1>7 DEF vars, Sweep, Calm, Layered, Level, Searched, Behind, Wanted, Blocks
<1> QED
  BY <1>1, <1>2, <1>3, <1>4, <1>5, <1>6, <1>7 DEF Next

LEMMA SweepInit == Init => Sweep
<1> SUFFICES ASSUME Init PROVE Sweep
  OBVIOUS
<1>1. pc = "counters" /\ found = {} /\ addrs = {Source} /\ txs = {} /\ asked.depth \in Int
      /\ depth = asked.depth
  BY RequestProps DEF Init
<1>2. Level = 0
  BY <1>1 DEF Level
<1>3. Ball(0) = {Source} /\ Inner(0) = {}
  BY WithinZero DEF Ball, Inner
<1>4. RowsAt(Inner(0) \ Hubs) = {}
  BY <1>3 DEF RowsAt
<1>5. Layered
  BY <1>1, <1>2, <1>3, <1>4 DEF Layered
<1> QED
  BY <1>1, <1>5 DEF Sweep

\* A search that no failed read, cut list or limit disturbs answers with the rows of
\* every address less than the depth asked for away, and with no others, in whatever
\* order its goroutines go.
THEOREM BfsBallComplete == Spec => []BallComplete
<1> DEFINE J == IInv /\ Sweep
<1>1. Init => J
  BY IInvInit, SweepInit
<1>2. J /\ [Next]_vars => J'
  BY IInvStep, SweepStep
<1>3. J => BallComplete
  <2> SUFFICES ASSUME J, pc = "done", ~missed, ListsFit, limiter > 0
               PROVE  txs = RowsAt(Ball(asked.depth - 1) \ Hubs)
    BY DEF BallComplete
  <2>1. asked.depth > 0
    <3>1. depth = 1
      BY DEF Sweep
    <3>2. asked.depth \in Int /\ IF asked.depth < 0 THEN depth = asked.depth ELSE depth \in 0..asked.depth
      BY RequestProps DEF IInv, TypeOK
    <3> QED
      BY <3>1, <3>2
  <2> QED
    BY <2>1 DEF Sweep, Calm
<1> QED
  BY <1>1, <1>2, <1>3, PTL DEF Spec

-----------------------------------------------------------------------------
(* A traversal that is asked for no negative depth comes to its end.  What  *)
(* is ahead of it are two natural numbers, of which every step lowers the   *)
(* first, or the second alone: there is no infinite descent, so that an     *)
(* execution that goes on for ever is none of CollectBFS.                   *)

Before(m, n) == m[1] < n[1] \/ (m[1] = n[1] /\ m[2] < n[2])

\* The stages still to come: a level has three of them.
Stages ==
  CASE pc = "counters" -> 3 * depth + 3
    [] pc = "blocks" -> 3 * depth + 2
    [] pc = "rows" -> 3 * depth + 1
    [] OTHER -> 0

\* How often a goroutine may go on, two steps to a row.
Rows(b) == Len(Blob[b])

StepsOf(b, w) ==
  CASE w.step = "read" -> 2 * Rows(b) + 2
    [] w.step = "row" -> 2 * (Rows(b) + 1 - w.row) + 1
    [] w.step = "consume" -> 2 * (Rows(b) + 1 - w.row)
    [] OTHER -> 0

\* The steps that are left to the goroutines of a level, one by one.
Turns == UNION {{b} \X (0..(StepsOf(b, work[b]) - 1)) : b \in Blocks}

Ahead == <<Stages, Cardinality(Turns)>>

LEMMA StepsNat ==
  ASSUME NEW b \in Block, NEW w \in Steps,
         w.step \in {"row", "consume"} => w.row \in 1..(Rows(b) + 1)
  PROVE  StepsOf(b, w) \in Nat /\ Rows(b) \in Nat
<1>1. Rows(b) \in Nat
  BY BlobAssumption DEF Rows
<1>2. CASE w.step \in {"row", "consume"}
  BY <1>1, <1>2 DEF StepsOf
<1>3. CASE w.step \in {"read", "over"}
  BY <1>1, <1>3 DEF StepsOf
<1> QED
  BY <1>1, <1>2, <1>3 DEF Steps

LEMMA StepsType ==
  ASSUME IInv, NEW b \in Blocks
  PROVE  /\ StepsOf(b, work[b]) \in Nat /\ Rows(b) \in Nat
         /\ work[b].step \in {"row", "consume"} => work[b].row \in 1..(Rows(b) + 1)
<1>1. b \in Block /\ work[b] \in Steps
  BY DEF IInv, TypeOK
<1>2. work[b].step \in {"row", "consume"} => work[b].row \in 1..(Rows(b) + 1)
  BY DEF IInv, RowsInBlock, Rows
<1> QED
  BY <1>1, <1>2, StepsNat

LEMMA TurnsFinite ==
  ASSUME IInv
  PROVE  IsFiniteSet(Turns) /\ Cardinality(Turns) \in Nat
<1> DEFINE own == [b \in Blocks |-> {b} \X (0..(StepsOf(b, work[b]) - 1))]
           U == {own[b] : b \in Blocks}
<1>1. IsFiniteSet(Blocks)
  BY BlockAssumption, FS_Subset DEF IInv, TypeOK
<1>2. own \in Surjection(Blocks, U)
  BY DEF Surjection
<1>3. ASSUME NEW b \in Blocks PROVE IsFiniteSet(own[b])
  <2>1. StepsOf(b, work[b]) - 1 \in Int /\ 0 \in Int
    BY StepsType
  <2> DEFINE n == StepsOf(b, work[b]) - 1
  <2>2. IsFiniteSet(0..n)
    BY <2>1, FS_Interval
  <2>3. IsFiniteSet({b})
    BY FS_Singleton
  <2> HIDE DEF n
  <2>4. IsFiniteSet({b} \X (0..n))
    BY <2>2, <2>3, FS_Product
  <2>5. own[b] = {b} \X (0..n)
    BY DEF n
  <2> QED
    BY <2>4, <2>5
<1>4. Turns = UNION U
  BY DEF Turns
<1> HIDE DEF own
<1>5. \A T \in U : IsFiniteSet(T)
  BY <1>3
<1> HIDE DEF U
<1>6. IsFiniteSet(U)
  BY <1>1, <1>2, FS_Surjection
<1>7. IsFiniteSet(UNION U)
  BY <1>5, <1>6, FS_UNION
<1> QED
  BY <1>4, <1>7, FS_CardinalityType

\* A goroutine that goes on has fewer steps before it.
LEMMA FewerSteps ==
  ASSUME IInv, NEW b \in Blocks, Search(b)
  PROVE  /\ Blocks' = Blocks
         /\ \A d \in Blocks : d # b => work'[d] = work[d]
         /\ StepsOf(b, work'[b]) < StepsOf(b, work[b])
         /\ UNCHANGED <<asked, depth, pc>>
<1>1. /\ Rows(b) \in Nat
      /\ work[b].step \in {"row", "consume"} => work[b].row \in 1..(Rows(b) + 1)
  BY StepsType
<1>2. b \in Block /\ work[b].row \in Nat /\ work \in [Blocks -> Steps]
  BY DEF IInv, TypeOK, Steps
<1>3. ASSUME NEW w, Move(b, w)
      PROVE  /\ Blocks' = Blocks
             /\ \A d \in Blocks : d # b => work'[d] = work[d]
             /\ work'[b] = w
             /\ UNCHANGED <<asked, depth, pc>>
  BY <1>2, <1>3 DEF Move, Blocks
<1>4. Over.step = "over"
  BY DEF Over, At
<1>5. CASE SkipBlock(b) \/ FailBlock(b)
  <2>1. work[b].step = "read" /\ Move(b, Over)
    BY <1>5 DEF SkipBlock, FailBlock
  <2> QED
    BY <1>1, <1>3, <1>4, <2>1 DEF StepsOf
<1>6. CASE ReadBlock(b)
  <2>1. work[b].step = "read" /\ Move(b, At("row", 1)) /\ At("row", 1).step = "row" /\ At("row", 1).row = 1
    BY <1>6 DEF ReadBlock, At
  <2> QED
    BY <1>1, <1>3, <2>1 DEF StepsOf
<1>7. CASE LeaveBlock(b)
  <2>1. work[b].step = "row" /\ Move(b, Over)
    BY <1>7 DEF LeaveBlock
  <2> QED
    BY <1>1, <1>3, <1>4, <2>1 DEF StepsOf
<1> DEFINE i == work[b].row
<1>8. CASE KeepRow(b)
  <2>1. /\ work[b].step = "row" /\ i <= Rows(b) /\ Move(b, At("consume", i))
        /\ At("consume", i).step = "consume" /\ At("consume", i).row = i
    BY <1>8 DEF KeepRow, At, Rows
  <2> QED
    BY <1>1, <1>3, <2>1 DEF StepsOf
<1>9. CASE PassRow(b)
  <2>1. /\ work[b].step = "row" /\ i <= Rows(b) /\ Move(b, At("row", i + 1))
        /\ At("row", i + 1).step = "row" /\ At("row", i + 1).row = i + 1
    BY <1>9 DEF PassRow, At, Rows
  <2> QED
    BY <1>1, <1>3, <2>1 DEF StepsOf
<1>10. CASE Consume(b)
  <2>1. /\ work[b].step = "consume" /\ Move(b, At("row", i + 1))
        /\ At("row", i + 1).step = "row" /\ At("row", i + 1).row = i + 1
    BY <1>10 DEF Consume, At
  <2> QED
    BY <1>1, <1>3, <2>1 DEF StepsOf
<1> QED
  BY <1>5, <1>6, <1>7, <1>8, <1>9, <1>10 DEF Search

LEMMA FewerTurns ==
  ASSUME IInv, NEW b \in Blocks, Search(b)
  PROVE  Cardinality(Turns') < Cardinality(Turns)
<1> DEFINE last == <<b, StepsOf(b, work[b]) - 1>>
<1>1. /\ Blocks' = Blocks
      /\ \A d \in Blocks : d # b => work'[d] = work[d]
      /\ StepsOf(b, work'[b]) < StepsOf(b, work[b])
  BY FewerSteps
<1>2. StepsOf(b, work[b]) \in Nat
  BY StepsType
<1>3. StepsOf(b, work'[b]) \in Nat
  <2>1. TypeOK' /\ RowsInBlock' /\ b \in Blocks'
    BY <1>1, SearchStep DEF IInv
  <2>2. b \in Block /\ work'[b] \in Steps
    BY <2>1 DEF TypeOK
  <2>3. work'[b].step \in {"row", "consume"} => work'[b].row \in 1..(Rows(b) + 1)
    BY <2>1 DEF RowsInBlock, Rows
  <2> QED
    BY <2>2, <2>3, StepsNat
<1>4. Turns' = UNION {{d} \X (0..(StepsOf(d, work'[d]) - 1)) : d \in Blocks}
  BY <1>1 DEF Turns, StepsOf, Rows
<1>5. last \in Turns
  BY <1>1, <1>2, <1>3 DEF Turns
<1>6. Turns' \subseteq Turns \ {last}
  <2> SUFFICES ASSUME NEW d \in Blocks, NEW n \in 0..(StepsOf(d, work'[d]) - 1)
               PROVE  <<d, n>> \in Turns \ {last}
    BY <1>4
  <2>1. CASE d = b
    BY <1>1, <1>2, <1>3, <2>1 DEF Turns
  <2>2. CASE d # b
    BY <1>1, <2>2 DEF Turns
  <2> QED
    BY <2>1, <2>2
<1> HIDE DEF last
<1>7. IsFiniteSet(Turns) /\ Cardinality(Turns) \in Nat
  BY TurnsFinite
<1>8. /\ IsFiniteSet(Turns \ {last})
      /\ Cardinality(Turns \ {last}) = Cardinality(Turns) - 1
  BY <1>5, <1>7, FS_RemoveElement
<1>9. IsFiniteSet(Turns') /\ Cardinality(Turns') <= Cardinality(Turns \ {last})
  BY <1>6, <1>8, FS_Subset
<1>10. Cardinality(Turns') \in Nat
  BY <1>9, FS_CardinalityType
<1> QED
  BY <1>7, <1>8, <1>9, <1>10

LEMMA AheadType == IInv /\ asked.depth >= 0 => Ahead \in Nat \X Nat
<1> SUFFICES ASSUME IInv, asked.depth >= 0 PROVE Ahead \in Nat \X Nat
  OBVIOUS
<1>1. depth \in Nat
  BY RequestProps DEF IInv, TypeOK
<1>2. Stages \in Nat
  BY <1>1 DEF Stages
<1> QED
  BY <1>2, TurnsFinite DEF Ahead

LEMMA AheadStep == IInv /\ Next /\ asked.depth >= 0 => Before(Ahead', Ahead)
<1> SUFFICES ASSUME IInv, Next, asked.depth >= 0 PROVE Before(Ahead', Ahead)
  OBVIOUS
<1>1. depth \in Nat
  BY RequestProps DEF IInv, TypeOK
<1>2. CASE \E b \in Blocks : Search(b)
  <2>1. PICK b \in Blocks : Search(b)
    BY <1>2
  <2>2. Stages' = Stages
    BY <2>1, FewerSteps DEF Stages
  <2> QED
    BY <2>1, <2>2, FewerTurns DEF Before, Ahead
<1>3. CASE ~(\E b \in Blocks : Search(b))
  <2>1. Stages' < Stages
    <3>1. CASE ZeroDepth
      BY <1>1, <3>1 DEF ZeroDepth, Stages
    <3>2. CASE SetCounters
      BY <1>1, <3>2 DEF SetCounters, Stages
    <3>3. CASE GetBlocks
      BY <1>1, <3>3 DEF GetBlocks, Stages
    <3>4. CASE Finish
      BY <1>1, <3>4 DEF Finish, Stages
    <3>5. CASE NextLevel
      BY <1>1, <3>5 DEF NextLevel, Below, Stages
    <3> QED
      BY <1>3, <3>1, <3>2, <3>3, <3>4, <3>5 DEF Next
  <2> QED
    BY <2>1 DEF Before, Ahead
<1> QED
  BY <1>2, <1>3

\* CollectBFS comes to its end, on every content of Redis and whatever reads fail,
\* unless it is asked for a negative depth: it goes through the levels it was asked
\* for, and in each through the rows of the blocks, once.
THEOREM BfsAdvances ==
  Spec => /\ [](asked.depth >= 0 => Ahead \in Nat \X Nat)
          /\ [][asked.depth >= 0 => Before(Ahead', Ahead)]_vars
<1>1. IInv => (asked.depth >= 0 => Ahead \in Nat \X Nat)
  BY AheadType
<1>2. IInv /\ [Next]_vars => [asked.depth >= 0 => Before(Ahead', Ahead)]_vars
  BY AheadStep
<1> QED
  BY <1>1, <1>2, BfsInvariant, PTL DEF Spec

\* How the traversal may end, and not begin, at the depth it has come to.
Sunk ==
  /\ pc = "done" => depth = 1
  /\ pc = "panicked" => depth = 0
  /\ depth = 0 => pc \in {"counters", "panicked"} /\ txs \cup found = {}

\* A request for depth 0 gets no answer and finds nothing, and one for a negative
\* depth never comes to an end, neither to an answer nor to a panic.
THEOREM BfsFatal ==
  Spec => [](/\ asked.depth < 0 => pc \notin {"done", "panicked"}
             /\ asked.depth = 0 => pc # "done" /\ txs \cup found = {})
<1> DEFINE J == IInv /\ Sunk
<1>1. Init => J
  BY IInvInit DEF Init, Sunk
<1>2. J /\ [Next]_vars => J'
  <2> SUFFICES ASSUME J, [Next]_vars PROVE Sunk'
    BY IInvStep
  <2>d. depth \in Int /\ (depth = 0 => asked.depth = 0)
    BY RequestProps DEF IInv, TypeOK, Phases
  <2>1. CASE ZeroDepth
    BY <2>1 DEF ZeroDepth, Sunk
  <2>2. CASE SetCounters
    BY <2>2 DEF SetCounters, Sunk
  <2>3. CASE GetBlocks
    BY <2>3 DEF GetBlocks, Sunk
  <2>4. CASE \E b \in Blocks : Search(b)
    <3>1. UNCHANGED <<depth, pc, txs>> /\ pc = "rows"
      BY <2>4 DEF Search, SkipBlock, FailBlock, ReadBlock, LeaveBlock, KeepRow, PassRow, Consume, Move,
                  IInv, Phases, Goroutines
    <3> QED
      BY <3>1 DEF Sunk
  <2>5. CASE Finish
    BY <2>5 DEF Finish, Sunk
  <2>6. CASE NextLevel
    BY <2>6, <2>d DEF NextLevel, Below, Sunk
  <2>7. CASE UNCHANGED vars
    BY <2>7 DEF vars, Sunk
  <2> QED
    BY <2>1, <2>2, <2>3, <2>4, <2>5, <2>6, <2>7 DEF Next
<1>3. J => /\ asked.depth < 0 => pc \notin {"done", "panicked"}
           /\ asked.depth = 0 => pc # "done" /\ txs \cup found = {}
  <2> SUFFICES ASSUME J
               PROVE  /\ asked.depth < 0 => pc \notin {"done", "panicked"}
                      /\ asked.depth = 0 => pc # "done" /\ txs \cup found = {}
    OBVIOUS
  <2>1. asked.depth \in Int /\ IF asked.depth < 0 THEN depth = asked.depth ELSE depth \in 0..asked.depth
    BY RequestProps DEF IInv, TypeOK
  <2>2. asked.depth < 0 => depth # 0 /\ depth # 1
    BY <2>1
  <2>3. asked.depth = 0 => depth = 0
    BY <2>1
  <2> QED
    BY <2>2, <2>3 DEF Sunk
<1> QED
  BY <1>1, <1>2, <1>3, PTL DEF Spec

=============================================================================
