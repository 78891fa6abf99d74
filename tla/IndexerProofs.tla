---------------------------- MODULE IndexerProofs ----------------------------
(***************************************************************************)
(* What holds of the indexer for every chain, every set of addresses and   *)
(* any number of faults.                                                   *)
(***************************************************************************)
EXTENDS Indexer, FiniteSetTheorems, TLAPS

\* The two commands on meta:last_block are spelt out everywhere below.
USE DEF GetLastBlockNumber, SetLastBlock


-----------------------------------------------------------------------------
(* What handleBlock makes of a block of the chain.                         *)

\* The addresses of transMap are addresses.
LEMMA TouchedAddr == ASSUME NEW b \in Blocks PROVE Touched(Chain[b]) \subseteq Addr
  BY ChainAssumption DEF Touched, Counted, Tx, Blocks

\* What transMap adds to a counter is a natural number.
LEMMA WeightNat == ASSUME NEW b \in Blocks, NEW a PROVE Weight(Chain[b], a) \in Nat
<1> DEFINE T == {tx \in Counted(Chain[b]) : tx.to = a}
           F == {tx \in Counted(Chain[b]) : tx.from = a}
<1>1. IsFiniteSet(Chain[b])
  BY FiniteBlocks DEF Blocks
<1>2. T \subseteq Chain[b] /\ F \subseteq Chain[b]
  BY DEF Counted
<1>3. Cardinality(T) \in Nat /\ Cardinality(F) \in Nat
  BY <1>1, <1>2, FS_Subset, FS_CardinalityType
<1> QED
  BY <1>3 DEF Weight

\* The rows of a blob are rows, and the addresses to ask about are addresses.
LEMMA RowsType ==
  ASSUME NEW b \in Blocks, NEW dropped
  PROVE  /\ Filed(Chain[b], dropped) \subseteq {tx \in Tx : tx.to # Nil}
         /\ Rows(Filed(Chain[b], dropped)) \subseteq Row
<1>1. Filed(Chain[b], dropped) \subseteq {tx \in Tx : tx.to # Nil}
  BY ChainAssumption DEF Filed, PaidTxs, TokenTxs, Counted, Blocks
<1>2. \A tx \in Tx : tx.to # Nil => RowOf(tx) \in Row
  BY DEF RowOf, Tx, Row
<1> QED
  BY <1>1, <1>2 DEF Rows

-----------------------------------------------------------------------------
LEMMA TypeInit == Init => TypeOK
<1> SUFFICES ASSUME Init PROVE TypeOK
  OBVIOUS
<1>1. last \in Nat \cup {Nil}
  BY SeedsAssumption DEF Init
<1>2. Ready \in 0..Tip /\ 0 \in 0..MaxFaults
  BY ReadyAssumption, TipAssumption, FaultsAssumption
<1>3. <<>> \in Seq(Blocks) /\ <<>> \in Seq(Try)
  OBVIOUS
<1> QED
  BY <1>1, <1>2, <1>3 DEF Init, TypeOK

\* A write in flight has a block and, unless it is a blob, an address.
LEMMA WriteType ==
  ASSUME TypeOK, WritesInv, NEW w \in pending
  PROVE  /\ w.try \in DOMAIN tries
         /\ tries[w.try] \in Try
         /\ BlockOf(w) \in Blocks
         /\ w.kind # "blob" => w.addr \in Addr /\ w.addr \in Touched(Chain[BlockOf(w)])
<1>1. w.try \in DOMAIN tries
  BY DEF WritesInv
<1>2. tries[w.try] \in Try
  BY <1>1 DEF TypeOK
<1>3. BlockOf(w) \in Blocks
  BY <1>2 DEF BlockOf, Try
<1> QED
  BY <1>1, <1>2, <1>3, TouchedAddr DEF WritesInv

\* UpdateCounters adds a natural number to one counter.
LEMMA CounterGrows ==
  ASSUME TypeOK, WritesInv, NEW w \in pending, UpdateCounter(w)
  PROVE  /\ w.addr \in Addr
         /\ \E m \in Nat : cnt' = [cnt EXCEPT ![w.addr] = cnt[w.addr] + m]
<1>1. w.addr \in Addr
  BY WriteType DEF UpdateCounter
<1>2. Weight(Chain[BlockOf(w)], w.addr) \in Nat
  BY WriteType, WeightNat
<1> QED
  BY <1>1, <1>2 DEF UpdateCounter

\* AppendBlockNumbers extends one list, with the number of its block.
LEMMA ListGrows ==
  ASSUME TypeOK, WritesInv, NEW w \in pending, AppendBlockNumber(w)
  PROVE  /\ w.addr \in Addr /\ BlockOf(w) \in Blocks
         /\ w.addr \in Touched(Chain[BlockOf(w)])
         /\ \E s \in Seq(Blocks) :
              /\ list' = [list EXCEPT ![w.addr] = s]
              /\ \A i \in DOMAIN list[w.addr] : i \in DOMAIN s /\ s[i] = list[w.addr][i]
              /\ \A i \in DOMAIN s : \/ s[i] = BlockOf(w)
                                     \/ i \in DOMAIN list[w.addr] /\ s[i] = list[w.addr][i]
<1> DEFINE b == BlockOf(w)
           old == list[w.addr]
           Good(s) == /\ s \in Seq(Blocks)
                      /\ \A i \in DOMAIN old : i \in DOMAIN s /\ s[i] = old[i]
                      /\ \A i \in DOMAIN s : s[i] = b \/ (i \in DOMAIN old /\ s[i] = old[i])
<1>1. /\ w.addr \in Addr /\ b \in Blocks /\ w.addr \in Touched(Chain[b])
  BY WriteType DEF AppendBlockNumber
<1>2. list \in [Addr -> Seq(Blocks)] /\ old \in Seq(Blocks)
  BY <1>1 DEF TypeOK
<1>3. list' = [list EXCEPT ![w.addr] = Append(old, b)]
  BY DEF AppendBlockNumber
<1> HIDE DEF b, old
<1>4. Good(Append(old, b))
  BY <1>1, <1>2
<1> QED
  BY <1>1, <1>3, <1>4 DEF b, old

\* Who writes what.
LEMMA Frame ==
  ASSUME [Next]_vars
  PROVE  /\ StartWrites \/ UNCHANGED tries
         /\ StartWrites \/ pending' \subseteq pending
         /\ UpdateLastBlockNumber \/ UNCHANGED last
         /\ Write \/ UNCHANGED <<cnt, list, blob>>
<1> USE DEF redis, loop, client, world
<1>1. CASE ProcessBlocks
  BY <1>1 DEF ProcessBlocks, GetNextBlockNumber, NoNextBlockNumber, FetchBlock, NoBlock,
     AskToEnrich, SendAddress, StartWrites, UpdateLastBlockNumber, Wake
<1>2. CASE Write
  BY <1>2 DEF Write
<1>3. CASE Shutdown \/ NewIndexer \/ Start
  BY <1>3 DEF Shutdown, NewIndexer, Start, InitErc20Token, NewEthClient
<1>4. CASE Environment
  BY <1>4 DEF Environment, NewBlock, NewEthPrice, NewTokenPrices, LabelAddress
<1>5. CASE UNCHANGED vars
  BY <1>5 DEF vars
<1> QED
  BY <1>1, <1>2, <1>3, <1>4, <1>5 DEF Next

\* Every step keeps the types.
LEMMA TypeStep == TypeOK /\ LoopInv /\ WritesInv /\ [Next]_vars => TypeOK'
<1> SUFFICES ASSUME TypeOK, LoopInv, WritesInv, [Next]_vars PROVE TypeOK'
  OBVIOUS
<1> USE DEF redis, loop, client, world
<1>f. /\ NoFault => faults' \in 0..MaxFaults
      /\ Fault => faults' \in 0..MaxFaults
  BY FaultsAssumption DEF NoFault, Fault, TypeOK
<1>1. CASE GetNextBlockNumber
  BY <1>1, <1>f DEF GetNextBlockNumber, TypeOK
<1>2. CASE NoNextBlockNumber
  BY <1>2, <1>f DEF NoNextBlockNumber, TypeOK
<1>3. CASE FetchBlock
  <2>1. cur \in Blocks
    BY <1>3, TipAssumption DEF FetchBlock, TypeOK, LoopInv, Blocks
  <2>2. PICK dropped \in SUBSET TokenTxs(Chain[cur]) :
          /\ rows' = Rows(Filed(Chain[cur], dropped))
          /\ ask' = Filed(Chain[cur], dropped) \X {"from", "to"}
          /\ NoFault \/ Fault
    BY <1>3 DEF FetchBlock
  <2>3. rows' \subseteq Row /\ ask' \subseteq ({tx \in Tx : tx.to # Nil} \X {"from", "to"})
    BY <2>1, <2>2, RowsType
  <2>4. late' \subseteq Blocks
    BY <1>3, <2>1 DEF FetchBlock, TypeOK
  <2> QED
    BY <1>3, <2>2, <2>3, <2>4, <1>f DEF FetchBlock, TypeOK
<1>4. CASE NoBlock
  BY <1>4, <1>f DEF NoBlock, TypeOK
<1>5. CASE AskToEnrich
  <2>1. \A q \in ask : (IF q[2] = "from" THEN q[1].from ELSE q[1].to) \in Addr
    BY DEF TypeOK, Tx
  <2>2. send' \in Addr \cup {Nil} /\ ask' \subseteq ask /\ (NoFault \/ Fault)
    <3>1. PICK q \in ask :
            /\ ask' = ask \ {q}
            /\ send' \in {Nil, IF q[2] = "from" THEN q[1].from ELSE q[1].to}
            /\ NoFault \/ Fault
      BY <1>5 DEF AskToEnrich
    <3> QED
      BY <3>1, <2>1
  <2> QED
    BY <1>5, <2>2, <1>f DEF AskToEnrich, TypeOK
<1>6. CASE SendAddress
  <2>1. send \in Addr
    BY <1>6 DEF SendAddress, TypeOK
  <2>2. queue \in [Addr -> Nat]
    BY DEF TypeOK
  <2>3. send' \in Addr \cup {Nil} /\ (NoFault \/ Fault)
    BY <1>6, <2>1 DEF SendAddress
  <2>4. queue' \in [Addr -> Nat]
    <3>1. CASE queue' = [queue EXCEPT ![send] = queue[send] + 1]
      BY <3>1, <2>2, <2>1
    <3>2. CASE UNCHANGED queue
      BY <3>2, <2>2
    <3> QED
      BY <1>6, <3>1, <3>2 DEF SendAddress
  <2> QED
    BY <1>6, <2>4, <2>3, <1>f DEF SendAddress, TypeOK
<1>7. CASE StartWrites
  <2>1. cur \in Blocks
    BY <1>7 DEF StartWrites, LoopInv
  <2>2. tries' \in Seq(Try)
    BY <1>7, <2>1 DEF StartWrites, TypeOK, Try
  <2>3. Len(tries) + 1 \in Nat \ {0}
    BY DEF TypeOK
  <2>4. pending' \subseteq Writes
    BY <1>7, <2>1, <2>3, TouchedAddr DEF StartWrites, TypeOK, Writes
  <2> QED
    BY <1>7, <2>2, <2>4, <1>f DEF StartWrites, TypeOK
<1>8. CASE UpdateLastBlockNumber
  BY <1>8, <1>f DEF UpdateLastBlockNumber, TypeOK
<1>9. CASE Wake
  BY <1>9, <1>f DEF Wake, TypeOK
<1>10. CASE Write
  <2>1. PICK w \in pending : Execute(w) \/ UNCHANGED <<cnt, list, blob>>
    BY <1>10 DEF Write
  <2>2. pending' \subseteq pending /\ (NoFault \/ Fault)
    BY <1>10 DEF Write
  <2>3. /\ cnt \in [Addr -> Nat] /\ list \in [Addr -> Seq(Blocks)]
        /\ blob \in [Blocks -> SUBSET (SUBSET Row)]
    BY DEF TypeOK
  <2>4. /\ cnt' \in [Addr -> Nat] /\ list' \in [Addr -> Seq(Blocks)]
        /\ blob' \in [Blocks -> SUBSET (SUBSET Row)]
    <3>1. CASE AddBlock(w)
      <4>1. {tries[w.try].rows} \in SUBSET (SUBSET Row)
        BY WriteType DEF Try
      <4> QED
        BY <2>3, <3>1, <4>1 DEF AddBlock
    <3>2. CASE UpdateCounter(w)
      <4>1. UNCHANGED <<list, blob>>
        BY <3>2 DEF UpdateCounter
      <4> QED
        BY <2>3, <3>2, <4>1, CounterGrows
    <3>3. CASE AppendBlockNumber(w)
      <4>1. UNCHANGED <<cnt, blob>>
        BY <3>3 DEF AppendBlockNumber
      <4> QED
        BY <2>3, <3>3, <4>1, ListGrows
    <3> QED
      BY <2>1, <2>3, <3>1, <3>2, <3>3 DEF Execute
  <2> QED
    BY <1>10, <2>2, <2>4, <1>f DEF Write, TypeOK
<1>11. CASE Shutdown
  BY <1>11, <1>f DEF Shutdown, TypeOK
<1>12. CASE NewIndexer \/ Start
  <2>1. CASE NewIndexer
    BY <2>1, <1>f DEF NewIndexer, TypeOK
  <2>2. CASE InitErc20Token
    BY <2>2, <1>f DEF InitErc20Token, TypeOK
  <2>3. CASE NewEthClient
    BY <2>3, <1>f DEF NewEthClient, TypeOK
  <2> QED
    BY <1>12, <2>1, <2>2, <2>3 DEF Start
<1>13. CASE Environment
  <2>1. CASE NewBlock
    BY <2>1, <1>f, TipAssumption DEF NewBlock, TypeOK
  <2>2. CASE NewEthPrice
    BY <2>2, <1>f, TipAssumption DEF NewEthPrice, TypeOK
  <2>3. CASE NewTokenPrices
    BY <2>3, <1>f, TipAssumption DEF NewTokenPrices, TypeOK
  <2>4. CASE LabelAddress
    <3>1. PICK a \in Addr : /\ queue[a] > 0
                            /\ queue' = [queue EXCEPT ![a] = queue[a] - 1]
                            /\ labelled' = labelled \cup {a}
      BY <2>4 DEF LabelAddress
    <3>2. queue' \in [Addr -> Nat] /\ labelled' \subseteq Addr
      BY <3>1 DEF TypeOK
    <3> QED
      BY <2>4, <3>2, <1>f DEF LabelAddress, TypeOK
  <2> QED
    BY <1>13, <2>1, <2>2, <2>3, <2>4 DEF Environment
<1>14. CASE UNCHANGED vars
  BY <1>14 DEF vars, TypeOK
<1> QED
  BY <1>1, <1>2, <1>3, <1>4, <1>5, <1>6, <1>7, <1>8, <1>9, <1>10, <1>11, <1>12,
     <1>13, <1>14 DEF Next, ProcessBlocks

\* A new try makes its block begun, and the tries before it stay.
LEMMA NewTry ==
  ASSUME TypeOK, LoopInv, StartWrites
  PROVE  /\ cur \in Blocks
         /\ Begun' = Begun \cup {cur}
         /\ \A t \in DOMAIN tries : t \in DOMAIN tries' /\ tries'[t] = tries[t]
         /\ Len(tries) + 1 \in DOMAIN tries'
         /\ tries'[Len(tries) + 1].block = cur
<1>1. cur \in Blocks
  BY DEF StartWrites, LoopInv
<1> DEFINE n == Len(tries) + 1
           x == [block |-> cur, rows |-> rows]
<1>2. x \in Try /\ x.block = cur
  BY <1>1 DEF Try, TypeOK
<1> HIDE DEF x
<1>3. tries \in Seq(Try) /\ tries' = Append(tries, x)
  BY DEF StartWrites, TypeOK, x
<1>4. /\ DOMAIN tries = 1..Len(tries)
      /\ DOMAIN tries' = 1..n
      /\ \A t \in DOMAIN tries : tries'[t] = tries[t]
      /\ tries'[n] = x
      /\ n \in Nat /\ 1..n = 1..Len(tries) \cup {n}
  BY <1>2, <1>3
<1>5. Begun' = Begun \cup {cur}
  BY <1>2, <1>4 DEF Begun
<1> QED
  BY <1>1, <1>2, <1>4, <1>5

\* Only StartWrites changes what has begun.
LEMMA BegunGrows ==
  ASSUME TypeOK, LoopInv, [Next]_vars
  PROVE  /\ Begun \subseteq Begun'
         /\ ~StartWrites => Begun' = Begun
<1>1. CASE StartWrites
  BY <1>1, NewTry
<1>2. CASE ~StartWrites
  BY <1>2, Frame DEF Begun
<1> QED
  BY <1>1, <1>2

\* The loop works on the block after meta:last_block.
LEMMA LoopStep == TypeOK /\ LoopInv /\ [Next]_vars => LoopInv'
<1> SUFFICES ASSUME TypeOK, LoopInv, [Next]_vars PROVE LoopInv'
  OBVIOUS
<1> USE DEF redis, loop, client, world
<1>b. Begun \subseteq Begun'
  BY BegunGrows
<1>1. CASE GetNextBlockNumber
  BY <1>1 DEF GetNextBlockNumber, LoopInv
<1>2. CASE NoNextBlockNumber
  BY <1>2 DEF NoNextBlockNumber, LoopInv
<1>3. CASE FetchBlock
  <2>1. cur \in Blocks
    BY <1>3, TipAssumption DEF FetchBlock, TypeOK, LoopInv, Blocks
  <2> QED
    BY <1>3, <2>1 DEF FetchBlock, LoopInv
<1>4. CASE NoBlock
  BY <1>4 DEF NoBlock, LoopInv
<1>5. CASE AskToEnrich
  BY <1>5 DEF AskToEnrich, LoopInv
<1>6. CASE SendAddress
  BY <1>6 DEF SendAddress, LoopInv
<1>7. CASE StartWrites
  <2>1. cur \in Begun'
    BY <1>7, NewTry
  <2> QED
    BY <1>7, <2>1 DEF StartWrites, LoopInv
<1>8. CASE UpdateLastBlockNumber
  BY <1>8 DEF UpdateLastBlockNumber, LoopInv
<1>9. CASE Wake
  BY <1>9 DEF Wake, LoopInv
<1>10. CASE Write
  BY <1>10, <1>b DEF Write, LoopInv
<1>11. CASE Shutdown \/ NewIndexer \/ Start
  BY <1>11 DEF Shutdown, NewIndexer, Start, InitErc20Token, NewEthClient, LoopInv
<1>12. CASE Environment
  BY <1>12, <1>b DEF Environment, NewBlock, NewEthPrice, NewTokenPrices, LabelAddress, LoopInv
<1>13. CASE UNCHANGED vars
  BY <1>13, <1>b DEF vars, LoopInv
<1> QED
  BY <1>1, <1>2, <1>3, <1>4, <1>5, <1>6, <1>7, <1>8, <1>9, <1>10, <1>11, <1>12,
     <1>13 DEF Next, ProcessBlocks

\* The writes in flight stay tied to their tries.
LEMMA WritesStep == TypeOK /\ LoopInv /\ WritesInv /\ [Next]_vars => WritesInv'
<1> SUFFICES ASSUME TypeOK, LoopInv, WritesInv, [Next]_vars,
                    NEW w \in pending'
             PROVE  /\ w.try \in DOMAIN tries'
                    /\ w.kind # "blob" => w.addr \in Touched(Chain[tries'[w.try].block])
  BY DEF WritesInv, BlockOf
<1>1. CASE w \in pending
  <2>1. w.try \in DOMAIN tries /\ (w.kind # "blob" => w.addr \in Touched(Chain[tries[w.try].block]))
    BY <1>1 DEF WritesInv, BlockOf
  <2>2. w.try \in DOMAIN tries' /\ tries'[w.try] = tries[w.try]
    BY <2>1, NewTry, Frame
  <2> QED
    BY <2>1, <2>2
<1>2. CASE w \notin pending
  <2>1. StartWrites
    BY <1>2, Frame
  <2>2. /\ w.try = Len(tries) + 1
        /\ w.kind # "blob" => w.addr \in Touched(Chain[cur])
    BY <1>2, <2>1 DEF StartWrites
  <2> QED
    BY <2>1, <2>2, NewTry
<1> QED
  BY <1>1, <1>2

\* The blocks begun are the ones up to meta:last_block, and maybe the next.
LEMMA NoGapStep == TypeOK /\ LoopInv /\ NoGap /\ [Next]_vars => NoGap'
<1> SUFFICES ASSUME TypeOK, LoopInv, NoGap, [Next]_vars PROVE NoGap'
  OBVIOUS
<1>1. Done \in Nat /\ (last # Nil => Done = last)
  BY DEF Done, TypeOK
<1>2. CASE StartWrites
  <2>1. cur = Done + 1 /\ last' = last
    BY <1>1, <1>2 DEF StartWrites, LoopInv, redis
  <2>2. Done' = Done
    BY <2>1 DEF Done
  <2>3. 1..(Done + 1) = 1..Done \cup {Done + 1}
    BY <1>1
  <2>4. Begun' = 1..(Done + 1)
    BY <1>2, <2>1, <2>3, NewTry DEF NoGap
  <2> QED
    BY <2>2, <2>4 DEF NoGap
<1>3. CASE UpdateLastBlockNumber
  <2>1. Begun' = Begun /\ cur \in Begun /\ cur = Done + 1
    BY <1>1, <1>3, Frame DEF UpdateLastBlockNumber, LoopInv, Begun
  <2>2. Begun = 1..(Done + 1)
    BY <1>1, <2>1 DEF NoGap
  <2>3. last' \in {last, Done + 1} /\ Done + 1 # Nil
    BY <1>1, <1>3, <2>1, NilNotInt DEF UpdateLastBlockNumber
  <2>4. Done' \in {Done, Done + 1}
    BY <2>3 DEF Done
  <2> QED
    BY <2>1, <2>2, <2>4 DEF NoGap
<1>4. CASE ~StartWrites /\ ~UpdateLastBlockNumber
  BY <1>4, Frame DEF NoGap, Begun, Done
<1> QED
  BY <1>2, <1>3, <1>4

ListSound ==
  \A a \in Addr : \A i \in DOMAIN list[a] :
    list[a][i] \in Begun /\ a \in Touched(Chain[list[a][i]])

BlobSound ==
  \A b \in Blocks : \A r \in blob[b] :
    \E t \in DOMAIN tries : tries[t] = [block |-> b, rows |-> r]

\* A block number that is added to a list is the number of a try.
LEMMA ListSoundStep ==
  TypeOK /\ LoopInv /\ WritesInv /\ ListSound /\ [Next]_vars => ListSound'
<1> SUFFICES ASSUME TypeOK, LoopInv, WritesInv, ListSound, [Next]_vars PROVE ListSound'
  OBVIOUS
<1>b. Begun \subseteq Begun'
  BY BegunGrows
<1>1. CASE UNCHANGED list
  BY <1>1, <1>b DEF ListSound
<1>2. CASE list' # list
  <2>1. Write
    BY <1>2, Frame
  <2>2. PICK w \in pending : AppendBlockNumber(w)
    BY <1>2, <2>1 DEF Write, Execute, AddBlock, UpdateCounter
  <2>3. PICK s \in Seq(Blocks) :
          /\ list' = [list EXCEPT ![w.addr] = s]
          /\ \A i \in DOMAIN s : \/ s[i] = BlockOf(w)
                                 \/ i \in DOMAIN list[w.addr] /\ s[i] = list[w.addr][i]
    BY <2>2, ListGrows
  <2>4. BlockOf(w) \in Begun /\ w.addr \in Touched(Chain[BlockOf(w)]) /\ w.addr \in Addr
    BY <2>2, WriteType, ListGrows DEF Begun, BlockOf
  <2>5. list \in [Addr -> Seq(Blocks)]
    BY DEF TypeOK
  <2>6. ASSUME NEW a \in Addr, NEW i \in DOMAIN list'[a]
        PROVE  list'[a][i] \in Begun /\ a \in Touched(Chain[list'[a][i]])
    <3>1. CASE a = w.addr
      <4>1. list'[a] = s
        BY <2>3, <2>4, <2>5, <3>1
      <4> QED
        BY <2>3, <2>4, <3>1, <4>1 DEF ListSound
    <3>2. CASE a # w.addr
      BY <2>3, <2>5, <3>2 DEF ListSound
    <3> QED
      BY <3>1, <3>2
  <2> QED
    BY <2>6, <1>b DEF ListSound
<1> QED
  BY <1>1, <1>2

\* A blob that is stored is the blob of a try.
LEMMA BlobSoundStep ==
  TypeOK /\ LoopInv /\ WritesInv /\ BlobSound /\ [Next]_vars => BlobSound'
<1> SUFFICES ASSUME TypeOK, LoopInv, WritesInv, BlobSound, [Next]_vars,
                    NEW b \in Blocks, NEW r \in blob'[b]
             PROVE  \E t \in DOMAIN tries' : tries'[t] = [block |-> b, rows |-> r]
  BY DEF BlobSound
<1>1. \A t \in DOMAIN tries : t \in DOMAIN tries' /\ tries'[t] = tries[t]
  BY NewTry, Frame
<1>2. CASE blob'[b] = blob[b]
  BY <1>1, <1>2 DEF BlobSound
<1>3. CASE blob'[b] # blob[b]
  <2>1. Write
    BY <1>3, Frame
  <2>2. PICK w \in pending : AddBlock(w)
    BY <1>3, <2>1 DEF Write, Execute, AppendBlockNumber, UpdateCounter
  <2>3. blob \in [Blocks -> SUBSET (SUBSET Row)]
    BY DEF TypeOK
  <2>4. b = BlockOf(w) /\ r = tries[w.try].rows
    BY <1>3, <2>2, <2>3, WriteType DEF AddBlock
  <2>5. w.try \in DOMAIN tries /\ tries[w.try] \in Try
    BY WriteType
  <2>6. tries[w.try] = [block |-> b, rows |-> r]
    BY <2>4, <2>5 DEF Try, BlockOf
  <2> QED
    BY <1>1, <2>5, <2>6
<1> QED
  BY <1>2, <1>3

\* Counters never shrink.
LEMMA CounterStep ==
  ASSUME TypeOK, WritesInv, [Next]_vars, NEW a \in Addr
  PROVE  cnt'[a] >= cnt[a] /\ cnt[a] \in Nat /\ cnt'[a] \in Nat
<1>0. cnt \in [Addr -> Nat]
  BY DEF TypeOK
<1>1. CASE UNCHANGED cnt
  BY <1>0, <1>1
<1>2. CASE cnt' # cnt
  <2>1. PICK w \in pending : UpdateCounter(w)
    BY <1>2, Frame DEF Write, Execute, AddBlock, AppendBlockNumber
  <2>2. PICK m \in Nat : cnt' = [cnt EXCEPT ![w.addr] = cnt[w.addr] + m]
    BY <2>1, CounterGrows
  <2> QED
    BY <1>0, <2>2
<1> QED
  BY <1>1, <1>2

\* An address is queued only after its counter has been seen to be high.
LEMMA QueueStep ==
  TypeOK /\ WritesInv /\ QueueJustified /\ [Next]_vars => QueueJustified'
<1> SUFFICES ASSUME TypeOK, WritesInv, QueueJustified, [Next]_vars,
                    NEW a \in Addr, queue'[a] > 0 \/ send' = a
             PROVE  cnt'[a] >= EnrichAt
  BY DEF QueueJustified
<1> USE DEF redis, loop, client, world
<1>0. queue \in [Addr -> Nat] /\ EnrichAt \in Nat /\ a # Nil
  BY EnrichAssumption, NilAssumption DEF TypeOK
<1>1. (queue[a] > 0 \/ send = a) => cnt'[a] >= EnrichAt
  BY <1>0, CounterStep DEF QueueJustified
<1>2. CASE AskToEnrich
  <2>1. \/ send' = Nil
        \/ send' = a /\ cnt[a] >= EnrichAt
        \/ send' # a
    BY <1>2 DEF AskToEnrich
  <2>2. queue' = queue
    BY <1>2 DEF AskToEnrich
  <2> QED
    BY <1>0, <1>1, <2>1, <2>2, CounterStep
<1>3. CASE SendAddress
  <2>1. queue'[a] > 0 => queue[a] > 0 \/ send = a
    BY <1>0, <1>3 DEF SendAddress
  <2>2. send' \in {send, Nil}
    BY <1>3 DEF SendAddress
  <2> QED
    BY <1>0, <1>1, <2>1, <2>2
<1>4. CASE LabelAddress
  <2>1. PICK x \in Addr : queue[x] > 0 /\ queue' = [queue EXCEPT ![x] = queue[x] - 1]
    BY <1>4 DEF LabelAddress
  <2>2. queue'[a] > 0 => queue[a] > 0
    BY <1>0, <2>1
  <2> QED
    BY <1>1, <1>4, <2>2 DEF LabelAddress
<1>5. CASE ProcessBlocks /\ ~AskToEnrich /\ ~SendAddress
  <2>1. UNCHANGED <<queue, send>>
    BY <1>5 DEF ProcessBlocks, GetNextBlockNumber, NoNextBlockNumber, FetchBlock, NoBlock,
       StartWrites, UpdateLastBlockNumber, Wake
  <2> QED
    BY <1>1, <2>1
<1>6. CASE Write
  BY <1>1, <1>6 DEF Write
<1>7. CASE Shutdown \/ NewIndexer \/ Start
  BY <1>0, <1>1, <1>7 DEF Shutdown, NewIndexer, Start, InitErc20Token, NewEthClient
<1>8. CASE NewBlock \/ NewEthPrice \/ NewTokenPrices
  BY <1>1, <1>8 DEF NewBlock, NewEthPrice, NewTokenPrices
<1>9. CASE UNCHANGED vars
  BY <1>1, <1>9 DEF vars
<1> QED
  BY <1>2, <1>3, <1>4, <1>5, <1>6, <1>7, <1>8, <1>9 DEF Next, Environment

All(b) == Rows(Filed(Chain[b], Lost(b)))

\* Until something fails the client knows every readable token that it has asked,
\* all of them when the loop runs, and what is built and tried has all the rows.
RowsInv ==
  faults = 0 =>
    /\ pc # "down" => Tokens \ Unreadable \subseteq cache \cup contracts
    /\ cache \cap Unreadable = {}
    /\ pc \notin {"down", "start"} => contracts = {}
    /\ pc = "down" => cache = {}
    /\ pc = "ask" => cur \in late \/ rows = All(cur)
    /\ \A t \in DOMAIN tries : tries[t].block \in late \/ tries[t].rows = All(tries[t].block)

\* A client that knows every readable token drops no other transfer than those that
\* are lost, once the prices are there.
LEMMA FetchedAll ==
  ASSUME TypeOK, LoopInv, FetchBlock, NoFault,
         Tokens \ Unreadable \subseteq cache, cache \cap Unreadable = {}
  PROVE  cur \in late' \/ rows' = All(cur)
<1>1. CASE cur > tokUpTo
  BY <1>1 DEF FetchBlock
<1>2. CASE ~(cur > tokUpTo)
  <2>1. PICK dropped \in SUBSET TokenTxs(Chain[cur]) :
          LET unknown == {tx \in TokenTxs(Chain[cur]) : GetToken(tx.to) = Nil}
          IN  /\ rows' = Rows(Filed(Chain[cur], dropped))
              /\ \/ dropped = unknown
                 \/ dropped # unknown /\ cur <= tokUpTo /\ Fault
    BY <1>2 DEF FetchBlock
  <2>2. ~Fault
    BY DEF Fault, NoFault, TypeOK
  <2>3. \A tx \in TokenTxs(Chain[cur]) : GetToken(tx.to) = Nil <=> tx.to \in Unreadable
    BY NilAssumption DEF TokenTxs, IsTransfer, GetToken
  <2>4. dropped = Lost(cur)
    BY <2>1, <2>2, <2>3 DEF Lost
  <2> QED
    BY <2>1, <2>4 DEF All
<1> QED
  BY <1>1, <1>2

LEMMA RowsStep == TypeOK /\ LoopInv /\ RowsInv /\ [Next]_vars => RowsInv'
<1> SUFFICES ASSUME TypeOK, LoopInv, RowsInv, [Next]_vars, faults' = 0 PROVE RowsInv'
  BY DEF RowsInv
<1> USE DEF redis, loop, client, world
<1>f. ~Fault
  BY DEF Fault, TypeOK
<1>0. faults = 0
  <2>1. NoFault \/ Fault \/ UNCHANGED faults
    <3>1. CASE ProcessBlocks
      BY <3>1 DEF ProcessBlocks, GetNextBlockNumber, NoNextBlockNumber, FetchBlock, NoBlock,
         AskToEnrich, SendAddress, StartWrites, UpdateLastBlockNumber, Wake
    <3>2. CASE Write
      BY <3>2 DEF Write
    <3>3. CASE Shutdown \/ NewIndexer \/ Start
      BY <3>3 DEF Shutdown, NewIndexer, Start, InitErc20Token, NewEthClient
    <3>4. CASE Environment
      BY <3>4 DEF Environment, NewBlock, NewEthPrice, NewTokenPrices, LabelAddress
    <3>5. CASE UNCHANGED vars
      BY <3>5 DEF vars
    <3> QED
      BY <3>1, <3>2, <3>3, <3>4, <3>5 DEF Next
  <2> QED
    BY <1>f, <2>1 DEF NoFault
<1>1. CASE GetNextBlockNumber \/ NoNextBlockNumber \/ NoBlock \/ Wake
  BY <1>0, <1>1 DEF GetNextBlockNumber, NoNextBlockNumber, NoBlock, Wake, RowsInv
<1>2. CASE FetchBlock
  <2>1. NoFault
    BY <1>2, <1>f DEF FetchBlock
  <2>2. Tokens \ Unreadable \subseteq cache /\ cache \cap Unreadable = {}
    BY <1>0, <1>2 DEF FetchBlock, RowsInv
  <2>3. cur \in late' \/ rows' = All(cur)
    BY <1>2, <2>1, <2>2, FetchedAll
  <2>4. late \subseteq late' /\ UNCHANGED <<cur, contracts, cache, tries>> /\ pc = "fetch" /\ pc' = "ask"
    BY <1>2 DEF FetchBlock
  <2> QED
    BY <1>0, <2>3, <2>4 DEF RowsInv
<1>3. CASE AskToEnrich \/ SendAddress
  BY <1>0, <1>3 DEF AskToEnrich, SendAddress, RowsInv
<1>4. CASE StartWrites
  <2>1. /\ tries' = Append(tries, [block |-> cur, rows |-> rows]) /\ pc = "ask" /\ pc' = "advance"
        /\ UNCHANGED <<late, contracts, cache>>
    BY <1>4 DEF StartWrites
  <2>2. [block |-> cur, rows |-> rows] \in Try
    BY <1>4 DEF StartWrites, LoopInv, TypeOK, Try
  <2>3. \A t \in DOMAIN tries' : (t \in DOMAIN tries /\ tries'[t] = tries[t])
                                 \/ tries'[t] = [block |-> cur, rows |-> rows]
    BY <2>1, <2>2 DEF TypeOK
  <2> QED
    BY <1>0, <2>1, <2>3 DEF RowsInv
<1>5. CASE UpdateLastBlockNumber
  BY <1>0, <1>5, <1>f DEF UpdateLastBlockNumber, RowsInv
<1>6. CASE Write
  BY <1>0, <1>6 DEF Write, RowsInv
<1>7. CASE Shutdown
  BY <1>7, <1>f DEF Shutdown
<1>8. CASE NewIndexer
  BY <1>0, <1>8 DEF NewIndexer, RowsInv
<1>9. CASE InitErc20Token
  <2>1. PICK t \in contracts :
          /\ contracts' = contracts \ {t}
          /\ IF t \in Unreadable THEN cache' = cache ELSE cache' = cache \cup {t}
    BY <1>9, <1>f DEF InitErc20Token
  <2>2. (cache' \cup contracts') \ Unreadable = (cache \cup contracts) \ Unreadable
    BY <2>1
  <2>3. cache' \cap Unreadable = cache \cap Unreadable
    BY <2>1
  <2>4. UNCHANGED <<pc, cur, rows, late, tries>> /\ pc = "start"
    BY <1>9 DEF InitErc20Token
  <2> QED
    BY <1>0, <2>4, <2>2, <2>3 DEF RowsInv
<1>10. CASE NewEthClient
  BY <1>0, <1>10 DEF NewEthClient, RowsInv
<1>11. CASE Environment
  BY <1>0, <1>11 DEF Environment, NewBlock, NewEthPrice, NewTokenPrices, LabelAddress, RowsInv
<1>12. CASE UNCHANGED vars
  BY <1>0, <1>12 DEF vars, RowsInv
<1> QED
  BY <1>1, <1>2, <1>3, <1>4, <1>5, <1>6, <1>7, <1>8, <1>9, <1>10, <1>11, <1>12
     DEF Next, ProcessBlocks, Start

\* A blob is that of a try, so it has the rows of a try.
LEMMA BlobsKept == TypeOK /\ BlobSound /\ RowsInv => RowsKept
<1> SUFFICES ASSUME TypeOK, BlobSound, RowsInv, faults = 0,
                    NEW b \in Blocks \ late, NEW r \in blob[b]
             PROVE  r = Rows(Filed(Chain[b], Lost(b)))
  BY DEF RowsKept
<1>1. PICK t \in DOMAIN tries : tries[t] = [block |-> b, rows |-> r]
  BY DEF BlobSound
<1>2. tries[t].block = b /\ tries[t].rows = r
  BY <1>1
<1> QED
  BY <1>2 DEF RowsInv, All

-----------------------------------------------------------------------------
\* The inductive invariant: the properties, and what ties the loop and the
\* writes in flight to the tries they come from.
IInv == TypeOK /\ LoopInv /\ WritesInv /\ NoGap /\ IndexSound /\ QueueJustified /\ RowsInv

LEMMA IInvInit == Init => IInv
<1> SUFFICES ASSUME Init PROVE IInv
  OBVIOUS
<1>1. TypeOK
  BY TypeInit
<1>2. LoopInv /\ WritesInv
  BY DEF Init, LoopInv, WritesInv
<1>3. Begun = {} /\ Done = 0
  BY SeedsAssumption DEF Init, Begun, Done
<1>4. NoGap
  BY <1>3 DEF NoGap
<1>5. IndexSound
  BY DEF Init, IndexSound
<1>6. QueueJustified
  BY NilAssumption DEF Init, QueueJustified
<1>7. RowsInv
  BY DEF Init, RowsInv
<1> QED
  BY <1>1, <1>2, <1>4, <1>5, <1>6, <1>7 DEF IInv

LEMMA IInvStep == IInv /\ [Next]_vars => IInv'
<1>1. IndexSound = (ListSound /\ BlobSound)
  BY DEF IndexSound, ListSound, BlobSound
<1>2. IndexSound' = (ListSound /\ BlobSound)'
  BY DEF IndexSound, ListSound, BlobSound
<1> QED
  BY <1>1, <1>2, TypeStep, LoopStep, WritesStep, NoGapStep, ListSoundStep, BlobSoundStep,
     QueueStep, RowsStep DEF IInv

\* The inductive invariant holds in every reachable state.
THEOREM IndexerInvariant == Spec => []IInv
BY IInvInit, IInvStep, PTL DEF Spec

\* Type correctness, for every chain and any number of faults.
THEOREM IndexerTypes == Spec => []TypeOK
<1>1. IInv => TypeOK
  BY DEF IInv
<1> QED
  BY <1>1, IndexerInvariant, PTL

\* meta:last_block never passes a block that was not handed to the writers.
THEOREM IndexerNoGap == Spec => []NoGap
<1>1. IInv => NoGap
  BY DEF IInv
<1> QED
  BY <1>1, IndexerInvariant, PTL

\* The lists and the blobs never hold what the chain does not.
THEOREM IndexerSound == Spec => []IndexSound
<1>1. IInv => IndexSound
  BY DEF IInv
<1> QED
  BY <1>1, IndexerInvariant, PTL

\* Only busy addresses wait for labels.
THEOREM IndexerQueue == Spec => []QueueJustified
<1>1. IInv => QueueJustified
  BY DEF IInv
<1> QED
  BY <1>1, IndexerInvariant, PTL

\* A token transfer is lost only to a contract that can never be read, a late price or
\* a failed call.
THEOREM IndexerRows == Spec => []RowsKept
<1>1. IInv => RowsKept
  BY BlobsKept DEF IInv, IndexSound, BlobSound
<1> QED
  BY <1>1, IndexerInvariant, PTL

-----------------------------------------------------------------------------
(* No payment is ever lost from a stored block.                            *)

\* The rows that block b may come to have: all its payments, and some of its
\* token transfers.
MayHave(b) == {Rows(Filed(Chain[b], dropped)) : dropped \in SUBSET TokenTxs(Chain[b])}

\* A blob has a row for every payment of its block, and no row but those of its
\* payments and token transfers: unlike a transfer (RowsKept), a payment is not
\* lost to a missing price, a failed call or a restart.
PaymentsKept ==
  \A b \in Blocks : \A R \in blob[b] :
    Rows(PaidTxs(Chain[b])) \subseteq R /\ R \subseteq Rows(Filed(Chain[b], {}))

\* What handleBlock has built, and what the goroutines were given, are such rows.
RowsMade ==
  /\ pc = "ask" => rows \in MayHave(cur)
  /\ \A t \in DOMAIN tries : tries[t].rows \in MayHave(tries[t].block)

LEMMA RowsMadeStep == TypeOK /\ LoopInv /\ RowsMade /\ [Next]_vars => RowsMade'
<1> SUFFICES ASSUME TypeOK, LoopInv, RowsMade, [Next]_vars PROVE RowsMade'
  OBVIOUS
<1> USE DEF redis, loop, client, world
<1>1. CASE FetchBlock
  <2>1. PICK dropped \in SUBSET TokenTxs(Chain[cur]) : rows' = Rows(Filed(Chain[cur], dropped))
    BY <1>1 DEF FetchBlock
  <2>2. UNCHANGED <<cur, tries>>
    BY <1>1 DEF FetchBlock
  <2> QED
    BY <2>1, <2>2 DEF RowsMade, MayHave
<1>2. CASE StartWrites
  <2>1. /\ tries' = Append(tries, [block |-> cur, rows |-> rows]) /\ pc = "ask" /\ pc' = "advance"
    BY <1>2 DEF StartWrites
  <2>2. [block |-> cur, rows |-> rows] \in Try
    BY <1>2 DEF StartWrites, LoopInv, TypeOK, Try
  <2>3. \A t \in DOMAIN tries' : (t \in DOMAIN tries /\ tries'[t] = tries[t])
                                 \/ tries'[t] = [block |-> cur, rows |-> rows]
    BY <2>1, <2>2 DEF TypeOK
  <2> QED
    BY <2>1, <2>3 DEF RowsMade
<1>3. CASE ~FetchBlock /\ ~StartWrites
  <2>1. UNCHANGED tries /\ (pc' = "ask" => pc = "ask" /\ UNCHANGED <<cur, rows>>)
    <3>1. CASE ProcessBlocks
      BY <1>3, <3>1 DEF ProcessBlocks, GetNextBlockNumber, NoNextBlockNumber, NoBlock,
         AskToEnrich, SendAddress, UpdateLastBlockNumber, Wake
    <3>2. CASE Write
      BY <3>2 DEF Write
    <3>3. CASE Shutdown \/ NewIndexer \/ Start
      BY <3>3 DEF Shutdown, NewIndexer, Start, InitErc20Token, NewEthClient
    <3>4. CASE Environment
      BY <3>4 DEF Environment, NewBlock, NewEthPrice, NewTokenPrices, LabelAddress
    <3>5. CASE UNCHANGED vars
      BY <3>5 DEF vars
    <3> QED
      BY <3>1, <3>2, <3>3, <3>4, <3>5 DEF Next
  <2> QED
    BY <2>1 DEF RowsMade
<1> QED
  BY <1>1, <1>2, <1>3

LEMMA MadeKept == BlobSound /\ RowsMade => PaymentsKept
<1> SUFFICES ASSUME BlobSound, RowsMade, NEW b \in Blocks, NEW R \in blob[b]
             PROVE  Rows(PaidTxs(Chain[b])) \subseteq R /\ R \subseteq Rows(Filed(Chain[b], {}))
  BY DEF PaymentsKept
<1>1. PICK t \in DOMAIN tries : tries[t] = [block |-> b, rows |-> R]
  BY DEF BlobSound
<1>2. R \in MayHave(b)
  BY <1>1 DEF RowsMade
<1>3. PICK dropped : R = Rows(Filed(Chain[b], dropped))
  BY <1>2 DEF MayHave
<1>4. /\ PaidTxs(Chain[b]) \subseteq Filed(Chain[b], dropped)
      /\ Filed(Chain[b], dropped) \subseteq Filed(Chain[b], {})
  BY DEF Filed
<1> QED
  BY <1>3, <1>4 DEF Rows

\* A stored block has all its payments, whatever fails.
THEOREM IndexerPayments == Spec => []PaymentsKept
<1>1. Init => RowsMade
  BY DEF Init, RowsMade
<1>2. IInv /\ RowsMade /\ [Next]_vars => RowsMade'
  BY RowsMadeStep DEF IInv
<1>3. IInv /\ RowsMade => PaymentsKept
  BY MadeKept DEF IInv, IndexSound, BlobSound
<1> QED
  BY <1>1, <1>2, <1>3, IndexerInvariant, PTL DEF Spec

-----------------------------------------------------------------------------
(* The indexer implements BlockLedger.                                     *)

LEMMA LedgerInit == Init => Ledger!Init
<1> SUFFICES ASSUME Init PROVE Ledger!Init
  OBVIOUS
<1>1. Begun = {} /\ Done = 0
  BY SeedsAssumption DEF Init, Begun, Done
<1>2. Known = {}
  BY DEF Init, Known, Entries
<1> QED
  BY <1>1, <1>2 DEF Ledger!Init

\* The facts that the lists hold, one by one.
LEMMA EntriesOf ==
  ASSUME NEW l \in [Addr -> Seq(Blocks)]
  PROVE  Entries(l) = {f \in Blocks \X Addr : \E i \in DOMAIN l[f[2]] : l[f[2]][i] = f[1]}
<1>1. ASSUME NEW a \in Addr, NEW i \in DOMAIN l[a]
      PROVE  l[a][i] \in Blocks
  <2>1. l[a] \in Seq(Blocks)
    OBVIOUS
  <2> QED
    BY <2>1, <1>1
<1>2. ASSUME NEW f \in Entries(l)
      PROVE  f \in Blocks \X Addr /\ \E i \in DOMAIN l[f[2]] : l[f[2]][i] = f[1]
  <2>1. PICK a \in Addr : \E i \in DOMAIN l[a] : f = <<l[a][i], a>>
    BY <1>2 DEF Entries
  <2>2. PICK i \in DOMAIN l[a] : f = <<l[a][i], a>>
    BY <2>1
  <2>3. f[1] = l[a][i] /\ f[2] = a
    BY <2>2
  <2> QED
    BY <1>1, <2>2, <2>3
<1>3. ASSUME NEW f \in Blocks \X Addr, NEW i \in DOMAIN l[f[2]], l[f[2]][i] = f[1]
      PROVE  f \in Entries(l)
  <2>1. f = <<l[f[2]][i], f[2]>> /\ f[2] \in Addr
    BY <1>3
  <2> QED
    BY <2>1 DEF Entries
<1> QED
  BY <1>2, <1>3

\* What is known changes only by the facts of one block that has begun.
LEMMA KnownStep ==
  ASSUME IInv, [Next]_vars
  PROVE  \/ Known' = Known
         \/ \E b \in Begun : \E x \in Touched(Chain[b]) \cup {Nil} : Known' = Known \cup {<<b, x>>}
<1>0. TypeOK /\ LoopInv /\ WritesInv
  BY DEF IInv
<1>1. CASE UNCHANGED <<list, blob>>
  BY <1>1 DEF Known
<1>2. CASE ~UNCHANGED <<list, blob>>
  <2>1. PICK w \in pending : AddBlock(w) \/ AppendBlockNumber(w)
    BY <1>2, Frame DEF Write, Execute, UpdateCounter
  <2>2. BlockOf(w) \in Begun /\ BlockOf(w) \in Blocks
    BY <1>0, WriteType DEF Begun, BlockOf
  <2>3. CASE AddBlock(w)
    <3>1. blob \in [Blocks -> SUBSET (SUBSET Row)] /\ UNCHANGED list
      BY <1>0, <2>3 DEF TypeOK, AddBlock
    <3>2. blob' = [blob EXCEPT ![BlockOf(w)] = {tries[w.try].rows}]
      BY <2>3 DEF AddBlock
    <3>3. {x \in Blocks : blob'[x] # {}} = {x \in Blocks : blob[x] # {}} \cup {BlockOf(w)}
      BY <2>2, <3>1, <3>2
    <3>4. Known' = Known \cup {<<BlockOf(w), Nil>>}
      BY <3>1, <3>3 DEF Known
    <3> QED
      BY <2>2, <3>4
  <2>4. CASE AppendBlockNumber(w)
    <3>1. PICK s \in Seq(Blocks) :
              /\ list' = [list EXCEPT ![w.addr] = s]
              /\ \A i \in DOMAIN list[w.addr] : i \in DOMAIN s /\ s[i] = list[w.addr][i]
              /\ \A i \in DOMAIN s : \/ s[i] = BlockOf(w)
                                     \/ i \in DOMAIN list[w.addr] /\ s[i] = list[w.addr][i]
      BY <1>0, <2>4, ListGrows
    <3>2. /\ list \in [Addr -> Seq(Blocks)] /\ w.addr \in Addr
          /\ w.addr \in Touched(Chain[BlockOf(w)]) /\ UNCHANGED blob
      BY <1>0, <2>4, ListGrows DEF TypeOK, AppendBlockNumber
    <3> DEFINE Has(l, f) == \E i \in DOMAIN l[f[2]] : l[f[2]][i] = f[1]
               L(l) == {f \in Blocks \X Addr : Has(l, f)}
               new == <<BlockOf(w), w.addr>>
    <3>3. ASSUME NEW f \in Blocks \X Addr, f[2] # w.addr
          PROVE  Has(list', f) <=> Has(list, f)
      <4>1. list'[f[2]] = list[f[2]]
        BY <3>1, <3>2, <3>3
      <4> QED
        BY <4>1
    <3>4. ASSUME NEW f \in Blocks \X Addr, f[2] = w.addr, f[1] # BlockOf(w)
          PROVE  Has(list', f) <=> Has(list, f)
      <4>1. list'[f[2]] = s
        BY <3>1, <3>2, <3>4
      <4> QED
        BY <3>1, <3>4, <4>1
    <3>5. Has(list, new) => Has(list', new)
      <4>1. list'[w.addr] = s
        BY <3>1, <3>2
      <4> QED
        BY <3>1, <4>1
    <3>6. new \in Blocks \X Addr /\ \A f \in Blocks \X Addr : f # new => f[2] # w.addr \/ f[1] # BlockOf(w)
      BY <2>2, <3>2
    <3>7. \A f \in Blocks \X Addr : f # new => (Has(list', f) <=> Has(list, f))
      BY <3>3, <3>4, <3>6
    <3> HIDE DEF Has, new
    <3>8. L(list') = L(list) \/ L(list') = L(list) \cup {new}
      BY <3>5, <3>6, <3>7
    <3>9. Known = L(list) \cup {<<x, Nil>> : x \in {y \in Blocks : blob[y] # {}}}
      BY <3>2, EntriesOf DEF Known, Has
    <3>10. Known' = L(list') \cup {<<x, Nil>> : x \in {y \in Blocks : blob[y] # {}}}
      <4>1. list' \in [Addr -> Seq(Blocks)]
        BY <3>1, <3>2
      <4> QED
        BY <3>2, <4>1, EntriesOf DEF Known, Has
    <3>11. Known' = Known \/ Known' = Known \cup {new}
      BY <3>8, <3>9, <3>10
    <3> QED
      BY <2>2, <3>2, <3>11 DEF new
  <2> QED
    BY <2>1, <2>3, <2>4
<1> QED
  BY <1>1, <1>2

\* Every step of the indexer is a step of the ledger, or none.
LEMMA LedgerStep == IInv /\ [Next]_vars => [Ledger!Next]_Ledger!vars
<1> SUFFICES ASSUME IInv, [Next]_vars PROVE [Ledger!Next]_Ledger!vars
  OBVIOUS
<1>0. TypeOK /\ LoopInv /\ NoGap
  BY DEF IInv
<1>1. Done \in Nat /\ (last # Nil => Done = last)
  BY <1>0 DEF Done, TypeOK
<1>2. CASE StartWrites
  <2>1. cur = Done + 1 /\ UNCHANGED <<last, list, blob>>
    BY <1>0, <1>1, <1>2 DEF StartWrites, LoopInv, redis
  <2>2. Begun' = Begun \cup {Done + 1} /\ Done' = Done /\ Known' = Known
    BY <1>0, <1>2, <2>1, NewTry DEF Done, Known
  <2> QED
    BY <2>2 DEF Ledger!Next, Ledger!Begin
<1>3. CASE UpdateLastBlockNumber
  <2>1. Begun' = Begun /\ Known' = Known
    BY <1>3 DEF UpdateLastBlockNumber, Begun, Known
  <2>2. cur \in Begun /\ cur = Done + 1 /\ last' \in {last, Done + 1}
    BY <1>0, <1>1, <1>3 DEF UpdateLastBlockNumber, LoopInv
  <2>3. Done' \in {Done, Done + 1}
    BY <1>1, <2>2, NilNotInt DEF Done
  <2> QED
    BY <2>1, <2>2, <2>3 DEF Ledger!Next, Ledger!Commit, Ledger!vars
<1>4. CASE ~StartWrites /\ ~UpdateLastBlockNumber
  <2>1. Begun' = Begun /\ Done' = Done
    BY <1>4, Frame DEF Begun, Done
  <2>2. CASE Known' = Known
    BY <2>1, <2>2 DEF Ledger!vars
  <2>3. CASE Known' # Known
    <3>1. PICK b \in Begun :
            \E x \in Touched(Chain[b]) \cup {Nil} : Known' = Known \cup {<<b, x>>}
      BY <2>3, KnownStep
    <3>a. PICK x \in Touched(Chain[b]) \cup {Nil} : Known' = Known \cup {<<b, x>>}
      BY <3>1
    <3> DEFINE F == [y \in Blocks |-> {y} \X (Touched(Chain[y]) \cup {Nil})]
    <3>2. b \in Blocks
      <4>1. \A t \in DOMAIN tries : tries[t] \in Try
        BY <1>0 DEF TypeOK
      <4> QED
        BY <4>1 DEF Begun, Try
    <3>3. <<b, x>> \in F[b]
      BY <3>a, <3>2
    <3> QED
      BY <2>1, <3>a, <3>3 DEF Ledger!Next, Ledger!Store
  <2> QED
    BY <2>2, <2>3
<1> QED
  BY <1>2, <1>3, <1>4

\* The indexer keeps the promise of BlockLedger, with any chain and any number
\* of faults.
THEOREM IndexerImplementsLedger == Spec => LedgerSpec
BY LedgerInit, LedgerStep, IndexerInvariant, PTL DEF Spec, LedgerSpec, Ledger!Spec

\* What a reader has once seen stays true, through faults and restarts: the
\* committed height never falls and climbs one block at a time, no address and no
\* block is ever taken out of the index.
THEOREM IndexerForgetsNothing ==
  Spec => [][/\ Done' \in {Done, Done + 1}
             /\ Begun \subseteq Begun' /\ Known \subseteq Known']_<<Done, Begun, Known>>
<1>1. IInv /\ [Next]_vars => [Ledger!Next]_Ledger!vars
  BY LedgerStep
<1>2. [Ledger!Next]_Ledger!vars =>
        [/\ Done' \in {Done, Done + 1}
         /\ Begun \subseteq Begun' /\ Known \subseteq Known']_<<Done, Begun, Known>>
  BY DEF Ledger!Next, Ledger!vars, Ledger!Begin, Ledger!Commit, Ledger!Store
<1> QED
  BY <1>1, <1>2, IndexerInvariant, PTL DEF Spec

-----------------------------------------------------------------------------
(* Counting.                                                               *)

\* One more entry in a list is one more copy of its number, and of no other.
LEMMA CopiesAppend ==
  ASSUME NEW S, NEW s \in Seq(S), NEW x \in S, NEW b
  PROVE  /\ Copies(s, b) \in Nat /\ Copies(Append(s, x), b) \in Nat
         /\ x = b => Copies(Append(s, x), b) = Copies(s, b) + 1
         /\ x # b => Copies(Append(s, x), b) = Copies(s, b)
<1> DEFINE t == Append(s, x)
           I == {i \in DOMAIN s : s[i] = b}
           J == {i \in DOMAIN t : t[i] = b}
           n == Len(s) + 1
<1>1. /\ n \in Nat /\ DOMAIN s = 1..Len(s) /\ Len(s) \in Nat
      /\ DOMAIN t = 1..n /\ t[n] = x
      /\ \A i \in 1..Len(s) : t[i] = s[i]
  OBVIOUS
<1>2. I \subseteq 1..Len(s) /\ n \notin I
  BY <1>1
<1> HIDE DEF t
<1>3. x = b => J = I \cup {n}
  BY <1>1
<1>4. x # b => J = I
  BY <1>1
<1>5. IsFiniteSet(1..Len(s))
  BY <1>1, FS_Interval
<1>6. IsFiniteSet(I)
  BY <1>2, <1>5, FS_Subset
<1> HIDE DEF I, J, n
<1>7. /\ Cardinality(I) \in Nat
      /\ Cardinality(I \cup {n}) = Cardinality(I) + 1
  BY <1>2, <1>6, FS_CardinalityType, FS_AddElement
<1>8. /\ Cardinality(J) \in Nat
      /\ x = b => Cardinality(J) = Cardinality(I) + 1
      /\ x # b => Cardinality(J) = Cardinality(I)
  <2>1. x = b => Cardinality(J) = Cardinality(I \cup {n})
    BY <1>3
  <2>2. x # b => Cardinality(J) = Cardinality(I)
    BY <1>4
  <2> QED
    BY <1>7, <2>1, <2>2
<1>9. Copies(s, b) = Cardinality(I) /\ Copies(Append(s, x), b) = Cardinality(J)
  BY DEF Copies, I, J, t
<1> HIDE DEF Copies
<1> QED
  BY <1>7, <1>8, <1>9

\* A list without entries has no copies.
LEMMA CopiesEmpty == ASSUME NEW b PROVE Copies(<<>>, b) = 0
<1>1. {i \in DOMAIN <<>> : <<>>[i] = b} = {}
  OBVIOUS
<1> QED
  BY <1>1, FS_EmptySet DEF Copies

\* What AppendBlockNumber does to the copies of a number: nothing if it is not
\* that of its own block, at its own address.
LEMMA PushCopies ==
  ASSUME TypeOK, WritesInv, NEW w \in pending, AppendBlockNumber(w), NEW a \in Addr, NEW b \in Blocks
  PROVE  /\ Copies(list[a], b) \in Nat
         /\ w.addr # a \/ BlockOf(w) # b => Copies(list'[a], b) = Copies(list[a], b)
         /\ w.addr = a /\ BlockOf(w) = b => Copies(list'[a], b) = Copies(list[a], b) + 1
<1> DEFINE x == BlockOf(w)
           old == list[a]
<1>1. w.addr \in Addr /\ x \in Blocks
  BY WriteType DEF AppendBlockNumber
<1>2. list \in [Addr -> Seq(Blocks)] /\ old \in Seq(Blocks)
  BY DEF TypeOK
<1>3. list'[a] = IF w.addr = a THEN Append(old, x) ELSE old
  BY <1>1, <1>2 DEF AppendBlockNumber
<1> HIDE DEF x, old
<1>4. /\ Copies(old, b) \in Nat
      /\ x = b => Copies(Append(old, x), b) = Copies(old, b) + 1
      /\ x # b => Copies(Append(old, x), b) = Copies(old, b)
  BY <1>1, <1>2, CopiesAppend
<1> QED
  BY <1>3, <1>4 DEF x, old

\* A step counts a fault or leaves the count alone.
LEMMA FaultsGrow ==
  ASSUME TypeOK, [Next]_vars
  PROVE  faults \in Nat /\ (faults' = faults \/ faults' = faults + 1)
<1>0. faults \in Nat
  BY FaultsAssumption DEF TypeOK
<1> SUFFICES Fault \/ NoFault \/ UNCHANGED faults
  BY <1>0 DEF Fault, NoFault
<1>1. CASE ProcessBlocks
  BY <1>1 DEF ProcessBlocks, GetNextBlockNumber, NoNextBlockNumber, FetchBlock, NoBlock,
     AskToEnrich, SendAddress, StartWrites, UpdateLastBlockNumber, Wake
<1>2. CASE Write
  BY <1>2 DEF Write
<1>3. CASE Shutdown \/ NewIndexer \/ Start
  BY <1>3 DEF Shutdown, NewIndexer, Start, InitErc20Token, NewEthClient
<1>4. CASE Environment
  BY <1>4 DEF Environment, NewBlock, NewEthPrice, NewTokenPrices, LabelAddress
<1>5. CASE UNCHANGED vars
  BY <1>5 DEF vars
<1> QED
  BY <1>1, <1>2, <1>3, <1>4, <1>5 DEF Next

\* Only the loop, the goroutines and the end of the process touch what is counted
\* here; the other steps leave it alone and do not reach or leave "advance".
LEMMA Quiet ==
  ASSUME [Next]_vars, ~StartWrites, ~UpdateLastBlockNumber, ~Write, ~Shutdown
  PROVE  /\ UNCHANGED <<last, cnt, list, blob, tries, pending>>
         /\ (pc # "advance" /\ pc' # "advance") \/ UNCHANGED <<pc, cur>>
<1> USE DEF redis, loop, client, world
<1>1. CASE ProcessBlocks
  BY <1>1 DEF ProcessBlocks, GetNextBlockNumber, NoNextBlockNumber, FetchBlock, NoBlock,
     AskToEnrich, SendAddress, Wake
<1>2. CASE NewIndexer \/ Start
  BY <1>2 DEF NewIndexer, Start, InitErc20Token, NewEthClient
<1>3. CASE Environment
  BY <1>3 DEF Environment, NewBlock, NewEthPrice, NewTokenPrices, LabelAddress
<1>4. CASE UNCHANGED vars
  BY <1>4 DEF vars
<1> QED
  BY <1>1, <1>2, <1>3, <1>4 DEF Next

-----------------------------------------------------------------------------
(* DuplicationBounded.                                                     *)

\* The pushes of a block to the list of an address that are still to be done.
Waits(a, b) == {w \in PendingOf("push", a) : BlockOf(w) = b}

\* One more push can come of a block that the loop is not past.
Ahead(b) == IF b > Done /\ ~(pc = "advance" /\ cur = b) THEN 1 ELSE 0

\* The entries that there are, those on their way and those that may yet be
\* ordered are no more than one and the number of faults.
CopyBound ==
  \A a \in Addr, b \in Blocks :
    /\ IsFiniteSet(Waits(a, b))
    /\ Copies(list[a], b) + Cardinality(Waits(a, b)) + Ahead(b) <= 1 + faults

\* The writes in flight keep their block.
LEMMA BlocksStay ==
  ASSUME TypeOK, LoopInv, WritesInv, [Next]_vars, NEW w \in pending
  PROVE  w.try \in DOMAIN tries /\ w.try \in DOMAIN tries' /\ BlockOf(w)' = BlockOf(w)
<1>1. w.try \in DOMAIN tries
  BY DEF WritesInv
<1>2. w.try \in DOMAIN tries' /\ tries'[w.try] = tries[w.try]
  BY <1>1, NewTry, Frame
<1> QED
  BY <1>1, <1>2 DEF BlockOf

\* What waits after a step has waited before it, unless the step is StartWrites.
LEMMA WaitsShrink ==
  ASSUME TypeOK, LoopInv, WritesInv, [Next]_vars, ~StartWrites, NEW a \in Addr, NEW b \in Blocks
  PROVE  /\ Waits(a, b)' = {w \in Waits(a, b) : w \in pending'}
         /\ Waits(a, b)' \subseteq Waits(a, b)
<1>1. pending' \subseteq pending
  BY Frame
<1>2. \A w \in pending : BlockOf(w)' = BlockOf(w)
  BY BlocksStay
<1> QED
  BY <1>1, <1>2 DEF Waits, PendingOf

\* StartWrites orders one push for each address that the block touches.
LEMMA WaitsGrow ==
  ASSUME TypeOK, LoopInv, WritesInv, StartWrites, NEW a \in Addr, NEW b \in Blocks
  PROVE  LET w == [kind |-> "push", try |-> Len(tries) + 1, addr |-> a] IN
         /\ b # cur => Waits(a, b)' = Waits(a, b)
         /\ b = cur => Waits(a, b)' = Waits(a, b) \cup (IF a \in Touched(Chain[b]) THEN {w} ELSE {})
<1> DEFINE n == Len(tries) + 1
           x == [kind |-> "push", try |-> n, addr |-> a]
           T == Touched(Chain[cur])
           new == [kind : {"incr", "push"}, try : {n}, addr : T] \cup [kind : {"blob"}, try : {n}]
<1>1. pending' = pending \cup new
  BY DEF StartWrites
<1>2. \A w \in pending : BlockOf(w)' = BlockOf(w)
  BY BlocksStay DEF Next, ProcessBlocks
<1>3. \A w \in new : w.try = n /\ BlockOf(w)' = cur
  BY NewTry DEF BlockOf
<1>4. \A w \in new : w.kind = "push" /\ w.addr = a => w = x
  OBVIOUS
<1>5. a \in T => x \in new /\ x.kind = "push" /\ x.addr = a
  OBVIOUS
<1>6. a \notin T => \A w \in new : ~(w.kind = "push" /\ w.addr = a)
  OBVIOUS
<1> HIDE DEF new, x, T
<1>7. Waits(a, b)' = Waits(a, b) \cup {w \in new : w.kind = "push" /\ w.addr = a /\ cur = b}
  BY <1>1, <1>2, <1>3 DEF Waits, PendingOf
<1>8. {w \in new : w.kind = "push" /\ w.addr = a /\ cur = b}
        = IF b = cur /\ a \in T THEN {x} ELSE {}
  BY <1>4, <1>5, <1>6
<1> QED
  BY <1>7, <1>8 DEF T, x

\* The bound at one address and one block, which each step keeps.
Bound(a, b) ==
  /\ IsFiniteSet(Waits(a, b))
  /\ Copies(list[a], b) + Cardinality(Waits(a, b)) + Ahead(b) <= 1 + faults

LEMMA BoundTypes ==
  ASSUME TypeOK, NEW a \in Addr, NEW b \in Blocks
  PROVE  Copies(list[a], b) \in Nat /\ Ahead(b) \in 0..1 /\ faults \in Nat
<1>1. list[a] \in Seq(Blocks)
  BY DEF TypeOK
<1>2. Copies(list[a], b) \in Nat
  BY <1>1, CopiesAppend
<1> QED
  BY <1>2, FaultsAssumption DEF TypeOK, Ahead

\* StartWrites makes of the block that is ahead one that waits.
LEMMA BoundStart ==
  ASSUME TypeOK, LoopInv, WritesInv, StartWrites, NEW a \in Addr, NEW b \in Blocks, Bound(a, b)
  PROVE  Bound(a, b)'
<1> DEFINE W == Waits(a, b)
           w == [kind |-> "push", try |-> Len(tries) + 1, addr |-> a]
<1>0. IsFiniteSet(W) /\ Cardinality(W) \in Nat
  BY FS_CardinalityType DEF Bound
<1>1. /\ list' = list /\ faults' = faults /\ last' = last /\ cur' = cur
      /\ pc = "ask" /\ pc' = "advance" /\ last # Nil /\ cur = last + 1
  BY DEF StartWrites, LoopInv, NoFault, redis
<1>2. Copies(list'[a], b) = Copies(list[a], b)
  BY <1>1
<1>3. CASE b # cur
  <2>1. W' = W
    BY <1>3, WaitsGrow
  <2>2. Ahead(b)' = Ahead(b)
    BY <1>1, <1>3 DEF Ahead, Done
  <2> QED
    BY <1>1, <1>2, <2>1, <2>2 DEF Bound
<1>4. CASE b = cur
  <2>0. W' = W \cup (IF a \in Touched(Chain[b]) THEN {w} ELSE {})
    BY <1>4, WaitsGrow, Zenon
  <2>1. W' = W \/ W' = W \cup {w}
    BY <2>0
  <2>2. Ahead(b) = 1 /\ Ahead(b)' = 0
    <3>1. last \in Nat
      BY <1>1 DEF TypeOK
    <3>2. Done = last /\ Done' = last
      BY <1>1 DEF Done
    <3>3. b > Done /\ b > Done'
      BY <1>1, <1>4, <3>1, <3>2
    <3> QED
      BY <1>1, <1>4, <3>3 DEF Ahead
  <2> HIDE DEF W, w
  <2>3. IsFiniteSet(W') /\ Cardinality(W') \in Nat /\ Cardinality(W') <= Cardinality(W) + 1
    <3>1. IsFiniteSet(W \cup {w})
      BY <1>0, FS_AddElement
    <3>2. Cardinality(W \cup {w}) \in Nat /\ Cardinality(W \cup {w}) <= Cardinality(W) + 1
      <4>1. CASE w \in W
        <5>1. W \cup {w} = W
          BY <4>1
        <5> QED
          BY <1>0, <5>1
      <4>2. CASE w \notin W
        <5>1. Cardinality(W \cup {w}) = Cardinality(W) + 1
          BY <1>0, <4>2, FS_AddElement
        <5> QED
          BY <1>0, <5>1
      <4> QED
        BY <4>1, <4>2
    <3>3. CASE W' = W
      BY <1>0, <3>3
    <3>4. CASE W' = W \cup {w}
      BY <3>1, <3>2, <3>4, Zenon
    <3> QED
      BY <2>1, <3>3, <3>4
  <2>4. Copies(list[a], b) + Cardinality(W') + 0 <= 1 + faults
    BY <1>0, <2>2, <2>3, BoundTypes DEF Bound, W
  <2> QED
    BY <1>1, <1>2, <2>2, <2>3, <2>4 DEF Bound, W
<1> QED
  BY <1>3, <1>4

\* The loop moves on: the block is no longer ahead, unless the key was not saved.
LEMMA BoundUpdate ==
  ASSUME TypeOK, LoopInv, WritesInv, UpdateLastBlockNumber,
         NEW a \in Addr, NEW b \in Blocks, Bound(a, b)
  PROVE  Bound(a, b)'
<1>1. /\ list' = list /\ pending' = pending /\ tries' = tries /\ cur' = cur
      /\ pc = "advance" /\ pc' # "advance" /\ last # Nil /\ cur = last + 1
  BY DEF UpdateLastBlockNumber, LoopInv
<1>2. Waits(a, b)' = Waits(a, b) /\ Copies(list'[a], b) = Copies(list[a], b)
  BY <1>1 DEF Waits, PendingOf, BlockOf
<1>3. \/ last' = cur /\ faults' = faults
      \/ faults' = faults + 1
  BY DEF UpdateLastBlockNumber, NoFault, Fault
<1>4. Ahead(b)' \in 0..1 /\ Ahead(b) \in 0..1
  BY DEF Ahead
<1>5. last' = cur => Ahead(b)' <= Ahead(b)
  <2> SUFFICES ASSUME last' = cur PROVE Ahead(b)' <= Ahead(b)
    OBVIOUS
  <2>1. last \in Nat /\ cur \in Nat /\ b \in Nat
    BY <1>1 DEF TypeOK, Blocks
  <2>2. Done = last /\ Done' = cur
    BY <1>1, <2>1, NilNotInt DEF Done
  <2>3. b > Done' => b > Done /\ b # cur
    BY <1>1, <2>1, <2>2
  <2>4. b > Done' => Ahead(b) = 1
    BY <2>3 DEF Ahead
  <2>5. ~(b > Done') => Ahead(b)' = 0
    BY DEF Ahead
  <2> QED
    BY <1>4, <2>4, <2>5
<1>6. Cardinality(Waits(a, b)) \in Nat
  BY FS_CardinalityType DEF Bound
<1>7. Copies(list[a], b) + Cardinality(Waits(a, b)) + Ahead(b)' <= 1 + faults'
  BY <1>3, <1>4, <1>5, <1>6, BoundTypes DEF Bound
<1> QED
  BY <1>2, <1>7 DEF Bound

\* A write in flight is done and no longer waits, or a fault pays for what is
\* done and waits all the same.
LEMMA BoundWrite ==
  ASSUME TypeOK, LoopInv, WritesInv, Write, NEW a \in Addr, NEW b \in Blocks, Bound(a, b)
  PROVE  Bound(a, b)'
<1> DEFINE W == Waits(a, b)
           c == Copies(list[a], b)
           d == Copies(list'[a], b)
           k == Cardinality(W)
<1>0. IsFiniteSet(W) /\ k \in Nat
  BY FS_CardinalityType DEF Bound
<1>1. PICK w \in pending :
        \/ Execute(w) /\ pending' = pending \ {w} /\ NoFault
        \/ Execute(w) /\ pending' = pending /\ Fault
        \/ list' = list /\ pending' = pending \ {w} /\ Fault
  BY DEF Write
<1>2. Ahead(b)' = Ahead(b)
  BY DEF Write, Ahead, Done, loop
<1>3. W' = {x \in W : x \in pending'} /\ W \subseteq pending
  <2>1. [Next]_vars /\ ~StartWrites
    BY DEF Next, Write, StartWrites, loop
  <2> QED
    BY <2>1, WaitsShrink DEF Waits, PendingOf
<1>4. w \in W <=> w.kind = "push" /\ w.addr = a /\ BlockOf(w) = b
  BY DEF Waits, PendingOf
<1>5. Ahead(b) \in 0..1 /\ faults \in Nat
  BY BoundTypes
<1>6. c + k + Ahead(b) <= 1 + faults /\ c \in Nat
  BY BoundTypes DEF Bound
<1>7. Execute(w) => d = IF w \in W THEN c + 1 ELSE c
  <2> SUFFICES ASSUME Execute(w) PROVE d = IF w \in W THEN c + 1 ELSE c
    OBVIOUS
  <2>1. CASE AppendBlockNumber(w)
    BY <1>4, <2>1, PushCopies DEF AppendBlockNumber
  <2>2. CASE AddBlock(w) \/ UpdateCounter(w)
    BY <1>4, <2>2 DEF AddBlock, UpdateCounter
  <2> QED
    BY <2>1, <2>2 DEF Execute
<1>8. /\ IsFiniteSet(W \ {w})
      /\ Cardinality(W \ {w}) = IF w \in W THEN k - 1 ELSE k
  <2> HIDE DEF W
  <2>1. IsFiniteSet(W \ {w})
    BY <1>0, FS_Subset
  <2>2. w \in W => Cardinality(W \ {w}) = k - 1
    BY <1>0, FS_RemoveElement
  <2>3. w \notin W => W \ {w} = W
    OBVIOUS
  <2> QED
    BY <2>1, <2>2, <2>3
<1> HIDE DEF c, d, k, W
<1>9. CASE Execute(w) /\ pending' = pending \ {w} /\ NoFault
  <2>1. W' = W \ {w} /\ faults' = faults
    BY <1>3, <1>9 DEF NoFault
  <2>2. d + Cardinality(W') + Ahead(b)' <= 1 + faults'
    BY <1>0, <1>2, <1>5, <1>6, <1>7, <1>8, <1>9, <2>1
  <2> QED
    BY <1>8, <2>1, <2>2 DEF Bound, d, W
<1>10. CASE Execute(w) /\ pending' = pending /\ Fault
  <2>1. W' = W /\ faults' = faults + 1
    BY <1>3, <1>10 DEF Fault
  <2>2. Cardinality(W') = k
    BY <2>1 DEF k
  <2>3. d + Cardinality(W') + Ahead(b)' <= 1 + faults'
    BY <1>0, <1>2, <1>5, <1>6, <1>7, <1>10, <2>1, <2>2
  <2> QED
    BY <1>0, <2>1, <2>3 DEF Bound, d, W
<1>11. CASE list' = list /\ pending' = pending \ {w} /\ Fault
  <2>1. W' = W \ {w} /\ faults' = faults + 1 /\ d = c
    BY <1>3, <1>11 DEF Fault, c, d
  <2>2. d + Cardinality(W') + Ahead(b)' <= 1 + faults'
    BY <1>0, <1>2, <1>5, <1>6, <1>8, <2>1
  <2> QED
    BY <1>8, <2>1, <2>2 DEF Bound, d, W
<1> QED
  BY <1>1, <1>9, <1>10, <1>11

\* The end of the process loses what waits, and may make the block be done again.
LEMMA BoundShutdown ==
  ASSUME TypeOK, LoopInv, WritesInv, Shutdown, NEW a \in Addr, NEW b \in Blocks, Bound(a, b)
  PROVE  Bound(a, b)'
<1>0. Cardinality(Waits(a, b)) \in Nat
  BY FS_CardinalityType DEF Bound
<1>1. list' = list /\ faults' = faults + 1
  BY DEF Shutdown, Fault, redis
<1>2. Waits(a, b)' = {}
  BY DEF Shutdown, Waits, PendingOf
<1>3. IsFiniteSet({}) /\ Cardinality({}) = 0
  BY FS_EmptySet
<1>4. Ahead(b)' \in 0..1
  BY DEF Ahead
<1>5. Copies(list[a], b) + 0 + Ahead(b)' <= 1 + faults'
  BY <1>0, <1>1, <1>4, BoundTypes DEF Bound
<1> QED
  BY <1>1, <1>2, <1>3, <1>5 DEF Bound

\* The other steps change nothing of it.
LEMMA BoundQuiet ==
  ASSUME TypeOK, LoopInv, WritesInv, [Next]_vars,
         ~StartWrites, ~UpdateLastBlockNumber, ~Write, ~Shutdown,
         NEW a \in Addr, NEW b \in Blocks, Bound(a, b)
  PROVE  Bound(a, b)'
<1>1. /\ UNCHANGED <<last, list, tries, pending>>
      /\ (pc # "advance" /\ pc' # "advance") \/ UNCHANGED <<pc, cur>>
  BY Quiet
<1>2. Waits(a, b)' = Waits(a, b) /\ Copies(list[a], b)' = Copies(list[a], b)
  BY <1>1 DEF Waits, PendingOf, BlockOf, Copies
<1>3. Ahead(b)' = Ahead(b)
  BY <1>1 DEF Ahead, Done
<1>4. Cardinality(Waits(a, b)) \in Nat
  BY FS_CardinalityType DEF Bound
<1>5. faults' >= faults
  BY FaultsGrow
<1>6. Copies(list[a], b) + Cardinality(Waits(a, b)) + Ahead(b) <= 1 + faults'
  BY <1>4, <1>5, FaultsGrow, BoundTypes DEF Bound
<1> QED
  BY <1>2, <1>3, <1>6 DEF Bound

\* Every step keeps the bound.
LEMMA BoundStep ==
  TypeOK /\ LoopInv /\ WritesInv /\ CopyBound /\ [Next]_vars => CopyBound'
<1> SUFFICES ASSUME TypeOK, LoopInv, WritesInv, CopyBound, [Next]_vars,
                    NEW a \in Addr, NEW b \in Blocks
             PROVE  Bound(a, b)'
  BY DEF CopyBound, Bound
<1>1. Bound(a, b)
  BY DEF CopyBound, Bound
<1> QED
  BY <1>1, BoundStart, BoundUpdate, BoundWrite, BoundShutdown, BoundQuiet

\* At the start no list has entries and nothing waits.
LEMMA BoundInit == Init => CopyBound
<1> SUFFICES ASSUME Init, NEW a \in Addr, NEW b \in Blocks PROVE Bound(a, b)
  BY DEF CopyBound, Bound
<1>1. Waits(a, b) = {} /\ list[a] = <<>> /\ faults = 0
  BY DEF Init, Waits, PendingOf
<1>2. IsFiniteSet({}) /\ Cardinality({}) = 0
  BY FS_EmptySet
<1>3. Copies(list[a], b) = 0
  BY <1>1, CopiesEmpty
<1>4. Ahead(b) \in 0..1
  BY DEF Ahead
<1> QED
  BY <1>1, <1>2, <1>3, <1>4 DEF Bound

\* A list holds no more copies of a block than one and the number of faults:
\* what processBlocks and AppendBlockNumbers may repeat is paid for by a fault.
THEOREM IndexerDuplication == Spec => []DuplicationBounded
<1>1. Init => CopyBound
  BY BoundInit
<1>2. TypeOK /\ LoopInv /\ WritesInv /\ CopyBound /\ [Next]_vars => CopyBound'
  BY BoundStep
<1>3. TypeOK /\ CopyBound => DuplicationBounded
  <2> SUFFICES ASSUME TypeOK, CopyBound, NEW a \in Addr, NEW b \in Begun
               PROVE  Copies(list[a], b) <= 1 + faults
    BY DEF DuplicationBounded
  <2>1. b \in Blocks
    <3>1. \A t \in DOMAIN tries : tries[t] \in Try
      BY DEF TypeOK
    <3> QED
      BY <3>1 DEF Begun, Try
  <2>2. Cardinality(Waits(a, b)) \in Nat
    BY <2>1, FS_CardinalityType DEF CopyBound
  <2> QED
    BY <2>1, <2>2, BoundTypes DEF CopyBound
<1> QED
  BY <1>1, <1>2, <1>3, IndexerInvariant, PTL DEF Spec, IInv

-----------------------------------------------------------------------------
(* ExactSoFar: the ends of transactions.                                   *)

\* The ends at an address of the counted transactions of one block.
EndsOf(b, a) ==
  {<<b, tx, "from">> : tx \in {x \in Counted(Chain[b]) : x.from = a}}
  \cup {<<b, tx, "to">> : tx \in {x \in Counted(Chain[b]) : x.to = a}}

\* Labelling the elements of a finite set does not change their number.
LEMMA Labelled ==
  ASSUME NEW F, IsFiniteSet(F), NEW b, NEW e
  PROVE  /\ IsFiniteSet({<<b, x, e>> : x \in F})
         /\ Cardinality({<<b, x, e>> : x \in F}) = Cardinality(F)
<1> DEFINE T == {<<b, x, e>> : x \in F}
           f == [x \in F |-> <<b, x, e>>]
<1>1. f \in [F -> T]
  OBVIOUS
<1>2. f \in Injection(F, T)
  BY <1>1 DEF Injection, IsInjective
<1>3. f \in Surjection(F, T)
  BY <1>1 DEF Surjection
<1>4. ExistsBijection(F, T)
  BY <1>2, <1>3 DEF ExistsBijection, Bijection
<1> HIDE DEF T
<1>5. IsFiniteSet(T) /\ Cardinality(T) = Cardinality(F)
  BY <1>4, FS_Bijection
<1> QED
  BY <1>5 DEF T

\* A block has as many ends at an address as it weighs there.
LEMMA EndsWeight ==
  ASSUME NEW b \in Blocks, NEW a
  PROVE  /\ IsFiniteSet(EndsOf(b, a))
         /\ Cardinality(EndsOf(b, a)) = Weight(Chain[b], a)
<1> DEFINE F == {x \in Counted(Chain[b]) : x.from = a}
           G == {x \in Counted(Chain[b]) : x.to = a}
           P == {<<b, x, "from">> : x \in F}
           Q == {<<b, x, "to">> : x \in G}
<1>1. IsFiniteSet(F) /\ IsFiniteSet(G)
  <2>1. IsFiniteSet(Chain[b])
    BY FiniteBlocks DEF Blocks
  <2>2. F \in SUBSET Chain[b] /\ G \in SUBSET Chain[b]
    BY DEF Counted
  <2> QED
    BY <2>1, <2>2, FS_Subset
<1>2. EndsOf(b, a) = P \cup Q /\ P \cap Q = {}
  BY DEF EndsOf
<1>3. Weight(Chain[b], a) = Cardinality(G) + Cardinality(F)
  BY DEF Weight
<1> HIDE DEF F, G
<1>4. /\ IsFiniteSet(P) /\ Cardinality(P) = Cardinality(F)
      /\ IsFiniteSet(Q) /\ Cardinality(Q) = Cardinality(G)
  <2>1. ASSUME NEW S, IsFiniteSet(S), NEW e
        PROVE  /\ IsFiniteSet({<<b, x, e>> : x \in S})
               /\ Cardinality({<<b, x, e>> : x \in S}) = Cardinality(S)
    BY <2>1, Labelled
  <2>2. IsFiniteSet(P) /\ Cardinality(P) = Cardinality(F)
    BY <1>1, <2>1
  <2>3. IsFiniteSet(Q) /\ Cardinality(Q) = Cardinality(G)
    BY <1>1, <2>1
  <2> QED
    BY <2>2, <2>3
<1>5. Cardinality(F) \in Nat /\ Cardinality(G) \in Nat /\ Cardinality({}) = 0
  BY <1>1, FS_CardinalityType, FS_EmptySet
<1> HIDE DEF P, Q
<1>6. IsFiniteSet(P \cup Q)
  BY <1>4, FS_Union
<1>7. Cardinality(P \cup Q) = Cardinality(P) + Cardinality(Q) - Cardinality(P \cap Q)
  BY <1>4, FS_Union
<1>8. Cardinality(P \cup Q) = Cardinality(G) + Cardinality(F)
  <2>1. Cardinality(P \cap Q) = 0
    BY <1>2, <1>5
  <2> QED
    BY <1>4, <1>5, <1>7, <2>1
<1> QED
  BY <1>2, <1>3, <1>6, <1>8

\* The ends of a set of blocks and one more.
LEMMA EndsAdd ==
  ASSUME NEW S, NEW b, NEW a
  PROVE  /\ Ends(S \cup {b}, a) = Ends(S, a) \cup EndsOf(b, a)
         /\ b \notin S => Ends(S, a) \cap EndsOf(b, a) = {}
<1>1. \A T, e : e \in Ends(T, a) <=> \E c \in T : e \in EndsOf(c, a)
  <2>1. \A T : Ends(T, a) = UNION {EndsOf(c, a) : c \in T}
    BY DEF Ends, EndsOf
  <2> HIDE DEF EndsOf
  <2> QED
    BY <2>1
<1>2. \A c : \A e \in EndsOf(c, a) : e[1] = c
  BY DEF EndsOf
<1>3. Ends(S \cup {b}, a) = Ends(S, a) \cup EndsOf(b, a)
  <2>1. \A e : e \in Ends(S \cup {b}, a) <=> e \in Ends(S, a) \/ e \in EndsOf(b, a)
    BY <1>1
  <2> QED
    BY <2>1
<1>4. ASSUME b \notin S PROVE Ends(S, a) \cap EndsOf(b, a) = {}
  <2> SUFFICES ASSUME NEW e \in Ends(S, a), e \in EndsOf(b, a) PROVE FALSE
    OBVIOUS
  <2>1. PICK c \in S : e \in EndsOf(c, a)
    BY <1>1
  <2>2. e[1] = c /\ e[1] = b
    BY <1>2, <2>1
  <2> QED
    BY <1>4, <2>1, <2>2
<1> QED
  BY <1>3, <1>4

\* One more block adds its weight to the number of ends.
LEMMA EndsCount ==
  ASSUME NEW S, NEW b \in Blocks, b \notin S, NEW a, IsFiniteSet(Ends(S, a))
  PROVE  /\ IsFiniteSet(Ends(S \cup {b}, a))
         /\ Cardinality(Ends(S \cup {b}, a)) = Cardinality(Ends(S, a)) + Weight(Chain[b], a)
<1> DEFINE P == Ends(S, a)
           Q == EndsOf(b, a)
<1>1. Ends(S \cup {b}, a) = P \cup Q /\ P \cap Q = {}
  BY EndsAdd
<1>2. /\ IsFiniteSet(P) /\ IsFiniteSet(Q)
      /\ Cardinality(Q) = Weight(Chain[b], a)
  BY EndsWeight
<1> HIDE DEF P, Q
<1>3. Cardinality(P) \in Nat /\ Cardinality(Q) \in Nat /\ Cardinality({}) = 0
  BY <1>2, FS_CardinalityType, FS_EmptySet
<1>4. IsFiniteSet(P \cup Q)
  BY <1>2, FS_Union
<1>5. Cardinality(P \cup Q) = Cardinality(P) + Cardinality(Q) - Cardinality(P \cap Q)
  BY <1>2, FS_Union
<1>6. Cardinality(P \cup Q) = Cardinality(P) + Weight(Chain[b], a)
  <2>1. Cardinality(P \cap Q) = 0
    BY <1>1, <1>3
  <2> QED
    BY <1>2, <1>3, <1>5, <2>1
<1> QED
  BY <1>1, <1>4, <1>6 DEF P

\* A block that does not touch the address has no ends there.
LEMMA EndsNone ==
  ASSUME NEW b, NEW a, a \notin Touched(Chain[b])
  PROVE  EndsOf(b, a) = {}
BY DEF EndsOf, Touched

-----------------------------------------------------------------------------
(* ExactSoFar: what holds as long as nothing has failed.                   *)

\* Each block is tried once, and only the one that is about to be saved is begun
\* without being done.
Once ==
  /\ \A s, t \in DOMAIN tries : tries[s].block = tries[t].block => s = t
  /\ pc = "advance" => Begun = 1..cur
  /\ pc # "advance" => Begun = 1..Done

\* The blocks whose INCRBY at an address is still to be done.
Unadded(a) == {BlockOf(w) : w \in PendingOf("incr", a)}

Pushed(a, b) ==
  /\ IsFiniteSet(Waits(a, b))
  /\ Copies(list[a], b) + Cardinality(Waits(a, b))
       = IF b \in Begun /\ a \in Touched(Chain[b]) THEN 1 ELSE 0

Added(a) ==
  /\ IsFiniteSet(Ends(Begun \ Unadded(a), a))
  /\ cnt[a] = Cardinality(Ends(Begun \ Unadded(a), a))

Saved(b) == blob[b] = {} <=> \E w \in pending : w.kind = "blob" /\ BlockOf(w) = b

\* The inductive form of ExactSoFar.
Exact ==
  faults = 0 =>
    /\ Once
    /\ \A a \in Addr, b \in Blocks : Pushed(a, b)
    /\ \A a \in Addr : Added(a)
    /\ \A b \in Begun : Saved(b)

\* What a step without a fault may be.
LEMMA Calm ==
  ASSUME TypeOK, [Next]_vars, faults = 0, faults' = 0
  PROVE  \/ StartWrites
         \/ UpdateLastBlockNumber /\ last' = cur /\ pc' = "next"
         \/ Write
         \/ /\ UNCHANGED <<last, cnt, list, blob, tries, pending>>
            /\ (pc # "advance" /\ pc' # "advance") \/ UNCHANGED <<pc, cur>>
<1>1. ~Fault
  BY DEF Fault
<1>2. ~Shutdown
  BY <1>1 DEF Shutdown
<1>3. UpdateLastBlockNumber => last' = cur /\ pc' = "next"
  BY <1>1 DEF UpdateLastBlockNumber
<1> QED
  BY <1>2, <1>3, Quiet

\* A block is not begun before the loop orders its writes.
LEMMA FreshBlock ==
  ASSUME TypeOK, LoopInv, Once, StartWrites
  PROVE  cur \in Blocks /\ cur \notin Begun /\ cur = Done + 1 /\ Done \in Nat
<1>1. pc = "ask" /\ last # Nil /\ cur = last + 1 /\ cur \in Blocks
  BY DEF StartWrites, LoopInv
<1>2. last \in Nat /\ Done = last
  BY <1>1 DEF TypeOK, Done
<1>3. Begun = 1..last
  BY <1>1, <1>2 DEF Once
<1> QED
  BY <1>1, <1>2, <1>3

LEMMA OnceStep ==
  ASSUME IInv, Once, [Next]_vars, faults = 0, faults' = 0
  PROVE  Once'
<1>0. TypeOK /\ LoopInv
  BY DEF IInv
<1>1. CASE StartWrites
  <2>1. /\ cur \in Blocks /\ cur \notin Begun /\ cur = Done + 1 /\ Done \in Nat
        /\ Begun = 1..Done
    BY <1>0, <1>1, FreshBlock DEF Once, StartWrites
  <2>2. pc' = "advance" /\ cur' = cur
    BY <1>1 DEF StartWrites
  <2>3. Begun' = 1..cur
    <3>1. 1..(Done + 1) = 1..Done \cup {Done + 1}
      BY <2>1
    <3>2. Begun' = Begun \cup {cur}
      BY <1>0, <1>1, NewTry
    <3> QED
      BY <2>1, <3>1, <3>2
  <2>4. /\ DOMAIN tries' = DOMAIN tries \cup {Len(tries) + 1}
        /\ \A t \in DOMAIN tries : tries'[t] = tries[t]
        /\ tries'[Len(tries) + 1].block = cur
    <3> DEFINE x == [block |-> cur, rows |-> rows]
    <3>1. tries \in Seq(Try) /\ tries' = Append(tries, x) /\ x \in Try
      BY <1>0, <1>1, <2>1 DEF StartWrites, TypeOK, Try
    <3> HIDE DEF x
    <3>2. /\ DOMAIN tries = 1..Len(tries) /\ Len(tries) \in Nat
          /\ DOMAIN tries' = 1..(Len(tries) + 1)
      BY <3>1
    <3>3. 1..(Len(tries) + 1) = 1..Len(tries) \cup {Len(tries) + 1}
      BY <3>2
    <3> QED
      BY <1>0, <1>1, <3>2, <3>3, NewTry
  <2>5. \A t \in DOMAIN tries : tries[t].block # cur
    BY <2>1 DEF Begun
  <2>6. \A s, t \in DOMAIN tries' : tries'[s].block = tries'[t].block => s = t
    BY <2>4, <2>5 DEF Once
  <2> QED
    BY <2>2, <2>3, <2>6 DEF Once
<1>2. CASE UpdateLastBlockNumber /\ last' = cur /\ pc' = "next"
  <2>1. pc = "advance" /\ tries' = tries /\ Begun' = Begun /\ cur \in Nat
    BY <1>0, <1>2 DEF UpdateLastBlockNumber, Begun, TypeOK
  <2>2. Done' = cur
    BY <1>2, <2>1, NilNotInt DEF Done
  <2> QED
    BY <1>2, <2>1, <2>2 DEF Once
<1>3. CASE Write
  BY <1>3 DEF Write, loop, Once, Begun, Done
<1>4. CASE /\ UNCHANGED <<last, cnt, list, blob, tries, pending>>
           /\ (pc # "advance" /\ pc' # "advance") \/ UNCHANGED <<pc, cur>>
  <2>1. Begun' = Begun /\ Done' = Done
    BY <1>4 DEF Begun, Done
  <2> QED
    BY <1>4, <2>1 DEF Once
<1> QED
  BY <1>0, <1>1, <1>2, <1>3, <1>4, Calm

\* As each block is tried once, a write is known by its kind, its address and its
\* block.
LEMMA OneWrite ==
  ASSUME TypeOK, WritesInv, Once, NEW v \in pending, NEW w \in pending,
         v.kind = w.kind, v.kind # "blob" => v.addr = w.addr, BlockOf(v) = BlockOf(w)
  PROVE  v = w
<1>1. v.try \in DOMAIN tries /\ w.try \in DOMAIN tries
  BY DEF WritesInv
<1>2. v.try = w.try
  BY <1>1 DEF Once, BlockOf
<1>3. v \in Writes /\ w \in Writes
  BY DEF TypeOK
<1> QED
  BY <1>2, <1>3 DEF Writes

\* The pushes: the one that is ordered is done once.
LEMMA PushedStep ==
  ASSUME IInv, Once, [Next]_vars, faults = 0, faults' = 0,
         NEW a \in Addr, NEW b \in Blocks, Pushed(a, b)
  PROVE  Pushed(a, b)'
<1>0. TypeOK /\ LoopInv /\ WritesInv
  BY DEF IInv
<1> DEFINE W == Waits(a, b)
           c == Copies(list[a], b)
           due(B) == IF b \in B /\ a \in Touched(Chain[b]) THEN 1 ELSE 0
<1>1. IsFiniteSet(W) /\ Cardinality(W) \in Nat /\ c \in Nat /\ c + Cardinality(W) = due(Begun)
  BY <1>0, FS_CardinalityType, BoundTypes DEF Pushed
<1>2. CASE StartWrites
  <2> DEFINE w == [kind |-> "push", try |-> Len(tries) + 1, addr |-> a]
  <2>1. cur \notin Begun /\ list' = list /\ Begun' = Begun \cup {cur}
    BY <1>0, <1>2, FreshBlock, NewTry DEF StartWrites, redis
  <2>2. CASE b # cur
    <3>1. W' = W /\ due(Begun') = due(Begun)
      BY <1>0, <1>2, <2>1, <2>2, WaitsGrow
    <3> QED
      BY <1>1, <2>1, <3>1 DEF Pushed
  <2>3. CASE b = cur
    <3>1. c = 0 /\ Cardinality(W) = 0
      BY <1>1, <2>1, <2>3
    <3>2. W = {}
      BY <1>1, <3>1, FS_EmptySet
    <3>3. W' = IF a \in Touched(Chain[b]) THEN {w} ELSE {}
      BY <1>0, <1>2, <2>3, <3>2, WaitsGrow
    <3> HIDE DEF w, W
    <3>4. IsFiniteSet(W') /\ Cardinality(W') = IF a \in Touched(Chain[b]) THEN 1 ELSE 0
      <4>1. CASE a \in Touched(Chain[b])
        BY <3>3, <4>1, FS_Singleton
      <4>2. CASE a \notin Touched(Chain[b])
        BY <3>3, <4>2, FS_EmptySet
      <4> QED
        BY <4>1, <4>2
    <3>5. b \in Begun'
      BY <2>1, <2>3
    <3>6. Copies(list'[a], b) + Cardinality(W') = due(Begun')
      BY <2>1, <3>1, <3>4, <3>5
    <3> QED
      BY <3>4, <3>6 DEF Pushed, W
  <2> QED
    BY <2>2, <2>3
<1>3. CASE UpdateLastBlockNumber
  <2>1. UNCHANGED <<list, tries, pending>>
    BY <1>3 DEF UpdateLastBlockNumber
  <2> QED
    BY <2>1 DEF Pushed, Waits, PendingOf, BlockOf, Copies, Begun
<1>4. CASE Write
  <2>1. PICK w \in pending : /\ pending' = pending \ {w}
                             /\ AddBlock(w) \/ UpdateCounter(w) \/ AppendBlockNumber(w)
    BY <1>4 DEF Write, Execute, Fault
  <2>2. Begun' = Begun
    BY <1>4 DEF Write, Begun
  <2>3. W' = W \ {w}
    <3>1. ~StartWrites
      BY <1>4 DEF Write, StartWrites, loop
    <3>2. W' = {x \in W : x \in pending'}
      BY <1>0, <3>1, WaitsShrink
    <3>3. W \subseteq pending
      BY DEF Waits, PendingOf
    <3> QED
      BY <2>1, <3>2, <3>3
  <2>4. w \in W <=> w.kind = "push" /\ w.addr = a /\ BlockOf(w) = b
    BY DEF Waits, PendingOf
  <2>6. Copies(list'[a], b) = IF w \in W THEN c + 1 ELSE c
    <3>1. CASE AppendBlockNumber(w)
      <4>1. w.kind = "push"
        BY <3>1 DEF AppendBlockNumber
      <4>2. CASE w \in W
        BY <1>0, <2>4, <3>1, <4>2, PushCopies
      <4>3. CASE w \notin W
        BY <1>0, <2>4, <3>1, <4>1, <4>3, PushCopies
      <4> QED
        BY <4>2, <4>3
    <3>2. CASE AddBlock(w) \/ UpdateCounter(w)
      BY <2>4, <3>2 DEF AddBlock, UpdateCounter
    <3> QED
      BY <2>1, <3>1, <3>2
  <2> HIDE DEF W, c
  <2>7. /\ IsFiniteSet(W \ {w})
        /\ w \in W => Cardinality(W \ {w}) = Cardinality(W) - 1
        /\ w \notin W => Cardinality(W \ {w}) = Cardinality(W)
    <3>1. IsFiniteSet(W \ {w})
      BY <1>1, FS_RemoveElement
    <3>2. w \in W => Cardinality(W \ {w}) = Cardinality(W) - 1
      BY <1>1, FS_RemoveElement
    <3>3. w \notin W => W \ {w} = W
      OBVIOUS
    <3> QED
      BY <3>1, <3>2, <3>3
  <2>8. Copies(list'[a], b) + Cardinality(W') = due(Begun')
    <3>1. CASE w \in W
      BY <1>1, <2>2, <2>3, <2>6, <2>7, <3>1
    <3>2. CASE w \notin W
      BY <1>1, <2>2, <2>3, <2>6, <2>7, <3>2
    <3> QED
      BY <3>1, <3>2
  <2> QED
    BY <2>3, <2>7, <2>8 DEF Pushed, W
<1>5. CASE UNCHANGED <<last, cnt, list, blob, tries, pending>>
  BY <1>5 DEF Pushed, Waits, PendingOf, BlockOf, Copies, Begun
<1> QED
  BY <1>0, <1>2, <1>3, <1>4, <1>5, Calm

\* The counters: an INCRBY that is done adds the ends of its block, once.
LEMMA AddedStep ==
  ASSUME IInv, Once, [Next]_vars, faults = 0, faults' = 0, NEW a \in Addr, Added(a)
  PROVE  Added(a)'
<1>0. TypeOK /\ LoopInv /\ WritesInv
  BY DEF IInv
<1> DEFINE P == PendingOf("incr", a)
           U == Unadded(a)
           S == Begun \ U
<1>1. IsFiniteSet(Ends(S, a)) /\ cnt[a] = Cardinality(Ends(S, a))
  BY DEF Added
<1>2. CASE StartWrites
  <2> DEFINE n == Len(tries) + 1
             w == [kind |-> "incr", try |-> n, addr |-> a]
             T == Touched(Chain[cur])
             new == [kind : {"incr", "push"}, try : {n}, addr : T] \cup [kind : {"blob"}, try : {n}]
  <2>1. cur \notin Begun /\ cur \in Blocks /\ cnt' = cnt /\ Begun' = Begun \cup {cur}
    BY <1>0, <1>2, FreshBlock, NewTry DEF StartWrites, redis
  <2>2. pending' = pending \cup new
    BY <1>2 DEF StartWrites
  <2>3. \A x \in pending : BlockOf(x)' = BlockOf(x)
    BY <1>0, BlocksStay
  <2>4. \A x \in new : BlockOf(x)' = cur
    BY <1>0, <1>2, NewTry DEF BlockOf
  <2>5. (\E x \in new : x.kind = "incr" /\ x.addr = a) <=> a \in T
    <3>1. a \in T => w \in new /\ w.kind = "incr" /\ w.addr = a
      OBVIOUS
    <3>2. \A x \in new : x.kind = "incr" /\ x.addr = a => a \in T
      OBVIOUS
    <3> QED
      BY <3>1, <3>2
  <2> HIDE DEF new, T, w
  <2>6. U' = U \cup (IF a \in T THEN {cur} ELSE {})
    BY <2>2, <2>3, <2>4, <2>5 DEF Unadded, PendingOf
  <2>7. CASE a \in T
    <3>1. S' = S
      BY <2>1, <2>6, <2>7
    <3> QED
      BY <1>1, <2>1, <3>1 DEF Added
  <2>8. CASE a \notin T
    <3>1. U \subseteq Begun
      BY <1>0, WriteType DEF Unadded, PendingOf, BlockOf, Begun
    <3>2. S' = S \cup {cur}
      BY <2>1, <2>6, <2>8, <3>1
    <3>3. Ends(S \cup {cur}, a) = Ends(S, a)
      <4>1. EndsOf(cur, a) = {}
        BY <2>8, EndsNone DEF T
      <4>2. Ends(S \cup {cur}, a) = Ends(S, a) \cup EndsOf(cur, a)
        BY EndsAdd
      <4> HIDE DEF S
      <4> QED
        BY <4>1, <4>2
    <3>4. Ends(S', a) = Ends(S, a)
      BY <3>2, <3>3
    <3> HIDE DEF S
    <3> QED
      BY <1>1, <2>1, <3>4 DEF Added, S
  <2> QED
    BY <2>7, <2>8
<1>3. CASE Write
  <2>1. PICK w \in pending : /\ pending' = pending \ {w}
                             /\ AddBlock(w) \/ UpdateCounter(w) \/ AppendBlockNumber(w)
    BY <1>3 DEF Write, Execute, Fault
  <2>2. Begun' = Begun /\ \A x \in pending : BlockOf(x)' = BlockOf(x)
    BY <1>3 DEF Write, Begun, BlockOf
  <2>4. CASE w \in P
    <3> DEFINE b == BlockOf(w)
    <3>1. UpdateCounter(w) /\ w.addr = a /\ w.kind = "incr"
      BY <2>1, <2>4 DEF AddBlock, AppendBlockNumber, PendingOf
    <3>2. b \in Blocks /\ b \in Begun /\ b \in U
      BY <1>0, <2>4, WriteType DEF BlockOf, Begun, Unadded
    <3>3. U' = U \ {b}
      <4>1. \A x \in P : x # w => BlockOf(x) # b
        BY <1>0, <3>1, OneWrite DEF PendingOf
      <4>2. U' = {BlockOf(x) : x \in P \ {w}}
        BY <2>1, <2>2 DEF Unadded, PendingOf
      <4> QED
        BY <4>1, <4>2 DEF Unadded
    <3> HIDE DEF b, U
    <3>4. S' = S \cup {b} /\ b \notin S
      BY <2>2, <3>2, <3>3
    <3> HIDE DEF S
    <3>5. /\ IsFiniteSet(Ends(S \cup {b}, a))
          /\ Cardinality(Ends(S \cup {b}, a)) = Cardinality(Ends(S, a)) + Weight(Chain[b], a)
      BY <1>1, <3>2, <3>4, EndsCount
    <3>6. cnt'[a] = cnt[a] + Weight(Chain[b], a)
      <4>1. cnt' = [cnt EXCEPT ![w.addr] = cnt[w.addr] + Weight(Chain[b], w.addr)]
        BY <3>1 DEF UpdateCounter, b
      <4>2. cnt \in [Addr -> Nat]
        BY <1>0 DEF TypeOK
      <4> QED
        BY <3>1, <4>1, <4>2
    <3>7. IsFiniteSet(Ends(S', a)) /\ cnt'[a] = Cardinality(Ends(S', a))
      BY <1>1, <3>4, <3>5, <3>6
    <3> QED
      BY <3>7 DEF Added, S, U
  <2>5. CASE w \notin P
    <3>1. U' = U
      BY <2>1, <2>2, <2>5 DEF Unadded, PendingOf
    <3>2. cnt'[a] = cnt[a]
      BY <1>0, <2>1, <2>5 DEF AddBlock, UpdateCounter, AppendBlockNumber, PendingOf, TypeOK
    <3>3. S' = S
      BY <2>2, <3>1
    <3> QED
      BY <1>1, <3>2, <3>3 DEF Added
  <2> QED
    BY <2>4, <2>5
<1>4. CASE UNCHANGED <<cnt, tries, pending>>
  BY <1>4 DEF Added, Unadded, PendingOf, BlockOf, Begun
<1>5. UpdateLastBlockNumber => UNCHANGED <<cnt, tries, pending>>
  BY DEF UpdateLastBlockNumber
<1> QED
  BY <1>0, <1>2, <1>3, <1>4, <1>5, Calm

\* The blobs: a block lacks its blob exactly as long as the SET is to be done.
LEMMA SavedStep ==
  ASSUME IInv, Once, [Next]_vars, faults = 0, faults' = 0,
         \A b \in Begun : Saved(b), NEW b \in Begun'
  PROVE  Saved(b)'
<1>0. TypeOK /\ LoopInv /\ WritesInv /\ IndexSound
  BY DEF IInv
<1>1. \A x \in Begun : x \in Blocks
  <2>1. \A t \in DOMAIN tries : tries[t] \in Try
    BY <1>0 DEF TypeOK
  <2> QED
    BY <2>1 DEF Begun, Try
<1>2. CASE StartWrites
  <2> DEFINE n == Len(tries) + 1
             w == [kind |-> "blob", try |-> n]
             new == [kind : {"incr", "push"}, try : {n}, addr : Touched(Chain[cur])]
                    \cup [kind : {"blob"}, try : {n}]
  <2>1. cur \notin Begun /\ cur \in Blocks /\ blob' = blob /\ Begun' = Begun \cup {cur}
    BY <1>0, <1>2, FreshBlock, NewTry DEF StartWrites, redis
  <2>2. pending' = pending \cup new
    BY <1>2 DEF StartWrites
  <2>3. \A x \in pending : BlockOf(x)' = BlockOf(x) /\ BlockOf(x) \in Begun
    BY <1>0, BlocksStay DEF BlockOf, Begun
  <2>4. \A x \in new : BlockOf(x)' = cur
    BY <1>0, <1>2, NewTry DEF BlockOf
  <2>5. w \in new /\ w.kind = "blob"
    OBVIOUS
  <2> HIDE DEF new, w
  <2>6. CASE b = cur
    <3>1. blob[cur] = {}
      <4>1. \A r \in blob[cur] : cur \in Begun
        BY <1>0, <2>1 DEF IndexSound, Begun
      <4> QED
        BY <2>1, <4>1
    <3> QED
      BY <2>1, <2>2, <2>4, <2>5, <2>6, <3>1 DEF Saved
  <2>7. CASE b # cur
    <3>1. Saved(b)
      BY <2>1, <2>7
    <3>2. \A x \in new : BlockOf(x)' # b
      BY <2>4, <2>7
    <3> QED
      BY <2>1, <2>2, <2>3, <3>1, <3>2 DEF Saved
  <2> QED
    BY <2>6, <2>7
<1>3. CASE Write
  <2>1. PICK w \in pending : /\ pending' = pending \ {w}
                             /\ AddBlock(w) \/ UpdateCounter(w) \/ AppendBlockNumber(w)
    BY <1>3 DEF Write, Execute, Fault
  <2>2. Begun' = Begun /\ \A x \in pending : BlockOf(x)' = BlockOf(x)
    BY <1>3 DEF Write, Begun, BlockOf
  <2>3. Saved(b) /\ b \in Blocks
    BY <1>1, <2>2
  <2>4. CASE w.kind = "blob" /\ BlockOf(w) = b
    <3>1. blob' = [blob EXCEPT ![b] = {tries[w.try].rows}]
      BY <2>1, <2>4 DEF AddBlock, UpdateCounter, AppendBlockNumber
    <3>2. blob'[b] # {}
      BY <1>0, <2>3, <3>1 DEF TypeOK
    <3>3. \A x \in pending : x.kind = "blob" /\ BlockOf(x) = b => x = w
      BY <1>0, <2>4, OneWrite
    <3>4. \A x \in pending' : ~(x.kind = "blob" /\ BlockOf(x)' = b)
      BY <2>1, <2>2, <3>3
    <3> QED
      BY <3>2, <3>4 DEF Saved
  <2>5. CASE ~(w.kind = "blob" /\ BlockOf(w) = b)
    <3>1. blob'[b] = blob[b]
      BY <1>0, <2>1, <2>3, <2>5 DEF AddBlock, UpdateCounter, AppendBlockNumber, TypeOK
    <3>2. (\E x \in pending' : x.kind = "blob" /\ BlockOf(x)' = b)
            <=> \E x \in pending : x.kind = "blob" /\ BlockOf(x) = b
      BY <2>1, <2>2, <2>5
    <3> QED
      BY <2>3, <3>1, <3>2 DEF Saved
  <2> QED
    BY <2>4, <2>5
<1>4. CASE UNCHANGED <<blob, tries, pending>>
  BY <1>4 DEF Saved, BlockOf, Begun
<1>5. UpdateLastBlockNumber => UNCHANGED <<blob, tries, pending>>
  BY DEF UpdateLastBlockNumber
<1> QED
  BY <1>0, <1>2, <1>3, <1>4, <1>5, Calm

LEMMA ExactStep == IInv /\ Exact /\ [Next]_vars => Exact'
<1> SUFFICES ASSUME IInv, Exact, [Next]_vars, faults' = 0
             PROVE  /\ Once'
                    /\ \A a \in Addr, b \in Blocks : Pushed(a, b)'
                    /\ \A a \in Addr : Added(a)'
                    /\ \A b \in Begun' : Saved(b)'
  BY DEF Exact
<1>1. faults = 0
  BY FaultsGrow DEF IInv
<1>2. /\ Once
      /\ \A a \in Addr, b \in Blocks : Pushed(a, b)
      /\ \A a \in Addr : Added(a)
      /\ \A b \in Begun : Saved(b)
  BY <1>1 DEF Exact
<1>3. Once'
  BY <1>1, <1>2, OnceStep
<1>4. \A a \in Addr, b \in Blocks : Pushed(a, b)'
  BY <1>1, <1>2, PushedStep
<1>5. \A a \in Addr : Added(a)'
  BY <1>1, <1>2, AddedStep
<1>6. \A b \in Begun' : Saved(b)'
  BY <1>1, <1>2, SavedStep
<1> QED
  BY <1>3, <1>4, <1>5, <1>6

LEMMA ExactInit == Init => Exact
<1> SUFFICES ASSUME Init PROVE Exact
  OBVIOUS
<1>1. Begun = {} /\ Done = 0 /\ tries = <<>> /\ pending = {} /\ pc # "advance"
  BY SeedsAssumption DEF Init, Begun, Done
<1>2. Once
  BY <1>1 DEF Once
<1>3. ASSUME NEW a \in Addr, NEW b \in Blocks PROVE Pushed(a, b)
  <2>1. Waits(a, b) = {} /\ list[a] = <<>>
    BY <1>1, <1>3 DEF Init, Waits, PendingOf
  <2>2. Copies(list[a], b) = 0 /\ IsFiniteSet({}) /\ Cardinality({}) = 0
    BY <2>1, CopiesEmpty, FS_EmptySet
  <2> QED
    BY <1>1, <2>1, <2>2 DEF Pushed
<1>4. ASSUME NEW a \in Addr PROVE Added(a)
  <2>1. Ends(Begun \ Unadded(a), a) = {} /\ cnt[a] = 0
    BY <1>1, <1>4 DEF Init, Ends
  <2> QED
    BY <2>1, FS_EmptySet DEF Added
<1> QED
  BY <1>1, <1>2, <1>3, <1>4 DEF Exact

\* While nothing has failed, and however the goroutines of several blocks
\* interleave, what processBlocks orders is written exactly once.
THEOREM IndexerExact == Spec => []ExactSoFar
<1>1. Init => Exact
  BY ExactInit
<1>2. IInv /\ Exact /\ [Next]_vars => Exact'
  BY ExactStep
<1>3. IInv /\ Exact => ExactSoFar
  <2> SUFFICES ASSUME IInv, faults = 0,
                      \A a \in Addr, b \in Blocks : Pushed(a, b),
                      \A a \in Addr : Added(a), \A b \in Begun : Saved(b)
               PROVE  /\ \A a \in Addr, b \in Begun :
                           Copies(list[a], b)
                             + Cardinality({w \in PendingOf("push", a) : BlockOf(w) = b})
                             = IF a \in Touched(Chain[b]) THEN 1 ELSE 0
                      /\ \A a \in Addr :
                           cnt[a] = Cardinality(Ends(Begun \ {BlockOf(w) :
                                                      w \in PendingOf("incr", a)}, a))
                      /\ \A b \in Begun : blob[b] = {} <=>
                           \E w \in pending : w.kind = "blob" /\ BlockOf(w) = b
    BY DEF Exact, ExactSoFar
  <2>1. \A x \in Begun : x \in Blocks
    <3>1. \A t \in DOMAIN tries : tries[t] \in Try
      BY DEF IInv, TypeOK
    <3> QED
      BY <3>1 DEF Begun, Try
  <2>2. \A a \in Addr, b \in Begun :
          Copies(list[a], b) + Cardinality({w \in PendingOf("push", a) : BlockOf(w) = b})
            = IF a \in Touched(Chain[b]) THEN 1 ELSE 0
    BY <2>1 DEF Pushed, Waits
  <2> QED
    BY <2>2 DEF Added, Unadded, Saved
<1> QED
  BY <1>1, <1>2, <1>3, IndexerInvariant, PTL DEF Spec

-----------------------------------------------------------------------------
(* What the readers of the index may rely on while nothing has failed.     *)

Lists(a, b) == \E i \in DOMAIN list[a] : list[a][i] = b

\* While nothing has failed, and when the goroutines are at rest, every row of a
\* stored block can be found from both its addresses, except that a token transfer
\* may not be listed under the recipient that its row names.  It is what ListsFit,
\* the premise of the traversals, asks of the lists.
Linked ==
  faults = 0 /\ pending = {} =>
    \A b \in Begun : \A R \in blob[b] : \A r \in R :
      /\ Lists(r.from, b)
      /\ Lists(r.to, b) \/ r \in Rows(TokenTxs(Chain[b]))

\* An address with a copy of a number lists it.
LEMMA CopyListed ==
  ASSUME NEW a, NEW b, Copies(list[a], b) = 1
  PROVE  Lists(a, b)
<1> SUFFICES ASSUME ~Lists(a, b) PROVE FALSE
  OBVIOUS
<1>1. {i \in DOMAIN list[a] : list[a][i] = b} = {}
  BY DEF Lists
<1> QED
  BY <1>1, FS_EmptySet DEF Copies

\* When the goroutines are at rest, each address that a block touches lists it, and
\* the block is stored.
LEMMA AllListed ==
  ASSUME TypeOK, ExactSoFar, faults = 0, pending = {}, NEW b \in Begun
  PROVE  /\ \A a \in Touched(Chain[b]) : Lists(a, b)
         /\ blob[b] # {}
         /\ b \in Blocks
<1>1. b \in Blocks
  <2>1. \A t \in DOMAIN tries : tries[t] \in Try
    BY DEF TypeOK
  <2> QED
    BY <2>1 DEF Begun, Try
<1>2. ASSUME NEW a \in Touched(Chain[b]) PROVE Lists(a, b)
  <2>1. a \in Addr
    BY <1>1, TouchedAddr
  <2>2. {w \in PendingOf("push", a) : BlockOf(w) = b} = {}
    BY DEF PendingOf
  <2>3. Copies(list[a], b) + Cardinality({w \in PendingOf("push", a) : BlockOf(w) = b}) = 1
    BY <2>1 DEF ExactSoFar
  <2>4. Copies(list[a], b) + Cardinality({}) = 1
    BY <2>2, <2>3
  <2>5. Copies(list[a], b) \in Nat
    <3>1. list[a] \in Seq(Blocks)
      BY <2>1 DEF TypeOK
    <3> QED
      BY <1>1, <3>1, CopiesAppend
  <2>6. Copies(list[a], b) = 1
    BY <2>4, <2>5, FS_EmptySet
  <2> QED
    BY <2>6, CopyListed
<1>3. blob[b] # {}
  BY DEF ExactSoFar
<1> QED
  BY <1>1, <1>2, <1>3

\* The service "indexes the Ethereum blockchain", as CommittedIsIndexed has it, as
\* long as nothing fails: the run indexer_crash needs its crash.
THEOREM IndexerIndexes == Spec => [](faults = 0 => CommittedIsIndexed)
<1>1. TypeOK /\ NoGap /\ ExactSoFar => (faults = 0 => CommittedIsIndexed)
  <2> SUFFICES ASSUME TypeOK, NoGap, ExactSoFar, faults = 0, pending = {}, NEW b \in 1..Done
               PROVE  /\ blob[b] # {}
                      /\ \A a \in Touched(Chain[b]) : \E i \in DOMAIN list[a] : list[a][i] = b
    BY DEF CommittedIsIndexed
  <2>1. Done \in Nat
    BY DEF Done, TypeOK
  <2>2. b \in Begun
    BY <2>1 DEF NoGap
  <2> QED
    BY <2>2, AllListed DEF Lists
<1> QED
  BY <1>1, IndexerTypes, IndexerNoGap, IndexerExact, PTL

\* The lists lead to every row from its payer, and to every payment from its payee.
THEOREM IndexerLinked == Spec => []Linked
<1>1. TypeOK /\ ExactSoFar /\ PaymentsKept => Linked
  <2> SUFFICES ASSUME TypeOK, ExactSoFar, PaymentsKept, faults = 0, pending = {},
                      NEW b \in Begun, NEW R \in blob[b], NEW r \in R
               PROVE  /\ Lists(r.from, b)
                      /\ Lists(r.to, b) \/ r \in Rows(TokenTxs(Chain[b]))
    BY DEF Linked
  <2>1. b \in Blocks /\ \A a \in Touched(Chain[b]) : Lists(a, b)
    BY AllListed
  <2>2. r \in Rows(Filed(Chain[b], {}))
    BY <2>1 DEF PaymentsKept
  <2>3. PICK tx \in Filed(Chain[b], {}) : r = RowOf(tx)
    BY <2>2 DEF Rows
  <2>4. tx \in Counted(Chain[b]) /\ (tx.paid \/ tx \in TokenTxs(Chain[b]))
    BY DEF Filed, PaidTxs, TokenTxs
  <2>5. tx.from \in Touched(Chain[b]) /\ tx.to \in Touched(Chain[b])
    BY <2>4 DEF Touched
  <2>6. r.from = tx.from /\ (tx.paid => r.to = tx.to)
    BY <2>3 DEF RowOf
  <2>7. tx \in TokenTxs(Chain[b]) => r \in Rows(TokenTxs(Chain[b]))
    BY <2>3 DEF Rows
  <2> QED
    BY <2>1, <2>4, <2>5, <2>6, <2>7
<1> QED
  BY <1>1, IndexerTypes, IndexerExact, IndexerPayments, PTL

=============================================================================
