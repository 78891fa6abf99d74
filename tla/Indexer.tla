------------------------------- MODULE Indexer -------------------------------
(***************************************************************************)
(* The indexer process (cmd/indexer/indexer.go) and the Redis keys it      *)
(* writes (internal/storage/redis/block.go, analytics.go, queue.go).       *)
(*                                                                         *)
(* At its start the process asks each tracked token what it is.  Then one  *)
(* main loop reads meta:last_block, fetches the next block, asks for busy  *)
(* addresses to be labelled, starts three goroutines that write the block  *)
(* to Redis, and moves meta:last_block on without waiting for them.        *)
(* The goroutines of one block interleave with each other, with those of   *)
(* other blocks and with the loop; they die with the process.              *)
(*                                                                         *)
(* Block numbers are relative: block 1 is START_BLOCK_NUMBER.              *)
(***************************************************************************)
EXTENDS BlockRows, Sequences

CONSTANTS
  Tip,         \* how many blocks the node ever shows (a bound)
  Chain,       \* the blocks: [1..Tip -> SUBSET Tx]
  Unreadable,  \* the tokens whose contracts never tell their decimals or symbol
  EnrichAt,    \* the 10_000 of askToEnrichAddress
  Seeds,       \* values meta:last_block may have before the first start
  Ready,       \* the blocks that exist and are priced at the first start
  MaxFaults    \* how many faults may strike (a bound)

ASSUME TipAssumption == Tip \in Nat
ASSUME ChainAssumption == Chain \in [1..Tip -> SUBSET Tx]
ASSUME FiniteBlocks == \A b \in 1..Tip : IsFiniteSet(Chain[b])
ASSUME UnreadableAssumption == Unreadable \subseteq Tokens
ASSUME EnrichAssumption == EnrichAt \in Nat \ {0}
ASSUME SeedsAssumption == Seeds \subseteq {0, Nil}
ASSUME NilNotInt == Nil \notin Int
ASSUME ReadyAssumption == Ready \in 0..Tip
ASSUME FaultsAssumption == MaxFaults \in Nat

VARIABLES
  last,      \* meta:last_block
  cnt,       \* c:<addr>   number of transactions
  list,      \* b:<addr>   block numbers, in the order of the RPushes
  blob,      \* tx:<block> {rows}, or {} while the key is missing
  queue,     \* aq         how many times each address waits for enrichment
  labelled,  \* lbl:<addr> addresses that have labels
  pc,        \* where the main loop is
  cur,       \* the block number the loop is working on
  rows,      \* the blob handleBlock builds for cur
  ask,       \* <<tx, end>> for the askToEnrichAddress calls still to come
  send,      \* the address askToEnrichAddress has decided to send, or Nil
  contracts, \* the tokens that the client has yet to ask for what they are
  cache,     \* the tokens that it knows: the keys of tokenCache
  tries,     \* the blocks handed to the goroutines so far, in order (history)
  late,      \* the blocks handled before their token prices were there (history)
  pending,   \* the single Redis writes those goroutines still have to do
  head,      \* the last block the node knows
  ethUpTo,   \* blocks up to this one have an ETH price in Redis
  tokUpTo,   \* blocks up to this one have all the token prices in Redis
  faults     \* faults so far

\* The keys behind RedisClient: those of blocks and counters in the main database,
\* the labels in the analytics database, the queue in a third.
redis == <<last, cnt, list, blob, queue, labelled>>
loop == <<pc, cur, rows, ask, send>>
client == <<contracts, cache>>
world == <<head, ethUpTo, tokUpTo>>
vars == <<redis, loop, client, tries, late, pending, world, faults>>

Blocks == 1..Tip
Try == [block : Blocks, rows : SUBSET Row]
Writes == [kind : {"incr", "push"}, try : Nat \ {0}, addr : Addr]
          \cup [kind : {"blob"}, try : Nat \ {0}]

\* Something goes wrong in this step.  Faults are bounded by MaxFaults.
Fault == faults < MaxFaults /\ faults' = faults + 1
NoFault == UNCHANGED faults

-----------------------------------------------------------------------------
(* The process starts.  That the configuration cannot be read, or the node *)
(* cannot be reached at all, ends it where it began.                       *)

\* main, up to the client of the node: what it knows of tokens is empty.
NewIndexer ==
  /\ pc = "down"
  /\ pc' = "start"
  /\ contracts' = Tokens
  /\ NoFault
  /\ UNCHANGED <<redis, cur, rows, ask, send, cache, tries, late, pending, world>>

\* A turn of newErc20Cache: a contract is asked for its decimals and its symbol.
\* A token for which either call fails is passed over: when the node cannot be
\* reached, and always when the contract does not answer as the ABI says.
InitErc20Token ==
  /\ pc = "start"
  /\ \E t \in contracts :
       /\ contracts' = contracts \ {t}
       /\ \/ t \notin Unreadable /\ cache' = cache \cup {t} /\ NoFault
          \/ t \in Unreadable /\ UNCHANGED cache /\ NoFault
          \/ UNCHANGED cache /\ Fault
  /\ UNCHANGED <<redis, loop, tries, late, pending, world>>

\* Variant: the loop starts while the contracts are still being asked.
NewEthClient_Early ==
  /\ pc = "start"
  /\ pc' = "next"
  /\ contracts' = {}
  /\ NoFault
  /\ UNCHANGED <<redis, cur, rows, ask, send, cache, tries, late, pending, world>>

\* NewEthClient returns, and the loop starts.
NewEthClient ==
  /\ pc = "start"
  /\ contracts = {}
  /\ pc' = "next"
  /\ NoFault
  /\ UNCHANGED <<redis, cur, rows, ask, send, client, tries, late, pending, world>>

-----------------------------------------------------------------------------
(* The main loop, processBlocks.                                           *)

\* What GetLastBlockNumber returns, if anything: a missing key is an error.
GetLastBlockNumber == {last} \ {Nil}

\* Variant: the loop skips a block.
GetNextBlockNumber_SkipsOne ==
  /\ pc = "next"
  /\ \E n \in GetLastBlockNumber : cur' = n + 2
  /\ pc' = "fetch"
  /\ NoFault
  /\ UNCHANGED <<redis, rows, ask, send, client, tries, late, pending, world>>

\* getNextBlockNumber succeeds.
GetNextBlockNumber ==
  /\ pc = "next"
  /\ \E n \in GetLastBlockNumber : cur' = n + 1
  /\ pc' = "fetch"
  /\ NoFault
  /\ UNCHANGED <<redis, rows, ask, send, client, tries, late, pending, world>>

\* GetLastBlockNumber fails, for want of the key or otherwise: getNextBlockNumber
\* returns the error before it looks at it.
NoNextBlockNumber ==
  /\ pc = "next"
  /\ \/ GetLastBlockNumber = {} /\ NoFault
     \/ Fault
  /\ pc' = "sleep"
  /\ UNCHANGED <<redis, cur, rows, ask, send, client, tries, late, pending, world>>

\* Variant: the loop waits for the token prices as well.
FetchBlock_WaitsForTokens ==
  /\ pc = "fetch"
  /\ cur <= head
  /\ cur <= ethUpTo
  /\ cur <= tokUpTo
  /\ rows' = Rows(Filed(Chain[cur], {}))
  /\ ask' = Filed(Chain[cur], {}) \X {"from", "to"}
  /\ pc' = "ask"
  /\ NoFault
  /\ UNCHANGED <<redis, cur, send, client, tries, late, pending, world>>

\* GetToken.
GetToken(a) == IF a \in cache THEN a ELSE Nil

\* handleBlock up to the rows: the node has the block and Redis the ETH price.
\* A token transfer has no row if the client does not know the token, or if its
\* price is missing or cannot be read.
FetchBlock ==
  /\ pc = "fetch"
  /\ cur <= head
  /\ cur <= ethUpTo
  /\ \E dropped \in SUBSET TokenTxs(Chain[cur]) :
       LET filed == Filed(Chain[cur], dropped)
           unknown == {tx \in TokenTxs(Chain[cur]) : GetToken(tx.to) = Nil}
       IN  /\ unknown \subseteq dropped
           /\ rows' = Rows(filed)
           /\ ask' = filed \X {"from", "to"}
           /\ \/ (dropped = unknown \/ cur > tokUpTo) /\ NoFault
              \/ dropped # unknown /\ cur <= tokUpTo /\ Fault
  /\ late' = IF cur > tokUpTo THEN late \cup {cur} ELSE late
  /\ pc' = "ask"
  /\ UNCHANGED <<redis, cur, send, client, tries, pending, world>>

\* handleBlock returns nil: no such block yet, no ETH price, or a failed call.
NoBlock ==
  /\ pc = "fetch"
  /\ \/ (cur > head \/ cur > ethUpTo) /\ NoFault
     \/ Fault
  /\ pc' = "sleep"
  /\ UNCHANGED <<redis, cur, rows, ask, send, client, tries, late, pending, world>>

\* Variant: the counter is not looked at.
AskToEnrich_AnyCount ==
  /\ pc = "ask"
  /\ send = Nil
  /\ \E q \in ask :
       LET a == IF q[2] = "from" THEN q[1].from ELSE q[1].to
       IN  /\ ask' = ask \ {q}
           /\ send' = IF a \in labelled THEN Nil ELSE a
  /\ NoFault
  /\ UNCHANGED <<redis, pc, cur, rows, client, tries, late, pending, world>>

\* askToEnrichAddress reads the counter and then the labels of one end of a
\* transaction that has a row (the contract it calls, not the recipient the row
\* names).  Both only grow, so the two reads are one step.  A failed read of
\* the counter yields 0, one of the labels yields nil.
AskToEnrich ==
  /\ pc = "ask"
  /\ send = Nil
  /\ \E q \in ask :
       LET a == IF q[2] = "from" THEN q[1].from ELSE q[1].to
       IN  /\ ask' = ask \ {q}
           /\ \/ cnt[a] < EnrichAt /\ NoFault /\ send' = Nil
              \/ cnt[a] >= EnrichAt /\ a \in labelled /\ NoFault /\ send' = Nil
              \/ cnt[a] >= EnrichAt /\ a \notin labelled /\ NoFault /\ send' = a
              \/ cnt[a] >= EnrichAt /\ Fault /\ send' \in {Nil, a}
  /\ UNCHANGED <<redis, pc, cur, rows, client, tries, late, pending, world>>

\* SendAddress: LPUSH on the enrichment queue.  The client library repeats it when
\* it has missed the reply; a failure is only logged.
SendAddress ==
  /\ pc = "ask"
  /\ send # Nil
  /\ LET pushed == [queue EXCEPT ![send] = @ + 1]
     IN  \/ queue' = pushed /\ send' = Nil /\ NoFault
         \/ queue' = pushed /\ UNCHANGED send /\ Fault
         \/ UNCHANGED queue /\ send' = Nil /\ Fault
  /\ UNCHANGED <<last, cnt, list, blob, labelled, pc, cur, rows, ask, client,
                 tries, late, pending, world>>

\* The end of handleBlock and the two go statements of processBlocks:
\* AddBlock, UpdateCounters and AppendBlockNumbers start.
StartWrites ==
  /\ pc = "ask"
  /\ ask = {}
  /\ send = Nil
  /\ tries' = Append(tries, [block |-> cur, rows |-> rows])
  /\ pending' = pending
       \cup [kind : {"incr", "push"}, try : {Len(tries) + 1}, addr : Touched(Chain[cur])]
       \cup [kind : {"blob"}, try : {Len(tries) + 1}]
  /\ rows' = {}
  /\ pc' = "advance"
  /\ NoFault
  /\ UNCHANGED <<redis, cur, ask, send, client, late, world>>

\* Variant: the key is not saved.
UpdateLastBlockNumber_Forgets ==
  /\ pc = "advance"
  /\ pc' = "next"
  /\ NoFault
  /\ UNCHANGED <<redis, cur, rows, ask, send, client, tries, late, pending, world>>

\* Variant: the key jumps to the head of the chain.
UpdateLastBlockNumber_JumpsToHead ==
  /\ pc = "advance"
  /\ last' = head
  /\ pc' = "next"
  /\ NoFault
  /\ UNCHANGED <<cnt, list, blob, queue, labelled, cur, rows, ask, send, client,
                 tries, late, pending, world>>

\* The SET of UpdateLastBlockNumber and what it reports: the key is written, or
\* there is an error and Redis may have executed the command all the same.
SetLastBlock(ok) ==
  \/ ok /\ last' = cur /\ NoFault
  \/ ~ok /\ last' \in {last, cur} /\ Fault

\* The loop saves its block number; on an error it sleeps and starts over.
UpdateLastBlockNumber ==
  /\ pc = "advance"
  /\ \E ok \in BOOLEAN : SetLastBlock(ok) /\ pc' = IF ok THEN "next" ELSE "sleep"
  /\ UNCHANGED <<cnt, list, blob, queue, labelled, cur, rows, ask, send, client,
                 tries, late, pending, world>>

\* The sleep that follows an error is over.
Wake ==
  /\ pc = "sleep"
  /\ pc' = "next"
  /\ NoFault
  /\ UNCHANGED <<redis, cur, rows, ask, send, client, tries, late, pending, world>>

-----------------------------------------------------------------------------
(* The goroutines: each step is one Redis command.                         *)

BlockOf(w) == tries[w.try].block

\* AddBlock: SET tx:<block>.
AddBlock(w) ==
  /\ w.kind = "blob"
  /\ blob' = [blob EXCEPT ![BlockOf(w)] = {tries[w.try].rows}]
  /\ UNCHANGED <<cnt, list>>

\* Variant: SET instead of INCRBY.
UpdateCounter_Sets(w) ==
  /\ w.kind = "incr"
  /\ cnt' = [cnt EXCEPT ![w.addr] = Weight(Chain[BlockOf(w)], w.addr)]
  /\ UNCHANGED <<list, blob>>

\* UpdateCounters: INCRBY c:<addr> for one address of transMap.
UpdateCounter(w) ==
  /\ w.kind = "incr"
  /\ cnt' = [cnt EXCEPT ![w.addr] = @ + Weight(Chain[BlockOf(w)], w.addr)]
  /\ UNCHANGED <<list, blob>>

\* Variant: the goroutine shares the loop's block number instead of its own.
AppendBlockNumber_SharedNumber(w) ==
  /\ w.kind = "push"
  /\ list' = [list EXCEPT ![w.addr] = Append(@, cur)]
  /\ UNCHANGED <<cnt, blob>>

\* AppendBlockNumbers: RPUSH b:<addr> for one address of transMap.
AppendBlockNumber(w) ==
  /\ w.kind = "push"
  /\ list' = [list EXCEPT ![w.addr] = Append(@, BlockOf(w))]
  /\ UNCHANGED <<cnt, blob>>

\* Redis executes the command.
Execute(w) == AddBlock(w) \/ UpdateCounter(w) \/ AppendBlockNumber(w)

\* A command of a goroutine: Redis executes it; or it does, but the reply is lost
\* and the client library sends the command again; or it does not, which is
\* logged, and the goroutine goes on to its next address.
Write ==
  /\ \E w \in pending :
       \/ Execute(w) /\ pending' = pending \ {w} /\ NoFault
       \/ Execute(w) /\ UNCHANGED pending /\ Fault
       \/ UNCHANGED <<cnt, list, blob>> /\ pending' = pending \ {w} /\ Fault
  /\ UNCHANGED <<last, queue, labelled, loop, client, tries, late, world>>

-----------------------------------------------------------------------------
(* The process ends, on SIGTERM or by a crash; nothing waits for the       *)
(* goroutines.  SIGTERM is seen only at the top of the loop.               *)

Shutdown ==
  /\ pc # "down"
  /\ pc' = "down"
  /\ pending' = {}
  /\ rows' = {}
  /\ ask' = {}
  /\ send' = Nil
  /\ contracts' = {}
  /\ cache' = {}
  /\ Fault
  /\ UNCHANGED <<redis, cur, tries, late, world>>

-----------------------------------------------------------------------------
(* The surroundings: the node, the price indexer, the labelling worker.    *)

NewBlock ==
  /\ head < Tip
  /\ head' = head + 1
  /\ NoFault
  /\ UNCHANGED <<redis, loop, client, tries, late, pending, ethUpTo, tokUpTo>>

NewEthPrice ==
  /\ ethUpTo < Tip
  /\ ethUpTo' = ethUpTo + 1
  /\ NoFault
  /\ UNCHANGED <<redis, loop, client, tries, late, pending, head, tokUpTo>>

\* updatePriceData stores BTC and ETH before the tokens.
NewTokenPrices ==
  /\ tokUpTo < ethUpTo
  /\ tokUpTo' = tokUpTo + 1
  /\ NoFault
  /\ UNCHANGED <<redis, loop, client, tries, late, pending, head, ethUpTo>>

LabelAddress ==
  /\ \E a \in Addr :
       /\ queue[a] > 0
       /\ queue' = [queue EXCEPT ![a] = @ - 1]
       /\ labelled' = labelled \cup {a}
  /\ NoFault
  /\ UNCHANGED <<last, cnt, list, blob, loop, client, tries, late, pending, world>>

-----------------------------------------------------------------------------
Init ==
  /\ last \in Seeds
  /\ cnt = [a \in Addr |-> 0]
  /\ list = [a \in Addr |-> <<>>]
  /\ blob = [b \in Blocks |-> {}]
  /\ queue = [a \in Addr |-> 0]
  /\ labelled = {}
  /\ pc = "down"
  /\ cur = 0
  /\ rows = {}
  /\ ask = {}
  /\ send = Nil
  /\ contracts = {}
  /\ cache = {}
  /\ tries = <<>> /\ late = {}
  /\ pending = {}
  /\ head = Ready
  /\ ethUpTo = Ready
  /\ tokUpTo = Ready
  /\ faults = 0

Start == InitErc20Token \/ NewEthClient

ProcessBlocks == \/ GetNextBlockNumber \/ NoNextBlockNumber
                 \/ FetchBlock \/ NoBlock
                 \/ AskToEnrich \/ SendAddress
                 \/ StartWrites \/ UpdateLastBlockNumber \/ Wake

Environment == NewBlock \/ NewEthPrice \/ NewTokenPrices \/ LabelAddress

Next == NewIndexer \/ Start \/ ProcessBlocks \/ Write \/ Shutdown \/ Environment

Spec == Init /\ [][Next]_vars

\* The process, whose start leads into its loop, and its goroutines keep running
\* while it is up; the node and the price indexer keep delivering.  Nothing starts
\* the process.
FairSpec == /\ Spec
            /\ WF_vars(Start \/ ProcessBlocks)
            /\ WF_vars(Write)
            /\ WF_vars(NewBlock)
            /\ WF_vars(NewEthPrice)

-----------------------------------------------------------------------------
(* Properties.                                                             *)

\* The values of the variables: the Redis keys and the state of the loop.
TypeOK ==
  /\ last \in Nat \cup {Nil}
  /\ cnt \in [Addr -> Nat]
  /\ list \in [Addr -> Seq(Blocks)]
  /\ blob \in [Blocks -> SUBSET (SUBSET Row)]
  /\ queue \in [Addr -> Nat]
  /\ labelled \subseteq Addr
  /\ pc \in {"down", "start", "next", "fetch", "ask", "advance", "sleep"}
  /\ cur \in Nat
  /\ rows \subseteq Row
  /\ ask \subseteq ({tx \in Tx : tx.to # Nil} \X {"from", "to"})
  /\ send \in Addr \cup {Nil}
  /\ contracts \subseteq Tokens /\ cache \subseteq Tokens
  /\ tries \in Seq(Try) /\ late \subseteq Blocks
  /\ pending \subseteq Writes
  /\ head \in 0..Tip /\ ethUpTo \in 0..Tip /\ tokUpTo \in 0..Tip
  /\ faults \in 0..MaxFaults

Begun == {tries[t].block : t \in DOMAIN tries}

Done == IF last = Nil THEN 0 ELSE last

\* How many times a block number is in a list.
Copies(s, b) == Cardinality({i \in DOMAIN s : s[i] = b})

\* meta:last_block never passes a block that was not handed to the writers,
\* and the loop is never more than one block ahead of it: the blocks begun are
\* exactly 1..last, and maybe the next.  processBlocks re-reads the key before
\* every block instead of counting, whatever failed or restarted in between.
NoGap == Begun = 1..Done \/ Begun = 1..(Done + 1)

\* b:<addr> and tx:<block> never hold what the chain does not: a number in the
\* list of an address is a block that was begun and that touches the address,
\* and a stored blob is what one of the tries of that very block computed.
\* The writers are goroutines that outlive the loop's iteration.
IndexSound ==
  /\ \A a \in Addr : \A i \in DOMAIN list[a] :
       list[a][i] \in Begun /\ a \in Touched(Chain[list[a][i]])
  /\ \A b \in Blocks : \A r \in blob[b] :
       \E t \in DOMAIN tries : tries[t] = [block |-> b, rows |-> r]

\* The transfers of a block that no run of the indexer can make a row of.
Lost(b) == {tx \in TokenTxs(Chain[b]) : tx.to \in Unreadable}

\* A stored block lacks a transfer of a token whose contract can be read only if its
\* price was not there when the block was handled, or if something has failed: a
\* call at the start of the process, or the reading of a price.  Nothing ever makes
\* up for it, so the client must know every such token before the loop begins.
RowsKept ==
  faults = 0 =>
    \A b \in Blocks \ late : \A r \in blob[b] : r = Rows(Filed(Chain[b], Lost(b)))

\* What the loop knows of its block number: it is the one after last_block,
\* the node has it when the rows are built, the writers have it when
\* last_block is about to move.
LoopInv ==
  /\ pc \in {"fetch", "ask", "advance"} => last # Nil /\ cur = last + 1
  /\ pc = "ask" => cur \in Blocks
  /\ pc = "advance" => cur \in Begun

\* The writes in flight belong to a try, and to an address its block touches.
WritesInv ==
  \A w \in pending :
    /\ w.try \in DOMAIN tries
    /\ w.kind # "blob" => w.addr \in Touched(Chain[BlockOf(w)])

PendingOf(kind, a) == {w \in pending : w.kind = kind /\ w.addr = a}

\* The ends of the counted transactions of some blocks that are at an address.
Ends(blocks, a) ==
  UNION {{<<b, tx, "from">> : tx \in {x \in Counted(Chain[b]) : x.from = a}}
         \cup {<<b, tx, "to">> : tx \in {x \in Counted(Chain[b]) : x.to = a}} : b \in blocks}

\* While nothing has failed, and however the goroutines of several blocks
\* interleave, each write is either done or still to be done, and once only:
\* one list entry per block and address, every count added, one blob.
ExactSoFar ==
  faults = 0 =>
    /\ \A a \in Addr, b \in Begun :
         Copies(list[a], b) + Cardinality({w \in PendingOf("push", a) : BlockOf(w) = b})
           = IF a \in Touched(Chain[b]) THEN 1 ELSE 0
    /\ \A a \in Addr :
         cnt[a] = Cardinality(Ends(Begun \ {BlockOf(w) : w \in PendingOf("incr", a)}, a))
    /\ \A b \in Begun :
         blob[b] = {} <=> \E w \in pending : w.kind = "blob" /\ BlockOf(w) = b

\* A block is written again only because something failed, and each failure
\* repeats a block, or a command, once: a list holds no more copies of
\* a block than one and the number of faults (UpdateLastBlockNumber that fails
\* after the goroutines have started; a restart; a repeated RPUSH).
DuplicationBounded ==
  \A a \in Addr, b \in Begun : Copies(list[a], b) <= 1 + faults

\* An address waits for labels only if it is busy: the check in
\* askToEnrichAddress and the LPUSH are separate steps, and the counter is
\* being moved by the goroutines in between.
QueueJustified ==
  \A a \in Addr : queue[a] > 0 \/ send = a => cnt[a] >= EnrichAt

\* If the process is up again after every crash, the index reaches the tip of
\* the chain and the writers come to rest there, whatever Redis or the node
\* refused before (processBlocks retries the same block for ever).
CatchesUp == []<>(pc # "down") => <>[](last = Tip /\ pending = {})

\* The same for a deployment that starts with an empty Redis: the
\* START_BLOCK_NUMBER of the configuration gets the loop going.
FreshStart == []<>(pc # "down") => <>(last # Nil)

\* The service "indexes the Ethereum blockchain": a block that meta:last_block
\* has passed, and that no goroutine is still writing, is stored and can be
\* found from each address it touches.
CommittedIsIndexed ==
  pending = {} =>
    \A b \in 1..Done :
      /\ blob[b] # {}
      /\ \A a \in Touched(Chain[b]) : \E i \in DOMAIN list[a] : list[a][i] = b

\* <<b, a>> for each entry b of the list of a.
Entries(l) == UNION {{<<l[a][i], a>> : i \in DOMAIN l[a]} : a \in Addr}

\* What the keys say of the blocks: the entries of the lists, and <<b, Nil>> for
\* a blob.
Known == Entries(list) \cup {<<b, Nil>> : b \in {x \in Blocks : blob[x] # {}}}

Ledger == INSTANCE BlockLedger WITH
            done <- Done, begun <- Begun, known <- Known,
            Facts <- [b \in Blocks |-> {b} \X (Touched(Chain[b]) \cup {Nil})]

\* The indexer keeps the promise of BlockLedger: the height climbs one block
\* at a time over blocks that have begun, and the index only grows, with facts
\* about blocks that have begun.
LedgerSpec == Ledger!Spec

=============================================================================
