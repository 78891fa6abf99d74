# A TLA+ verification of chain-traverser

chain-traverser keeps an index of Ethereum transactions in Redis and answers
questions about the graph of addresses. This directory holds a model of it in
TLA+, the TLC runs that check the model on small instances, and proofs, checked
by TLAPS, of what matters most for every instance. Paths in this text are
relative to `src/`.

## The system

```
 Ethereum node --> indexer --> Redis main DB   tx:<block>  b:<addr>  c:<addr>  meta:last_block
                     |  ^      Redis queue DB  aq --> labelling worker (not in the tree)
                     |  |                               |
                     |  +--- Redis analytics DB  lbl:<addr> <--+
                     +------ prices in the main DB <-- price indexer <-- CryptoCompare
 HTTP --> api --> graph handler --> CollectBFS or CollectDFS --> collapse --> JSON
              \-> path handler  --> CollectDFS --> AllPathsBetween ------------> JSON
```

| Component | State | Operations | What is hard | What makes it correct |
|---|---|---|---|---|
| Indexer, `cmd/indexer/indexer.go` | the loop's block; the Redis keys; the goroutines in flight | start, read height, fetch block, ask to enrich, start three writers, move the height, sleep, stop, restart | writers nobody waits for; retries; crashes; commands repeated by the client library | no block is passed over; the index says nothing that is not on the chain; how often and why a block is there twice; which transfers it may miss; it catches up |
| Breadth-first traversal, `internal/traverser/root.go` | a level of addresses, a goroutine per block, the shared limiter, the rows | count, list, search, join, next level | goroutines that test and take in two steps; reads that fail; depths at the edge | the ball around the source, hubs as leaves; by how much the limit is overrun; a graph in one piece; an end |
| Depth-first traversal, `internal/traverser/dfs.go` | a stack of addresses with depths, the visited set, the rows | pop, skip, note, visit, return | the order in which rows arrive decides the depth at which an address is met | nothing beyond the depth, nothing missing within it for depths 1 and 2; the size; a graph in one piece; an end |
| Simple paths, `api/handlers/utils/allPathBetween.go` | two stacks, the paths found, the clock | grow, prune, record, give up | two stacks in step; random order of neighbours; the clock running out anywhere | each simple path once, all of them if it does not give up |
| Redis storage, `internal/storage/redis` | three client pools | reads and writes of single keys | every error is logged and most are swallowed | see the components that use it |
| Ethereum client, `internal/blockchain/eth/client.go` | the token cache, filled once | ask each contract what it is, decode a token transfer | a token that could not be read at start-up is unknown until a restart | which calls give a row; no block is handled before all contracts have been asked |
| Price look-up, `internal/blockchain/eth/currency.go`, `utils.go` | none | map a ticker, look some days back | the edge of a day, how many days; prices that are stored meanwhile | finds the price of the latest earlier day |
| Price indexer, `cmd/price_indexer` | the price keys; the round | fetch and store per currency, hourly | the first error ends the round; today's price is not final | a price that is not final is the last one of its currency; all currencies get there in the end |
| Graph handler, `api/handlers/root.go`, `utils/address.go` | none kept between requests | parse, traverse, look up nodes, collapse, answer | nodes are read after the traversal while counters and labels move; dropped errors; panics nobody recovers | nodes and edges fit together; a node says what Redis said; every request is answered |
| Path handler, `api/handlers/path.go` | none kept between requests | parse, traverse, collapse, enumerate, look up nodes, answer | a directed traversal, then an undirected graph; a timeout that reads as "no path" | a path is told if and only if the payments lead there |
| Collapsing, `api/handlers/schemas/root.go` | a map of edges whose `FlowByCurrency` maps belong to its input | merge the edges of a pair | maps shared with the input; the order of a Go map | counts, sums and amounts per currency are conserved; no map is added to twice |
| API server and configuration, `api/api.go`, `internal/config` | none | routing, environment | a configuration that cannot be read is found out per request | |
| Analysis collector, `cmd/analysis_collector` | a collection of wallets | a batch job | does not build against the tree (it calls `redis.NewClient()` and `eth.NewEthClient()` without their arguments) and no image contains it | |
| ERC-20 bindings, `internal/blockchain/eth/erc20` | none | generated code | | |

The components meet in Redis only. The indexer writes `tx:` (a block's rows),
`b:` (an address's block numbers) and `c:` (its counter) from different
goroutines, in any order; a traversal reads `c:`, then `b:`, then `tx:`.
Price keys go from the price indexer to the indexer; `aq` and `lbl:` carry busy
addresses to the labelling worker and their labels back.

## The modules

### Indexer

`BlockRows` says what the indexer makes of one block: which transactions are
counted, for whom, and which have a row. A transfer to oneself weighs two, although
`internal/storage/redis/analytics.go:11` calls the counter the "number of
transactions per address"; the model keeps it as the code has it. Amounts, prices
and the text of rows are left out of it. `Indexer` is the process and the Redis keys it writes. The
correspondence:

| `Indexer` | code |
|---|---|
| `NewIndexer`, `InitErc20Token`, `NewEthClient` | `main`, `NewIndexer` and `NewEthClient`: the tracked contracts are asked one after the other, `newErc20Cache`, and one whose call fails is passed over, which those in `Unreadable` always do |
| `GetLastBlockNumber`, `SetLastBlock` | the GET and the SET of `meta:last_block`, with what they report |
| `GetNextBlockNumber`, `NoNextBlockNumber` | `getNextBlockNumber`; the error path covers the missing key too, as in the code |
| `FetchBlock`, `NoBlock` | `handleBlock` up to the rows, or its `return nil` |
| `AskToEnrich`, `SendAddress` | `askToEnrichAddress`, its reads and its `LPUSH` apart; the client library may repeat the latter |
| `StartWrites` | the `go` statements for `AddBlock`, `UpdateCounters`, `AppendBlockNumbers` |
| `UpdateLastBlockNumber`, `Wake` | the write of `meta:last_block`, the sleeps |
| `AddBlock`, `UpdateCounter`, `AppendBlockNumber` (`Execute`) in `Write` | one Redis command of a goroutine: executed; executed and, the reply being lost, repeated by the client library, as often as there are faults; or failed |
| `Shutdown` | SIGTERM or a crash: the goroutines and the token cache are gone; `NewIndexer` is the next process |
| `NewBlock`, `NewEthPrice`, `NewTokenPrices`, `LabelAddress` | the surroundings |

`tries` and the set `pending` record what was handed to the goroutines and is
still to be done, and `late` the blocks that were handled before the prices of their
tokens were there; `faults` counts failures, each repetition of a command among them.
That the contract of a token never tells its decimals or its symbol is no fault:
`Unreadable` has those tokens. `BlockLedger` is what readers may rely on: a height
that climbs one block at a time over blocks whose writing has begun, and an
index that only grows. It does not promise that a block below the height is
completely there, and the run `indexer_crash` shows why it cannot.

### Traversals

`TxGraph` is the content of Redis as a traversal sees it, the source and the range
of blocks. The rest of a request (depth, direction, limit) is a record, `asked`,
that never changes; the initial states range over `Requests`.
Nothing in it changes during a request: an indexer that writes at the same time is
not composed with a traversal. `Within` is the reference definition of distance:
where a way of at most so many steps leads. `Exploration` is the abstract
specification of both traversals: a graph grows from the source by rows that
lead on from an address already in it, in the direction asked for, and ends in an
answer or not.

| `Bfs` | code in `root.go` |
|---|---|
| `SetCounters`, `GetBlocks` | the functions of these names, each with its join |
| `SkipBlock`, `FailBlock`, `ReadBlock`, `LeaveBlock`, `KeepRow`, `PassRow`, `Consume` | the steps of a goroutine, `getTransactionsByBlockNumber`; the limiter is tested in one step and taken from in another |
| `Finish`, `NextLevel` | the join of a level; the last one, or the recursion |
| `ZeroDepth` | the nil list of depth 0 and its dereference in `CollectBFS` |

The goroutines that read counters and lists share nothing with each other and
are joined before anything looks at their results, so each group is one action.
`Below` folds all negative depths into one: none of them reaches 0 or 1.

| `Dfs` | code in `dfs.go` |
|---|---|
| `Skip` | a round that ends at one of the first two `continue`s |
| `Note` | the address is put in the graph and not traversed |
| `Visit` | a whole round; `Arrivals` are the orders in which the goroutines of `getTrxFrom` can report |
| `Return` | the condition of the loop fails |

A read that fails is a choice of the action that makes it; the history variable
`missed` remembers that one has, for the properties that promise something of an
undisturbed answer. `KeepRow` and `Selected` keep rows as hash and two addresses.

### Simple paths

`AllPaths` is `AllPathsBetween` with the operations of its stacks (`Front` is `pop`,
`Top` is `top`): `mainStack`, `viceStack`, the paths, the round counter modulo the
rounds between two looks at the clock, and where control is. `SimplePaths` is the
reference: the simple paths of a graph between two vertices, as a set.
Neighbours come from a Go map, so an element of `viceStack` is a set and `pop`
takes any member. `PathReport` is the abstract specification: each path is
reported at most once, all of them when the end is reached; giving up is
allowed.

### Requests

`Api` follows one request from its query to its answer; requests share nothing but
Redis. `Collapse`, which it extends, is `CollapseTxs`.

| `Api`, `Collapse` | code |
|---|---|
| `Ping`, `BadRequest`, `GraphRequest`, `PathRequest` | the routes of `api/api.go`, the parameters a handler accepts, and `config.NewConfig`, which is read per request and may fail |
| `Traverse` | `CollectBFS` or `CollectDFS`, as a step of `Exploration`, which `Bfs` and `Dfs` are proved to implement |
| `FetchNodes`, `ReadCounter`, `FetchAddress` | the nodes, one after the other; each reads the counter of its address, then, in another step, the labels, and drops the error of either |
| `StartCollapse`, `CollapseEdge` with `MergeFirst`, `MergeNext` | `CollapseTxs` and a turn of its loop; `heap` holds the `FlowByCurrency` maps, which a collapsed edge takes over by reference |
| `FindPaths`, `AllPathsBetween` | the enumeration, as `PathReport` has it, which `AllPaths` is proved to implement: all paths, or none when the clock has run out. They are those of `SimplePaths` for the undirected graph of the edges, the set that `AllPaths` is checked and proved against |
| `Respond`, `Panic` | the answer, or an end without one: depth 0 or less with `CollectBFS`, and the last eight characters of a shorter address |
| `UpdateCounters`, `LabelAddress` | the indexer and the labelling worker in the meantime |

A label is its name, its type and whether it is on the sanctions list. What a handler
does with parameters that cannot be parsed is one answer, "bad request". Some of
this differs from what the documents lead one to expect, and is modelled as the
code has it:

* `depth` and `flow` have defaults in `README.md:74-75`; the graph handler answers
  400 without them.
* The path handler looks its `toBlock` up under the name `toBlock invalid`, so that it
  never has an effect (`PathParams`).
* A timeout of the enumeration is logged, and answered as if there were no path
  (`timedOut`).
* A configuration that cannot be read ends the graph handler with status 200 and no
  content.
* `FetchAddress` takes the last eight characters of an address that has no label, and nobody
  recovers when there are fewer: a request for paths can name such an address.
* A token transfer is listed under the contract and not under its recipient,
  whom the row names: a traversal from the recipient does not meet it, and one that
  meets it elsewhere shows it.

### Prices

`Pricing` is the price indexer and a lookup, in two processes that share the keys
of prices. A day stands for the time in a key; what a price is does not matter, but
whether its day was over when CryptoCompare was asked ("final") or not ("partial").

| `Pricing` | code |
|---|---|
| `Wake`, `EndRound`, `Crash` | the loop of `main`, `cmd/price_indexer/price_indexer.go`, and the end of the process |
| `FetchPriceData` | `fetchPriceData`: the answer, an error, or an error message that is read as an answer without prices |
| `SetPriceData`, `NextCurrency` | the loops of `updatePriceData`, one SET at a time |
| `GetTokenPrice`, `GetPrice`, `PriceNotFound` | the function before, in and after its loop, one GET at a time |
| `RemapCurrency`, `NormalizedBlockTime`, `ToLower` | the functions of these names; keys are in lower case, the remapping is not |

`known` remembers which days had a price when the lookup began, `blurred` that one
of its reads failed, and `lapsed` the currencies that were without new prices for so
long that the next answer did not reach back to them. The answer of CryptoCompare is taken to have one price for each
day, oldest first, the current day last; nothing in the tree checks that.

`Currencies` has the two tables of `currency.go`. TLC evaluates what the look-up
relies on in them: every currency whose price is taken for another is fetched or the
dollar (`RemapFetched`) and is not remapped itself, as the table is looked at only
once (`RemapOnce`); no two currencies share a key in lower case (`KeysDiffer`).
`FRAX` is in both tables: it is fetched, and no look-up reads what was stored.

## What is checked

| Run | Question | States |
|---|---|---|
| `indexer_faults` | a block on one address and an empty one, two faults of any kind: `NoGap`, `DuplicationBounded`, refinement of `BlockLedger` (`LedgerSpec`), `CatchesUp` | 483 673 |
| `indexer_exact` | two tokens, one of which can never be read, a creation, a payment to oneself, one fault: `TypeOK`, `ExactSoFar`, `IndexSound`, `RowsKept`, `QueueJustified` | 1 503 753 |
| `bfs_search` | every request, any reads failing: `TypeOK`, `BallComplete`, `HubsAreLeaves`, `NoNilAnswer`, `LimitKept`, `ExplorationSpec`, `Terminates` | 444 591 |
| `dfs_search` | every request, any reads failing: `TypeOK`, `DepthSound`, `ShallowComplete`, `Led`, `SizeKept`, `ExplorationSpec`, `Terminates` | 2 110 |
| `all_paths` | `TypeOK`, `StackShape`, `Accounted`, `ReportSpec`, `Terminates` | 340 |
| `pricing_rounds` | two currencies, three days, answers that reach one day back, one fault of any kind, lookups between any two steps: `TypeOK`, `Settled`, `BestKnown`, `GivesUpRightly`, `AllPriced` | 337 911 |
| `api_requests` | every request over five rows, one failing call, a clock that may run out, counters and labels that move: `TypeOK`, `MapsKept`, `Conserved`, `AnswerWhole`, `PathsTell`, `NodesTrue`, `Answered` | 796 722 |

`Connected` of `Bfs` and `PathsSound` of `AllPaths` are not checked by a run: they
follow from `ExplorationSpec` and from `ReportSpec`, and are proved.

The properties in words are beside their definitions. Some that deserve a word:

* `ExactSoFar` relates the three kinds of keys to the goroutines in flight: until
  something fails, what is written and what is still to be written make up
  exactly what the blocks say, whatever the order.
* `RowsKept` says what a stored block may lack: the transfers of a token whose contract
  can never be read (`Lost`), those whose price was not there yet (`late`), and, once
  something has failed, those of a token that the client does not know. It would fail
  if the loop began before all contracts had been asked. Blocks are never `late` in
  `indexer_exact`, where all prices are there from the start; the theorem
  `IndexerRows` has them.
* `DuplicationBounded` counts what goes wrong: a list has a block once, and once more
  for each failure that had it written again or had one RPUSH repeated.
* `LimitKept` bounds the overrun of `GRAPH_LIMIT`: each goroutine can be past the
  test with one row, so the limiter ends above minus the number of goroutines,
  and the graph has no more rows than were taken.
* `BallComplete`, `DepthSound` and `ShallowComplete` compare a traversal with a
  reference definition of distance (`Ball`, `Near`) that stops at hubs. What they
  promise is for answers that nothing disturbed: no read failed (`missed`), the
  limit was not met, and the lists that are read lead to every block in the range
  (`ListsFit`): none is cut off by `ListCap`, and each address of a row has the
  block in its list, which is not so for the recipients of tokens.
* `Accounted` says where every simple path is at every moment: among the recorded
  ones, or promised by a prefix of `mainStack` and a neighbour in `viceStack`.
* `BestKnown` relates what a lookup finds to what was there when it began and to the
  round that overtakes it meanwhile: a price that is not final is handed out only
  when none of a later day was there. That rests on `Settled`, the order in which
  rounds overwrite and add.
* `PathsTell` joins the directed traversal and the undirected enumeration: some path
  in the answer can be paid along, if the payments lead to the target at all, and
  there is no path if they do not, although the enumeration may go against
  the payments.
* `MapsKept` and `Conserved` are about a map that two owners share: whatever the order,
  a collapsed edge adds to the map of its own first edge, and what an edge still to
  be merged brings is what it was made with.
* `NodesTrue` holds while the labelling worker and the indexer write, between the two
  reads of a node too: a sanctioned address is not shown as a clean one, unless a read
  has failed.
* `Settled` follows each currency on its own: as long as each of its answers
  reaches back to the youngest price there is, a price that is not final is its last.
  After a longer outage it may stay where it is, and the currency is `lapsed`.

### Where the code and its documents disagree

| Run | Violated | The disagreement |
|---|---|---|
| `indexer_fresh` | `FreshStart` | with an empty Redis the loop retries for ever; `START_BLOCK_NUMBER` is unreachable because the error of the missing key is returned first |
| `indexer_crash` | `CommittedIsIndexed` | one stop after the height has moved loses the block's data for good |
| `bfs_flow` | `FlowRespected` | `algo=bfs` ignores `flow` |
| `pricing_days` | `TenDays` | two days before the block are tried, not ten |
| `dfs_depth` | `DepthComplete` | an address met first by a detour is not expanded again by a shorter way, so the answer for depth 3 depends on the order of goroutines and can miss rows |

### Bounds, and why they are enough

* Indexer: two blocks, so that goroutines of one block meet those of the next
  and the loop. In `NarrowChain` they meet on one address, and of the second block
  only the blob is written, which leaves room for two faults: one, and another in
  its repair; no token is tracked. In `TokenChain` the lists and counters of an
  address are moved by both blocks at once; it has a contract creation, a transfer
  of a token that cannot be read and one of a token that can, and a payment of
  nothing to oneself, for the branches of `handleBlock`, and one fault. `EnrichAt`
  stands for 10 000 and is reached after the first block of `NarrowChain`, and after
  both of `TokenChain`; `Ready` blocks exist and are priced at the start
  and the others arrive: one of two in `NarrowChain`, both in `TokenChain`.
* Breadth first: `Town` has addresses one and two hops away, a hub behind a hub,
  a self-payment, blocks shared by several addresses, and a block out of range that
  would shorten a way, cut from the list of the source by `ListCap` besides. Three
  goroutines of two rows share the limiter at the first level, and a limit of 1 lets
  all of them overrun it; a limit of 13 is more than depth 3 can use up. Depths
  reach from -1 to one beyond the radius of the graph.
* Depth first: `CityBlocks` is larger, with addresses one to three hops away.
  `Diamond` has the triangle on which the order of arrival matters.
* `ListCap` stands for 1001, `MaxDegree` for 300, the limits of `Requests` for
  `GRAPH_LIMIT` and `GraphSizeLimit`.
* Paths: a square with a diagonal and a tail has cycles, dead ends, and a vertex
  behind the end. `CheckEvery` is 5, so that the clock can run out at many
  places.
* Requests: three addresses on a cycle of payments, so that there is a path with the
  payments and one against them; three rows between two of them in two currencies,
  so that a map is added to and the order matters. A `fromBlock` of 3 leaves a payment
  and one against it, and no way to the target; a `toBlock` of 2 cuts the rows of
  block 3 off. One call may fail; counters and labels of one address move.
  `dot` stands for a text too short to be an address.
* Prices: `Window` stands for 400, the days an answer reaches back, and is 1;
  `MAX_PRICE_DEPTH_DAYS` is what it is, 3. The clock stops on the third day, so a round
  can begin on one day and end on another, and an outage can outlast the window, with
  a price that is not final left behind, or not; `DayLength` is 2, so that blocks and
  rounds meet within a day. `wBTC`
  has the price of `BTC`, though in lower case it is `WBTC`, which is fetched too;
  `USDT` stands for the dollar. `FromTheTables` in `MCPricing` says that the
  instance is the tables of `Currencies` restricted to these names.

Deadlock is checked in the indexer's and the price runs. A traversal, the enumeration and
a request stop when they have answered, so their configurations turn it off.

### Fairness

* `Indexer!FairSpec`: the start of the process, the loop and the goroutines run while
  the process is up (the Go scheduler), the node and the prices keep arriving. Nothing is assumed about
  restarts, so `CatchesUp` starts with "if the process is up again after every
  crash".
* `Pricing!FairSpec`: the price indexer goes on and is started again when it dies
  (by an operator: no compose file has a restart policy); lookups need not come.
* `Bfs`, `Dfs`, `AllPaths`: weak fairness of the whole next-state relation,
  that is, some goroutine that can go on does.
* `Api!FairSpec`: weak fairness of the handler, in which a traversal and an enumeration
  are one step each. They end: that is `Terminates` of `Bfs`, `Dfs` and `AllPaths`,
  and, for every graph, `BfsAdvances`, `DfsAdvances` and `AllPathsAdvances`.
  Nothing is assumed of the indexer and the labelling worker.

## What is proved

`*Proofs` modules and `Exploration` hold theorems for every value of the
constants, from the assumptions that the modules name.

| Module | Theorems | Argument |
|---|---|---|
| `IndexerProofs` | `IndexerTypes`, `IndexerNoGap`, `IndexerSound`, `IndexerRows`, `IndexerPayments`, `IndexerDuplication`, `IndexerExact`, `IndexerIndexes`, `IndexerLinked`, `IndexerQueue`, `IndexerForgetsNothing`, `IndexerImplementsLedger` | inductive invariant `IInv`: `NoGap` needs `LoopInv`, that the loop's block is the one after the height and has begun when the height moves; `IndexSound` needs `WritesInv`, that the writes in flight belong to a try of a block that touches their address. `IndexerRows` needs that the cache has every token that can be read when the loop runs and nothing has failed. `IndexerDuplication` follows one number in one list: `CopyBound` adds its copies, the pushes on their way and the one that may yet be ordered, and only a fault lets the sum grow. `IndexerExact` needs, besides, that no block has two tries (`Once`), and does the sums of lists, counters and blobs one write at a time. `IndexerPayments` follows the rows from `handleBlock` through the writers (`RowsMade`). `IndexerForgetsNothing` reads the refinement as what a reader keeps from one look to the next |
| `AllPathsProofs` | `AllPathsTypes`, `AllPathsShape`, `AllPathsAccounted`, `AllPathsSound`, `AllPathsImplementsReport`, `AllPathsAdvances` | `StackShape`, `Accounted` and `PathsSound` together are inductive: pushing a neighbour moves the promise of a path from one level to the next, and removing a layer keeps the promises of those below; the stacks never outgrow the graph because a simple walk is an injection. `AllPathsAdvances` counts the walks that are still promised (`Kept`), which only the removal of a layer lowers, by the one that it gives up |
| `BfsProofs` | `BfsTypes`, `BfsLimit`, `BfsHubs`, `BfsNil`, `BfsBallComplete`, `BfsExplores`, `BfsConnected`, `BfsAdvances`, `BfsFatal` | `LimitKept` counts the goroutines between test and taking, and needs that none outlives its level; `HubsAreLeaves` needs that no hub is marked for traversal, or else that a read has failed (`HubsAvoided`); `Attached`, that the level's addresses are in the graph, gives the refinement. `BallComplete` needs `Sweep`: a level's addresses are those at its distance and some that are nearer (`Layered`), and a goroutine has kept what it should of the rows behind it (`Searched`), so that a level that is over has found all rows around its addresses (`LevelFound`) and leads to the next (`NextLayer`). `BfsAdvances` counts the stages of the levels and the steps left to the goroutines of the one at hand (`Turns`) |
| `DfsProofs` | `DfsTypes`, `DfsSize`, `DfsDepthSound`, `DfsShallowComplete`, `DfsExplores`, `DfsLed`, `DfsAdvances`, `DfsNoDepth`, `DfsNeverStuck` | `SizeKept` names the address whose rows are over the limit; that there are finitely many rows comes from finite blocks and lists. `DepthSound` needs `Reached`: the depth of an entry of the stack is the length of some way to it without hubs. `ShallowComplete` needs `Advancing`: the rows of a visited address are in the graph, and the neighbours of the source are visited or on the stack at depth 1. It stops there, because a deeper address may have been met by a detour (`dfs_depth`). `DfsAdvances`: a turn takes an entry from the stack, or uses up one of the visits that the limit leaves. `DfsNeverStuck`: the order of the blocks' numbers is one in which the goroutines can report |
| `TxGraphProofs` | lemmas for the two above | ways can be made longer by a step, and the last step of a way comes from an address that is nearer; distances are stated with ways and not by recursion, so that no induction over data is needed |
| `PricingProofs` | `PricingTypes`, `PricingSettled`, `PricingBestKnown`, `PricingGivesUp` | `Settled` needs `Recent`, that no price is later than the last answer, and `Storing`, that the days of the answer which are stored already, and all before them unless the currency has lapsed, are final: a SET either is of the last day there is, or all that is below it was final before; `BestKnown` needs `Looking`, that the days looked at had no price at the start and that none is ever taken away |
| `ApiProofs` | `ApiTypes`, `ApiMapsKept`, `ApiConserved`, `ApiAnswerWhole`, `ApiNodesTrue`, `ApiPathsTell`, `ApiAdvances` | inductive invariant `IInv`: what each stage of a handler finds and leaves (`Stages`), that each place of the answer has its node or waits for it (`PlacesKept`), that ids are below the number of collapsed edges (`Ids`), that labels stay (`LabelsKept`) and the counter read for a node is not above that of its address (`CountersTrue`), and `Led`, from the lemma that the refinement rests on. `PathsTell` takes the set of addresses to which a forward path leads, which no row leaves, and cuts the loops out of a way by the pigeonhole. `ApiConserved` rests on lemmas about sums over finite sets (`SumWith`, `SumWithout`); `ApiAdvances` on there being finitely many rows, places and paths |
| `Exploration` | `ExplorationLed` | a set that has the source and that no row leaves has the end to which new rows are attached; `BfsConnected` and `DfsLed` follow by refinement |

Sums. A sum over a set is a fold, which the library defines by recursion on a
choice of elements. That adding an element adds its summand is proved all the same:
the induction theorems of the library take a predicate, which the provers cannot
instantiate, but "a set of subsets has a smallest member" takes a set
(`Smallest`), and a smallest counterexample is what `SumsAgree`, `SumsExist` and
`SumWithout` refute.

Ends. The `...Advances` theorems are the half of `Terminates` and of `Answered` that
can be proved: each step lowers a pair of natural numbers, in which the first counts
more (`Before`). There is no infinite descent among such pairs, so that no
execution takes infinitely many steps; `DfsNeverStuck` adds, where it is not
obvious, that the step there ought to be exists. That a step which can be taken is taken is fairness,
and that part is model-checked.

From the index to the traversals. A traversal promises everything only if each
row can be found from its addresses (`ListsFit`). `IndexerLinked` is what the
indexer gives: when nothing has failed and the goroutines are at rest, the lists
lead to every row from its payer, and to every payment from its payee as well. The
recipients of tokens are what is missing. `BfsFatal` and `DfsNoDepth` are what `Api` takes
for granted of a depth that is not positive (`Fatal`, and the guard of `Traverse`).

Only model-checked: the liveness properties (`CatchesUp`, `Terminates`, `AllPriced`,
`Answered`), which need fairness and `ENABLED`. Every invariant, action property
and refinement of the passing runs is a theorem.

Assumptions worth knowing: `Row` and `Block` are finite; a hash names one row
(`HashAssumption`); `Seeds` are heights before the first block or a missing key;
no address of the chain has less than eight characters (`ShortAssumption`); no label
in Redis has the type that marks a high risk (`LabelsAssumption`). `UnreadableAssumption`
says no more than that unreadable contracts are among the tracked ones.

## What is not modelled

* The analysis collector: it does not compile against the tree (see above), no image
  contains it, and nothing that is built calls it. With it go `GetTokenByTicker`,
  `IsCurrency` and the amounts per transaction in Redis, which only it reads.
* The ERC-20 bindings: generated code. That a call of theirs fails is an outcome of
  `InitErc20Token`.
* Amounts and prices in the rows of the index, and JSON: data that no property tells
  apart. Amounts are in `Collapse`, where they are added.
* The pools of the Redis clients, and how many goroutines may be in flight: the code
  sets no limit that a property could hold it to.
* An indexer that writes while a traversal reads. Both sides are stated for any
  content of Redis (`IndexSound`, `TxGraph`), so what a reader may meet is a listed
  block that is not stored yet, which is `FailBlock`, or a transfer not listed
  yet, which is a content of Redis in which `ListsFit` fails. A composition of
  the two would show how a request can see half of a block; it would be the next
  module to write.

## Running it

```sh
tlc -workers 2 -config Indexer_faults.cfg MCIndexer
tlc -workers 2 -config Bfs_search.cfg MCBfs
tlc -workers 2 -config Dfs_search.cfg MCDfs
tlc -workers 2 -config AllPaths.cfg MCAllPaths
tlc -workers 2 -config Pricing_rounds.cfg MCPricing
tlc -workers 2 -config Api.cfg MCApi
tlapm IndexerProofs.tla
```
