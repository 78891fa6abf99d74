--------------------------------- MODULE Api ---------------------------------
(***************************************************************************)
(* The API server (api/api.go) and its handlers (api/handlers), from the   *)
(* query of a request to its answer.  Requests share nothing but Redis,    *)
(* which the indexer and the labelling worker change in the meantime, so   *)
(* the module follows one request.                                         *)
(*                                                                         *)
(* The traversal is that of Exploration, which Dfs and Bfs implement, and  *)
(* the enumeration of paths that of PathReport, which AllPaths implements, *)
(* in one step: all paths, or none when the clock has run out.             *)
(***************************************************************************)
EXTENDS Collapse, Sequences

CONSTANTS
  Nil,
  Source, Targets,       \* {address} or {addressFrom}; values of {addressTo}
  Short,                 \* texts of less than eight characters
  Depths,                \* values of the query parameters: depth,
  FromBlocks, ToBlocks,  \* fromBlock and toBlock
  LastBlock,             \* the default of toBlock: 99999999
  Count, Labelled,       \* the counters and labels in Redis when the request comes
  Text,                  \* the names and types of labels, and those that a node shows
  Labels,                \* the labels that the worker finds
  Busy,                  \* the addresses that have news in the meantime (a bound)
  MaxNews,               \* by how much their counters grow (a bound)
  MaxFaults              \* how many calls may fail (a bound)

\* storage.Labels: of the secondary ones only the sanctions list matters.
LabelRecord == [prime : Text, type : Text, ofac : BOOLEAN]

ASSUME EndsAssumption == Source \in Addr /\ Targets \subseteq Addr
\* No address of the chain is short, so that nothing is stored of one.
ASSUME ShortAssumption ==
  \A a \in Short : /\ a \notin Busy /\ Labelled[a] = Nil
                   /\ \A r \in Row : r.from # a /\ r.to # a
ASSUME DepthsAssumption == Depths \subseteq Int
ASSUME BlocksAssumption ==
  FromBlocks \subseteq Int /\ ToBlocks \subseteq Int /\ LastBlock \in Int
ASSUME CountAssumption == Count \in [Addr -> Nat] /\ Busy \subseteq Addr
ASSUME TextAssumption == {"", "high_risk"} \subseteq Text
ASSUME LabelsAssumption ==
  /\ Labels \subseteq {l \in LabelRecord : l.type # "high_risk"} /\ Nil \notin LabelRecord
  /\ Labelled \in [Addr -> Labels \cup {Nil}]
ASSUME BoundsAssumption == MaxNews \in Nat /\ MaxFaults \in Nat

VARIABLES
  pc,         \* where the handler is
  reply,      \* what it has answered
  params,     \* the parameters of the request
  paths,      \* the paths found
  timedOut,   \* the enumeration of the paths gave up (history)
  left,       \* the places of the answer for which a node is to be made
  counter,    \* the counter of the one that is being made, if any, by place
  nodes,      \* the nodes made, by place
  cnt,        \* c:<addr>    in Redis
  labels,     \* lbl:<addr>  in Redis, or Nil
  faults      \* calls that have failed

edges == <<graph, todo, heap, collapsed>>
search == <<paths, timedOut>>
redis == <<cnt, labels>>
vars == <<edges, search, left, counter, nodes, redis, pc, reply, params, faults>>

Fault == faults < MaxFaults /\ faults' = faults + 1
NoFault == UNCHANGED faults

-----------------------------------------------------------------------------
(* The request.                                                            *)

\* The end of a handler.
Reply(r) == pc' = "sent" /\ reply' = r

\* The configuration is read and the clients of Redis are made.
NewConfig == pc' = "running" /\ UNCHANGED reply /\ NoFault

Ping ==
  /\ pc = "idle"
  /\ Reply("pong")
  /\ UNCHANGED <<edges, search, left, counter, nodes, redis, params, faults>>

\* Variant: the direction is not looked at.
Flows_Unchecked == {"input", "output", "all", "sideways"}

Flows == {"input", "output", "all"}

\* The parameters of a graph that are accepted.  CollectBFS is not told the flow.
GraphParams ==
  {p \in [route : {"graph"}, target : {Nil}, algo : {"bfs", "dfs"}, flow : Flows,
          depth : Depths, fromBlock : FromBlocks \cup {0}, toBlock : ToBlocks \cup {LastBlock},
          collapse : BOOLEAN] :
     p.algo = "bfs" => p.flow = "all"}

\* Variant: the traversal that is commented out, from the payees to the payers.
PathParams_Input ==
  [route : {"paths"}, target : Targets, algo : {"dfs"}, flow : {"input"}, depth : {100},
   fromBlock : FromBlocks \cup {0}, toBlock : {LastBlock}, collapse : {TRUE}]

\* Those of a request for paths: PATH_GRAPH_DFS_MAX_DEPTH is 100, and the value of
\* toBlock is looked up under another name, so that it is never found.
PathParams ==
  [route : {"paths"}, target : Targets, algo : {"dfs"}, flow : {"output"}, depth : {100},
   fromBlock : FromBlocks \cup {0}, toBlock : {LastBlock}, collapse : {TRUE}]

\* A parameter cannot be parsed; depth and flow, for a graph, must be there.
BadRequest ==
  /\ pc = "idle"
  /\ Reply("bad request")
  /\ UNCHANGED <<edges, search, left, counter, nodes, redis, params, faults>>

\* CollectGraphHandler up to the traversal.  A configuration that cannot be read
\* leaves the answer empty, with status 200.
GraphRequest ==
  /\ pc = "idle"
  /\ params' \in GraphParams
  /\ NewConfig \/ (Reply("empty") /\ Fault)
  /\ UNCHANGED <<edges, search, left, counter, nodes, redis>>

\* CollectPathHandler up to the traversal.
PathRequest ==
  /\ pc = "idle"
  /\ params' \in PathParams
  /\ NewConfig \/ (Reply("error") /\ Fault)
  /\ UNCHANGED <<edges, search, left, counter, nodes, redis>>

\* The places in some sequences of addresses, and the address at a place.
Places(P) == UNION {{<<p, i>> : i \in DOMAIN p} : p \in P}
Address(o) == o[1][o[2]]

-----------------------------------------------------------------------------
(* The traversal.                                                          *)

Traversal == INSTANCE Exploration WITH flow <- params.flow, status <- pc

InRange(r) == params.fromBlock <= r.block /\ r.block <= params.toBlock

\* CollectBFS gives no answer for a depth of 0 or less: BfsFatal of BfsProofs.
Fatal == params.algo = "bfs" /\ params.depth <= 0

\* CollectDFS or CollectBFS.  Neither ever returns an error.
Traverse ==
  /\ UNCHANGED <<todo, heap, collapsed, search, left, counter, nodes, redis, reply, params, faults>>
  /\ \/ /\ Traversal!Grow
        /\ params.depth > 0 \/ (Fatal /\ params.depth < 0)
        /\ \A r \in graph' : InRange(r)
     \/ Traversal!Answer /\ ~Fatal

\* Nobody recovers: the process is gone.  A node without a label shows the last
\* eight characters of its address.
Panic ==
  /\ \/ pc = "running" /\ Fatal
     \/ pc = "nodes" /\ \E o \in DOMAIN counter : Address(o) \in Short
  /\ pc' = "crashed"
  /\ UNCHANGED <<edges, search, left, counter, nodes, redis, reply, params, faults>>

-----------------------------------------------------------------------------
(* The nodes.                                                              *)

AllEnds == {r.from : r \in graph} \cup {r.to : r \in graph}

\* Variant: only the payers get a node.
FetchNodes_Payers ==
  /\ pc = "answered"
  /\ params.route = "graph"
  /\ left' = Places({<<r.from>> : r \in graph})
  /\ pc' = "nodes"
  /\ UNCHANGED <<edges, search, counter, nodes, redis, reply, params, faults>>

\* CollectGraphHandler: nodesMap.
FetchNodes ==
  /\ pc = "answered"
  /\ params.route = "graph"
  /\ left' = Places({<<a>> : a \in AllEnds})
  /\ pc' = "nodes"
  /\ UNCHANGED <<edges, search, counter, nodes, redis, reply, params, faults>>

\* The addresses of the request.
Picked == {Source, params.target}

\* Variant: the type of an address takes precedence.
Type_Own(l) == IF l = Nil THEN "" ELSE IF l.type = "" /\ l.ofac THEN "high_risk" ELSE l.type

\* The type of a node, from the labels of its address.
Type(l) == IF l = Nil THEN "" ELSE IF l.ofac THEN "high_risk" ELSE l.type

\* What two reads may yield: the error of the first is dropped where it occurs, and
\* that of the second by the caller.
GetAddressTxNumber(a) == {0, cnt[a]}
GetAddressLabels(a) == {Nil, labels[a]}

\* FetchAddress, for a place of the answer, one after the other.  First it reads the
\* counter of the address.
ReadCounter(o) ==
  /\ pc = "nodes"
  /\ o \in left
  /\ DOMAIN counter = {}
  /\ \E n \in GetAddressTxNumber(Address(o)) :
       /\ counter' = [x \in {o} |-> n]
       /\ IF n = cnt[Address(o)] THEN NoFault ELSE Fault
  /\ UNCHANGED <<edges, search, left, nodes, redis, pc, reply, params>>

\* Then it reads the labels, and makes the node.
FetchAddress(o) ==
  /\ pc = "nodes"
  /\ o \in DOMAIN counter
  /\ Address(o) \notin Short
  /\ \E l \in GetAddressLabels(Address(o)) :
       /\ IF l = labels[Address(o)] THEN NoFault ELSE Fault
       /\ nodes' = [x \in DOMAIN nodes \cup {o} |->
            IF x # o THEN nodes[x]
            ELSE [id |-> Address(o), label |-> IF l = Nil THEN "" ELSE l.prime, cnt |-> counter[o],
                  picked |-> Address(o) \in Picked, type |-> Type(l)]]
  /\ left' = left \ {o}
  /\ counter' = NoMap
  /\ UNCHANGED <<edges, search, redis, pc, reply, params>>

-----------------------------------------------------------------------------
(* The edges and the paths.                                                *)

\* After the traversal for paths, and after the nodes for a graph.
StartCollapse ==
  /\ \/ pc = "answered" /\ params.route = "paths"
     \/ pc = "nodes" /\ left = {} /\ params.route = "graph" /\ params.collapse
  /\ CollapseTxs
  /\ pc' = "collapse"
  /\ UNCHANGED <<graph, search, left, counter, nodes, redis, reply, params, faults>>

CollapseEdge ==
  /\ pc = "collapse"
  /\ \E r \in todo : Merge(r)
  /\ UNCHANGED <<graph, search, left, counter, nodes, redis, pc, reply, params, faults>>

\* newDominikGraph: an undirected graph.
Joined(a, b) == <<a, b>> \in CollapsedTxs \/ <<b, a>> \in CollapsedTxs

Undirected == INSTANCE SimplePaths WITH
                Node <- Traversal!Known \cup {params.target},
                Adj <- [a \in Traversal!Known \cup {params.target} |->
                          {b \in Traversal!Known : Joined(a, b)}],
                Start <- Source,
                End <- params.target

\* The simple paths between the two addresses in that graph, as AllPaths finds them.
AllPathsBetween == Undirected!Paths

\* fetchPathAddresses: the places that get a node.
Shown(P) == Places(IF P = {} THEN {<<Source, params.target>>} ELSE P)

\* Variant: without a path there is no answer.
FindPaths_OrNot ==
  /\ pc = "collapse"
  /\ todo = {}
  /\ params.route = "paths"
  /\ timedOut' \in BOOLEAN
  /\ paths' = IF timedOut' THEN {} ELSE AllPathsBetween
  /\ paths' # {}
  /\ left' = Shown(paths')
  /\ pc' = "nodes"
  /\ UNCHANGED <<edges, counter, nodes, redis, reply, params, faults>>

\* That the clock ran out is logged, and passed off as an answer without paths.
FindPaths ==
  /\ pc = "collapse"
  /\ todo = {}
  /\ params.route = "paths"
  /\ timedOut' \in BOOLEAN
  /\ paths' = IF timedOut' THEN {} ELSE AllPathsBetween
  /\ left' = Shown(paths')
  /\ pc' = "nodes"
  /\ UNCHANGED <<edges, counter, nodes, redis, reply, params, faults>>

\* The end of either handler: nodes and edges are written in the answer.
Respond ==
  /\ \/ pc = "nodes" /\ left = {} /\ (params.route = "paths" \/ ~params.collapse)
     \/ pc = "collapse" /\ todo = {} /\ params.route = "graph"
  /\ Reply("answer")
  /\ UNCHANGED <<edges, search, left, counter, nodes, redis, params, faults>>

-----------------------------------------------------------------------------
(* Redis changes.                                                          *)

UpdateCounters ==
  /\ \E a \in Busy : cnt[a] < Count[a] + MaxNews /\ cnt' = [cnt EXCEPT ![a] = @ + 1]
  /\ UNCHANGED <<edges, search, left, counter, nodes, labels, pc, reply, params, faults>>

LabelAddress ==
  /\ \E a \in Busy, l \in Labels : labels[a] = Nil /\ labels' = [labels EXCEPT ![a] = l]
  /\ UNCHANGED <<edges, search, left, counter, nodes, cnt, pc, reply, params, faults>>

-----------------------------------------------------------------------------
Init ==
  /\ graph = {} /\ todo = {} /\ heap = NoMap /\ collapsed = NoMap
  /\ paths = {} /\ timedOut = FALSE
  /\ left = {} /\ counter = NoMap /\ nodes = NoMap
  /\ cnt = Count /\ labels = Labelled
  /\ pc = "idle" /\ reply = "none" /\ params = Nil
  /\ faults = 0

Handle ==
  \/ Traverse \/ Panic
  \/ FetchNodes \/ \E o \in left : ReadCounter(o) \/ FetchAddress(o)
  \/ StartCollapse \/ CollapseEdge \/ FindPaths
  \/ Respond

Next ==
  \/ Ping \/ BadRequest \/ GraphRequest \/ PathRequest
  \/ Handle
  \/ UpdateCounters \/ LabelAddress

Spec == Init /\ [][Next]_vars

\* A handler runs until it has answered.
FairSpec == Spec /\ WF_vars(Handle)

-----------------------------------------------------------------------------
(* Properties.                                                             *)

Params ==
  [route : {"graph", "paths"}, target : Targets \cup {Nil}, algo : {"bfs", "dfs"}, depth : Int,
   flow : {"input", "output", "all"}, fromBlock : Int, toBlock : Int, collapse : BOOLEAN]

Node == [id : Addr, label : Text, cnt : Nat, picked : BOOLEAN, type : Text]

TypeOK ==
  /\ CollapseTypeOK
  /\ pc \in {"idle", "running", "answered", "nodes", "collapse", "sent", "crashed"}
  /\ reply \in {"none", "pong", "bad request", "empty", "error", "answer"}
  /\ pc \notin {"idle", "sent"} \/ reply = "answer" => params \in Params
  /\ \A p \in paths : p \in Seq(Addr)
  /\ timedOut \in BOOLEAN
  /\ \A o \in left \cup DOMAIN nodes : Address(o) \in Addr
  /\ counter \in [DOMAIN counter -> Nat] /\ DOMAIN counter \subseteq left
  /\ nodes \in [DOMAIN nodes -> Node]
  /\ cnt \in [Addr -> Nat]
  /\ labels \in [Addr -> Labels \cup {Nil}]
  /\ faults \in 0..MaxFaults

\* The addresses asked for, their nodes and the edges of an answer fit together.
\* A graph has a node for each end of each of its edges, and no other; an answer
\* about paths has those on the paths, or the two addresses alone; and, when the
\* edges are collapsed, every pair between which there is a row has its edge.
AnswerWhole ==
  reply = "answer" =>
    LET ids == {nodes[o].id : o \in DOMAIN nodes} IN
    /\ left = {} /\ todo = {}
    /\ params.route = "graph" => ids = AllEnds
    /\ params.route = "paths" =>
         ids = IF paths = {} THEN {Source, params.target} ELSE UNION {Range(p) : p \in paths}
    /\ params.collapse => CollapsedTxs = {Pair(r) : r \in graph}

\* A path along which each address has paid the next.
Forward(p) == \A i \in 1..(Len(p) - 1) : <<p[i], p[i + 1]>> \in CollapsedTxs

\* "If there is no path between two addresses, we just return these two
\* addresses" (fetchPathAddresses), from a graph that goes one way and an
\* enumeration that goes both: unless the clock has run out, there are paths in
\* the answer if the payments lead to the target at all, one of them forward
\* all the way; and there are none if they do not.
PathsTell ==
  reply = "answer" /\ params.route = "paths" /\ ~timedOut =>
    IF params.target \in Traversal!Known THEN \E p \in paths : Forward(p) ELSE paths = {}

\* What a node says of its address is what Redis has said since the request came:
\* no more transactions than there are, and a high risk if, and unless a call has
\* failed only if, the address is on the sanctions list.
NodesTrue ==
  \A o \in DOMAIN nodes :
    LET n == nodes[o]
        Listed(l) == l # Nil /\ l.ofac
    IN
    /\ n.id = Address(o) /\ n.cnt <= cnt[n.id]
    /\ n.type = "high_risk" => Listed(labels[n.id])
    /\ faults = 0 /\ Listed(Labelled[n.id]) => n.type = "high_risk"

\* Every request that is taken on is answered, with the paths or without, with or
\* without an edge, whatever fails in between: nothing but the two panics stops a
\* handler.
Answered ==
  pc = "running" /\ ~Fatal /\ Source \notin Short /\ params.target \notin Short ~> pc = "sent"

=============================================================================
