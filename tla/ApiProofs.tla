------------------------------ MODULE ApiProofs ------------------------------
(***************************************************************************)
(* What holds of every answer of the API, for all rows, labels, counters   *)
(* and parameters, and any number of failed calls; and that there is one.  *)
(***************************************************************************)
EXTENDS Api, FiniteSetTheorems, WellFoundedInduction, TLAPS

\* Both are spelt out everywhere below.
USE DEF Edge, CollapsedTxs

-----------------------------------------------------------------------------
(* Sums over finite sets.  The provers cannot apply the induction theorems of *)
(* the library, whose parameter is a predicate, but they can take a smallest  *)
(* counterexample, which needs a set only.                                    *)

\* Of some subsets of a finite set, one has none of the others in it.
LEMMA Smallest ==
  ASSUME NEW S, IsFiniteSet(S), NEW T \in SUBSET (SUBSET S), T # {}
  PROVE  \E m \in T : \A u \in T : u \subseteq m => u = m
<1>1. IsWellFoundedOn(StrictSubsetOrdering(S), SUBSET S)
  BY FS_StrictSubsetOrderingWellFounded, FS_FiniteSubsetsOfFinite
<1>2. PICK m \in T : \A u \in T : <<u, m>> \notin StrictSubsetOrdering(S)
  BY <1>1, WFMin
<1> QED
  BY <1>2 DEF StrictSubsetOrdering

\* The element that a sum takes first.
First(s) == CHOOSE x \in s : TRUE

LEMMA FirstIn == ASSUME NEW s, s # {} PROVE First(s) \in s
BY DEF First

\* The function that SumFunctionOnSet chooses.
Sums(g, S, f) ==
  f = [s \in SUBSET S |-> IF s = {} THEN 0 ELSE g[First(s)] + f[s \ {First(s)}]]

LEMMA SumIsChosen ==
  ASSUME NEW g, NEW S
  PROVE  SumFunctionOnSet(g, S) = (CHOOSE f : Sums(g, S, f))[S]
BY DEF SumFunctionOnSet, FoldFunctionOnSet, MapThenFoldSet, Sums, First

LEMMA SumsAt ==
  ASSUME NEW g, NEW S, NEW f, Sums(g, S, f)
  PROVE  /\ f[{}] = 0
         /\ \A s \in SUBSET S : s # {} => f[s] = g[First(s)] + f[s \ {First(s)}]
BY DEF Sums

\* Two such functions agree where both are defined.
LEMMA SumsAgree ==
  ASSUME NEW g, NEW S, NEW T, IsFiniteSet(S), NEW f, NEW h, Sums(g, S, f), Sums(g, T, h)
  PROVE  \A s \in SUBSET S : s \in SUBSET T => f[s] = h[s]
<1> DEFINE B == {s \in SUBSET S : s \in SUBSET T /\ f[s] # h[s]}
<1> SUFFICES ASSUME B # {} PROVE FALSE
  OBVIOUS
<1>1. B \in SUBSET (SUBSET S)
  OBVIOUS
<1> HIDE DEF B
<1>2. PICK m \in B : \A u \in B : u \subseteq m => u = m
  BY <1>1, Smallest
<1> USE DEF B
<1>3. m # {}
  BY <1>2, SumsAt
<1>4. First(m) \in m
  BY <1>3, FirstIn
<1>5. m \ {First(m)} \notin B
  <2>1. m \ {First(m)} # m /\ m \ {First(m)} \subseteq m
    BY <1>4
  <2> HIDE DEF B
  <2> QED
    BY <1>2, <2>1
<1>6. f[m \ {First(m)}] = h[m \ {First(m)}]
  BY <1>2, <1>5
<1>7. m \in SUBSET S /\ m \in SUBSET T
  BY <1>2
<1>8. f[m] = g[First(m)] + f[m \ {First(m)}]
  <2>1. \A s \in SUBSET S : s # {} => f[s] = g[First(s)] + f[s \ {First(s)}]
    BY SumsAt
  <2> QED
    BY <1>3, <1>7, <2>1
<1>9. h[m] = g[First(m)] + h[m \ {First(m)}]
  <2>1. \A s \in SUBSET T : s # {} => h[s] = g[First(s)] + h[s \ {First(s)}]
    BY SumsAt
  <2> QED
    BY <1>3, <1>7, <2>1
<1> QED
  BY <1>2, <1>6, <1>8, <1>9

\* There is one for each finite set.
LEMMA SumsExist ==
  ASSUME NEW g, NEW S, IsFiniteSet(S)
  PROVE  \E f : Sums(g, S, f)
<1> DEFINE B == {s \in SUBSET S : ~\E f : Sums(g, s, f)}
<1> SUFFICES ASSUME B # {} PROVE FALSE
  OBVIOUS
<1>0. B \in SUBSET (SUBSET S)
  OBVIOUS
<1> HIDE DEF B
<1>1. PICK m \in B : \A u \in B : u \subseteq m => u = m
  BY <1>0, Smallest
<1> USE DEF B
<1> DEFINE For(s) == CHOOSE f : Sums(g, s, f)
           e == [s \in SUBSET m |->
                  IF s = m THEN IF m = {} THEN 0 ELSE g[First(m)] + For(m \ {First(m)})[m \ {First(m)}]
                  ELSE For(s)[s]]
<1>2. ASSUME NEW s \in SUBSET m, s # m
      PROVE  Sums(g, s, For(s)) /\ IsFiniteSet(s)
  <2>1. s \in SUBSET S /\ s \notin B
    BY <1>1, <1>2
  <2>2. \E f : Sums(g, s, f)
    BY <2>1
  <2>3. IsFiniteSet(s)
    BY <2>1, FS_Subset
  <2> QED
    BY <2>2, <2>3
<1> HIDE DEF For
<1>3. ASSUME NEW s \in SUBSET m, s # {}
      PROVE  e[s] = g[First(s)] + e[s \ {First(s)}]
  <2> DEFINE p == s \ {First(s)}
  <2>1. First(s) \in s /\ p \in SUBSET m /\ p # m /\ p # s
    BY <1>3, FirstIn
  <2>2. e[p] = For(p)[p]
    BY <2>1
  <2>3. CASE s = m
    BY <1>3, <2>2, <2>3
  <2>4. CASE s # m
    <3>1. Sums(g, s, For(s)) /\ Sums(g, p, For(p)) /\ IsFiniteSet(s)
      BY <1>2, <2>1, <2>4
    <3>2. For(s)[s] = g[First(s)] + For(s)[p]
      BY <1>3, <3>1, SumsAt
    <3>3. p \in SUBSET s /\ p \in SUBSET p
      OBVIOUS
    <3> HIDE DEF p
    <3>4. For(s)[p] = For(p)[p]
      BY <3>1, <3>3, SumsAgree
    <3> USE DEF p
    <3>5. e[s] = For(s)[s]
      BY <2>4
    <3> QED
      BY <2>2, <3>2, <3>4, <3>5
  <2> QED
    BY <2>3, <2>4
<1>4. e[{}] = 0
  <2>1. CASE m = {}
    BY <2>1
  <2>2. CASE m # {}
    <3>1. Sums(g, {}, For({}))
      BY <1>2, <2>2
    <3>2. For({})[{}] = 0
      BY <3>1, SumsAt
    <3> QED
      BY <2>2, <3>2
  <2> QED
    BY <2>1, <2>2
<1>5. e = [s \in SUBSET m |-> e[s]]
  OBVIOUS
<1> HIDE DEF e
<1>6. \A s \in SUBSET m : e[s] = IF s = {} THEN 0 ELSE g[First(s)] + e[s \ {First(s)}]
  BY <1>3, <1>4
<1>7. Sums(g, m, e)
  BY <1>5, <1>6 DEF Sums
<1> QED
  BY <1>1, <1>7

LEMMA SumStep ==
  ASSUME NEW g, NEW S, IsFiniteSet(S)
  PROVE  /\ SumFunctionOnSet(g, {}) = 0
         /\ S # {} => SumFunctionOnSet(g, S)
                        = g[First(S)] + SumFunctionOnSet(g, S \ {First(S)})
<1> DEFINE For(s) == CHOOSE f : Sums(g, s, f)
<1>1. ASSUME NEW s, IsFiniteSet(s)
      PROVE  Sums(g, s, For(s))
  BY <1>1, SumsExist
<1>2. \A s : SumFunctionOnSet(g, s) = For(s)[s]
  BY SumIsChosen
<1> HIDE DEF For
<1>3. For({})[{}] = 0
  BY <1>1, FS_EmptySet, SumsAt
<1>4. ASSUME S # {}
      PROVE  For(S)[S] = g[First(S)] + For(S \ {First(S)})[S \ {First(S)}]
  <2> DEFINE p == S \ {First(S)}
  <2>1. IsFiniteSet(p) /\ p \in SUBSET S /\ p \in SUBSET p
    BY FS_Subset
  <2>2. Sums(g, S, For(S)) /\ Sums(g, p, For(p))
    BY <1>1, <2>1
  <2> HIDE DEF p
  <2>3. For(S)[p] = For(p)[p]
    BY <2>1, <2>2, SumsAgree
  <2> USE DEF p
  <2>4. For(S)[S] = g[First(S)] + For(S)[p]
    BY <1>4, <2>2, SumsAt
  <2> QED
    BY <2>3, <2>4
<1> QED
  BY <1>2, <1>3, <1>4

LEMMA SumType ==
  ASSUME NEW g, NEW S, IsFiniteSet(S), \A x \in S : g[x] \in Nat
  PROVE  SumFunctionOnSet(g, S) \in Nat
<1> DEFINE B == {s \in SUBSET S : SumFunctionOnSet(g, s) \notin Nat}
<1> SUFFICES ASSUME B # {} PROVE FALSE
  OBVIOUS
<1>0. B \in SUBSET (SUBSET S)
  OBVIOUS
<1> HIDE DEF B
<1>1. PICK m \in B : \A u \in B : u \subseteq m => u = m
  BY <1>0, Smallest
<1> USE DEF B
<1>2. IsFiniteSet(m)
  BY <1>1, FS_Subset
<1>3. m # {}
  <2>1. SumFunctionOnSet(g, {}) = 0
    BY SumStep
  <2>2. SumFunctionOnSet(g, m) \notin Nat
    BY <1>1
  <2> QED
    BY <2>1, <2>2
<1>4. First(m) \in m /\ First(m) \in S
  BY <1>1, <1>3, FirstIn
<1>5. m \ {First(m)} \notin B
  BY <1>1, <1>4
<1>6. SumFunctionOnSet(g, m \ {First(m)}) \in Nat /\ g[First(m)] \in Nat
  BY <1>1, <1>4, <1>5
<1>7. SumFunctionOnSet(g, m) \in Nat
  BY <1>2, <1>3, <1>6, SumStep
<1> QED
  BY <1>1, <1>7

\* Whatever element is taken out, its value is taken out of the sum.
LEMMA SumWithout ==
  ASSUME NEW g, NEW S, IsFiniteSet(S), \A x \in S : g[x] \in Nat, NEW x \in S
  PROVE  SumFunctionOnSet(g, S) = g[x] + SumFunctionOnSet(g, S \ {x})
<1> DEFINE Sum(s) == SumFunctionOnSet(g, s)
           B == {s \in SUBSET S : \E y \in s : Sum(s) # g[y] + Sum(s \ {y})}
<1> HIDE DEF Sum
<1>a. \A s \in SUBSET S : IsFiniteSet(s) /\ Sum(s) \in Nat
  BY SumType, FS_Subset DEF Sum
<1>b. \A s \in SUBSET S : s # {} => Sum(s) = g[First(s)] + Sum(s \ {First(s)})
  BY <1>a, SumStep DEF Sum
<1>c. B = {}
  <2> SUFFICES ASSUME B # {} PROVE FALSE
    OBVIOUS
  <2>0. B \in SUBSET (SUBSET S)
    OBVIOUS
  <2> HIDE DEF B
  <2>1. PICK m \in B : \A u \in B : u \subseteq m => u = m
    BY <2>0, Smallest
  <2> USE DEF B
  <2>2. PICK y \in m : Sum(m) # g[y] + Sum(m \ {y})
    BY <2>1
  <2> DEFINE z == First(m)
  <2>3. m \in SUBSET S /\ m # {} /\ z \in m /\ y \in m
    BY <2>1, <2>2, FirstIn
  <2>4. Sum(m) = g[z] + Sum(m \ {z})
    BY <1>b, <2>3
  <2>5. y # z
    BY <2>2, <2>4
  <2> HIDE DEF z
  <2>6. m \ {z} \notin B /\ m \ {y} \notin B
    BY <2>1, <2>3
  <2>7. Sum(m \ {z}) = g[y] + Sum((m \ {z}) \ {y})
    BY <2>3, <2>5, <2>6
  <2>8. Sum(m \ {y}) = g[z] + Sum((m \ {y}) \ {z})
    BY <2>3, <2>5, <2>6
  <2>9. (m \ {y}) \ {z} = (m \ {z}) \ {y}
    OBVIOUS
  <2>10. Sum((m \ {z}) \ {y}) \in Nat /\ g[y] \in Nat /\ g[z] \in Nat
    BY <1>a, <2>3
  <2> QED
    BY <2>2, <2>4, <2>7, <2>8, <2>9, <2>10
<1> QED
  BY <1>c DEF Sum

\* An element that is new adds its value.
LEMMA SumWith ==
  ASSUME NEW g, NEW S, IsFiniteSet(S), NEW x, x \notin S, \A y \in S \cup {x} : g[y] \in Nat
  PROVE  SumFunctionOnSet(g, S \cup {x}) = SumFunctionOnSet(g, S) + g[x]
<1>1. IsFiniteSet(S \cup {x}) /\ (S \cup {x}) \ {x} = S
  BY FS_AddElement
<1>2. SumFunctionOnSet(g, S \cup {x}) = g[x] + SumFunctionOnSet(g, S)
  BY <1>1, SumWithout
<1>3. SumFunctionOnSet(g, S) \in Nat /\ g[x] \in Nat
  BY SumType
<1> QED
  BY <1>2, <1>3

-----------------------------------------------------------------------------
(* Where a handler is and what it has done by then.                        *)

\* There is a request, or the answer to one.
Asked == pc \notin {"idle", "sent"} \/ reply = "answer"

\* What each stage of a handler finds and leaves.
Stages ==
  /\ pc = "idle" => graph = {}
  /\ pc \in {"idle", "running", "answered"} => left = {} /\ nodes = NoMap
  /\ DOMAIN heap = {} => todo = {} /\ collapsed = NoMap
  /\ DOMAIN heap # {} => DOMAIN heap = graph /\ pc \notin {"idle", "running", "answered"}
  /\ reply = "answer" => pc = "sent"
  /\ pc = "nodes" \/ reply = "answer" => todo = {}
  /\ (pc = "collapse" /\ params.route = "graph") \/ reply = "answer" => left = {}
  /\ pc = "collapse" /\ params.route = "paths" => left = {} /\ nodes = NoMap
  /\ Asked /\ params.route = "paths" =>
       params.collapse = TRUE /\ params.flow = "output" /\ params.target \in Targets
  /\ \/ pc = "collapse"
     \/ pc = "nodes" /\ params.route = "paths"
     \/ reply = "answer" /\ params.collapse
     => DOMAIN heap = graph

\* The places that the answer is to have nodes for.
Expected ==
  IF params.route = "graph" THEN Places({<<a>> : a \in AllEnds}) ELSE Shown(paths)

\* Each of them has its node, or waits for it.
PlacesKept ==
  \/ pc = "nodes"
  \/ pc = "collapse" /\ params.route = "graph"
  \/ reply = "answer"
  => left \cup DOMAIN nodes = Expected

\* The paths are those of the collapsed graph, or the clock has run out.
PathsKept ==
  pc = "nodes" \/ reply = "answer" =>
    (params.route = "paths" /\ ~timedOut => paths = AllPathsBetween)

\* The counter of the collapsed edges is above every id.
Ids ==
  /\ IsFiniteSet(DOMAIN collapsed)
  /\ \A k \in DOMAIN collapsed : collapsed[k].id < Cardinality(DOMAIN collapsed)

\* At most one node is being made, and its counter was no more than it is.
CountersTrue ==
  /\ \A x, y \in DOMAIN counter : x = y
  /\ \A x \in DOMAIN counter : counter[x] <= cnt[Address(x)]

\* A label that was there when the request came is still there.
LabelsKept == \A a \in Addr : Labelled[a] # Nil => labels[a] = Labelled[a]

IInv ==
  /\ TypeOK /\ Stages /\ PlacesKept /\ PathsKept
  /\ Ids /\ MapsKept /\ CountersTrue /\ LabelsKept /\ NodesTrue
  /\ Traversal!Led

-----------------------------------------------------------------------------
(* The parts of a request and of an answer.                                *)

LEMMA ParamsType ==
  /\ \A p \in GraphParams : p \in Params /\ p.route = "graph"
  /\ \A p \in PathParams : /\ p \in Params /\ p.route = "paths" /\ p.collapse = TRUE
                           /\ p.flow = "output" /\ p.target \in Targets
<1>1. 0 \in Int /\ 100 \in Int /\ LastBlock \in Int
  BY BlocksAssumption
<1>2. ASSUME NEW p \in GraphParams PROVE p \in Params /\ p.route = "graph"
  BY <1>1, DepthsAssumption, BlocksAssumption DEF GraphParams, Params, Flows
<1>3. ASSUME NEW p \in PathParams
      PROVE  /\ p \in Params /\ p.route = "paths" /\ p.collapse = TRUE
             /\ p.flow = "output" /\ p.target \in Targets
  <2>1. p.route = "paths" /\ p.flow = "output" /\ p.collapse = TRUE /\ p.target \in Targets
    BY DEF PathParams
  <2>2. /\ p.algo = "dfs" /\ p.depth = 100 /\ p.toBlock = LastBlock
        /\ p.fromBlock \in FromBlocks \cup {0}
    BY DEF PathParams
  <2>3. p.fromBlock \in Int
    <3>1. FromBlocks \cup {0} \subseteq Int
      BY BlocksAssumption
    <3>2. p.fromBlock \in FromBlocks \cup {0}
      BY <2>2
    <3> QED
      BY <3>1, <3>2, Zenon
  <2>4. p = [route |-> p.route, target |-> p.target, algo |-> p.algo, flow |-> p.flow,
             depth |-> p.depth, fromBlock |-> p.fromBlock, toBlock |-> p.toBlock,
             collapse |-> p.collapse]
    BY DEF PathParams
  <2>5. p \in Params
    BY <1>1, <2>1, <2>2, <2>3, <2>4 DEF Params
  <2> QED
    BY <2>1, <2>5
<1> QED
  BY <1>2, <1>3

\* The addresses at the places of some sequences are those of the sequences.
LEMMA PlacesRange ==
  ASSUME NEW P
  PROVE  {Address(o) : o \in Places(P)} = UNION {Range(p) : p \in P}
<1>1. ASSUME NEW p \in P, NEW i \in DOMAIN p
      PROVE  <<p, i>> \in Places(P) /\ Address(<<p, i>>) = p[i]
  BY DEF Places, Address
<1>2. ASSUME NEW o \in Places(P)
      PROVE  \E p \in P : \E i \in DOMAIN p : Address(o) = p[i]
  <2>1. PICK p \in P : o \in {<<p, i>> : i \in DOMAIN p}
    BY Zenon DEF Places
  <2>2. PICK i \in DOMAIN p : o = <<p, i>>
    BY <2>1
  <2> QED
    BY <1>1, <2>2
<1>3. ASSUME NEW x
      PROVE  (\E o \in Places(P) : x = Address(o)) <=> \E p \in P : \E i \in DOMAIN p : x = p[i]
  <2>1. ASSUME NEW o \in Places(P), x = Address(o)
        PROVE  \E p \in P : \E i \in DOMAIN p : x = p[i]
    BY <1>2, <2>1
  <2>2. ASSUME NEW p \in P, NEW i \in DOMAIN p, x = p[i]
        PROVE  \E o \in Places(P) : x = Address(o)
    BY <1>1, <2>2
  <2> QED
    BY <2>1, <2>2
<1>4. ASSUME NEW x
      PROVE  x \in UNION {Range(p) : p \in P} <=> \E p \in P : \E i \in DOMAIN p : x = p[i]
  <2>1. x \in UNION {Range(p) : p \in P} <=> \E S \in {Range(p) : p \in P} : x \in S
    BY Zenon
  <2>2. \A p \in P : x \in Range(p) <=> \E i \in DOMAIN p : x = p[i]
    BY DEF Range
  <2> QED
    BY <2>1, <2>2
<1>5. \A x : x \in {Address(o) : o \in Places(P)} <=> \E o \in Places(P) : x = Address(o)
  OBVIOUS
<1> QED
  BY <1>3, <1>4, <1>5

LEMMA PlaceOf ==
  ASSUME NEW P, NEW o \in Places(P)
  PROVE  \E p \in P : \E i \in DOMAIN p : o = <<p, i>> /\ Address(o) = p[i]
<1>1. PICK p \in P : o \in {<<p, i>> : i \in DOMAIN p}
  BY Zenon DEF Places
<1> QED
  BY <1>1 DEF Address

LEMMA RowType ==
  ASSUME NEW r \in Row
  PROVE  /\ r.from \in Addr /\ r.to \in Addr /\ r.usd \in Nat
         /\ FlowByCurrency(r) \in [Currency -> Nat]
<1>1. r \in [hash : Hash, from : Addr, to : Addr, block : Nat,
             currency : Currency, amount : Nat, usd : Nat]
  BY RowAssumption
<1>2. r.amount \in Nat /\ 0 \in Nat
  BY <1>1
<1> QED
  BY <1>1, <1>2 DEF FlowByCurrency

-----------------------------------------------------------------------------
(* What does not change.                                                   *)

LEMMA SameEdges ==
  ASSUME IInv, UNCHANGED edges
  PROVE  CollapseTypeOK' /\ Ids' /\ MapsKept'
<1>1. CollapseTypeOK'
  BY DEF IInv, TypeOK, CollapseTypeOK, edges
<1>2. Ids'
  BY DEF IInv, Ids, edges
<1>3. MapsKept'
  BY DEF IInv, MapsKept, Merged, edges
<1> QED
  BY <1>1, <1>2, <1>3

LEMMA SameGraph ==
  ASSUME Traversal!Led, UNCHANGED <<graph, params>>
  PROVE  Traversal!Led'
BY DEF Traversal!Led, Traversal!Known, Traversal!Closed

LEMMA SameCounters ==
  ASSUME IInv, UNCHANGED <<counter, cnt>>
  PROVE  CountersTrue'
BY DEF IInv, CountersTrue, Address

LEMMA TraversalGrowLed == Traversal!Led /\ Traversal!Grow => Traversal!Led'
BY Traversal!GrowLed

\* The graph that newDominikGraph makes.
Vertices == Traversal!Known \cup {params.target}
Neighbours == [a \in Vertices |-> {b \in Traversal!Known : Joined(a, b)}]

\* What AllPathsBetween finds in it.
LEMMA PathsDef ==
  AllPathsBetween =
    {p \in UNION {[1..n -> Vertices] : n \in 1..Cardinality(Vertices)} :
       /\ Len(p) > 0 /\ p[Len(p)] = params.target
       /\ Len(p) > 0 => p[1] = Source
       /\ \A i \in 1..(Len(p) - 1) : p[i + 1] \in Neighbours[p[i]]
       /\ \A i, j \in 1..Len(p) : p[i] = p[j] => i = j}
<1>1. Undirected!Walks = UNION {[1..n -> Vertices] : n \in 1..Cardinality(Vertices)}
  <2>1. Undirected!Cardinality(Vertices) = Cardinality(Vertices)
    BY DEF Undirected!Cardinality, Cardinality, Undirected!IsFiniteSet, IsFiniteSet
  <2> QED
    BY <2>1 DEF Undirected!Walks, Vertices
<1>2. \A p : Undirected!IsPath(p) <=>
               /\ Len(p) > 0 /\ p[Len(p)] = params.target
               /\ Len(p) > 0 => p[1] = Source
               /\ \A i \in 1..(Len(p) - 1) : p[i + 1] \in Neighbours[p[i]]
               /\ \A i, j \in 1..Len(p) : p[i] = p[j] => i = j
  BY DEF Undirected!IsPath, Undirected!IsWalk, Vertices, Neighbours
<1> QED
  BY <1>1, <1>2 DEF AllPathsBetween, Undirected!Paths

\* A path is a sequence of vertices, each of them, but for the first, a neighbour of
\* the one before.
LEMMA PathShape ==
  ASSUME NEW p \in AllPathsBetween
  PROVE  /\ p \in Seq(Vertices) /\ Len(p) \in Nat /\ Len(p) > 0
         /\ p[1] = Source /\ p[Len(p)] = params.target
         /\ \A i \in 1..(Len(p) - 1) : p[i + 1] \in Neighbours[p[i]]
<1>1. PICK n \in 1..Cardinality(Vertices) : p \in [1..n -> Vertices]
  BY PathsDef
<1>2. n \in Nat /\ p \in Seq(Vertices) /\ Len(p) \in Nat
  BY <1>1
<1> QED
  BY <1>2, PathsDef

LEMMA SamePaths ==
  ASSUME UNCHANGED <<graph, collapsed, params>>
  PROVE  AllPathsBetween' = AllPathsBetween
<1>1. Traversal!Known' = Traversal!Known
  BY DEF Traversal!Known
<1>2. \A a, b : Joined(a, b)' <=> Joined(a, b)
  BY DEF Joined
<1>3. Undirected!Walks' = Undirected!Walks
  BY <1>1 DEF Undirected!Walks
<1>4. Neighbours' = Neighbours
  BY <1>1, <1>2, Zenon DEF Neighbours, Vertices
<1>5. \A p : Undirected!IsPath(p)' <=> Undirected!IsPath(p)
  BY <1>4 DEF Undirected!IsPath, Undirected!IsWalk, Neighbours, Vertices
<1> QED
  BY <1>3, <1>5, Zenon DEF AllPathsBetween, Undirected!Paths

\* Before there is a graph the source leads to all there is.
LEMMA NoGraph == graph = {} => Traversal!Led
BY DEF Traversal!Led, Traversal!Known

LEMMA FaultType ==
  ASSUME TypeOK
  PROVE  /\ NoFault => faults' \in 0..MaxFaults
         /\ Fault => faults' \in 0..MaxFaults
         /\ (NoFault \/ Fault) /\ faults' = 0 => NoFault /\ faults = 0
<1>1. MaxFaults \in Nat /\ faults \in 0..MaxFaults
  BY BoundsAssumption DEF TypeOK
<1>2. faults \in Int /\ 0 <= faults /\ faults <= MaxFaults
  BY <1>1
<1>3. Fault => faults' \in 0..MaxFaults /\ faults' # 0
  BY <1>1, <1>2 DEF Fault
<1>4. NoFault => faults' = faults
  BY DEF NoFault
<1> QED
  BY <1>1, <1>3, <1>4

-----------------------------------------------------------------------------
LEMMA IInvInit == Init => IInv
<1> SUFFICES ASSUME Init PROVE IInv
  OBVIOUS
<1> USE DEF Init
<1>1. CollapseTypeOK
  BY DEF CollapseTypeOK, NoMap
<1>2. /\ nodes \in [DOMAIN nodes -> Node] /\ DOMAIN nodes = {}
      /\ counter \in [DOMAIN counter -> Nat] /\ DOMAIN counter = {}
      /\ DOMAIN heap = {} /\ DOMAIN collapsed = {}
  BY DEF NoMap
<1>3. TypeOK
  <2>1. 0 \in 0..MaxFaults
    BY BoundsAssumption
  <2>2. cnt \in [Addr -> Nat] /\ labels \in [Addr -> Labels \cup {Nil}]
    BY CountAssumption, LabelsAssumption
  <2> QED
    BY <1>1, <1>2, <2>1, <2>2 DEF TypeOK
<1>4. Stages
  BY <1>2 DEF Stages, Asked
<1>5. PlacesKept /\ PathsKept
  BY DEF PlacesKept, PathsKept
<1>6. Ids /\ MapsKept
  BY <1>2, FS_EmptySet DEF Ids, MapsKept
<1>7. LabelsKept /\ NodesTrue /\ CountersTrue
  BY <1>2 DEF LabelsKept, NodesTrue, CountersTrue
<1> QED
  BY <1>3, <1>4, <1>5, <1>6, <1>7, NoGraph DEF IInv

\* A request comes, or is turned down.
LEMMA RequestStep ==
  ASSUME IInv, Ping \/ BadRequest \/ GraphRequest \/ PathRequest
  PROVE  IInv'
<1> USE DEF edges, search, redis
<1>0. /\ UNCHANGED <<edges, search, left, counter, nodes, redis>>
      /\ pc = "idle" /\ graph = {}
      /\ NoFault \/ Fault
      /\ pc' \in {"running", "sent"} /\ reply' \in {"none", "pong", "bad request", "empty", "error", "answer"}
      /\ reply' # "answer"
  BY DEF Ping, BadRequest, GraphRequest, PathRequest, NewConfig, Reply, IInv, Stages, TypeOK, NoFault
<1>1. pc' = "running" => params' \in GraphParams \cup PathParams
  BY DEF Ping, BadRequest, GraphRequest, PathRequest, Reply
<1>2. TypeOK'
  <2>1. pc' = "running" => params' \in Params
    BY <1>1, ParamsType
  <2>2. CollapseTypeOK'
    BY <1>0, SameEdges
  <2>3. faults' \in 0..MaxFaults
    BY <1>0, FaultType DEF IInv
  <2> QED
    BY <1>0, <2>1, <2>2, <2>3 DEF IInv, TypeOK
<1>3. Stages'
  <2>1. pc' = "running" /\ params'.route = "paths" =>
          params'.collapse = TRUE /\ params'.flow = "output" /\ params'.target \in Targets
    BY <1>1, ParamsType
  <2> QED
    BY <1>0, <2>1 DEF IInv, Stages, Asked
<1>4. PlacesKept' /\ PathsKept'
  BY <1>0 DEF PlacesKept, PathsKept
<1>5. LabelsKept' /\ NodesTrue' /\ CountersTrue'
  BY <1>0, SameCounters DEF IInv, Stages, LabelsKept, NodesTrue, NoMap
<1>6. Traversal!Led'
  BY <1>0, NoGraph DEF IInv, Traversal!Led, Traversal!Known
<1> QED
  BY <1>0, <1>2, <1>3, <1>4, <1>5, <1>6, SameEdges DEF IInv

\* What is the same in the answer, whatever Redis does meanwhile.
LEMMA RedisStep ==
  ASSUME IInv, UpdateCounters \/ LabelAddress \/ UNCHANGED vars
  PROVE  IInv'
<1> USE DEF search
<1>0. UNCHANGED <<edges, search, left, counter, nodes, pc, reply, params, faults>>
  BY DEF UpdateCounters, LabelAddress, vars, redis
<1>1. cnt' \in [Addr -> Nat] /\ \A a \in Addr : cnt[a] <= cnt'[a]
  <2>0. cnt \in [Addr -> Nat]
    BY DEF IInv, TypeOK
  <2>1. CASE UpdateCounters
    <3>1. PICK a \in Busy : cnt' = [cnt EXCEPT ![a] = @ + 1]
      BY <2>1 DEF UpdateCounters
    <3>2. a \in Addr
      BY CountAssumption
    <3> QED
      BY <2>0, <3>1, <3>2
  <2>2. CASE UNCHANGED cnt
    BY <2>0, <2>2
  <2> QED
    BY <2>1, <2>2 DEF LabelAddress, vars, redis
<1>2. /\ labels' \in [Addr -> Labels \cup {Nil}]
      /\ \A a \in Addr : labels[a] # Nil => labels'[a] = labels[a]
  BY CountAssumption DEF UpdateCounters, LabelAddress, vars, redis, IInv, TypeOK
<1>3. TypeOK'
  <2>1. CollapseTypeOK'
    BY <1>0, SameEdges
  <2> QED
    BY <1>0, <1>1, <1>2, <2>1 DEF IInv, TypeOK, Address
<1>4. Stages'
  BY <1>0 DEF IInv, Stages, Asked, edges
<1>5. PlacesKept'
  BY <1>0 DEF IInv, PlacesKept, Expected, AllEnds, Shown, Places, edges
<1>6. PathsKept'
  <2>1. AllPathsBetween' = AllPathsBetween
    BY <1>0, SamePaths DEF edges
  <2> QED
    BY <1>0, <2>1 DEF IInv, PathsKept
<1>7. LabelsKept'
  BY <1>2 DEF IInv, LabelsKept
<1>8. NodesTrue'
  <2> SUFFICES ASSUME NEW o \in DOMAIN nodes
               PROVE  LET n == nodes[o] IN
                      /\ n.id = Address(o) /\ n.cnt <= cnt'[n.id]
                      /\ n.type = "high_risk" => labels'[n.id] # Nil /\ labels'[n.id].ofac
                      /\ faults = 0 /\ Labelled[n.id] # Nil /\ Labelled[n.id].ofac =>
                           n.type = "high_risk"
    BY <1>0 DEF NodesTrue, Address
  <2>1. nodes[o] \in Node /\ nodes[o].id \in Addr /\ nodes[o].cnt \in Nat
    BY DEF IInv, TypeOK, Node
  <2>2. cnt[nodes[o].id] \in Nat /\ cnt'[nodes[o].id] \in Nat
    BY <1>1, <2>1 DEF IInv, TypeOK
  <2>3. nodes[o].cnt <= cnt'[nodes[o].id]
    BY <1>1, <2>1, <2>2 DEF IInv, NodesTrue
  <2>4. nodes[o].type = "high_risk" => labels'[nodes[o].id] # Nil /\ labels'[nodes[o].id].ofac
    BY <1>2, <2>1 DEF IInv, NodesTrue
  <2> QED
    BY <2>3, <2>4 DEF IInv, NodesTrue
<1>9. CountersTrue'
  <2> SUFFICES ASSUME NEW o \in DOMAIN counter PROVE counter[o] <= cnt'[Address(o)]
    BY <1>0 DEF IInv, CountersTrue, Address
  <2>1. Address(o) \in Addr /\ counter[o] \in Nat
    BY DEF IInv, TypeOK
  <2>2. cnt[Address(o)] \in Nat /\ cnt'[Address(o)] \in Nat /\ counter[o] <= cnt[Address(o)]
    BY <1>1, <2>1 DEF IInv, TypeOK, CountersTrue
  <2> QED
    BY <1>1, <2>1, <2>2
<1>10. Traversal!Led'
  BY <1>0, SameGraph DEF IInv, edges
<1> QED
  BY <1>0, <1>3, <1>4, <1>5, <1>6, <1>7, <1>8, <1>9, <1>10, SameEdges DEF IInv

\* The graph grows while there is no answer that could hang on it.
LEMMA TraverseStep ==
  ASSUME IInv, Traverse
  PROVE  IInv'
<1> USE DEF search, redis
<1>0. /\ pc = "running" /\ pc' \in {"running", "answered"}
      /\ UNCHANGED <<todo, heap, collapsed, paths, timedOut, left, counter, nodes, cnt, labels,
                     reply, params, faults>>
  BY DEF Traverse, Traversal!Grow, Traversal!Answer
<1>1. left = {} /\ nodes = NoMap /\ DOMAIN heap = {} /\ todo = {} /\ collapsed = NoMap
      /\ reply # "answer"
  BY <1>0 DEF IInv, Stages
<1>2. graph' \subseteq Row
  <2>1. graph \subseteq Row
    BY DEF IInv, TypeOK, CollapseTypeOK
  <2>2. CASE Traversal!Grow
    <3>1. PICK a \in Traversal!Known :
            \E R \in SUBSET {r \in Row : Traversal!Follows(r, a)} : graph' = graph \cup R
      BY <2>2 DEF Traversal!Grow
    <3> QED
      BY <2>1, <3>1
  <2>3. CASE Traversal!Answer
    BY <2>1, <2>3 DEF Traversal!Answer
  <2> QED
    BY <2>2, <2>3 DEF Traverse
<1>3. TypeOK'
  <2>1. CollapseTypeOK'
    BY <1>0, <1>1, <1>2 DEF IInv, TypeOK, CollapseTypeOK
  <2> QED
    BY <1>0, <2>1 DEF IInv, TypeOK, Address
<1>4. Stages'
  BY <1>0, <1>1 DEF IInv, Stages, Asked
<1>5. PlacesKept' /\ PathsKept'
  BY <1>0, <1>1 DEF PlacesKept, PathsKept
<1>6. Ids' /\ MapsKept'
  BY <1>0, <1>1 DEF IInv, Ids, MapsKept, NoMap
<1>7. LabelsKept' /\ NodesTrue' /\ CountersTrue'
  BY <1>0, <1>1, SameCounters DEF IInv, LabelsKept, NodesTrue, NoMap
<1>8. Traversal!Led'
  <2>1. Traversal!Led /\ Traversal!Grow => Traversal!Led'
    BY TraversalGrowLed
  <2> QED
    BY <1>0, <2>1, SameGraph DEF Traverse, Traversal!Answer, IInv
<1> QED
  BY <1>3, <1>4, <1>5, <1>6, <1>7, <1>8 DEF IInv

\* The handler goes on, or stops, with the edges as they are.
LEMMA StageStep ==
  ASSUME IInv, Panic \/ FetchNodes \/ Respond
  PROVE  IInv'
<1> USE DEF edges, search, redis
<1>0. /\ UNCHANGED <<edges, search, counter, nodes, redis, params, faults>>
      /\ params \in Params
      /\ pc \in {"running", "answered", "nodes", "collapse"}
      /\ pc' \in {"nodes", "sent", "crashed"}
      /\ reply' \in {"none", "pong", "bad request", "empty", "error", "answer"}
  BY DEF Panic, FetchNodes, Respond, Reply, IInv, TypeOK
<1>1. ASSUME FetchNodes
      PROVE  /\ left' = Expected /\ nodes = NoMap
             /\ \A o \in left' : Address(o) \in Addr
  <2>1. left' = Places({<<a>> : a \in AllEnds}) /\ nodes = NoMap
    BY <1>1 DEF FetchNodes, IInv, Stages
  <2>2. AllEnds \subseteq Addr
    BY RowType DEF AllEnds, IInv, TypeOK, CollapseTypeOK
  <2>3. ASSUME NEW o \in left'
        PROVE  Address(o) \in Addr
    <3>1. PICK s \in {<<a>> : a \in AllEnds} : \E i \in DOMAIN s : Address(o) = s[i]
      BY <2>1, <2>3, PlaceOf
    <3>2. PICK a \in AllEnds : s = <<a>>
      BY <3>1
    <3> QED
      BY <2>2, <3>1, <3>2
  <2> QED
    BY <1>1, <2>1, <2>3 DEF Expected, FetchNodes
<1>2. TypeOK'
  <2>1. CollapseTypeOK'
    BY <1>0, SameEdges
  <2>2. \A o \in left' \cup DOMAIN nodes : Address(o) \in Addr
    BY <1>1 DEF Panic, Respond, IInv, TypeOK
  <2>3. \A o \in left' \cup DOMAIN nodes' : Address(o)' \in Addr
    BY <1>0, <2>2 DEF Address
  <2>4. DOMAIN counter \subseteq left'
    BY DEF Panic, FetchNodes, Respond, IInv, TypeOK, Stages
  <2> QED
    BY <1>0, <2>1, <2>3, <2>4 DEF IInv, TypeOK
<1>3. Stages'
  <2>1. CASE Panic
    BY <1>0, <2>1 DEF Panic, IInv, Stages, Asked
  <2>2. CASE FetchNodes
    BY <1>0, <2>2 DEF FetchNodes, IInv, Stages, Asked
  <2>3. CASE Respond
    BY <1>0, <2>3 DEF Respond, Reply, IInv, Stages, Asked, Params
  <2> QED
    BY <2>1, <2>2, <2>3
<1>4. PlacesKept'
  <2>1. Expected' = Expected
    BY <1>0 DEF Expected, AllEnds, Shown, Places
  <2>2. CASE Panic
    BY <1>0, <2>2 DEF Panic, PlacesKept, IInv, Stages
  <2>3. CASE FetchNodes
    BY <1>0, <1>1, <2>1, <2>3 DEF PlacesKept, NoMap
  <2>4. CASE Respond
    <3>1. left \cup DOMAIN nodes = Expected
      BY <2>4 DEF Respond, IInv, PlacesKept
    <3> QED
      BY <1>0, <2>1, <2>4, <3>1 DEF Respond, PlacesKept
  <2> QED
    BY <2>2, <2>3, <2>4
<1>5. PathsKept'
  <2>1. AllPathsBetween' = AllPathsBetween
    BY <1>0, SamePaths
  <2> QED
    BY <1>0, <2>1 DEF Panic, FetchNodes, Respond, Reply, IInv, PathsKept, Stages
<1>6. LabelsKept' /\ NodesTrue' /\ CountersTrue' /\ Traversal!Led'
  BY <1>0, SameGraph, SameCounters DEF IInv, LabelsKept, NodesTrue, Address
<1> QED
  BY <1>0, <1>2, <1>3, <1>4, <1>5, <1>6, SameEdges DEF IInv

\* The loop over the edges starts: no edge is collapsed, and each has its own map.
LEMMA StartCollapseStep ==
  ASSUME IInv, StartCollapse
  PROVE  IInv'
<1> USE DEF search, redis
<1>0. /\ UNCHANGED <<graph, search, left, counter, nodes, redis, reply, params, faults>>
      /\ pc \in {"answered", "nodes"} /\ pc' = "collapse" /\ params \in Params
      /\ todo' = graph /\ collapsed' = NoMap /\ DOMAIN collapsed' = {}
      /\ heap' = [r \in graph |-> FlowByCurrency(r)] /\ DOMAIN heap' = graph
  BY DEF StartCollapse, CollapseTxs, NoMap, IInv, TypeOK
<1>1. TypeOK'
  <2>1. heap' \in [DOMAIN heap' -> [Currency -> Nat]]
    BY <1>0, RowType DEF IInv, TypeOK, CollapseTypeOK
  <2>2. collapsed' \in [DOMAIN collapsed' -> CollapsedEdge]
    BY <1>0 DEF NoMap
  <2>3. CollapseTypeOK'
    <3>1. graph' \subseteq Row /\ todo' \subseteq graph' /\ DOMAIN heap' \subseteq graph'
      BY <1>0 DEF IInv, TypeOK, CollapseTypeOK
    <3>2. DOMAIN collapsed' \subseteq Addr \X Addr
      BY <1>0
    <3> QED
      BY <2>1, <2>2, <3>1, <3>2 DEF CollapseTypeOK
  <2> QED
    BY <1>0, <2>3 DEF IInv, TypeOK, Address
<1>2. Stages'
  BY <1>0 DEF StartCollapse, IInv, Stages, Asked
<1>3. PlacesKept' /\ PathsKept'
  <2>1. Expected' = Expected
    BY <1>0 DEF Expected, AllEnds, Shown, Places
  <2>2. params.route = "graph" => left \cup DOMAIN nodes = Expected
    BY <1>0 DEF StartCollapse, IInv, PlacesKept
  <2> QED
    BY <1>0, <2>1, <2>2 DEF PlacesKept, PathsKept, StartCollapse, IInv, Stages
<1>4. Ids'
  BY <1>0, FS_EmptySet DEF Ids
<1>5. MapsKept'
  BY <1>0 DEF MapsKept, FlowByCurrency
<1>6. LabelsKept' /\ NodesTrue' /\ CountersTrue' /\ Traversal!Led'
  BY <1>0, SameGraph, SameCounters DEF IInv, LabelsKept, NodesTrue, Address
<1> QED
  BY <1>1, <1>2, <1>3, <1>4, <1>5, <1>6 DEF IInv

-----------------------------------------------------------------------------
(* A turn of the loop over the edges.                                      *)

\* The edge is at hand, and every edge has a map.
LEMMA TurnStart ==
  ASSUME IInv, NEW r \in todo
  PROVE  /\ r \in graph /\ r \in Row /\ DOMAIN heap = graph /\ DOMAIN heap # {}
         /\ Pair(r) \in Addr \X Addr
         /\ heap \in [graph -> [Currency -> Nat]]
         /\ heap[r] = FlowByCurrency(r)
<1>1. r \in graph /\ r \in Row
  BY DEF IInv, TypeOK, CollapseTypeOK
<1>2. DOMAIN heap = graph /\ DOMAIN heap # {}
  BY <1>1 DEF IInv, Stages
<1>3. heap \in [graph -> [Currency -> Nat]]
  BY <1>2 DEF IInv, TypeOK, CollapseTypeOK
<1>4. heap[r] = FlowByCurrency(r)
  BY <1>1, <1>2 DEF IInv, MapsKept
<1> QED
  BY <1>1, <1>2, <1>3, <1>4, RowType DEF Pair

\* The pair of the edge has one merged edge more, and no other pair has.
LEMMA MergedStep ==
  ASSUME NEW r \in todo, r \in graph, graph' = graph, todo' = todo \ {r}
  PROVE  /\ \A k : Merged(k)' = IF k = Pair(r) THEN Merged(k) \cup {r} ELSE Merged(k)
         /\ {Pair(q) : q \in graph' \ todo'} = {Pair(q) : q \in graph \ todo} \cup {Pair(r)}
         /\ \A k : r \notin Merged(k)
<1>1. graph' \ todo' = (graph \ todo) \cup {r}
  OBVIOUS
<1>2. \A k : Merged(k)' = {q \in graph' \ todo' : Pair(q) = k}
  BY DEF Merged, Pair
<1> QED
  BY <1>1, <1>2 DEF Merged

LEMMA MergedFinite ==
  ASSUME IInv, NEW k
  PROVE  IsFiniteSet(Merged(k)) /\ Cardinality(Merged(k)) \in Nat
<1>1. Merged(k) \subseteq Row
  BY DEF Merged, IInv, TypeOK, CollapseTypeOK
<1> QED
  BY <1>1, RowsAssumption, FS_Subset, FS_CardinalityType

\* The first edge of its pair: the counter gives the collapsed edge an id above
\* those given before.
LEMMA FirstStep ==
  ASSUME IInv, NEW r \in todo, graph' = graph, todo' = todo \ {r}, MergeFirst(r)
  PROVE  CollapseTypeOK' /\ Ids' /\ MapsKept'
<1> DEFINE D == DOMAIN collapsed
           m == [id |-> Cardinality(D), count |-> 1, usd |-> r.usd, flow |-> r]
<1>1. /\ Pair(r) \notin D /\ heap' = heap
      /\ DOMAIN collapsed' = D \cup {Pair(r)}
      /\ collapsed'[Pair(r)] = m
      /\ \A k \in D : collapsed'[k] = collapsed[k]
  BY DEF MergeFirst
<1>2. IsFiniteSet(D) /\ Cardinality(D) \in Nat /\ Cardinality(D \cup {Pair(r)}) = Cardinality(D) + 1
  <2>1. IsFiniteSet(D)
    BY DEF IInv, Ids
  <2> QED
    BY <1>1, <2>1, FS_AddElement, FS_CardinalityType
<1>3. m \in CollapsedEdge
  BY <1>2, TurnStart, RowType DEF CollapsedEdge
<1>4. \A k \in D : collapsed[k] \in CollapsedEdge /\ collapsed[k].id < Cardinality(D)
                 /\ collapsed[k].id \in Nat
  BY DEF IInv, TypeOK, CollapseTypeOK, CollapsedEdge, Ids
<1> HIDE DEF m
<1>5. CollapseTypeOK'
  <2>1. collapsed' \in [DOMAIN collapsed' -> CollapsedEdge]
    <3>1. collapsed' = [k \in DOMAIN collapsed' |-> collapsed'[k]]
      BY DEF MergeFirst
    <3>2. ASSUME NEW k \in DOMAIN collapsed' PROVE collapsed'[k] \in CollapsedEdge
      <4>1. CASE k = Pair(r)
        BY <1>1, <1>3, <4>1
      <4>2. CASE k \in D
        <5>1. collapsed'[k] = collapsed[k]
          BY <1>1, <4>2
        <5> QED
          BY <1>4, <4>2, <5>1
      <4> QED
        BY <1>1, <4>1, <4>2
    <3> QED
      BY <3>1, <3>2
  <2>2. DOMAIN collapsed' \subseteq Addr \X Addr
    <3>1. D \subseteq Addr \X Addr
      BY DEF IInv, TypeOK, CollapseTypeOK
    <3>2. Pair(r) \in Addr \X Addr
      BY TurnStart
    <3> QED
      BY <1>1, <3>1, <3>2
  <2> QED
    BY <1>1, <2>1, <2>2 DEF IInv, TypeOK, CollapseTypeOK
<1>6. m.id = Cardinality(D) /\ m.count = 1 /\ m.flow = r
  BY DEF m
<1>7. Ids'
  <2>1. IsFiniteSet(DOMAIN collapsed')
    BY <1>1, <1>2, FS_AddElement
  <2> QED
    BY <1>1, <1>2, <1>4, <1>6, <2>1 DEF Ids
<1>8. MapsKept'
  <2>1. D = {Pair(q) : q \in graph \ todo} /\ r \in graph
    BY TurnStart DEF IInv, MapsKept
  <2>2. \A q \in graph : heap[q] = FlowByCurrency(q) \/ (q \notin todo /\ q = collapsed[Pair(q)].flow)
    BY TurnStart DEF IInv, MapsKept
  <2>3. /\ \A k : Merged(k)' = IF k = Pair(r) THEN Merged(k) \cup {r} ELSE Merged(k)
        /\ {Pair(q) : q \in graph' \ todo'} = D \cup {Pair(r)}
    BY <2>1, MergedStep
  <2>4. Merged(Pair(r)) = {}
    BY <1>1, <2>1 DEF Merged
  <2>5. Cardinality({r}) = 1
    BY FS_Singleton
  <2>6. ASSUME NEW q \in graph
        PROVE  heap'[q] = FlowByCurrency(q)' \/ (q \notin todo' /\ q = collapsed'[Pair(q)].flow)
    <3>1. CASE q = r
      BY <1>1, <3>1, TurnStart DEF FlowByCurrency
    <3>2. CASE q \in todo /\ q # r
      BY <1>1, <2>2, <3>2 DEF FlowByCurrency
    <3>3. CASE q \notin todo
      <4>1. Pair(q) \in D
        BY <2>1, <3>3
      <4> QED
        BY <1>1, <2>2, <3>3, <4>1 DEF FlowByCurrency
    <3> QED
      BY <3>1, <3>2, <3>3
  <2>7. ASSUME NEW k \in D
        PROVE  /\ collapsed'[k].flow \in Merged(k)'
               /\ collapsed'[k].count = Cardinality(Merged(k)')
               /\ \A l \in DOMAIN collapsed' : collapsed'[k].id = collapsed'[l].id => k = l
    <3>1. collapsed'[k] = collapsed[k] /\ Merged(k)' = Merged(k) /\ k # Pair(r)
      BY <1>1, <2>3
    <3>2. \A l \in D : collapsed[k].id = collapsed[l].id => k = l
      BY DEF IInv, MapsKept
    <3>3. collapsed[k].id # m.id
      BY <1>2, <1>4, <1>6
    <3> QED
      BY <1>1, <3>1, <3>2, <3>3 DEF IInv, MapsKept
  <2>8. /\ m.flow \in Merged(Pair(r))'
        /\ m.count = Cardinality(Merged(Pair(r))')
        /\ \A l \in DOMAIN collapsed' : m.id = collapsed'[l].id => Pair(r) = l
    <3>1. Merged(Pair(r))' = {r}
      BY <2>3, <2>4
    <3>2. \A l \in D : m.id # collapsed[l].id
      BY <1>2, <1>4, <1>6
    <3> QED
      BY <1>1, <1>6, <2>5, <3>1, <3>2
  <2>9. \A q \in graph' : heap'[q] = FlowByCurrency(q)' \/
                          (q \notin todo' /\ q = collapsed'[Pair(q)'].flow)
    BY <2>6 DEF Pair
  <2>10. DOMAIN collapsed' = {Pair(q)' : q \in graph' \ todo'}
    BY <1>1, <2>3 DEF Pair
  <2>11. \A k \in DOMAIN collapsed' :
           /\ collapsed'[k].flow \in Merged(k)'
           /\ collapsed'[k].count = Cardinality(Merged(k)')
           /\ \A l \in DOMAIN collapsed' : collapsed'[k].id = collapsed'[l].id => k = l
    BY <1>1, <2>7, <2>8
  <2> QED
    BY <2>9, <2>10, <2>11 DEF MapsKept
<1> QED
  BY <1>5, <1>7, <1>8

\* A later edge of its pair: it changes one collapsed edge, and the map of the edge
\* that came first.
LEMMA LaterStep ==
  ASSUME IInv, NEW r \in todo, graph' = graph, todo' = todo \ {r}, MergeNext(r)
  PROVE  CollapseTypeOK' /\ Ids' /\ MapsKept'
<1> DEFINE D == DOMAIN collapsed
           first == collapsed[Pair(r)].flow
<1>1. /\ Pair(r) \in D
      /\ DOMAIN collapsed' = D
      /\ \A k \in D : k # Pair(r) => collapsed'[k] = collapsed[k]
      /\ collapsed' = [k \in D |-> collapsed'[k]]
  BY DEF MergeNext
<1>2. /\ heap \in [graph -> [Currency -> Nat]] /\ r \in graph
      /\ DOMAIN heap = graph
      /\ \A k \in D : collapsed[k] \in CollapsedEdge
      /\ \A k \in D : collapsed[k].flow \in Merged(k)
  BY TurnStart DEF IInv, MapsKept, TypeOK, CollapseTypeOK
<1>3. first \in graph /\ first \notin todo /\ Pair(first) = Pair(r)
  BY <1>1, <1>2 DEF Merged
<1>4. /\ collapsed'[Pair(r)].id = collapsed[Pair(r)].id
      /\ collapsed'[Pair(r)].flow = first
      /\ collapsed'[Pair(r)].count = collapsed[Pair(r)].count + 1
      /\ collapsed'[Pair(r)].usd = collapsed[Pair(r)].usd + r.usd
      /\ collapsed'[Pair(r)] \in CollapsedEdge
  <2>1. collapsed[Pair(r)] \in CollapsedEdge
    BY <1>1, <1>2
  <2>2. r.usd \in Nat
    BY TurnStart, RowType
  <2>3. ASSUME NEW e \in CollapsedEdge, NEW n, n = [e EXCEPT !.count = @ + 1, !.usd = @ + r.usd]
        PROVE  /\ n.id = e.id /\ n.flow = e.flow
               /\ n.count = e.count + 1 /\ n.usd = e.usd + r.usd
               /\ n \in CollapsedEdge
    <3>1. /\ n.id = e.id /\ n.flow = e.flow
          /\ n.count = e.count + 1 /\ n.usd = e.usd + r.usd
      BY <2>3 DEF CollapsedEdge
    <3>2. e.count + 1 \in Nat /\ e.usd + r.usd \in Nat
      BY <2>2 DEF CollapsedEdge
    <3>3. n = [id |-> e.id, count |-> e.count + 1, usd |-> e.usd + r.usd, flow |-> e.flow]
      BY <2>3 DEF CollapsedEdge
    <3> QED
      BY <3>1, <3>2, <3>3 DEF CollapsedEdge
  <2>4. collapsed'[Pair(r)] = [collapsed[Pair(r)] EXCEPT !.count = @ + 1, !.usd = @ + r.usd]
    BY <1>1 DEF MergeNext
  <2> QED
    BY <2>1, <2>3, <2>4
<1>5. /\ DOMAIN heap' = graph
      /\ \A q \in graph : q # first => heap'[q] = heap[q]
      /\ heap' \in [graph -> [Currency -> Nat]]
  <2>1. heap' = [heap EXCEPT ![first] = [c \in Currency |-> heap[first][c] + heap[r][c]]]
    BY <1>2, <1>3 DEF MergeNext
  <2>2. [c \in Currency |-> heap[first][c] + heap[r][c]] \in [Currency -> Nat]
    <3>1. heap[first] \in [Currency -> Nat] /\ heap[r] \in [Currency -> Nat]
      BY <1>2, <1>3
    <3>2. \A c \in Currency : heap[first][c] + heap[r][c] \in Nat
      BY <3>1
    <3> QED
      BY <3>2
  <2> QED
    BY <1>2, <1>3, <2>1, <2>2
<1> HIDE DEF first
<1>6. \A k \in D : /\ collapsed'[k].id = collapsed[k].id
                  /\ collapsed'[k].flow = collapsed[k].flow
                  /\ collapsed'[k] \in CollapsedEdge
  BY <1>1, <1>2, <1>4 DEF first
<1>7. CollapseTypeOK'
  <2>1. collapsed' \in [DOMAIN collapsed' -> CollapsedEdge]
    BY <1>1, <1>6
  <2>2. heap' \in [DOMAIN heap' -> [Currency -> Nat]]
    BY <1>5
  <2> QED
    BY <1>1, <1>5, <2>1, <2>2 DEF IInv, TypeOK, CollapseTypeOK
<1>8. Ids'
  BY <1>1, <1>6 DEF IInv, Ids
<1>9. MapsKept'
  <2>1. D = {Pair(q) : q \in graph \ todo}
    BY TurnStart DEF IInv, MapsKept
  <2>2. \A q \in graph : heap[q] = FlowByCurrency(q) \/
                          (q \notin todo /\ q = collapsed[Pair(q)].flow)
    BY TurnStart DEF IInv, MapsKept
  <2>3. /\ \A k : Merged(k)' = IF k = Pair(r) THEN Merged(k) \cup {r} ELSE Merged(k)
        /\ {Pair(q) : q \in graph' \ todo'} = D \cup {Pair(r)}
        /\ r \notin Merged(Pair(r))
    BY <1>2, <2>1, MergedStep
  <2>4. DOMAIN collapsed' = {Pair(q)' : q \in graph' \ todo'}
    BY <1>1, <2>3 DEF Pair
  <2>5. ASSUME NEW q \in graph
        PROVE  heap'[q] = FlowByCurrency(q)' \/
                          (q \notin todo' /\ q = collapsed'[Pair(q)].flow)
    <3>1. CASE q = first
      BY <1>1, <1>3, <1>6, <3>1 DEF first
    <3>2. CASE q # first /\ q \in todo
      BY <1>5, <2>2, <3>2 DEF FlowByCurrency
    <3>3. CASE q # first /\ q \notin todo
      <4>1. Pair(q) \in D
        BY <2>1, <3>3
      <4> QED
        BY <1>5, <1>6, <2>2, <3>3, <4>1 DEF FlowByCurrency
    <3> QED
      BY <3>1, <3>2, <3>3
  <2>6. \A q \in graph' : heap'[q] = FlowByCurrency(q)' \/
                          (q \notin todo' /\ q = collapsed'[Pair(q)'].flow)
    BY <2>5 DEF Pair
  <2>7. ASSUME NEW k \in D
        PROVE  /\ collapsed'[k].flow \in Merged(k)'
               /\ collapsed'[k].count = Cardinality(Merged(k)')
               /\ \A l \in D : collapsed'[k].id = collapsed'[l].id => k = l
    <3>1. collapsed'[k].flow \in Merged(k)'
      BY <1>2, <1>6, <2>3
    <3>2. collapsed[k].count = Cardinality(Merged(k))
      BY DEF IInv, MapsKept
    <3>3. collapsed'[k].count = Cardinality(Merged(k)')
      <4>1. CASE k # Pair(r)
        BY <1>1, <2>3, <3>2, <4>1
      <4>2. CASE k = Pair(r)
        <5>1. Cardinality(Merged(k) \cup {r}) = Cardinality(Merged(k)) + 1
          BY <2>3, <4>2, MergedFinite, FS_AddElement
        <5> QED
          BY <1>4, <2>3, <3>2, <4>2, <5>1
      <4> QED
        BY <4>1, <4>2
    <3>4. \A l \in D : collapsed'[k].id = collapsed'[l].id => k = l
      BY <1>6 DEF IInv, MapsKept
    <3> QED
      BY <3>1, <3>3, <3>4
  <2> QED
    BY <1>1, <2>4, <2>6, <2>7 DEF MapsKept
<1> QED
  BY <1>7, <1>8, <1>9

LEMMA CollapseEdgeStep ==
  ASSUME IInv, CollapseEdge
  PROVE  IInv'
<1> USE DEF search, redis
<1>0. /\ UNCHANGED <<graph, search, left, counter, nodes, redis, pc, reply, params, faults>>
      /\ pc = "collapse" /\ params \in Params
  BY DEF CollapseEdge, IInv, TypeOK
<1>1. PICK r \in todo : Merge(r)
  BY DEF CollapseEdge
<1>2. todo' = todo \ {r} /\ DOMAIN heap' = graph /\ DOMAIN heap = graph /\ DOMAIN heap # {}
  BY <1>1, TurnStart DEF Merge, MergeFirst, MergeNext
<1>3. CollapseTypeOK' /\ Ids' /\ MapsKept'
  BY <1>0, <1>1, <1>2, FirstStep, LaterStep DEF Merge
<1>4. TypeOK'
  BY <1>0, <1>3 DEF IInv, TypeOK, Address
<1>5. Stages'
  BY <1>0, <1>2 DEF IInv, Stages, Asked
<1>6. PlacesKept' /\ PathsKept'
  <2>1. Expected' = Expected
    BY <1>0 DEF Expected, AllEnds, Shown, Places
  <2> QED
    BY <1>0, <2>1 DEF PlacesKept, PathsKept, IInv, Stages
<1>7. LabelsKept' /\ NodesTrue' /\ CountersTrue' /\ Traversal!Led'
  BY <1>0, SameGraph, SameCounters DEF IInv, LabelsKept, NodesTrue, Address
<1> QED
  BY <1>3, <1>4, <1>5, <1>6, <1>7 DEF IInv

-----------------------------------------------------------------------------
(* The paths and the nodes.                                                *)

LEMMA KnownType == IInv => Traversal!Known \subseteq Addr
BY RowType, EndsAssumption DEF Traversal!Known, IInv, TypeOK, CollapseTypeOK

LEMMA FindPathsStep ==
  ASSUME IInv, FindPaths
  PROVE  IInv'
<1> USE DEF edges, redis
<1>0. /\ UNCHANGED <<edges, counter, nodes, redis, reply, params, faults>>
      /\ pc = "collapse" /\ pc' = "nodes" /\ todo = {} /\ left' = Shown(paths')
      /\ params.route = "paths" /\ nodes = NoMap /\ reply # "answer"
      /\ timedOut' \in BOOLEAN /\ paths' = IF timedOut' THEN {} ELSE AllPathsBetween
      /\ params.target \in Targets
  BY DEF FindPaths, IInv, Stages, Asked
<1>1. \A p \in paths' : p \in Seq(Addr)
  <2> SUFFICES ASSUME NEW p \in AllPathsBetween PROVE p \in Seq(Addr)
    BY <1>0
  <2>1. Vertices \subseteq Addr
    BY <1>0, KnownType, EndsAssumption DEF Vertices
  <2>2. p \in Seq(Vertices)
    BY PathShape
  <2> QED
    BY <2>1, <2>2
<1>2. \A o \in left' : Address(o) \in Addr
  <2> SUFFICES ASSUME NEW o \in Shown(paths') PROVE Address(o) \in Addr
    BY <1>0
  <2> DEFINE P == IF paths' = {} THEN {<<Source, params.target>>} ELSE paths'
  <2>0. params.target \in Addr /\ Source \in Addr
    BY <1>0, EndsAssumption
  <2>1. \A p \in P : p \in Seq(Addr)
    <3>1. <<Source, params.target>> \in Seq(Addr)
      BY <2>0
    <3> QED
      BY <1>1, <3>1
  <2>2. PICK p \in P : \E i \in DOMAIN p : Address(o) = p[i]
    <3>1. o \in Places(P)
      BY <1>0 DEF Shown
    <3> HIDE DEF P
    <3> QED
      BY <3>1, PlaceOf, Zenon
  <2>3. PICK i \in DOMAIN p : Address(o) = p[i]
    BY <2>2
  <2>4. p \in Seq(Addr)
    BY <2>1
  <2> QED
    BY <2>3, <2>4
<1>3. TypeOK'
  <2>1. CollapseTypeOK'
    BY <1>0, SameEdges
  <2>2. \A o \in left' \cup DOMAIN nodes' : Address(o)' \in Addr
    BY <1>0, <1>2 DEF Address, NoMap
  <2>3. params' \in Params
    BY <1>0 DEF IInv, TypeOK
  <2>4. DOMAIN counter \subseteq left'
    BY <1>0 DEF IInv, TypeOK, Stages
  <2> QED
    BY <1>0, <1>1, <2>1, <2>2, <2>3, <2>4 DEF IInv, TypeOK
<1>4. Stages'
  BY <1>0 DEF IInv, Stages, Asked
<1>5. PlacesKept'
  <2>1. Expected' = Shown(paths)'
    BY <1>0 DEF Expected
  <2>2. Shown(paths)' = left'
    BY <1>0 DEF Shown, Places
  <2> QED
    BY <1>0, <2>1, <2>2 DEF PlacesKept, NoMap
<1>6. PathsKept'
  <2>1. AllPathsBetween' = AllPathsBetween
    BY <1>0, SamePaths
  <2> QED
    BY <1>0, <2>1 DEF PathsKept
<1>7. LabelsKept' /\ NodesTrue' /\ CountersTrue' /\ Traversal!Led'
  BY <1>0, SameGraph, SameCounters DEF IInv, LabelsKept, NodesTrue, Address
<1> QED
  BY <1>0, <1>3, <1>4, <1>5, <1>6, <1>7, SameEdges DEF IInv

\* A label in Redis, read or not read.
LEMMA LabelType ==
  ASSUME TypeOK, NEW a \in Addr, NEW l \in GetAddressLabels(a)
  PROVE  /\ l # Nil => l = labels[a] /\ l \in LabelRecord /\ l.type # "high_risk"
         /\ Type(l) \in Text
         /\ l # Nil => l.prime \in Text
         /\ Type(l) = "high_risk" <=> l # Nil /\ l.ofac
<1>1. labels[a] \in Labels \cup {Nil}
  BY DEF TypeOK
<1>2. l # Nil => l = labels[a] /\ l \in LabelRecord /\ l.type # "high_risk"
  BY <1>1, LabelsAssumption DEF GetAddressLabels
<1>3. l # Nil => l.type \in Text /\ l.prime \in Text
  BY <1>2 DEF LabelRecord
<1>4. Type(l) \in Text
  <2>1. CASE l = Nil
    BY <2>1, TextAssumption DEF Type
  <2>2. CASE l # Nil /\ l.ofac
    BY <2>2, TextAssumption DEF Type
  <2>3. CASE l # Nil /\ ~l.ofac
    BY <1>3, <2>3 DEF Type
  <2> QED
    BY <2>1, <2>2, <2>3
<1>5. Type(l) = "high_risk" <=> l # Nil /\ l.ofac
  BY <1>2 DEF Type
<1> QED
  BY <1>2, <1>3, <1>4, <1>5

\* The counter that is read is that of the address, or none.
LEMMA ReadCounterStep ==
  ASSUME IInv, NEW o \in left, ReadCounter(o)
  PROVE  IInv'
<1> USE DEF edges, search, redis
<1>0. /\ UNCHANGED <<edges, search, left, nodes, redis, pc, reply, params>>
      /\ pc = "nodes" /\ params \in Params
  BY DEF ReadCounter, IInv, TypeOK
<1> DEFINE a == Address(o)
<1>1. a \in Addr /\ cnt[a] \in Nat
  BY DEF IInv, TypeOK
<1>2. PICK n \in GetAddressTxNumber(a) :
        /\ counter' = [x \in {o} |-> n]
        /\ IF n = cnt[a] THEN NoFault ELSE Fault
  BY DEF ReadCounter
<1>3. n \in Nat /\ n <= cnt[a]
  <2>1. n = 0 \/ n = cnt[a]
    BY DEF GetAddressTxNumber
  <2> QED
    BY <1>1, <2>1
<1>4. faults' \in 0..MaxFaults /\ (faults' = 0 => faults = 0)
  BY <1>2, FaultType DEF IInv
<1>5. TypeOK'
  <2>1. CollapseTypeOK'
    BY <1>0, SameEdges
  <2>2. counter' \in [DOMAIN counter' -> Nat] /\ DOMAIN counter' \subseteq left
    BY <1>2, <1>3
  <2>3. \A x \in left' \cup DOMAIN nodes' : Address(x)' \in Addr
    BY <1>0 DEF IInv, TypeOK, Address
  <2> QED
    BY <1>0, <1>4, <2>1, <2>2, <2>3 DEF IInv, TypeOK
<1>6. Stages'
  BY <1>0 DEF IInv, Stages, Asked
<1>7. PlacesKept' /\ PathsKept'
  <2>1. Expected' = Expected
    BY <1>0 DEF Expected, AllEnds, Shown, Places
  <2>2. AllPathsBetween' = AllPathsBetween
    BY <1>0, SamePaths
  <2> QED
    BY <1>0, <2>1, <2>2 DEF IInv, PlacesKept, PathsKept, Stages
<1>8. CountersTrue'
  BY <1>0, <1>2, <1>3 DEF CountersTrue, Address
<1>9. LabelsKept' /\ NodesTrue' /\ Traversal!Led'
  BY <1>0, <1>4, SameGraph DEF IInv, LabelsKept, NodesTrue, Address
<1> QED
  BY <1>0, <1>5, <1>6, <1>7, <1>8, <1>9, SameEdges DEF IInv

LEMMA FetchAddressStep ==
  ASSUME IInv, NEW o \in left, FetchAddress(o)
  PROVE  IInv'
<1> USE DEF edges, search, redis
<1>0. /\ UNCHANGED <<edges, search, redis, pc, reply, params>>
      /\ pc = "nodes" /\ params \in Params /\ left' = left \ {o}
      /\ counter' = NoMap /\ DOMAIN counter' = {}
  BY DEF FetchAddress, IInv, TypeOK, NoMap
<1> DEFINE a == Address(o)
           n == counter[o]
<1>1. a \in Addr /\ cnt[a] \in Nat
  BY DEF IInv, TypeOK
<1>2. n \in Nat /\ n <= cnt[a]
  BY DEF FetchAddress, IInv, TypeOK, CountersTrue
<1>3. PICK l \in GetAddressLabels(a) :
        /\ IF l = labels[a] THEN NoFault ELSE Fault
        /\ nodes' = [x \in DOMAIN nodes \cup {o} |->
             IF x # o THEN nodes[x]
             ELSE [id |-> a, label |-> IF l = Nil THEN "" ELSE l.prime, cnt |-> n,
                   picked |-> a \in Picked, type |-> Type(l)]]
  BY DEF FetchAddress
<1> DEFINE m == [id |-> a, label |-> IF l = Nil THEN "" ELSE l.prime, cnt |-> n,
                 picked |-> a \in Picked, type |-> Type(l)]
<1> HIDE DEF n
<1>4. m \in Node
  <2>1. (a \in Picked) \in BOOLEAN
    OBVIOUS
  <2>2. (IF l = Nil THEN "" ELSE l.prime) \in Text /\ Type(l) \in Text
    <3>1. Type(l) \in Text /\ (l # Nil => l.prime \in Text)
      BY <1>1, LabelType DEF IInv
    <3>2. CASE l = Nil
      BY <3>1, <3>2, TextAssumption
    <3>3. CASE l # Nil
      BY <3>1, <3>3
    <3> QED
      BY <3>2, <3>3
  <2> QED
    BY <1>1, <1>2, <2>1, <2>2 DEF Node
<1>5. /\ DOMAIN nodes' = DOMAIN nodes \cup {o}
      /\ nodes'[o] = m
      /\ \A x \in DOMAIN nodes : x # o => nodes'[x] = nodes[x]
      /\ nodes' = [x \in DOMAIN nodes \cup {o} |-> nodes'[x]]
  BY <1>3
<1>6. m.id = a /\ m.cnt = n /\ m.type = Type(l)
  OBVIOUS
<1> HIDE DEF m
<1>7. faults' \in 0..MaxFaults /\ (faults' = 0 => faults = 0 /\ l = labels[a])
  <2>1. NoFault \/ Fault
    BY <1>3
  <2>2. TypeOK
    BY DEF IInv
  <2>3. faults' \in 0..MaxFaults /\ (faults' = 0 => NoFault /\ faults = 0)
    BY <2>1, <2>2, FaultType
  <2>4. ~(NoFault /\ Fault)
    <3>1. faults \in 0..MaxFaults /\ MaxFaults \in Nat
      BY <2>2, BoundsAssumption DEF TypeOK
    <3>2. faults \in Int
      BY <3>1
    <3> QED
      BY <3>2 DEF NoFault, Fault
  <2> QED
    BY <1>3, <2>3, <2>4
<1>8. TypeOK'
  <2>1. CollapseTypeOK'
    BY <1>0, SameEdges
  <2>2. nodes' \in [DOMAIN nodes' -> Node]
    <3>1. \A x \in DOMAIN nodes \cup {o} : nodes'[x] \in Node
      BY <1>4, <1>5 DEF IInv, TypeOK
    <3> QED
      BY <1>5, <3>1
  <2>3. \A x \in left' \cup DOMAIN nodes' : Address(x)' \in Addr
    BY <1>0, <1>1, <1>5 DEF IInv, TypeOK, Address
  <2>4. counter' \in [DOMAIN counter' -> Nat] /\ DOMAIN counter' \subseteq left'
    BY <1>0 DEF NoMap
  <2> QED
    BY <1>0, <1>7, <2>1, <2>2, <2>3, <2>4 DEF IInv, TypeOK
<1>9. Stages'
  BY <1>0 DEF IInv, Stages, Asked
<1>10. PlacesKept' /\ PathsKept'
  <2>1. Expected' = Expected
    BY <1>0 DEF Expected, AllEnds, Shown, Places
  <2>2. AllPathsBetween' = AllPathsBetween
    BY <1>0, SamePaths
  <2>3. left' \cup DOMAIN nodes' = left \cup DOMAIN nodes
    BY <1>0, <1>5
  <2> QED
    BY <1>0, <2>1, <2>2, <2>3 DEF IInv, PlacesKept, PathsKept, Stages
<1>11. NodesTrue'
  <2> DEFINE True(x, w, f) ==
        /\ w.id = Address(x) /\ w.cnt <= cnt[w.id]
        /\ w.type = "high_risk" => labels[w.id] # Nil /\ labels[w.id].ofac
        /\ f = 0 /\ Labelled[w.id] # Nil /\ Labelled[w.id].ofac => w.type = "high_risk"
  <2>1. \A x \in DOMAIN nodes : True(x, nodes[x], faults)
    BY DEF IInv, NodesTrue
  <2>2. ASSUME NEW x \in DOMAIN nodes, x # o PROVE True(x, nodes'[x], faults')
    BY <1>5, <1>7, <2>1, <2>2
  <2>3. True(o, nodes'[o], faults')
    <3>1. /\ Type(l) = "high_risk" <=> l # Nil /\ l.ofac
          /\ l # Nil => l = labels[a]
      BY <1>1, LabelType DEF IInv
    <3>2. Labelled[a] # Nil => labels[a] = Labelled[a]
      BY <1>1 DEF IInv, LabelsKept
    <3>3. m.type = "high_risk" => labels[m.id] # Nil /\ labels[m.id].ofac
      BY <1>6, <3>1
    <3>4. faults' = 0 /\ Labelled[m.id] # Nil /\ Labelled[m.id].ofac => m.type = "high_risk"
      BY <1>6, <1>7, <3>1, <3>2
    <3> QED
      BY <1>2, <1>5, <1>6, <3>3, <3>4
  <2>4. \A x \in DOMAIN nodes' : True(x, nodes'[x], faults')
    BY <1>5, <2>2, <2>3
  <2> QED
    BY <1>0, <2>4 DEF NodesTrue, Address
<1>12. LabelsKept' /\ CountersTrue' /\ Traversal!Led'
  BY <1>0, SameGraph DEF IInv, LabelsKept, CountersTrue
<1> QED
  BY <1>0, <1>8, <1>9, <1>10, <1>11, <1>12, SameEdges DEF IInv

LEMMA IInvStep == IInv /\ [Next]_vars => IInv'
<1> SUFFICES ASSUME IInv, [Next]_vars PROVE IInv'
  OBVIOUS
<1>1. CASE Ping \/ BadRequest \/ GraphRequest \/ PathRequest
  BY <1>1, RequestStep
<1>2. CASE UpdateCounters \/ LabelAddress \/ UNCHANGED vars
  BY <1>2, RedisStep
<1>3. CASE Traverse
  BY <1>3, TraverseStep
<1>4. CASE Panic \/ FetchNodes \/ Respond
  BY <1>4, StageStep
<1>5. ASSUME NEW o \in left, ReadCounter(o) \/ FetchAddress(o) PROVE IInv'
  BY <1>5, ReadCounterStep, FetchAddressStep
<1>6. CASE StartCollapse
  BY <1>6, StartCollapseStep
<1>7. CASE CollapseEdge
  BY <1>7, CollapseEdgeStep
<1>8. CASE FindPaths
  BY <1>8, FindPathsStep
<1> QED
  BY <1>1, <1>2, <1>3, <1>4, <1>5, <1>6, <1>7, <1>8 DEF Next, Handle

-----------------------------------------------------------------------------
(* The amounts.                                                            *)

LEMMA ValuesType ==
  ASSUME NEW r \in Row
  PROVE  /\ Dollars[r] = r.usd /\ r.usd \in Nat
         /\ \A c \in Currency : AmountIn(c)[r] = FlowByCurrency(r)[c] /\ FlowByCurrency(r)[c] \in Nat
BY RowType DEF Dollars, AmountIn, FlowByCurrency

\* The sums of a pair that has one merged edge more.
LEMMA SumsStep ==
  ASSUME IInv, NEW k, NEW r \in Row, r \notin Merged(k)
  PROVE  /\ SumFunctionOnSet(Dollars, Merged(k) \cup {r}) = SumFunctionOnSet(Dollars, Merged(k)) + r.usd
         /\ \A c \in Currency :
              SumFunctionOnSet(AmountIn(c), Merged(k) \cup {r})
                = SumFunctionOnSet(AmountIn(c), Merged(k)) + FlowByCurrency(r)[c]
<1>1. Merged(k) \subseteq Row /\ IsFiniteSet(Merged(k))
  BY MergedFinite DEF Merged, IInv, TypeOK, CollapseTypeOK
<1>2. \A y \in Merged(k) \cup {r} : Dollars[y] \in Nat /\ \A c \in Currency : AmountIn(c)[y] \in Nat
  BY <1>1, ValuesType
<1>3. SumFunctionOnSet(Dollars, Merged(k) \cup {r}) = SumFunctionOnSet(Dollars, Merged(k)) + Dollars[r]
  BY <1>1, <1>2, SumWith
<1>4. ASSUME NEW c \in Currency
      PROVE  SumFunctionOnSet(AmountIn(c), Merged(k) \cup {r})
               = SumFunctionOnSet(AmountIn(c), Merged(k)) + AmountIn(c)[r]
  BY <1>1, <1>2, SumWith
<1> QED
  BY <1>3, <1>4, ValuesType

\* The first edge of its pair, with a map of its own.
LEMMA FirstConserved ==
  ASSUME IInv, Conserved, NEW r \in todo, graph' = graph, todo' = todo \ {r}, MergeFirst(r)
  PROVE  Conserved'
<1>1. /\ Pair(r) \notin DOMAIN collapsed /\ heap' = heap
      /\ DOMAIN collapsed' = DOMAIN collapsed \cup {Pair(r)}
      /\ collapsed'[Pair(r)].usd = r.usd /\ collapsed'[Pair(r)].flow = r
      /\ \A k \in DOMAIN collapsed : collapsed'[k] = collapsed[k]
  BY DEF MergeFirst
<1>2. /\ r \in graph /\ r \in Row /\ heap[r] = FlowByCurrency(r)
      /\ DOMAIN collapsed = {Pair(q) : q \in graph \ todo}
  BY TurnStart DEF IInv, MapsKept
<1>3. \A k : Merged(k)' = IF k = Pair(r) THEN Merged(k) \cup {r} ELSE Merged(k)
  BY <1>2, MergedStep
<1>4. Merged(Pair(r)) = {}
  BY <1>1, <1>2 DEF Merged
<1>5. /\ SumFunctionOnSet(Dollars, Merged(Pair(r))') = r.usd
      /\ \A c \in Currency : SumFunctionOnSet(AmountIn(c), Merged(Pair(r))') = FlowByCurrency(r)[c]
  <2>1. \A g : SumFunctionOnSet(g, {}) = 0
    BY SumStep, FS_EmptySet
  <2>2. Merged(Pair(r))' = Merged(Pair(r)) \cup {r} /\ r \notin Merged(Pair(r))
    BY <1>3, <1>4
  <2>3. /\ r.usd \in Nat /\ \A c \in Currency : FlowByCurrency(r)[c] \in Nat
    BY <1>2, ValuesType
  <2>4. /\ SumFunctionOnSet(Dollars, Merged(Pair(r)) \cup {r})
             = SumFunctionOnSet(Dollars, Merged(Pair(r))) + r.usd
        /\ \A c \in Currency :
             SumFunctionOnSet(AmountIn(c), Merged(Pair(r)) \cup {r})
               = SumFunctionOnSet(AmountIn(c), Merged(Pair(r))) + FlowByCurrency(r)[c]
    BY <1>2, <2>2, SumsStep
  <2>5. /\ SumFunctionOnSet(Dollars, Merged(Pair(r))) = 0
        /\ \A c \in Currency : SumFunctionOnSet(AmountIn(c), Merged(Pair(r))) = 0
    BY <1>4, <2>1
  <2>6. SumFunctionOnSet(Dollars, Merged(Pair(r)) \cup {r}) = r.usd
    BY <2>3, <2>4, <2>5
  <2>7. \A c \in Currency : SumFunctionOnSet(AmountIn(c), Merged(Pair(r)) \cup {r}) = FlowByCurrency(r)[c]
    BY <2>3, <2>4, <2>5
  <2> QED
    BY <2>2, <2>6, <2>7
<1>6. ASSUME NEW k \in DOMAIN collapsed'
      PROVE  /\ collapsed'[k].usd = SumFunctionOnSet(Dollars, Merged(k)')
             /\ \A c \in Currency :
                  heap'[collapsed'[k].flow][c] = SumFunctionOnSet(AmountIn(c), Merged(k)')
  <2>1. CASE k = Pair(r)
    BY <1>1, <1>2, <1>5, <2>1
  <2>2. CASE k # Pair(r)
    <3>1. k \in DOMAIN collapsed /\ collapsed'[k] = collapsed[k] /\ Merged(k)' = Merged(k)
      BY <1>1, <1>3, <2>2
    <3> QED
      BY <1>1, <3>1 DEF Conserved
  <2> QED
    BY <2>1, <2>2
<1> QED
  BY <1>6 DEF Conserved

\* A later one: its amounts go into the map of the first, which only this pair has.
LEMMA LaterConserved ==
  ASSUME IInv, Conserved, NEW r \in todo, graph' = graph, todo' = todo \ {r}, MergeNext(r)
  PROVE  Conserved'
<1> DEFINE first == collapsed[Pair(r)].flow
<1>1. /\ Pair(r) \in DOMAIN collapsed
      /\ DOMAIN collapsed' = DOMAIN collapsed
      /\ \A k \in DOMAIN collapsed : k # Pair(r) => collapsed'[k] = collapsed[k]
  BY DEF MergeNext
<1>2. /\ r \in graph /\ r \in Row /\ heap[r] = FlowByCurrency(r)
      /\ heap \in [graph -> [Currency -> Nat]] /\ DOMAIN heap = graph
      /\ \A k \in DOMAIN collapsed : collapsed[k].flow \in Merged(k) /\ collapsed[k] \in CollapsedEdge
  BY TurnStart DEF IInv, MapsKept, TypeOK, CollapseTypeOK
<1>3. \A k : /\ Merged(k)' = IF k = Pair(r) THEN Merged(k) \cup {r} ELSE Merged(k)
             /\ r \notin Merged(k)
  BY <1>2, MergedStep
<1>4. first \in graph /\ Pair(first) = Pair(r)
  BY <1>1, <1>2 DEF Merged
<1>5. collapsed'[Pair(r)].flow = first /\ collapsed'[Pair(r)].usd = collapsed[Pair(r)].usd + r.usd
  BY <1>1, <1>2 DEF MergeNext, CollapsedEdge
<1>6. /\ \A q \in graph : q # first => heap'[q] = heap[q]
      /\ \A c \in Currency : heap'[first][c] = heap[first][c] + heap[r][c]
  BY <1>2, <1>4 DEF MergeNext
<1> HIDE DEF first
<1>7. ASSUME NEW k \in DOMAIN collapsed'
      PROVE  /\ collapsed'[k].usd = SumFunctionOnSet(Dollars, Merged(k)')
             /\ \A c \in Currency :
                  heap'[collapsed'[k].flow][c] = SumFunctionOnSet(AmountIn(c), Merged(k)')
  <2>1. CASE k = Pair(r)
    <3>1. Merged(k)' = Merged(k) \cup {r} /\ r \notin Merged(k)
      BY <1>3, <2>1
    <3>2. /\ collapsed[k].usd = SumFunctionOnSet(Dollars, Merged(k))
          /\ \A c \in Currency : heap[first][c] = SumFunctionOnSet(AmountIn(c), Merged(k))
      BY <1>1, <2>1 DEF Conserved, first
    <3>3. /\ SumFunctionOnSet(Dollars, Merged(k) \cup {r}) = SumFunctionOnSet(Dollars, Merged(k)) + r.usd
          /\ \A c \in Currency :
               SumFunctionOnSet(AmountIn(c), Merged(k) \cup {r})
                 = SumFunctionOnSet(AmountIn(c), Merged(k)) + FlowByCurrency(r)[c]
      BY <1>2, <3>1, SumsStep
    <3>4. \A c \in Currency : heap'[first][c] = heap[first][c] + FlowByCurrency(r)[c]
      BY <1>2, <1>6
    <3> QED
      BY <1>5, <2>1, <3>1, <3>2, <3>3, <3>4
  <2>2. CASE k # Pair(r)
    <3>1. k \in DOMAIN collapsed /\ collapsed'[k] = collapsed[k] /\ Merged(k)' = Merged(k)
      BY <1>1, <1>3, <2>2
    <3>2. collapsed[k].flow \in graph /\ collapsed[k].flow # first
      BY <1>2, <1>4, <2>2, <3>1 DEF Merged
    <3> QED
      BY <1>6, <3>1, <3>2 DEF Conserved
  <2> QED
    BY <2>1, <2>2
<1> QED
  BY <1>7 DEF Conserved

LEMMA ConservedStep == IInv /\ Conserved /\ [Next]_vars => Conserved'
<1> SUFFICES ASSUME IInv, Conserved, [Next]_vars PROVE Conserved'
  OBVIOUS
<1>1. CASE UNCHANGED edges
  BY <1>1 DEF Conserved, Merged, edges
<1>2. CASE Traverse
  <2>1. UNCHANGED <<heap, collapsed>> /\ collapsed = NoMap
    BY <1>2 DEF Traverse, IInv, Stages, Traversal!Grow, Traversal!Answer
  <2> QED
    BY <2>1 DEF Conserved, NoMap
<1>3. CASE StartCollapse
  BY <1>3 DEF StartCollapse, CollapseTxs, Conserved, NoMap
<1>4. CASE CollapseEdge
  <2>1. PICK r \in todo : Merge(r)
    BY <1>4 DEF CollapseEdge
  <2>2. graph' = graph /\ todo' = todo \ {r} /\ (MergeFirst(r) \/ MergeNext(r))
    BY <1>4, <2>1 DEF CollapseEdge, Merge
  <2> QED
    BY <2>2, FirstConserved, LaterConserved
<1>5. Traverse \/ StartCollapse \/ CollapseEdge \/ UNCHANGED edges
  BY DEF Next, Handle, Ping, BadRequest, GraphRequest, PathRequest, Panic, FetchNodes,
         ReadCounter, FetchAddress, FindPaths, Respond, UpdateCounters, LabelAddress, vars
<1> QED
  BY <1>1, <1>2, <1>3, <1>4, <1>5

-----------------------------------------------------------------------------
(* What an answer tells.                                                   *)

\* A request for paths has been answered: there is one edge for each pair between
\* which there is a row.
LEMMA AnswerEdges ==
  ASSUME IInv, reply = "answer", params.collapse
  PROVE  DOMAIN collapsed = {Pair(r) : r \in graph}
<1>1. DOMAIN heap = graph /\ todo = {}
  BY DEF IInv, Stages
<1>2. CASE graph = {}
  <2>1. collapsed = NoMap
    BY <1>1, <1>2 DEF IInv, Stages
  <2> QED
    BY <1>2, <2>1 DEF NoMap
<1>3. CASE graph # {}
  BY <1>1, <1>3 DEF IInv, MapsKept
<1> QED
  BY <1>2, <1>3

LEMMA KnownFinite == IInv => IsFiniteSet(Traversal!Known)
<1> SUFFICES ASSUME IInv PROVE IsFiniteSet(Traversal!Known)
  OBVIOUS
<1> DEFINE F == [r \in graph |-> r.from]
           T == [r \in graph |-> r.to]
           Payers == {r.from : r \in graph}
           Payees == {r.to : r \in graph}
<1>1. IsFiniteSet(graph)
  BY RowsAssumption, FS_Subset DEF IInv, TypeOK, CollapseTypeOK
<1>2. F \in Surjection(graph, Payers) /\ T \in Surjection(graph, Payees)
  BY DEF Surjection
<1>3. IsFiniteSet(Payers) /\ IsFiniteSet(Payees)
  BY <1>1, <1>2, FS_Surjection
<1>4. IsFiniteSet({Source} \cup Payers)
  BY <1>3, FS_Singleton, FS_Union
<1> QED
  BY <1>3, <1>4, FS_Union DEF Traversal!Known

\* p is a walk along the payments from the source to v that meets no address twice.
Way(p, n, v) ==
  /\ n \in Nat \ {0}
  /\ p \in [1..n -> Traversal!Known]
  /\ p[1] = Source /\ p[n] = v
  /\ \A i, j \in 1..n : p[i] = p[j] => i = j
  /\ \A i \in 1..(n - 1) : <<p[i], p[i + 1]>> \in DOMAIN collapsed

\* A way to the payer of a row is one to the payee, or goes on to it.
LEMMA WayOn ==
  ASSUME NEW p, NEW n, NEW r \in graph, Way(p, n, r.from), Pair(r) \in DOMAIN collapsed
  PROVE  \E q, m : Way(q, m, r.to)
<1>1. r.to \in Traversal!Known
  BY DEF Traversal!Known
<1>2. /\ n \in Nat \ {0} /\ p \in [1..n -> Traversal!Known]
      /\ p[1] = Source /\ p[n] = r.from
      /\ \A i, j \in 1..n : p[i] = p[j] => i = j
      /\ \A i \in 1..(n - 1) : <<p[i], p[i + 1]>> \in DOMAIN collapsed
  BY DEF Way
<1>3. CASE \E m \in 1..n : p[m] = r.to
  <2>1. PICK m \in 1..n : p[m] = r.to
    BY <1>3
  <2> DEFINE q == [i \in 1..m |-> p[i]]
  <2>2. m \in Nat \ {0} /\ q \in [1..m -> Traversal!Known] /\ q[1] = Source /\ q[m] = r.to
    BY <1>2, <2>1
  <2>3. \A i, j \in 1..m : q[i] = q[j] => i = j
    BY <1>2, <2>1
  <2>4. \A i \in 1..(m - 1) : <<q[i], q[i + 1]>> \in DOMAIN collapsed
    BY <1>2, <2>1
  <2> QED
    BY <2>2, <2>3, <2>4 DEF Way
<1>4. CASE \A m \in 1..n : p[m] # r.to
  <2> DEFINE q == [i \in 1..(n + 1) |-> IF i = n + 1 THEN r.to ELSE p[i]]
  <2>1. n + 1 \in Nat \ {0} /\ n + 1 \in 1..(n + 1) /\ 1 \in 1..n
    BY <1>2
  <2>2. \A i \in 1..n : i \in 1..(n + 1) /\ i # n + 1 /\ q[i] = p[i]
    BY <1>2
  <2>3. \A i \in 1..(n + 1) : i \in 1..n \/ i = n + 1
    BY <1>2
  <2>4. q[n + 1] = r.to
    BY <2>1
  <2>5. q \in [1..(n + 1) -> Traversal!Known] /\ q[1] = Source
    BY <1>1, <1>2, <2>1, <2>2, <2>3
  <2>6. \A i, j \in 1..(n + 1) : q[i] = q[j] => i = j
    BY <1>2, <1>4, <2>2, <2>3, <2>4
  <2>7. ASSUME NEW i \in 1..((n + 1) - 1) PROVE <<q[i], q[i + 1]>> \in DOMAIN collapsed
    <3>1. CASE i = n
      <4>1. q[n] = r.from /\ q[i + 1] = r.to
        BY <1>2, <2>2, <2>4, <3>1
      <4>2. <<r.from, r.to>> \in DOMAIN collapsed
        BY DEF Pair
      <4> HIDE DEF q
      <4> QED
        BY <3>1, <4>1, <4>2
    <3>2. CASE i # n
      <4>1. i \in 1..(n - 1) /\ i \in 1..n /\ i + 1 \in 1..n
        BY <1>2, <3>2
      <4> QED
        BY <1>2, <2>2, <4>1
    <3> QED
      BY <3>1, <3>2
  <2> HIDE DEF q
  <2> QED
    BY <2>1, <2>4, <2>5, <2>6, <2>7 DEF Way
<1> QED
  BY <1>3, <1>4

\* A way is no longer than there are addresses: it is one of the walks.
LEMMA WayIsPath ==
  ASSUME IInv, NEW p, NEW n, Way(p, n, params.target)
  PROVE  p \in AllPathsBetween /\ Forward(p)
<1>1. /\ n \in Nat \ {0} /\ p \in [1..n -> Traversal!Known]
      /\ p[1] = Source /\ p[n] = params.target
      /\ \A i, j \in 1..n : p[i] = p[j] => i = j
      /\ \A i \in 1..(n - 1) : <<p[i], p[i + 1]>> \in DOMAIN collapsed
  BY DEF Way
<1>2. IsFiniteSet(Traversal!Known) /\ Cardinality(Traversal!Known) \in Nat
  BY KnownFinite, FS_CardinalityType
<1>3. n <= Cardinality(Traversal!Known)
  <2> SUFFICES ASSUME Cardinality(Traversal!Known) < n PROVE FALSE
    BY <1>1, <1>2
  <2>1. IsFiniteSet(1..n) /\ Cardinality(1..n) = n
    <3>1. 1 \in Int /\ n \in Int /\ ~(1 > n) /\ n - 1 + 1 = n
      BY <1>1
    <3> QED
      BY <3>1, FS_Interval
  <2>2. \E i, j \in 1..n : i # j /\ p[i] = p[j]
    BY <1>1, <1>2, <2>1, FS_PigeonHole
  <2> QED
    BY <1>1, <2>2
<1>4. p \in UNION {[1..m -> Vertices] : m \in 1..Cardinality(Vertices)}
  <2>1. IsFiniteSet(Vertices) /\ Cardinality(Traversal!Known) <= Cardinality(Vertices)
    <3>1. IsFiniteSet(Vertices)
      BY <1>2, FS_AddElement DEF Vertices
    <3> QED
      BY <3>1, FS_Subset DEF Vertices
  <2>2. n \in 1..Cardinality(Vertices)
    BY <1>1, <1>2, <1>3, <2>1, FS_CardinalityType
  <2>3. p \in [1..n -> Vertices]
    BY <1>1 DEF Vertices
  <2> QED
    BY <2>2, <2>3
<1>5. Len(p) = n /\ DOMAIN p = 1..n
  <2>1. p \in Seq(Traversal!Known)
    BY <1>1
  <2> QED
    BY <1>1, <2>1
<1>6. \A i \in 1..(n - 1) : p[i + 1] \in Neighbours[p[i]]
  <2> SUFFICES ASSUME NEW i \in 1..(n - 1) PROVE p[i + 1] \in Neighbours[p[i]]
    OBVIOUS
  <2>1. p[i] \in Vertices /\ p[i + 1] \in Traversal!Known
    BY <1>1 DEF Vertices
  <2> QED
    BY <1>1, <2>1 DEF Neighbours, Joined
<1> QED
  BY <1>1, <1>4, <1>5, <1>6, PathsDef DEF Forward

LEMMA IInvPathsTell == IInv => PathsTell
<1> SUFFICES ASSUME IInv, reply = "answer", params.route = "paths", ~timedOut
             PROVE  IF params.target \in Traversal!Known
                      THEN \E p \in paths : Forward(p) ELSE paths = {}
  BY DEF PathsTell
<1>1. paths = AllPathsBetween /\ params.collapse = TRUE /\ params.flow = "output"
  BY DEF IInv, PathsKept, Stages, Asked
<1>2. DOMAIN collapsed = {Pair(r) : r \in graph}
  BY <1>1, AnswerEdges
<1>3. CASE params.target \in Traversal!Known
  <2> DEFINE S == {v \in Traversal!Known : \E p, n : Way(p, n, v)}
  <2>1. Source \in S
    <3>1. Source \in Traversal!Known
      BY DEF Traversal!Known
    <3>2. Way([i \in 1..1 |-> Source], 1, Source)
      BY <3>1 DEF Way
    <3> QED
      BY <3>1, <3>2
  <2>2. Traversal!Closed(S)
    <3> SUFFICES ASSUME NEW r \in graph, r.from \in S PROVE r.to \in S
      BY <1>1 DEF Traversal!Closed
    <3>1. PICK p, n : Way(p, n, r.from)
      OBVIOUS
    <3>2. \E q, m : Way(q, m, r.to)
      BY <1>2, <3>1, WayOn
    <3>3. r.to \in Traversal!Known
      BY DEF Traversal!Known
    <3> QED
      BY <3>2, <3>3
  <2>3. S = Traversal!Known
    <3>1. S \in SUBSET Traversal!Known
      OBVIOUS
    <3> HIDE DEF S
    <3> QED
      BY <2>1, <2>2, <3>1 DEF IInv, Traversal!Led
  <2>4. PICK p, n : Way(p, n, params.target)
    BY <1>3, <2>3
  <2> QED
    BY <1>1, <1>3, <2>4, WayIsPath
<1>4. CASE params.target \notin Traversal!Known
  <2> SUFFICES ASSUME NEW p \in AllPathsBetween PROVE FALSE
    BY <1>1, <1>4
  <2> DEFINE i == Len(p) - 1
  <2>1. /\ p \in Seq(Vertices) /\ Len(p) \in Nat /\ Len(p) > 0
        /\ p[1] = Source /\ p[Len(p)] = params.target
        /\ \A j \in 1..(Len(p) - 1) : p[j + 1] \in Neighbours[p[j]]
    BY PathShape
  <2>2. CASE Len(p) = 1
    BY <1>4, <2>1, <2>2 DEF Traversal!Known
  <2>3. CASE Len(p) # 1
    <3>1. \A n \in Nat : n > 0 /\ n # 1 => n - 1 \in 1..(n - 1) /\ n - 1 \in 1..n /\ n - 1 + 1 = n
      OBVIOUS
    <3>2. i \in 1..(Len(p) - 1) /\ i \in 1..Len(p) /\ i + 1 = Len(p)
      BY <2>1, <2>3, <3>1
    <3>3. p[i + 1] \in Neighbours[p[i]] /\ p[i] \in Vertices
      BY <2>1, <3>2
    <3>4. Neighbours[p[i]] \subseteq Traversal!Known
      BY <3>3 DEF Neighbours
    <3> HIDE DEF i
    <3> QED
      BY <1>4, <2>1, <3>2, <3>3, <3>4
  <2> QED
    BY <2>2, <2>3
<1> QED
  BY <1>3, <1>4

\* The nodes of an answer have the addresses of the places they were made for.
LEMMA IInvAnswerWhole == IInv => AnswerWhole
<1> SUFFICES ASSUME IInv, reply = "answer" PROVE AnswerWhole
  BY DEF AnswerWhole
<1> DEFINE ids == {nodes[o].id : o \in DOMAIN nodes}
<1>1. left = {} /\ todo = {} /\ DOMAIN nodes = Expected
  BY DEF IInv, Stages, PlacesKept
<1>2. ids = {Address(o) : o \in Expected}
  BY <1>1 DEF IInv, NodesTrue
<1>3. ASSUME params.route = "graph" PROVE ids = AllEnds
  <2>1. ids = UNION {Range(s) : s \in {<<a>> : a \in AllEnds}}
    BY <1>2, <1>3, PlacesRange DEF Expected
  <2>2. \A a : Range(<<a>>) = {a}
    BY DEF Range
  <2>3. UNION {Range(s) : s \in {<<a>> : a \in AllEnds}} = AllEnds
    <3>1. \A s \in {<<a>> : a \in AllEnds} : \E a \in AllEnds : Range(s) = {a}
      BY <2>2
    <3>2. \A a \in AllEnds : {a} \in {Range(s) : s \in {<<b>> : b \in AllEnds}}
      BY <2>2
    <3>3. ASSUME NEW x \in UNION {Range(s) : s \in {<<a>> : a \in AllEnds}}
          PROVE  x \in AllEnds
      <4>1. PICK R \in {Range(s) : s \in {<<a>> : a \in AllEnds}} : x \in R
        BY Zenon
      <4>2. PICK s \in {<<a>> : a \in AllEnds} : R = Range(s)
        BY Zenon
      <4> QED
        BY <3>1, <4>1, <4>2
    <3>4. ASSUME NEW x \in AllEnds
          PROVE  x \in UNION {Range(s) : s \in {<<a>> : a \in AllEnds}}
      <4>1. {x} \in {Range(s) : s \in {<<b>> : b \in AllEnds}} /\ x \in {x}
        BY <3>2
      <4> QED
        BY <4>1, Zenon
    <3> QED
      BY <3>3, <3>4, Zenon
  <2> QED
    BY <2>1, <2>3
<1>4. ASSUME params.route = "paths"
      PROVE  ids = IF paths = {} THEN {Source, params.target} ELSE UNION {Range(p) : p \in paths}
  <2>1. ids = {Address(o) : o \in Shown(paths)}
    BY <1>2, <1>4 DEF Expected
  <2>2. CASE paths = {}
    <3>1. ids = UNION {Range(p) : p \in {<<Source, params.target>>}}
      BY <2>1, <2>2, PlacesRange DEF Shown
    <3>2. Range(<<Source, params.target>>) = {Source, params.target}
      BY DEF Range
    <3>3. {Range(p) : p \in {<<Source, params.target>>}} = {{Source, params.target}}
      BY <3>2
    <3> QED
      BY <2>2, <3>1, <3>3
  <2>3. CASE paths # {}
    BY <2>1, <2>3, PlacesRange DEF Shown
  <2> QED
    BY <2>2, <2>3
<1>5. params.collapse => DOMAIN collapsed = {Pair(r) : r \in graph}
  BY AnswerEdges
<1> QED
  BY <1>1, <1>3, <1>4, <1>5 DEF AnswerWhole

-----------------------------------------------------------------------------
LEMMA ApiInvariant == Spec => []IInv
BY IInvInit, IInvStep, PTL DEF Spec

\* The state of a request and of Redis stays well-formed: what the traversal, the
\* collapsing of the edges and the reads of the nodes make of it.
THEOREM ApiTypes == Spec => []TypeOK
<1>1. IInv => TypeOK
  BY DEF IInv
<1> QED
  BY <1>1, ApiInvariant, PTL

\* CollapseTxs adds the amounts of a pair in the map of one edge of that pair, and
\* leaves every other map alone, whatever the order of the edges.
THEOREM ApiMapsKept == Spec => []MapsKept
<1>1. IInv => MapsKept
  BY DEF IInv
<1> QED
  BY <1>1, ApiInvariant, PTL

\* CollapseTxs neither loses nor doubles an amount, whatever the order of the
\* edges: a collapsed edge has the sums of its pair.
THEOREM ApiConserved == Spec => []Conserved
<1>1. Init => Conserved
  BY DEF Init, Conserved, NoMap
<1> QED
  BY <1>1, ApiInvariant, ConservedStep, PTL DEF Spec

\* An answer has a node for each address in it and no other, and, when the edges
\* are collapsed, one edge for each pair.
THEOREM ApiAnswerWhole == Spec => []AnswerWhole
BY IInvAnswerWhole, ApiInvariant, PTL

\* A node says of its address what Redis has said since the request came.
THEOREM ApiNodesTrue == Spec => []NodesTrue
<1>1. IInv => NodesTrue
  BY DEF IInv
<1> QED
  BY <1>1, ApiInvariant, PTL

\* An answer about paths has a path along the payments when there is one, and none
\* when the payments do not lead to the target, unless the clock has run out.
THEOREM ApiPathsTell == Spec => []PathsTell
BY IInvPathsTell, ApiInvariant, PTL

\* The graph that the path handler gives to AllPathsBetween is one that AllPaths takes:
\* finitely many vertices, neighbours among them, and both addresses, even where the
\* traversal has not come to the target.
LEMMA AllPathsTakesIt ==
  IInv => /\ IsFiniteSet(Vertices)
          /\ Neighbours \in [Vertices -> SUBSET Vertices]
          /\ Source \in Vertices /\ params.target \in Vertices
<1>1. IInv => IsFiniteSet(Vertices)
  BY KnownFinite, FS_AddElement DEF Vertices
<1> QED
  BY <1>1 DEF Neighbours, Vertices, Traversal!Known

-----------------------------------------------------------------------------
(* The handler ends.  What is ahead of it are two natural numbers, of which  *)
(* each of its steps lowers the first, or the second alone.                  *)

Before(m, n) == m[1] < n[1] \/ (m[1] = n[1] /\ m[2] < n[2])

\* The stages still to come, and what is left to be done in this one: rows that the
\* traversal may find, nodes to be made, edges to be collapsed.  The edges of a graph
\* are collapsed after its nodes are made, those of paths before.
Ahead ==
  CASE pc = "running" -> <<4, Cardinality(Row \ graph)>>
    [] pc = "answered" -> <<3, 0>>
    [] pc = "nodes" -> <<IF params.route = "graph" THEN 2 ELSE 1,
                         Cardinality(left) + Cardinality(left \ DOMAIN counter)>>
    [] pc = "collapse" -> <<IF params.route = "graph" THEN 1 ELSE 2, Cardinality(todo)>>
    [] OTHER -> <<0, 0>>

\* From one finite set to another there are finitely many functions.
LEMMA FunctionsFinite ==
  ASSUME NEW S, IsFiniteSet(S), NEW T, IsFiniteSet(T)
  PROVE  IsFiniteSet([S -> T])
<1> DEFINE F == [S -> T]
           g == [f \in F |-> {<<x, f[x]>> : x \in S}]
<1>1. IsFiniteSet(SUBSET (S \X T))
  BY FS_Product, FS_SUBSET
<1>2. ASSUME NEW f \in F PROVE g[f] \in SUBSET (S \X T)
  OBVIOUS
<1>3. ASSUME NEW f \in F, NEW h \in F, g[f] = g[h] PROVE f = h
  <2>1. ASSUME NEW x \in S PROVE f[x] = h[x]
    <3>1. <<x, f[x]>> \in {<<y, h[y]>> : y \in S}
      BY <1>3
    <3> QED
      BY <3>1
  <2> QED
    BY <2>1
<1>4. g \in [F -> SUBSET (S \X T)]
  BY <1>2
<1> HIDE DEF g, F
<1>5. g \in Injection(F, SUBSET (S \X T))
  BY <1>3, <1>4 DEF Injection, IsInjective
<1>6. IsFiniteSet(F)
  BY <1>1, <1>5, FS_Injection
<1> QED
  BY <1>6 DEF F

\* A part of a finite set has fewer elements than the set.
LEMMA Smaller ==
  ASSUME NEW S, IsFiniteSet(S), NEW T \in SUBSET S, T # S
  PROVE  Cardinality(T) < Cardinality(S)
<1>1. /\ Cardinality(T) <= Cardinality(S)
      /\ Cardinality(S) = Cardinality(T) => S = T
      /\ IsFiniteSet(T)
  BY FS_Subset
<1>2. Cardinality(T) \in Nat /\ Cardinality(S) \in Nat
  BY <1>1, FS_CardinalityType
<1> QED
  BY <1>1, <1>2

\* A finite union of finite sets.
LEMMA UnionFinite ==
  ASSUME NEW S, IsFiniteSet(S), NEW g, DOMAIN g = S, g \in [S -> Range(g)],
         \A x \in S : IsFiniteSet(g[x])
  PROVE  IsFiniteSet(UNION {g[x] : x \in S})
<1> DEFINE T == {g[x] : x \in S}
<1>1. g \in Surjection(S, T)
  BY DEF Surjection
<1>2. \A t \in T : IsFiniteSet(t)
  OBVIOUS
<1> HIDE DEF T
<1>3. IsFiniteSet(T)
  BY <1>1, FS_Surjection
<1>4. IsFiniteSet(UNION T)
  BY <1>2, <1>3, FS_UNION
<1> QED
  BY <1>4 DEF T

\* The places in finitely many finite sequences.
LEMMA PlacesFinite ==
  ASSUME NEW P, IsFiniteSet(P), \A p \in P : IsFiniteSet(DOMAIN p)
  PROVE  IsFiniteSet(Places(P))
<1>1. ASSUME NEW p \in P PROVE IsFiniteSet({<<p, i>> : i \in DOMAIN p})
  <2> DEFINE D == DOMAIN p
             T == {<<p, i>> : i \in D}
             g == [i \in D |-> <<p, i>>]
  <2>1. g \in Surjection(D, T) /\ IsFiniteSet(D)
    BY DEF Surjection
  <2> HIDE DEF g, T, D
  <2>2. IsFiniteSet(T)
    BY <2>1, FS_Surjection
  <2> QED
    BY <2>2 DEF T, D
<1> DEFINE f == [p \in P |-> {<<p, i>> : i \in DOMAIN p}]
<1>2. DOMAIN f = P /\ f \in [P -> Range(f)]
  BY DEF Range
<1>3. \A p \in P : f[p] = {<<p, i>> : i \in DOMAIN p}
  OBVIOUS
<1> HIDE DEF f
<1>4. IsFiniteSet(UNION {f[p] : p \in P})
  BY <1>1, <1>2, <1>3, UnionFinite
<1>5. ASSUME NEW p \in P PROVE f[p] = {<<p, i>> : i \in DOMAIN p}
  BY <1>3
<1>6. {f[p] : p \in P} = {{<<p, i>> : i \in DOMAIN p} : p \in P}
  <2>1. ASSUME NEW s \in {f[p] : p \in P} PROVE s \in {{<<p, i>> : i \in DOMAIN p} : p \in P}
    <3>1. PICK p \in P : s = f[p]
      OBVIOUS
    <3>2. s = {<<p, i>> : i \in DOMAIN p}
      BY <1>5, <3>1
    <3> QED
      BY <3>2, Zenon
  <2>2. ASSUME NEW s \in {{<<p, i>> : i \in DOMAIN p} : p \in P} PROVE s \in {f[p] : p \in P}
    <3>1. PICK p \in P : s = {<<p, i>> : i \in DOMAIN p}
      BY Zenon
    <3>2. s = f[p]
      BY <1>5, <3>1
    <3> QED
      BY <3>2, Zenon
  <2> QED
    BY <2>1, <2>2, Zenon
<1> QED
  BY <1>4, <1>6, Zenon DEF Places

\* Between two addresses there are finitely many paths.
LEMMA AllPathsFinite == IInv => IsFiniteSet(AllPathsBetween)
<1> SUFFICES ASSUME IInv PROVE IsFiniteSet(AllPathsBetween)
  OBVIOUS
<1> DEFINE N == 1..Cardinality(Vertices)
           f == [n \in N |-> [1..n -> Vertices]]
           W == UNION {[1..n -> Vertices] : n \in N}
<1>1. IsFiniteSet(Vertices) /\ Cardinality(Vertices) \in Nat
  BY KnownFinite, FS_AddElement, FS_CardinalityType DEF Vertices
<1>2. IsFiniteSet(N)
  BY <1>1, FS_Interval
<1>3. ASSUME NEW n \in N PROVE IsFiniteSet([1..n -> Vertices])
  <2>1. IsFiniteSet(1..n)
    BY <1>1, FS_Interval
  <2> QED
    BY <1>1, <2>1, FunctionsFinite
<1>4. DOMAIN f = N /\ f \in [N -> Range(f)] /\ \A n \in N : f[n] = [1..n -> Vertices]
  BY DEF Range
<1>5. AllPathsBetween \subseteq W
  BY PathsDef
<1> HIDE DEF f, N
<1>6. IsFiniteSet(UNION {f[n] : n \in N})
  BY <1>2, <1>3, <1>4, UnionFinite
<1> QED
  BY <1>4, <1>5, <1>6, FS_Subset

\* A graph has finitely many addresses.
LEMMA EndsFinite == IInv => IsFiniteSet(AllEnds)
BY KnownFinite, FS_Subset DEF AllEnds, Traversal!Known

\* The places that the answer is to have nodes for are finitely many.
LEMMA ExpectedFinite ==
  ASSUME IInv, IsFiniteSet(paths), \A p \in paths : p \in Seq(Addr)
  PROVE  IsFiniteSet(Expected)
<1>1. CASE params.route = "graph"
  <2> DEFINE f == [a \in AllEnds |-> <<a>>]
             P == {<<a>> : a \in AllEnds}
  <2>1. f \in Surjection(AllEnds, P)
    BY DEF Surjection
  <2>2. \A p \in P : DOMAIN p = {1}
    OBVIOUS
  <2> HIDE DEF f, P
  <2>3. IsFiniteSet(P)
    BY <2>1, EndsFinite, FS_Surjection
  <2>4. IsFiniteSet({1})
    BY FS_Singleton
  <2>5. IsFiniteSet(Places(P))
    BY <2>2, <2>3, <2>4, PlacesFinite
  <2> QED
    BY <1>1, <2>5 DEF Expected, P
<1>2. CASE params.route # "graph"
  <2> DEFINE P == IF paths = {} THEN {<<Source, params.target>>} ELSE paths
  <2>1. IsFiniteSet(P)
    BY FS_Singleton
  <2>2. ASSUME NEW p \in P PROVE IsFiniteSet(DOMAIN p)
    <3>1. DOMAIN p = 1..Len(p) /\ Len(p) \in Nat
      <4>1. CASE paths = {}
        <5>1. p = <<Source, params.target>>
          BY <4>1
        <5> QED
          BY <5>1
      <4>2. CASE paths # {}
        BY <4>2
      <4> QED
        BY <4>1, <4>2
    <3>2. IsFiniteSet(1..Len(p))
      BY <3>1, FS_Interval
    <3> QED
      BY <3>1, <3>2
  <2>3. Expected = Places(P)
    BY <1>2 DEF Expected, Shown
  <2> HIDE DEF P
  <2> QED
    BY <2>1, <2>2, <2>3, PlacesFinite
<1> QED
  BY <1>1, <1>2

LEMMA PathsFinite == IInv /\ IsFiniteSet(paths) /\ [Next]_vars => IsFiniteSet(paths')
<1> SUFFICES ASSUME IInv, IsFiniteSet(paths), [Next]_vars PROVE IsFiniteSet(paths')
  OBVIOUS
<1>1. CASE FindPaths
  <2>1. paths' = {} \/ paths' = AllPathsBetween
    BY <1>1 DEF FindPaths
  <2>2. IsFiniteSet(AllPathsBetween)
    BY AllPathsFinite
  <2> QED
    BY <2>1, <2>2, FS_EmptySet
<1>2. CASE ~FindPaths
  <2>1. paths' = paths
    BY <1>2 DEF Next, Handle, vars, search, Ping, BadRequest, GraphRequest, PathRequest, Traverse,
                Panic, FetchNodes, ReadCounter, FetchAddress, StartCollapse, CollapseEdge, Respond,
                UpdateCounters, LabelAddress
  <2> QED
    BY <2>1
<1> QED
  BY <1>1, <1>2

\* What is counted is finite.
LEMMA AheadParts ==
  ASSUME IInv, IsFiniteSet(paths)
  PROVE  /\ IsFiniteSet(Row \ graph) /\ IsFiniteSet(todo)
         /\ pc = "nodes" => IsFiniteSet(left) /\ IsFiniteSet(left \ DOMAIN counter)
<1>1. IsFiniteSet(Row \ graph) /\ IsFiniteSet(todo)
  BY RowsAssumption, FS_Subset DEF IInv, TypeOK, CollapseTypeOK
<1>2. ASSUME pc = "nodes" PROVE IsFiniteSet(left) /\ IsFiniteSet(left \ DOMAIN counter)
  <2>1. left \subseteq Expected /\ \A p \in paths : p \in Seq(Addr)
    BY <1>2 DEF IInv, PlacesKept, TypeOK
  <2> QED
    BY <2>1, ExpectedFinite, FS_Subset
<1> QED
  BY <1>1, <1>2

LEMMA AheadType == IInv /\ IsFiniteSet(paths) => Ahead \in Nat \X Nat
<1> SUFFICES ASSUME IInv, IsFiniteSet(paths) PROVE Ahead \in Nat \X Nat
  OBVIOUS
<1>1. /\ Cardinality(Row \ graph) \in Nat /\ Cardinality(todo) \in Nat
      /\ pc = "nodes" => Cardinality(left) \in Nat /\ Cardinality(left \ DOMAIN counter) \in Nat
  BY AheadParts, FS_CardinalityType
<1>2. CASE pc = "nodes"
  <2>1. Ahead = <<IF params.route = "graph" THEN 2 ELSE 1,
                  Cardinality(left) + Cardinality(left \ DOMAIN counter)>>
    BY <1>2 DEF Ahead
  <2>2. Cardinality(left) + Cardinality(left \ DOMAIN counter) \in Nat
    BY <1>1, <1>2
  <2> QED
    BY <2>1, <2>2
<1>3. CASE pc # "nodes"
  BY <1>1, <1>3 DEF Ahead
<1> QED
  BY <1>2, <1>3

LEMMA HandleLowers ==
  ASSUME IInv, IsFiniteSet(paths), Handle
  PROVE  UNCHANGED vars \/ Before(Ahead', Ahead)
<1>1. CASE Traverse
  <2>1. CASE Traversal!Answer
    BY <1>1, <2>1 DEF Traverse, Traversal!Answer, Ahead, Before
  <2>2. CASE Traversal!Grow
    <3>1. /\ pc = "running" /\ pc' = "running" /\ graph \subseteq graph' /\ graph' \subseteq Row
      <4>1. pc = "running" /\ pc' = "running"
        BY <2>2 DEF Traversal!Grow
      <4>2. PICK a \in Traversal!Known :
              \E R \in SUBSET {r \in Row : Traversal!Follows(r, a)} : graph' = graph \cup R
        BY <2>2 DEF Traversal!Grow
      <4>3. PICK R \in SUBSET {r \in Row : Traversal!Follows(r, a)} : graph' = graph \cup R
        BY <4>2
      <4> QED
        BY <4>1, <4>3 DEF IInv, TypeOK, CollapseTypeOK
    <3>2. CASE graph' = graph
      <4>1. UNCHANGED vars
        BY <1>1, <2>2, <3>1, <3>2 DEF Traverse, Traversal!Grow, vars, edges
      <4> QED
        BY <4>1
    <3>3. CASE graph' # graph
      <4>1. IsFiniteSet(Row \ graph) /\ Row \ graph' \subseteq Row \ graph /\ Row \ graph' # Row \ graph
        BY <3>1, <3>3, AheadParts DEF IInv, TypeOK, CollapseTypeOK
      <4>2. Cardinality(Row \ graph') < Cardinality(Row \ graph)
        BY <4>1, Smaller
      <4> QED
        BY <3>1, <4>2 DEF Ahead, Before
    <3> QED
      BY <3>2, <3>3
  <2> QED
    BY <1>1, <2>1, <2>2 DEF Traverse
<1>2. CASE Panic
  <2>1. pc \in {"running", "nodes"} /\ pc' = "crashed"
    BY <1>2 DEF Panic
  <2> QED
    BY <2>1 DEF Ahead, Before
<1>3. CASE FetchNodes
  BY <1>3 DEF FetchNodes, Ahead, Before
<1>4. CASE \E o \in left : ReadCounter(o) \/ FetchAddress(o)
  <2>1. PICK o \in left : ReadCounter(o) \/ FetchAddress(o)
    BY <1>4
  <2>2. /\ pc = "nodes" /\ pc' = "nodes" /\ params' = params
        /\ Cardinality(left) \in Nat /\ Cardinality(left \ DOMAIN counter) \in Nat
        /\ IsFiniteSet(left) /\ IsFiniteSet(left \ DOMAIN counter)
    BY <2>1, AheadParts, FS_CardinalityType DEF ReadCounter, FetchAddress
  <2>3. CASE ReadCounter(o)
    <3>1. left' = left /\ DOMAIN counter = {} /\ DOMAIN counter' = {o}
      BY <2>3 DEF ReadCounter
    <3>2. /\ left' \ DOMAIN counter' \subseteq left \ DOMAIN counter
          /\ left' \ DOMAIN counter' # left \ DOMAIN counter
      BY <3>1
    <3>3. Cardinality(left' \ DOMAIN counter') < Cardinality(left \ DOMAIN counter)
      BY <2>2, <3>2, Smaller
    <3>4. Cardinality(left' \ DOMAIN counter') \in Nat
      BY <2>2, <3>2, FS_Subset, FS_CardinalityType
    <3> QED
      BY <2>2, <3>1, <3>3, <3>4 DEF Ahead, Before
  <2>4. CASE FetchAddress(o)
    <3>1. DOMAIN counter = {o} /\ DOMAIN counter' = {} /\ left' = left \ {o}
      BY <2>4 DEF FetchAddress, NoMap, IInv, CountersTrue
    <3>2. left' \ DOMAIN counter' = left \ DOMAIN counter
      BY <3>1
    <3>3. Cardinality(left') < Cardinality(left)
      BY <2>2, <3>1, Smaller
    <3>4. Cardinality(left') \in Nat
      BY <2>2, <3>1, FS_Subset, FS_CardinalityType
    <3> QED
      BY <2>2, <3>2, <3>3, <3>4 DEF Ahead, Before
  <2> QED
    BY <2>1, <2>3, <2>4
<1>5. CASE StartCollapse
  BY <1>5 DEF StartCollapse, Ahead, Before
<1>6. CASE CollapseEdge
  <2>1. PICK r \in todo : todo' = todo \ {r}
    BY <1>6 DEF CollapseEdge, Merge
  <2>2. pc = "collapse" /\ pc' = "collapse" /\ params' = params
    BY <1>6 DEF CollapseEdge
  <2>3. Cardinality(todo') < Cardinality(todo)
    BY <2>1, AheadParts, Smaller
  <2> QED
    BY <2>2, <2>3 DEF Ahead, Before
<1>7. CASE FindPaths
  BY <1>7 DEF FindPaths, Ahead, Before
<1>8. CASE Respond
  BY <1>8 DEF Respond, Reply, Ahead, Before
<1> QED
  BY <1>1, <1>2, <1>3, <1>4, <1>5, <1>6, <1>7, <1>8 DEF Handle

\* What changes in Redis in the meantime does not set a handler back.
LEMMA OthersKeep ==
  ASSUME pc # "idle", Next, ~Handle
  PROVE  Ahead' = Ahead
<1>1. UNCHANGED <<pc, graph, todo, left, counter, params>>
  BY DEF Next, Ping, BadRequest, GraphRequest, PathRequest, UpdateCounters, LabelAddress, edges
<1> QED
  BY <1>1 DEF Ahead

\* A request that has been taken on comes to its end: each step of its handler lowers
\* what is ahead, and no change of Redis raises it.
THEOREM ApiAdvances ==
  Spec => /\ [](Ahead \in Nat \X Nat)
          /\ [][pc # "idle" => IF Handle THEN Before(Ahead', Ahead) ELSE Ahead' = Ahead]_vars
<1> DEFINE J == IInv /\ IsFiniteSet(paths)
<1>1. Init => J
  BY IInvInit, FS_EmptySet DEF Init
<1>2. J /\ [Next]_vars => J'
  BY IInvStep, PathsFinite
<1>3. J => Ahead \in Nat \X Nat
  BY AheadType
<1>4. J /\ [Next]_vars => [pc # "idle" => IF Handle THEN Before(Ahead', Ahead) ELSE Ahead' = Ahead]_vars
  BY HandleLowers, OthersKeep
<1> QED
  BY <1>1, <1>2, <1>3, <1>4, PTL DEF Spec

=============================================================================
