----------------------------- MODULE Exploration -----------------------------
(***************************************************************************)
(* What a traversal promises: a graph that grows from the source, each row *)
(* attached to an address that the graph already holds, in the direction   *)
(* that was asked for; and then an answer, or none.                        *)
(***************************************************************************)
EXTENDS TLAPS

CONSTANTS
  Row,       \* the rows that may be found
  Source

VARIABLES
  flow,      \* "output": from payer to payee; "input": the reverse; "all": both
  graph,     \* the rows found so far
  status     \* "running", "answered" or "failed"

vars == <<flow, graph, status>>

\* The addresses in the graph.
Known == {Source} \cup {r.from : r \in graph} \cup {r.to : r \in graph}

\* The row r leads on from the address a.
Follows(r, a) == \/ flow # "input" /\ r.from = a
                 \/ flow # "output" /\ r.to = a

Init == flow \in {"input", "output", "all"} /\ graph = {} /\ status = "running"

Grow == /\ status = "running"
        /\ \E a \in Known : \E R \in SUBSET {r \in Row : Follows(r, a)} :
              graph' = graph \cup R
        /\ UNCHANGED <<flow, status>>

Answer == status = "running" /\ status' = "answered" /\ UNCHANGED <<flow, graph>>

Fail == status = "running" /\ status' = "failed" /\ UNCHANGED <<flow, graph>>

Next == Grow \/ Answer \/ Fail

Spec == Init /\ [][Next]_vars

-----------------------------------------------------------------------------
\* No row of the graph leads out of S.
Closed(S) ==
  \A r \in graph : /\ (flow # "input" /\ r.from \in S) => r.to \in S
                   /\ (flow # "output" /\ r.to \in S) => r.from \in S

\* Every address in the graph is led to from the source, in the direction asked
\* for: no smaller set of addresses has the source and is left by no row.
Led == \A S \in SUBSET Known : Source \in S /\ Closed(S) => S = Known

\* Rows that lead on from an address that is led to lead to their other ends.
LEMMA GrowLed == Led /\ Grow => Led'
<1> SUFFICES ASSUME Led, Grow PROVE Led'
  OBVIOUS
<1>0. PICK a \in Known : \E R \in SUBSET {r \in Row : Follows(r, a)} : graph' = graph \cup R
  BY DEF Grow
<1>1. PICK R \in SUBSET {r \in Row : Follows(r, a)} : graph' = graph \cup R
  BY <1>0
<1>2. flow' = flow
  BY DEF Grow
<1> SUFFICES ASSUME NEW S \in SUBSET Known', Source \in S, Closed(S)'
             PROVE  S = Known'
  BY <1>2 DEF Led
<1>3. Known \subseteq S
  <2> DEFINE T == S \cap Known
  <2>0. graph \subseteq graph'
    BY <1>1
  <2>1. Closed(T)
    BY <2>0, <1>2 DEF Known, Closed
  <2>2. T \in SUBSET Known /\ Source \in T
    BY DEF Known
  <2> HIDE DEF T
  <2>3. T = Known
    BY <2>1, <2>2 DEF Led
  <2> QED
    BY <2>3 DEF T
<1>4. ASSUME NEW r \in R PROVE r.from \in S /\ r.to \in S
  <2>1. a \in S /\ r \in graph' /\ Follows(r, a)
    BY <1>1, <1>3
  <2> QED
    BY <2>1, <1>2 DEF Follows, Closed
<1> QED
  BY <1>1, <1>3, <1>4 DEF Known

\* What grows in the direction asked for is led to in that direction.
THEOREM ExplorationLed == Spec => []Led
<1>1. Init => Led
  BY DEF Init, Led, Known
<1>2. Led /\ UNCHANGED <<flow, graph>> => Led'
  BY DEF Led, Known, Closed
<1>3. Led /\ [Next]_vars => Led'
  BY <1>2, GrowLed DEF Next, Answer, Fail, vars
<1> QED
  BY <1>1, <1>3, PTL DEF Spec

=============================================================================
