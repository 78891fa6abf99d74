--------------------------- MODULE AllPathsProofs ---------------------------
(***************************************************************************)
(* The two-stack enumeration is correct on every finite graph: it records  *)
(* simple paths only, none twice, and all of them when it returns.         *)
(***************************************************************************)
EXTENDS AllPaths, FiniteSetTheorems, SequenceTheorems, TLAPS

\* The top of a stack is spelt out everywhere below.
USE DEF Top

-----------------------------------------------------------------------------
(* Sequences as stacks.                                                    *)

\* What Append does, position by position.
LEMMA PushProps ==
  ASSUME NEW S, NEW s \in Seq(S), NEW x \in S
  PROVE  /\ Append(s, x) \in Seq(S)
         /\ Len(Append(s, x)) = Len(s) + 1
         /\ \A i \in 1..Len(s) : Append(s, x)[i] = s[i]
         /\ Append(s, x)[Len(s) + 1] = x
         /\ Elements(Append(s, x)) = Elements(s) \cup {x}
<1>1. /\ Append(s, x) \in Seq(S)
      /\ Len(Append(s, x)) = Len(s) + 1
      /\ \A i \in 1..Len(s) : Append(s, x)[i] = s[i]
      /\ Append(s, x)[Len(s) + 1] = x
      /\ DOMAIN Append(s, x) = 1..(Len(s) + 1)
      /\ DOMAIN s = 1..Len(s)
      /\ Len(s) \in Nat
  OBVIOUS
<1> DEFINE t == Append(s, x)
<1>2. 1..(Len(s) + 1) = 1..Len(s) \cup {Len(s) + 1}
  BY <1>1
<1> HIDE DEF t
<1>3. Elements(t) = Elements(s) \cup {x}
  BY <1>1, <1>2 DEF Elements, t
<1> QED
  BY <1>1, <1>3 DEF t

\* What popping does, position by position.
LEMMA PopProps ==
  ASSUME NEW S, NEW s \in Seq(S), s # <<>>
  PROVE  /\ Front(s) \in Seq(S)
         /\ Len(s) \in Nat /\ Len(s) > 0
         /\ Len(Front(s)) = Len(s) - 1
         /\ \A i \in 1..(Len(s) - 1) : Front(s)[i] = s[i]
<1> DEFINE n == Len(s) - 1
<1>1. Len(s) \in Nat /\ Len(s) > 0 /\ n \in Nat /\ n - 1 + 1 = n
  OBVIOUS
<1>2. 1 \in Int /\ n \in Int /\ \A i \in 1..n : s[i] \in S
  BY <1>1
<1>3. Front(s) = SubSeq(s, 1, n)
  BY DEF Front
<1> HIDE DEF n
<1>4. /\ Front(s) \in Seq(S)
      /\ Len(Front(s)) = IF 1 <= n THEN n - 1 + 1 ELSE 0
      /\ \A i \in 1..(n - 1 + 1) : Front(s)[i] = s[1 + i - 1]
  BY <1>2, <1>3, SubSeqProperties
<1>5. Len(Front(s)) = n
  BY <1>1, <1>4
<1>6. \A i \in 1..n : Front(s)[i] = s[i]
  <2> TAKE i \in 1..n
  <2>1. i \in 1..(n - 1 + 1) /\ 1 + i - 1 = i
    BY <1>1
  <2> QED
    BY <1>4, <2>1
<1> QED
  BY <1>1, <1>4, <1>5, <1>6 DEF n

\* The simple walks from Start, wherever they end.
SimpleWalks == {p \in Walks : IsWalk(p)}

\* A simple walk is a sequence of vertices.
LEMMA WalkProps ==
  ASSUME NEW p \in SimpleWalks
  PROVE  p \in Seq(Node) /\ Len(p) \in Nat /\ Len(p) > 0 /\ IsWalk(p)
<1>1. PICK n \in 1..Cardinality(Node) : p \in [1..n -> Node]
  BY DEF SimpleWalks, Walks
<1>2. Cardinality(Node) \in Nat
  BY NodeAssumption, FS_CardinalityType
<1>3. n \in Nat /\ n > 0 /\ p \in Seq(Node) /\ Len(p) = n
  BY <1>1, <1>2
<1> QED
  BY <1>3 DEF SimpleWalks

\* A simple path is a simple walk that ends at End.
LEMMA PathProps ==
  ASSUME NEW p \in Paths
  PROVE  p \in SimpleWalks /\ p[Len(p)] = End
  BY DEF Paths, IsPath, SimpleWalks

\* A simple walk is no longer than the graph is large.
LEMMA WalkBound ==
  ASSUME NEW s \in Seq(Node), IsWalk(s)
  PROVE  Len(s) <= Cardinality(Node)
<1>1. Cardinality(Node) \in Nat /\ Len(s) \in Nat
  BY NodeAssumption, FS_CardinalityType
<1>2. SUFFICES ASSUME Cardinality(Node) < Len(s) PROVE FALSE
  BY <1>1
<1>3. IsFiniteSet(1..Len(s)) /\ Cardinality(1..Len(s)) = Len(s)
  <2>1. 1 \in Int /\ Len(s) \in Int /\ ~(1 > Len(s)) /\ Len(s) - 1 + 1 = Len(s)
    BY <1>1, <1>2
  <2> QED
    BY <2>1, FS_Interval
<1>4. s \in [1..Len(s) -> Node]
  OBVIOUS
<1>5. \E x, y \in 1..Len(s) : x # y /\ s[x] = s[y]
  BY <1>2, <1>3, <1>4, NodeAssumption, FS_PigeonHole
<1> QED
  BY <1>5 DEF IsWalk

\* A non-empty simple walk is one of them, and if it ends at End one of the paths.
LEMMA WalkIsPath ==
  ASSUME NEW s \in Seq(Node), s # <<>>, IsWalk(s)
  PROVE  s \in SimpleWalks /\ (s[Len(s)] = End => s \in Paths)
<1>1. Len(s) \in 1..Cardinality(Node)
  BY WalkBound, NodeAssumption, FS_CardinalityType
<1>2. s \in [1..Len(s) -> Node]
  OBVIOUS
<1>3. s \in Walks
  BY <1>1, <1>2 DEF Walks
<1> QED
  BY <1>1, <1>3 DEF SimpleWalks, Paths, IsPath

-----------------------------------------------------------------------------
Types ==
  /\ mainStack \in Seq(Node)
  /\ viceStack \in Seq(SUBSET Node)
  /\ allPaths \in Seq(Seq(Node))
  /\ cnt \in 0..(CheckEvery - 1)
  /\ pc \in {"loop", "stack", "done", "timeout"}

\* The inductive invariant.  Accounted alone is not inductive: that a path is
\* not promised twice by the stacks rests on StackShape.
IInv == Types /\ StackShape /\ Accounted /\ PathsSound

\* The stacks are as the loop left them.
LEMMA QuietStep ==
  ASSUME IInv, UNCHANGED <<mainStack, viceStack, allPaths>>,
         cnt' \in 0..(CheckEvery - 1),
         pc' \in {"loop", "stack", "done", "timeout"},
         pc' = "stack" => mainStack # <<>>, pc' = "done" => mainStack = <<>>
  PROVE  IInv'
<1>1. Types'
  BY DEF IInv, Types
<1>2. StackShape'
  BY DEF IInv, StackShape, IsWalk
<1>3. Accounted'
  BY DEF IInv, Accounted, Promised
<1>4. PathsSound'
  BY DEF IInv, PathsSound
<1> QED
  BY <1>1, <1>2, <1>3, <1>4 DEF IInv

LEMMA TickType == ASSUME IInv, Tick PROVE cnt' \in 0..(CheckEvery - 1)
  BY CheckAssumption DEF IInv, Types, Tick

-----------------------------------------------------------------------------
(* buildLayer.                                                             *)

LEMMA BuildLayerProps ==
  ASSUME IInv, BuildLayer
  PROVE  \E e \in Node, n \in Nat \ {0} :
           /\ n = Len(mainStack) /\ n = Len(viceStack)
           /\ e \in viceStack[n] /\ e \in Adj[mainStack[n]]
           /\ e \notin Elements(mainStack)
           /\ mainStack' \in Seq(Node) /\ Len(mainStack') = n + 1
           /\ \A i \in 1..n : mainStack'[i] = mainStack[i]
           /\ mainStack'[n + 1] = e
           /\ viceStack' \in Seq(SUBSET Node) /\ Len(viceStack') = n + 1
           /\ \A i \in 1..(n - 1) : viceStack'[i] = viceStack[i]
           /\ viceStack'[n] = viceStack[n] \ {e}
           /\ viceStack'[n + 1] = Adj[e] \ (Elements(mainStack) \cup {e})
<1> DEFINE n == Len(mainStack)
<1>1. /\ mainStack \in Seq(Node) /\ viceStack \in Seq(SUBSET Node)
      /\ mainStack # <<>> /\ Len(viceStack) = n
      /\ n \in Nat \ {0}
  BY DEF IInv, Types, StackShape, BuildLayer
<1>2. PICK e \in viceStack[n] :
        /\ mainStack' = Append(mainStack, e)
        /\ viceStack' = Append([viceStack EXCEPT ![n] = viceStack[n] \ {e}],
                               Layer(Append(mainStack, e)))
  BY <1>1 DEF BuildLayer
<1>3. viceStack[n] \subseteq Node
  BY <1>1
<1>4. e \in Node /\ e \in Adj[mainStack[n]]
  BY <1>1, <1>2, <1>3 DEF IInv, StackShape
<1>5. e \notin Elements(mainStack)
  <2>1. \A j \in 1..n : mainStack[j] \notin viceStack[n]
    BY <1>1 DEF IInv, StackShape
  <2>2. DOMAIN mainStack = 1..n
    BY <1>1
  <2> QED
    BY <1>2, <2>1, <2>2 DEF Elements
<1>6. /\ mainStack' \in Seq(Node) /\ Len(mainStack') = n + 1
      /\ \A i \in 1..n : mainStack'[i] = mainStack[i]
      /\ mainStack'[n + 1] = e
      /\ Elements(mainStack') = Elements(mainStack) \cup {e}
  BY <1>1, <1>2, <1>4, PushProps
<1> DEFINE w == [viceStack EXCEPT ![n] = viceStack[n] \ {e}]
           l == Adj[e] \ (Elements(mainStack) \cup {e})
<1>7. Layer(Append(mainStack, e)) = l
  BY <1>2, <1>6 DEF Layer
<1>8. l \in SUBSET Node
  BY <1>4, AdjAssumption
<1>9. /\ w \in Seq(SUBSET Node) /\ Len(w) = n
      /\ \A i \in 1..(n - 1) : w[i] = viceStack[i]
      /\ w[n] = viceStack[n] \ {e}
  BY <1>1, <1>3
<1>10. viceStack' = Append(w, l)
  BY <1>2, <1>7
<1> HIDE DEF w, l, n
<1>11. /\ viceStack' \in Seq(SUBSET Node) /\ Len(viceStack') = n + 1
       /\ \A i \in 1..n : viceStack'[i] = w[i]
       /\ viceStack'[n + 1] = l
  BY <1>8, <1>9, <1>10, PushProps
<1>12. \A i \in 1..(n - 1) : viceStack'[i] = viceStack[i]
  BY <1>1, <1>9, <1>11
<1>13. viceStack'[n] = viceStack[n] \ {e}
  BY <1>1, <1>9, <1>11
<1> QED
  BY <1>1, <1>2, <1>4, <1>5, <1>6, <1>11, <1>12, <1>13 DEF n, l

\* The walk grows by a neighbour that is not on it, so the stacks keep their shape.
LEMMA BuildLayerShape ==
  ASSUME IInv, BuildLayer
  PROVE  StackShape'
<1>1. PICK e \in Node, n \in Nat \ {0} :
           /\ n = Len(mainStack) /\ n = Len(viceStack)
           /\ e \in viceStack[n] /\ e \in Adj[mainStack[n]]
           /\ e \notin Elements(mainStack)
           /\ mainStack' \in Seq(Node) /\ Len(mainStack') = n + 1
           /\ \A i \in 1..n : mainStack'[i] = mainStack[i]
           /\ mainStack'[n + 1] = e
           /\ viceStack' \in Seq(SUBSET Node) /\ Len(viceStack') = n + 1
           /\ \A i \in 1..(n - 1) : viceStack'[i] = viceStack[i]
           /\ viceStack'[n] = viceStack[n] \ {e}
           /\ viceStack'[n + 1] = Adj[e] \ (Elements(mainStack) \cup {e})
  BY BuildLayerProps
<1>2. /\ IsWalk(mainStack)
      /\ \A i \in 1..n : viceStack[i] \subseteq Adj[mainStack[i]]
      /\ \A i \in 1..n : \A j \in 1..i : mainStack[j] \notin viceStack[i]
      /\ \A i \in 1..(n - 1) : mainStack[i + 1] \notin viceStack[i]
  BY <1>1 DEF IInv, StackShape
<1>3. \A i \in 1..n : mainStack[i] \in Elements(mainStack)
  <2>1. DOMAIN mainStack = 1..n
    BY <1>1, LenProperties DEF IInv, Types
  <2> QED
    BY <2>1, Zenon DEF Elements
<1>4. IsWalk(mainStack)'
  <2>1. mainStack'[1] = Start
    BY <1>1, <1>2 DEF IsWalk
  <2>2. \A i \in 1..n : mainStack'[i + 1] \in Adj[mainStack'[i]]
    <3> TAKE i \in 1..n
    <3>1. CASE i = n
      BY <1>1, <3>1
    <3>2. CASE i # n
      <4>1. i \in 1..(n - 1) /\ i + 1 \in 1..n
        BY <1>1, <3>2
      <4> QED
        BY <1>1, <1>2, <4>1 DEF IsWalk
    <3> QED
      BY <3>1, <3>2
  <2>3. \A i, j \in 1..(n + 1) : mainStack'[i] = mainStack'[j] => i = j
    <3>1. \A i \in 1..n : mainStack'[i] # e
      BY <1>1, <1>3
    <3>2. \A i, j \in 1..n : mainStack'[i] = mainStack'[j] => i = j
      BY <1>1, <1>2 DEF IsWalk
    <3>3. 1..(n + 1) = 1..n \cup {n + 1}
      OBVIOUS
    <3> QED
      BY <1>1, <3>1, <3>2, <3>3
  <2> QED
    BY <1>1, <2>1, <2>2, <2>3 DEF IsWalk
<1>5. \A i \in 1..(n + 1) : i \in 1..(n - 1) \/ i = n \/ i = n + 1
  BY <1>1
<1>6. \A i \in 1..(n + 1) : viceStack'[i] \subseteq Adj[mainStack'[i]]
  BY <1>1, <1>2, <1>5
<1>7. \A i \in 1..(n + 1) : \A j \in 1..i : mainStack'[j] \notin viceStack'[i]
  <2> TAKE i \in 1..(n + 1)
  <2> TAKE j \in 1..i
  <2>1. CASE i = n + 1
    BY <1>1, <1>3, <2>1
  <2>2. CASE i # n + 1
    <3>1. i \in 1..n /\ j \in 1..n /\ viceStack'[i] \subseteq viceStack[i]
      BY <1>1, <1>5, <2>2
    <3> QED
      BY <1>1, <1>2, <3>1
  <2> QED
    BY <2>1, <2>2
<1>8. \A i \in 1..n : mainStack'[i + 1] \notin viceStack'[i]
  <2> TAKE i \in 1..n
  <2>1. CASE i = n
    BY <1>1, <2>1
  <2>2. CASE i # n
    <3>1. i \in 1..(n - 1) /\ i + 1 \in 1..n
      BY <1>1, <2>2
    <3> QED
      BY <1>1, <1>2, <3>1
  <2> QED
    BY <2>1, <2>2
<1>9. pc' = "stack" /\ mainStack' # <<>>
  BY <1>1 DEF BuildLayer
<1> QED
  BY <1>1, <1>4, <1>6, <1>7, <1>8, <1>9 DEF StackShape

\* Moving a neighbour from the vice stack to the main stack changes neither
\* the walks that are promised nor those that are not.
LEMMA BuildLayerPromised ==
  ASSUME IInv, BuildLayer, NEW p \in SimpleWalks
  PROVE  Promised(p)' <=> Promised(p)
<1>1. PICK e \in Node, n \in Nat \ {0} :
           /\ n = Len(mainStack) /\ n = Len(viceStack)
           /\ e \in viceStack[n] /\ e \in Adj[mainStack[n]]
           /\ e \notin Elements(mainStack)
           /\ mainStack' \in Seq(Node) /\ Len(mainStack') = n + 1
           /\ \A i \in 1..n : mainStack'[i] = mainStack[i]
           /\ mainStack'[n + 1] = e
           /\ viceStack' \in Seq(SUBSET Node) /\ Len(viceStack') = n + 1
           /\ \A i \in 1..(n - 1) : viceStack'[i] = viceStack[i]
           /\ viceStack'[n] = viceStack[n] \ {e}
           /\ viceStack'[n + 1] = Adj[e] \ (Elements(mainStack) \cup {e})
  BY BuildLayerProps
<1>2. p \in Seq(Node) /\ Len(p) \in Nat /\ Len(p) > 0 /\ IsWalk(p)
  BY WalkProps
<1>3. ASSUME Promised(p) PROVE Promised(p)'
  <2>1. PICK i \in 1..n : /\ i <= Len(p)
                          /\ \A j \in 1..i : p[j] = mainStack[j]
                          /\ Len(p) = i \/ p[i + 1] \in viceStack[i]
    BY <1>1, <1>3 DEF Promised
  <2>2. \A j \in 1..i : p[j] = mainStack'[j]
    BY <1>1, <2>1
  <2>3. CASE Len(p) = i \/ p[i + 1] \in viceStack'[i]
    BY <1>1, <2>1, <2>2, <2>3 DEF Promised
  <2>4. CASE Len(p) # i /\ p[i + 1] \notin viceStack'[i]
    <3>1. i = n /\ p[n + 1] = e /\ n + 1 <= Len(p)
      BY <1>1, <1>2, <2>1, <2>4
    <3>2. \A j \in 1..(n + 1) : p[j] = mainStack'[j]
      BY <1>1, <2>2, <3>1
    <3>3. Len(p) = n + 1 \/ p[n + 1 + 1] \in viceStack'[n + 1]
      <4>1. SUFFICES ASSUME Len(p) # n + 1 PROVE p[n + 1 + 1] \in viceStack'[n + 1]
        OBVIOUS
      <4>2. n + 1 \in 1..(Len(p) - 1) /\ n + 1 + 1 \in 1..Len(p)
        BY <1>1, <1>2, <3>1, <4>1
      <4>3. p[n + 1 + 1] \in Adj[e]
        BY <1>2, <3>1, <4>2 DEF IsWalk
      <4>4. \A j \in 1..(n + 1) : p[n + 1 + 1] # p[j]
        BY <1>1, <1>2, <4>2 DEF IsWalk
      <4>5. p[n + 1 + 1] # e
        BY <3>1, <4>4
      <4>6. p[n + 1 + 1] \notin Elements(mainStack)
        <5>1. \A j \in 1..n : p[n + 1 + 1] # mainStack[j]
          BY <1>1, <2>1, <3>1, <4>4
        <5>2. DOMAIN mainStack = 1..n
          BY <1>1, LenProperties DEF IInv, Types
        <5> QED
          BY <5>1, <5>2 DEF Elements
      <4> QED
        BY <1>1, <4>3, <4>5, <4>6
    <3>4. n + 1 \in 1..Len(mainStack')
      BY <1>1
    <3> QED
      BY <3>1, <3>2, <3>3, <3>4 DEF Promised
  <2> QED
    BY <2>3, <2>4
<1>4. ASSUME Promised(p)' PROVE Promised(p)
  <2>1. PICK i \in 1..(n + 1) : /\ i <= Len(p)
                                /\ \A j \in 1..i : p[j] = mainStack'[j]
                                /\ Len(p) = i \/ p[i + 1] \in viceStack'[i]
    BY <1>1, <1>4 DEF Promised
  <2>2. CASE i = n + 1
    <3>1. n <= Len(p) /\ p[n + 1] \in viceStack[n] /\ n \in 1..Len(mainStack)
      BY <1>1, <1>2, <2>1, <2>2
    <3>2. \A j \in 1..n : p[j] = mainStack[j]
      BY <1>1, <2>1, <2>2
    <3> QED
      BY <3>1, <3>2 DEF Promised
  <2>3. CASE i # n + 1
    <3>1. i \in 1..n /\ viceStack'[i] \subseteq viceStack[i]
      BY <1>1, <2>3
    <3>2. \A j \in 1..i : p[j] = mainStack[j]
      BY <1>1, <2>1, <3>1
    <3> QED
      BY <1>1, <2>1, <3>1, <3>2 DEF Promised
  <2> QED
    BY <2>2, <2>3
<1> QED
  BY <1>3, <1>4

\* buildLayer keeps the invariant.
LEMMA BuildLayerStep ==
  ASSUME IInv, BuildLayer
  PROVE  IInv'
<1>1. UNCHANGED <<allPaths, cnt, pc>>
  BY DEF BuildLayer
<1>2. Types'
  BY <1>1, BuildLayerProps DEF IInv, Types
<1>3. Accounted'
  BY <1>1, BuildLayerPromised, PathProps DEF IInv, Accounted
<1>4. PathsSound'
  BY <1>1 DEF IInv, PathsSound
<1> QED
  BY <1>2, <1>3, <1>4, BuildLayerShape DEF IInv

-----------------------------------------------------------------------------
(* removeLayer.                                                            *)

LEMMA RemoveLayerProps ==
  ASSUME IInv, RemoveLayer
  PROVE  \E n \in Nat \ {0} :
           /\ mainStack \in Seq(Node) /\ mainStack # <<>>
           /\ n = Len(mainStack) /\ n = Len(viceStack) /\ viceStack[n] = {}
           /\ mainStack' \in Seq(Node) /\ Len(mainStack') = n - 1
           /\ \A i \in 1..(n - 1) : mainStack'[i] = mainStack[i]
           /\ viceStack' \in Seq(SUBSET Node) /\ Len(viceStack') = n - 1
           /\ \A i \in 1..(n - 1) : viceStack'[i] = viceStack[i]
           /\ pc' = "loop" /\ cnt' \in 0..(CheckEvery - 1)
<1>1. /\ mainStack \in Seq(Node) /\ viceStack \in Seq(SUBSET Node)
      /\ mainStack # <<>> /\ Len(viceStack) = Len(mainStack)
      /\ Len(mainStack) \in Nat \ {0} /\ viceStack # <<>>
  BY DEF IInv, Types, StackShape, RemoveLayer
<1>2. /\ mainStack' = Front(mainStack) /\ viceStack' = Front(viceStack)
      /\ viceStack[Len(mainStack)] = {} /\ pc' = "loop"
  BY <1>1 DEF RemoveLayer
<1>3. /\ mainStack' \in Seq(Node) /\ Len(mainStack') = Len(mainStack) - 1
      /\ \A i \in 1..(Len(mainStack) - 1) : mainStack'[i] = mainStack[i]
  BY <1>1, <1>2, PopProps
<1>4. /\ viceStack' \in Seq(SUBSET Node) /\ Len(viceStack') = Len(mainStack) - 1
      /\ \A i \in 1..(Len(mainStack) - 1) : viceStack'[i] = viceStack[i]
  BY <1>1, <1>2, PopProps
<1>5. cnt' \in 0..(CheckEvery - 1)
  BY TickType DEF RemoveLayer
<1> QED
  BY <1>1, <1>2, <1>3, <1>4, <1>5

\* What is left of the stacks has the shape of stacks.
LEMMA RemoveLayerShape ==
  ASSUME IInv, RemoveLayer
  PROVE  StackShape'
<1>1. PICK n \in Nat \ {0} :
           /\ mainStack \in Seq(Node) /\ mainStack # <<>>
           /\ n = Len(mainStack) /\ n = Len(viceStack) /\ viceStack[n] = {}
           /\ mainStack' \in Seq(Node) /\ Len(mainStack') = n - 1
           /\ \A i \in 1..(n - 1) : mainStack'[i] = mainStack[i]
           /\ viceStack' \in Seq(SUBSET Node) /\ Len(viceStack') = n - 1
           /\ \A i \in 1..(n - 1) : viceStack'[i] = viceStack[i]
           /\ pc' = "loop" /\ cnt' \in 0..(CheckEvery - 1)
  BY RemoveLayerProps
<1>2. /\ IsWalk(mainStack)
      /\ \A i \in 1..n : viceStack[i] \subseteq Adj[mainStack[i]]
      /\ \A i \in 1..n : \A j \in 1..i : mainStack[j] \notin viceStack[i]
      /\ \A i \in 1..(n - 1) : mainStack[i + 1] \notin viceStack[i]
  BY <1>1 DEF IInv, StackShape
<1>3. \A i \in 1..(n - 1) : i \in 1..n /\ i + 1 \in 1..n
  BY <1>1
<1>4. \A i \in 1..(n - 1 - 1) : i \in 1..(n - 1) /\ i + 1 \in 1..(n - 1)
  BY <1>1
<1>5. IsWalk(mainStack)'
  <2>1. n - 1 > 0 => mainStack'[1] = Start
    <3>1. mainStack[1] = Start
      BY <1>1, <1>2 DEF IsWalk
    <3>2. n - 1 > 0 => 1 \in 1..(n - 1)
      BY <1>1
    <3>3. \A i \in 1..(n - 1) : mainStack'[i] = mainStack[i]
      BY <1>1
    <3> QED
      BY <3>1, <3>2, <3>3, Zenon
  <2>2. \A i \in 1..(n - 1 - 1) : mainStack'[i + 1] \in Adj[mainStack'[i]]
    BY <1>1, <1>2, <1>4 DEF IsWalk
  <2>3. \A i, j \in 1..(n - 1) : mainStack'[i] = mainStack'[j] => i = j
    BY <1>1, <1>2, <1>3 DEF IsWalk
  <2> QED
    BY <1>1, <2>1, <2>2, <2>3 DEF IsWalk
<1>6. \A i \in 1..(n - 1) : viceStack'[i] \subseteq Adj[mainStack'[i]]
  BY <1>1, <1>2, <1>3
<1>7. \A i \in 1..(n - 1) : \A j \in 1..i : mainStack'[j] \notin viceStack'[i]
  BY <1>1, <1>2, <1>3
<1>8. \A i \in 1..(n - 1 - 1) : mainStack'[i + 1] \notin viceStack'[i]
  BY <1>1, <1>2, <1>4
<1> QED
  BY <1>1, <1>5, <1>6, <1>7, <1>8 DEF StackShape

\* The stacks give up exactly one promise, that of the walk they held.
LEMMA RemoveLayerPromised ==
  ASSUME IInv, RemoveLayer, NEW p \in SimpleWalks
  PROVE  Promised(p)' <=> Promised(p) /\ p # mainStack
<1>1. PICK n \in Nat \ {0} :
           /\ mainStack \in Seq(Node) /\ mainStack # <<>>
           /\ n = Len(mainStack) /\ n = Len(viceStack) /\ viceStack[n] = {}
           /\ mainStack' \in Seq(Node) /\ Len(mainStack') = n - 1
           /\ \A i \in 1..(n - 1) : mainStack'[i] = mainStack[i]
           /\ viceStack' \in Seq(SUBSET Node) /\ Len(viceStack') = n - 1
           /\ \A i \in 1..(n - 1) : viceStack'[i] = viceStack[i]
           /\ pc' = "loop" /\ cnt' \in 0..(CheckEvery - 1)
  BY RemoveLayerProps
<1>2. p \in Seq(Node) /\ Len(p) \in Nat
  BY WalkProps
<1>3. ASSUME Promised(p), p # mainStack PROVE Promised(p)'
  <2>1. PICK i \in 1..n : /\ i <= Len(p)
                          /\ \A j \in 1..i : p[j] = mainStack[j]
                          /\ Len(p) = i \/ p[i + 1] \in viceStack[i]
    BY <1>1, <1>3 DEF Promised
  <2>2. i # n
    <3>1. SUFFICES ASSUME i = n PROVE FALSE
      OBVIOUS
    <3>2. Len(p) = n
      BY <1>1, <2>1, <3>1
    <3> QED
      BY <1>1, <1>2, <1>3, <2>1, <3>1, <3>2, SeqEqual
  <2>3. i \in 1..(n - 1) /\ \A j \in 1..i : j \in 1..(n - 1)
    BY <1>1, <2>2
  <2> QED
    BY <1>1, <2>1, <2>3 DEF Promised
<1>4. ASSUME Promised(p)' PROVE Promised(p) /\ p # mainStack
  <2>1. PICK i \in 1..(n - 1) : /\ i <= Len(p)
                                /\ \A j \in 1..i : p[j] = mainStack'[j]
                                /\ Len(p) = i \/ p[i + 1] \in viceStack'[i]
    BY <1>1, <1>4 DEF Promised
  <2>2. i \in 1..n /\ i < n /\ \A j \in 1..i : j \in 1..(n - 1)
    BY <1>1
  <2>3. mainStack[i + 1] \notin viceStack[i]
    BY <1>1 DEF IInv, StackShape
  <2>4. /\ \A j \in 1..i : p[j] = mainStack[j]
        /\ Len(p) = i \/ p[i + 1] \in viceStack[i]
    BY <1>1, <2>1, <2>2
  <2>5. Promised(p)
    BY <1>1, <2>1, <2>2, <2>4 DEF Promised
  <2>6. p # mainStack
    <3>1. SUFFICES ASSUME p = mainStack PROVE FALSE
      OBVIOUS
    <3>2. n = Len(mainStack) /\ i < n /\ i \in Nat
      BY <1>1, <2>2
    <3>3. Len(p) = n
      BY <3>1, <3>2, Zenon
    <3>4. Len(p) # i
      BY <3>2, <3>3
    <3> QED
      BY <2>3, <2>4, <3>1, <3>4
  <2> QED
    BY <2>5, <2>6
<1> QED
  BY <1>3, <1>4

\* The path that removeLayer records is one of the paths, still promised, and
\* so not recorded before.
LEMMA RecordedOnce ==
  ASSUME IInv, RemoveLayer, mainStack[Len(mainStack)] = End
  PROVE  mainStack \in Paths /\ mainStack \notin Elements(allPaths)
<1>1. /\ mainStack \in Seq(Node) /\ mainStack # <<>> /\ IsWalk(mainStack)
      /\ Len(mainStack) \in 1..Len(mainStack)
  BY DEF IInv, Types, StackShape, RemoveLayer
<1>2. mainStack \in Paths
  BY <1>1, WalkIsPath
<1>3. Promised(mainStack)
  BY <1>1 DEF Promised
<1> QED
  BY <1>2, <1>3 DEF IInv, Accounted

\* removeLayer keeps the invariant.
LEMMA RemoveLayerStep ==
  ASSUME IInv, RemoveLayer
  PROVE  IInv'
<1>1. /\ allPaths \in Seq(Seq(Node)) /\ mainStack \in Seq(Node)
  BY DEF IInv, Types
<1>2. CASE mainStack[Len(mainStack)] = End
  <2>1. allPaths' = Append(allPaths, mainStack)
    BY <1>2 DEF RemoveLayer
  <2>2. /\ allPaths' \in Seq(Seq(Node))
        /\ Len(allPaths') = Len(allPaths) + 1
        /\ \A i \in 1..Len(allPaths) : allPaths'[i] = allPaths[i]
        /\ allPaths'[Len(allPaths) + 1] = mainStack
        /\ Elements(allPaths') = Elements(allPaths) \cup {mainStack}
    BY <1>1, <2>1, PushProps
  <2>3. Types'
    BY <2>2, RemoveLayerProps DEF IInv, Types
  <2>4. Accounted'
    <3>1. \A p \in Paths : p \in Elements(allPaths) <=> ~Promised(p)
      BY DEF IInv, Accounted
    <3>2. \A p \in Paths : Promised(p)' <=> Promised(p) /\ p # mainStack
      BY RemoveLayerPromised, PathProps
    <3>3. \A p \in Paths : p \in Elements(allPaths') <=> ~(Promised(p)')
      BY <2>2, <3>1, <3>2
    <3> QED
      BY <3>3 DEF Accounted, Elements, Promised, Paths, Walks, IsPath, IsWalk
  <2>5. PathsSound'
    <3> DEFINE m == Len(allPaths)
    <3>1. m \in Nat /\ DOMAIN allPaths = 1..m /\ DOMAIN allPaths' = 1..(m + 1)
      BY <1>1, <2>2
    <3>2. \A k \in 1..(m + 1) : k \in 1..m \/ k = m + 1
      BY <3>1
    <3>3. IsPath(mainStack)
      BY <1>2, RecordedOnce DEF Paths
    <3>4. \A k \in 1..(m + 1) : IsPath(allPaths'[k])
      <4> TAKE k \in 1..(m + 1)
      <4>1. CASE k \in 1..m
        BY <2>2, <3>1, <4>1 DEF IInv, PathsSound
      <4>2. CASE k = m + 1
        BY <2>2, <3>3, <4>2
      <4> QED
        BY <3>2, <4>1, <4>2
    <3>5. \A k \in 1..m : allPaths[k] \in Elements(allPaths)
      BY <3>1 DEF Elements
    <3>6. \A k \in 1..m : allPaths[k] # mainStack
      BY <1>2, <3>5, RecordedOnce
    <3>7. \A k, l \in 1..m : allPaths[k] = allPaths[l] => k = l
      BY <3>1 DEF IInv, PathsSound
    <3>8. \A k, l \in 1..(m + 1) : allPaths'[k] = allPaths'[l] => k = l
      BY <2>2, <3>2, <3>6, <3>7
    <3>9. \A k \in DOMAIN allPaths' : IsPath(allPaths'[k])
      BY <3>1, <3>4
    <3>10. \A k, l \in DOMAIN allPaths' : allPaths'[k] = allPaths'[l] => k = l
      BY <3>1, <3>8
    <3> QED
      BY <3>9, <3>10 DEF PathsSound, IsPath, IsWalk
  <2> QED
    BY <2>3, <2>4, <2>5, RemoveLayerShape DEF IInv
<1>3. CASE mainStack[Len(mainStack)] # End
  <2>1. allPaths' = allPaths
    BY <1>3 DEF RemoveLayer
  <2>2. Types'
    BY <2>1, RemoveLayerProps DEF IInv, Types
  <2>3. \A p \in Paths : p # mainStack
    BY <1>3, PathProps
  <2>4. Accounted'
    BY <2>1, <2>3, RemoveLayerPromised, PathProps DEF IInv, Accounted
  <2>5. PathsSound'
    BY <2>1 DEF IInv, PathsSound
  <2> QED
    BY <2>2, <2>4, <2>5, RemoveLayerShape DEF IInv
<1> QED
  BY <1>2, <1>3

-----------------------------------------------------------------------------
(* The invariant of every execution.                                       *)

LEMMA IInvInit == Init => IInv
<1> SUFFICES ASSUME Init PROVE IInv
  OBVIOUS
<1>1. /\ mainStack \in Seq(Node) /\ Len(mainStack) = 1 /\ mainStack[1] = Start
      /\ Elements(mainStack) = {Start}
  BY EndsAssumption DEF Init, Elements
<1>2. /\ viceStack = <<Adj[Start] \ {Start}>>
      /\ Adj[Start] \in SUBSET Node
      /\ allPaths = <<>> /\ cnt = 0 /\ pc = "loop"
  BY <1>1, EndsAssumption, AdjAssumption DEF Init, Layer
<1>3. viceStack \in Seq(SUBSET Node) /\ Len(viceStack) = 1 /\ viceStack[1] = Adj[Start] \ {Start}
  BY <1>2
<1>4. allPaths \in Seq(Seq(Node)) /\ DOMAIN allPaths = {}
  BY <1>2
<1>5. Types
  BY <1>1, <1>2, <1>3, <1>4, CheckAssumption DEF Types
<1>6. StackShape
  BY <1>1, <1>2, <1>3 DEF StackShape, IsWalk
<1>7. PathsSound
  BY <1>4 DEF PathsSound
<1>8. ASSUME NEW p \in Paths PROVE Promised(p)
  <2>1. p \in Seq(Node) /\ Len(p) \in Nat /\ Len(p) > 0 /\ IsWalk(p)
    BY PathProps, WalkProps
  <2>2. p[1] = Start
    BY <2>1 DEF IsWalk
  <2>3. Len(p) = 1 \/ p[2] \in Adj[Start] \ {Start}
    <3>1. SUFFICES ASSUME Len(p) # 1 PROVE p[2] \in Adj[Start] \ {Start}
      OBVIOUS
    <3>2. 1 \in 1..(Len(p) - 1) /\ 1 \in 1..Len(p) /\ 2 \in 1..Len(p) /\ 1 + 1 = 2 /\ 1 # 2
      BY <2>1, <3>1
    <3>3. p[2] \in Adj[p[1]] /\ p[2] # p[1]
      BY <2>1, <3>2 DEF IsWalk
    <3> QED
      BY <2>2, <3>3
  <2>4. /\ 1 \in 1..Len(mainStack) /\ 1 <= Len(p) /\ \A j \in 1..1 : p[j] = mainStack[j]
        /\ Len(p) = 1 \/ p[1 + 1] \in viceStack[1]
    BY <1>1, <1>3, <2>1, <2>2, <2>3
  <2> QED
    BY <2>4 DEF Promised
<1>9. Accounted
  BY <1>4, <1>8 DEF Accounted, Elements
<1> QED
  BY <1>5, <1>6, <1>7, <1>9 DEF IInv

LEMMA IInvStep == IInv /\ [Next]_vars => IInv'
<1> SUFFICES ASSUME IInv, [Next]_vars PROVE IInv'
  OBVIOUS
<1>1. cnt \in 0..(CheckEvery - 1) /\ pc \in {"loop", "stack", "done", "timeout"}
  BY DEF IInv, Types
<1>2. CASE TimeOut
  BY <1>2, QuietStep, TickType DEF TimeOut
<1>3. CASE RemoveLayer
  BY <1>3, RemoveLayerStep
<1>4. CASE EnterBuildStack
  BY <1>4, QuietStep, TickType DEF EnterBuildStack
<1>5. CASE BuildLayer
  BY <1>5, BuildLayerStep
<1>6. CASE LeaveBuildStack
  BY <1>1, <1>6, QuietStep DEF LeaveBuildStack
<1>7. CASE Return
  BY <1>1, <1>7, QuietStep DEF Return
<1>8. CASE UNCHANGED vars
  BY <1>1, <1>8, QuietStep DEF vars, IInv, StackShape
<1> QED
  BY <1>2, <1>3, <1>4, <1>5, <1>6, <1>7, <1>8 DEF Next

\* The inductive invariant holds of every execution of AllPathsBetween.
THEOREM AllPathsInvariant == Spec => []IInv
<1> QED
  BY IInvInit, IInvStep, PTL DEF Spec

\* The variables keep their types, and neither stack outgrows the graph.
THEOREM AllPathsTypes == Spec => []TypeOK
<1>1. IInv => TypeOK
  BY WalkBound DEF IInv, Types, StackShape, TypeOK
<1> QED
  BY <1>1, AllPathsInvariant, PTL

\* The two stacks stay in step and describe simple walks: the errors that
\* checkEmpty and removeLayer can return are never returned.
THEOREM AllPathsShape == Spec => []StackShape
<1>1. IInv => StackShape
  BY DEF IInv
<1> QED
  BY <1>1, AllPathsInvariant, PTL

\* No simple path is lost and none comes back, on any finite graph: each is
\* recorded or still promised by the stacks, and never both.
THEOREM AllPathsAccounted == Spec => []Accounted
<1>1. IInv => Accounted
  BY DEF IInv
<1> QED
  BY <1>1, AllPathsInvariant, PTL

\* Every recorded path is a simple path between the two vertices, recorded once.
THEOREM AllPathsSound == Spec => []PathsSound
<1>1. IInv => PathsSound
  BY DEF IInv
<1> QED
  BY <1>1, AllPathsInvariant, PTL

-----------------------------------------------------------------------------
(* AllPathsBetween implements PathReport.                                  *)

\* The answer "finished" is given only when nothing is promised any more.
LEMMA DoneIsComplete == IInv /\ mainStack = <<>> => Paths \subseteq Elements(allPaths)
<1> SUFFICES ASSUME IInv, mainStack = <<>>, NEW p \in Paths PROVE p \in Elements(allPaths)
  OBVIOUS
<1>1. 1..Len(mainStack) = {}
  OBVIOUS
<1>2. ~Promised(p)
  BY <1>1 DEF Promised
<1> QED
  BY <1>2 DEF IInv, Accounted

\* Every execution of AllPathsBetween is one that PathReport allows: it reports
\* a new path, gives up, or finishes with all of them.
THEOREM AllPathsImplementsReport == Spec => ReportSpec
<1> USE DEF Report!Init, Report!Next, Report!vars, Report!Report, Report!Finish, Report!GiveUp
<1>1. Init => Report!Init
  BY DEF Init, Elements
<1>2. IInv /\ [Next]_vars => [Report!Next]_(Report!vars)
  <2> SUFFICES ASSUME IInv, [Next]_vars PROVE [Report!Next]_(Report!vars)
    OBVIOUS
  <2>1. CASE TimeOut
    BY <2>1 DEF TimeOut, Elements
  <2>2. CASE RemoveLayer
    <3>1. pc = "loop" /\ pc' = "loop"
      BY <2>2 DEF RemoveLayer
    <3>2. CASE mainStack[Len(mainStack)] = End
      <4>1. mainStack \in Paths /\ mainStack \notin Elements(allPaths)
        BY <2>2, <3>2, RecordedOnce
      <4>2. allPaths' = Append(allPaths, mainStack)
        BY <2>2, <3>2 DEF RemoveLayer
      <4>3. Elements(allPaths') = Elements(allPaths) \cup {mainStack}
        BY <4>2, PushProps DEF IInv, Types
      <4> QED
        BY <3>1, <4>1, <4>3 DEF Elements
    <3>3. CASE mainStack[Len(mainStack)] # End
      BY <2>2, <3>1, <3>3 DEF RemoveLayer, Elements
    <3> QED
      BY <3>2, <3>3
  <2>3. CASE EnterBuildStack
    BY <2>3 DEF EnterBuildStack, Elements
  <2>4. CASE BuildLayer
    BY <2>4 DEF BuildLayer, Elements
  <2>5. CASE LeaveBuildStack
    BY <2>5 DEF LeaveBuildStack, Elements
  <2>6. CASE Return
    BY <2>6, DoneIsComplete DEF Return, Elements
  <2>7. CASE UNCHANGED vars
    BY <2>7 DEF vars, Elements
  <2> QED
    BY <2>1, <2>2, <2>3, <2>4, <2>5, <2>6, <2>7 DEF Next
<1> QED
  BY <1>1, <1>2, AllPathsInvariant, PTL DEF Spec, ReportSpec, Report!Spec

-----------------------------------------------------------------------------
(* The function returns.  What is ahead of it are two natural numbers, of  *)
(* which every step lowers the first, or the second alone.                 *)

\* There are finitely many functions between finite sets.
LEMMA FunctionsFinite ==
  ASSUME NEW S, IsFiniteSet(S), NEW T, IsFiniteSet(T)
  PROVE  IsFiniteSet([S -> T])
<1> DEFINE F == [S -> T]
           g == [f \in F |-> {<<x, f[x]>> : x \in S}]
<1>1. IsFiniteSet(SUBSET (S \X T))
  BY FS_Product, FS_SUBSET
<1>2. ASSUME NEW f \in F PROVE g[f] \in SUBSET (S \X T)
  OBVIOUS
<1>3. ASSUME NEW f \in F, NEW h \in F, g[f] = g[h] PROVE f = h
  <2>1. ASSUME NEW x \in S PROVE f[x] = h[x]
    <3>1. <<x, f[x]>> \in {<<y, h[y]>> : y \in S}
      BY <1>3
    <3> QED
      BY <3>1
  <2> QED
    BY <2>1
<1>4. g \in [F -> SUBSET (S \X T)]
  BY <1>2
<1> HIDE DEF g, F
<1>5. g \in Injection(F, SUBSET (S \X T))
  BY <1>3, <1>4 DEF Injection, IsInjective
<1>6. IsFiniteSet(F)
  BY <1>1, <1>5, FS_Injection
<1> QED
  BY <1>6 DEF F

\* A finite graph has finitely many simple walks.
LEMMA WalksFinite == IsFiniteSet(SimpleWalks)
<1> DEFINE N == 1..Cardinality(Node)
           W == {[1..n -> Node] : n \in N}
           g == [n \in N |-> [1..n -> Node]]
<1>1. Cardinality(Node) \in Nat
  BY NodeAssumption, FS_CardinalityType
<1>2. IsFiniteSet(N)
  BY <1>1, FS_Interval
<1>3. g \in Surjection(N, W)
  BY DEF Surjection
<1>4. IsFiniteSet(W)
  BY <1>2, <1>3, FS_Surjection
<1>5. \A w \in W : IsFiniteSet(w)
  <2>1. ASSUME NEW n \in N PROVE IsFiniteSet([1..n -> Node])
    <3>1. IsFiniteSet(1..n)
      BY <1>1, FS_Interval
    <3> QED
      BY <3>1, NodeAssumption, FunctionsFinite
  <2> QED
    BY <2>1
<1>6. IsFiniteSet(UNION W)
  BY <1>4, <1>5, FS_UNION
<1> QED
  BY <1>6, FS_Subset DEF SimpleWalks, Walks

Before(m, n) == m[1] < n[1] \/ (m[1] = n[1] /\ m[2] < n[2])

\* The walks that have not been given up.
Kept == {p \in SimpleWalks : Promised(p)}

\* Is it for the other loop to go on, that of buildStack where nothing is left to be
\* tried, or the main loop where something is?
Turn == IF (pc = "stack") <=> (mainStack = <<>> \/ Top(viceStack) = {}) THEN 1 ELSE 0

\* First, the walks to be given up, and the return; second, the layers to be built on
\* the one at hand.
Ahead == <<Cardinality(Kept) + (IF pc \in {"loop", "stack"} THEN 1 ELSE 0),
           2 * (Cardinality(Node) - Len(mainStack)) + Turn>>

LEMMA AheadType ==
  ASSUME IInv
  PROVE  /\ IsFiniteSet(Kept) /\ Cardinality(Kept) \in Nat
         /\ Len(mainStack) \in Nat /\ Cardinality(Node) \in Nat
         /\ Len(mainStack) <= Cardinality(Node)
         /\ Ahead \in Nat \X Nat
<1>1. IsFiniteSet(Kept) /\ Cardinality(Kept) \in Nat
  BY WalksFinite, FS_Subset, FS_CardinalityType DEF Kept
<1>2. Len(mainStack) \in Nat /\ Cardinality(Node) \in Nat
  BY NodeAssumption, FS_CardinalityType DEF IInv, Types
<1>3. Len(mainStack) <= Cardinality(Node)
  BY WalkBound DEF IInv, Types, StackShape
<1>4. Turn \in {0, 1}
  BY DEF Turn
<1>5. Cardinality(Kept) + (IF pc \in {"loop", "stack"} THEN 1 ELSE 0) \in Nat
  BY <1>1
<1>6. 2 * (Cardinality(Node) - Len(mainStack)) + Turn \in Nat
  BY <1>2, <1>3, <1>4
<1> QED
  BY <1>1, <1>2, <1>3, <1>5, <1>6 DEF Ahead

\* What is promised depends on the stacks only.
LEMMA KeptStays == ASSUME UNCHANGED <<mainStack, viceStack>> PROVE Kept' = Kept
  BY DEF Kept, SimpleWalks, Walks, IsWalk, Promised

LEMMA AheadStep == IInv /\ Next => Before(Ahead', Ahead)
<1> SUFFICES ASSUME IInv, Next PROVE Before(Ahead', Ahead)
  OBVIOUS
<1> DEFINE k == Cardinality(Kept)
           m == Cardinality(Node) - Len(mainStack)
<1>1. k \in Nat /\ m \in Nat
  BY AheadType
<1>2. CASE TimeOut \/ Return
  <2>1. /\ pc = "loop" /\ pc' \notin {"loop", "stack"} /\ Kept' = Kept
    BY <1>2, KeptStays DEF TimeOut, Return
  <2>2. Ahead'[1] = k + 0 /\ Ahead[1] = k + 1
    BY <2>1 DEF Ahead
  <2> QED
    BY <1>1, <2>2 DEF Before
<1>3. CASE RemoveLayer
  <2>1. pc = "loop" /\ pc' = "loop"
    BY <1>3 DEF RemoveLayer
  <2>2. mainStack \in SimpleWalks /\ Promised(mainStack)
    <3>1. /\ mainStack \in Seq(Node) /\ mainStack # <<>> /\ IsWalk(mainStack)
          /\ Len(mainStack) \in 1..Len(mainStack)
      BY <1>3 DEF IInv, Types, StackShape, RemoveLayer
    <3> QED
      BY <3>1, WalkIsPath DEF Promised
  <2>3. \A p \in SimpleWalks : Promised(p)' <=> Promised(p) /\ p # mainStack
    BY <1>3, RemoveLayerPromised
  <2>4. Kept' = Kept \ {mainStack} /\ mainStack \in Kept
    <3>1. SimpleWalks' = SimpleWalks
      BY DEF SimpleWalks, Walks, IsWalk
    <3>2. Kept' = {p \in SimpleWalks : Promised(p)'}
      BY <3>1 DEF Kept, Promised
    <3> QED
      BY <2>2, <2>3, <3>2 DEF Kept
  <2>5. Cardinality(Kept') = k - 1
    BY <2>4, AheadType, FS_RemoveElement
  <2>6. Ahead'[1] = k - 1 + 1 /\ Ahead[1] = k + 1
    BY <2>1, <2>5 DEF Ahead
  <2> QED
    BY <1>1, <2>6 DEF Before
<1>4. CASE EnterBuildStack \/ LeaveBuildStack
  <2>1. /\ UNCHANGED <<mainStack, viceStack>> /\ {pc, pc'} = {"loop", "stack"}
        /\ mainStack # <<>> /\ (pc = "stack" <=> Top(viceStack) = {})
    BY <1>4 DEF EnterBuildStack, LeaveBuildStack, IInv, StackShape
  <2>2. Kept' = Kept /\ Turn = 1 /\ Turn' = 0
    BY <2>1, KeptStays DEF Turn
  <2>3. 2 * m + 0 < 2 * m + 1
    BY <1>1
  <2>4. /\ Ahead' = <<k + 1, 2 * m + 0>> /\ Ahead = <<k + 1, 2 * m + 1>>
    BY <2>1, <2>2 DEF Ahead
  <2> QED
    BY <2>3, <2>4 DEF Before
<1>5. CASE BuildLayer
  <2>1. pc = "stack" /\ pc' = "stack"
    BY <1>5 DEF BuildLayer
  <2>2. \A p \in SimpleWalks : Promised(p)' <=> Promised(p)
    BY <1>5, BuildLayerPromised
  <2>3. Kept' = Kept
    <3>1. SimpleWalks' = SimpleWalks
      BY DEF SimpleWalks, Walks, IsWalk
    <3>2. Kept' = {p \in SimpleWalks : Promised(p)'}
      BY <3>1 DEF Kept, Promised
    <3> QED
      BY <2>2, <3>2 DEF Kept
  <2>4. Len(mainStack') = Len(mainStack) + 1
    BY <1>5, BuildLayerProps
  <2>5. Turn \in {0, 1} /\ Turn' \in {0, 1}
    BY DEF Turn
  <2>6. Len(mainStack) \in Nat /\ Cardinality(Node) \in Nat
    BY AheadType
  <2>7. 2 * (Cardinality(Node) - (Len(mainStack) + 1)) + Turn' < 2 * (Cardinality(Node) - Len(mainStack)) + Turn
    BY <2>5, <2>6
  <2>8. /\ Ahead'[1] = k + 1 /\ Ahead[1] = k + 1
        /\ Ahead'[2] = 2 * (Cardinality(Node) - (Len(mainStack) + 1)) + Turn'
        /\ Ahead[2] = 2 * (Cardinality(Node) - Len(mainStack)) + Turn
    BY <2>1, <2>3, <2>4 DEF Ahead
  <2> QED
    BY <2>7, <2>8 DEF Before
<1> QED
  BY <1>2, <1>3, <1>4, <1>5 DEF Next

\* AllPathsBetween comes to its end on every finite graph: between two walks that it
\* gives up, it builds no more layers than the graph has vertices.
THEOREM AllPathsAdvances == Spec => [](Ahead \in Nat \X Nat) /\ [][Before(Ahead', Ahead)]_vars
<1>1. IInv => Ahead \in Nat \X Nat
  BY AheadType
<1>2. IInv /\ [Next]_vars => [Before(Ahead', Ahead)]_vars
  BY AheadStep
<1> QED
  BY <1>1, <1>2, AllPathsInvariant, PTL DEF Spec

=============================================================================
