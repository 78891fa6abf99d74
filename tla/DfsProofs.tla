------------------------------ MODULE DfsProofs ------------------------------
(***************************************************************************)
(* The depth-first traversal: the graph outgrows its limit by the rows of  *)
(* one address at the most, is attached to the source in the direction     *)
(* asked for, and goes no deeper than asked, on every content of Redis;    *)
(* for depths 1 and 2 nothing is missing from it when no read fails.       *)
(***************************************************************************)
EXTENDS Dfs, TxGraphProofs, FiniteSetTheorems, SequenceTheorems, FunctionTheorems, TLAPS

Entries == [hash : Address, depth : Nat]

\* The addresses on the stack are in the graph.
Attached == \A i \in DOMAIN stack : stack[i].hash \in Traversal!Known

\* The inductive invariant.
IInv == TypeOK /\ Attached /\ SizeKept /\ IsFiniteSet(visited)

LEMMA RequestProps ==
  ASSUME asked \in Requests
  PROVE  asked.depth \in Int /\ asked.limit \in Nat \ {0}
  BY RequestsAssumption

-----------------------------------------------------------------------------
(* The stack.                                                              *)

\* The top is an entry, and what is below it are entries of the stack.
LEMMA PopProps ==
  ASSUME TypeOK, stack # <<>>
  PROVE  /\ Top \in Entries /\ Len(stack) \in DOMAIN stack
         /\ Rest \in Seq(Entries)
         /\ \A i \in DOMAIN Rest : i \in DOMAIN stack /\ Rest[i] = stack[i]
<1> DEFINE n == Len(stack) - 1
<1>1. /\ stack \in Seq(Entries) /\ Len(stack) \in Nat /\ Len(stack) > 0
      /\ n \in Nat /\ n - 1 + 1 = n /\ n < Len(stack)
      /\ DOMAIN stack = 1..Len(stack)
  BY DEF TypeOK, Entries
<1>2. Top \in Entries /\ Len(stack) \in DOMAIN stack
  BY <1>1 DEF Top
<1>3. Rest = SubSeq(stack, 1, n)
  BY DEF Rest
<1>4. 1 \in Int /\ n \in Int /\ \A i \in 1..n : stack[i] \in Entries
  BY <1>1
<1> HIDE DEF n
<1>5. /\ Rest \in Seq(Entries)
      /\ Len(Rest) = IF 1 <= n THEN n - 1 + 1 ELSE 0
      /\ \A i \in 1..(n - 1 + 1) : Rest[i] = stack[1 + i - 1]
  BY <1>3, <1>4, SubSeqProperties
<1>6. Len(Rest) = n
  BY <1>1, <1>5
<1>7. DOMAIN Rest = 1..n
  BY <1>5, <1>6
<1>8. \A i \in 1..n : Rest[i] = stack[i]
  <2> TAKE i \in 1..n
  <2>1. i \in 1..(n - 1 + 1) /\ 1 + i - 1 = i
    BY <1>1
  <2> QED
    BY <1>5, <2>1
<1>9. \A i \in 1..n : i \in 1..Len(stack)
  BY <1>1
<1> QED
  BY <1>1, <1>2, <1>5, <1>7, <1>8, <1>9

-----------------------------------------------------------------------------
(* The rows of an address.                                                 *)

\* What is selected for an address are rows in range that lead on from it.
LEMMA SelectedRows ==
  ASSUME NEW a \in Address, NEW S \in SUBSET Positions(a), NEW p \in Selected(a, S)
  PROVE  /\ RowAt(a, p) \in RowsInRange
         /\ Follows(RowAt(a, p), a)
         /\ Other(RowAt(a, p), a) \in Address
         /\ Other(RowAt(a, p), a) \in Ends(RowAt(a, p))
<1>1. /\ p.block \in S /\ p.row \in DOMAIN Blob[Index[a][p.block]]
      /\ Follows(RowAt(a, p), a)
  BY DEF Selected
<1>2. /\ p.block \in DOMAIN Index[a] /\ InRange(Index[a][p.block])
      /\ Index[a] \in Seq(Block)
  BY <1>1, IndexAssumption DEF Positions
<1>3. Index[a][p.block] \in Block
  BY <1>2
<1>4. Blob[Index[a][p.block]] \in Seq(Row)
  BY <1>3, BlobAssumption
<1>5. RowAt(a, p) \in Row
  BY <1>1, <1>4 DEF RowAt
<1>6. RowAt(a, p) \in RowsInRange
  BY <1>1, <1>2, <1>3, <1>5 DEF RowsInRange, RowAt
<1>7. RowAt(a, p).from \in Address /\ RowAt(a, p).to \in Address
  BY <1>5, RowAssumption
<1> QED
  BY <1>1, <1>6, <1>7 DEF Other, Ends

\* An address has finitely many of them.
LEMMA SelectedFinite ==
  ASSUME NEW a \in Address, NEW S \in SUBSET Positions(a)
  PROVE  IsFiniteSet(Selected(a, S))
<1> DEFINE D == [k \in S |-> DOMAIN Blob[Index[a][k]]]
           R == {DOMAIN Blob[Index[a][k]] : k \in S}
           P == Selected(a, S)
           f == [p \in P |-> <<p.block, p.row>>]
<1>1. Index[a] \in Seq(Block) /\ S \subseteq 1..Len(Index[a]) /\ Len(Index[a]) \in Nat
  BY IndexAssumption DEF Positions
<1>2. IsFiniteSet(S)
  <2>1. 1 \in Int /\ Len(Index[a]) \in Int
    BY <1>1
  <2>2. IsFiniteSet(1..Len(Index[a]))
    BY <2>1, FS_Interval
  <2> QED
    BY <1>1, <2>2, FS_Subset
<1>3. \A k \in S : IsFiniteSet(D[k])
  <2> TAKE k \in S
  <2>1. Blob[Index[a][k]] \in Seq(Row)
    BY <1>1, BlobAssumption
  <2>2. D[k] = 1..Len(Blob[Index[a][k]]) /\ 1 \in Int /\ Len(Blob[Index[a][k]]) \in Int
    BY <2>1
  <2> QED
    BY <2>2, FS_Interval
<1>4. IsFiniteSet(R)
  <2>1. D \in Surjection(S, R)
    BY DEF Surjection
  <2> QED
    BY <1>2, <2>1, FS_Surjection
<1>5. IsFiniteSet(UNION R)
  BY <1>3, <1>4, FS_UNION
<1>6. IsFiniteSet(S \X UNION R)
  BY <1>2, <1>5, FS_Product
<1>7. f \in Injection(P, S \X UNION R)
  <2>1. \A p \in P : p \in [block : S, row : UNION R]
    BY DEF Selected
  <2>2. f \in [P -> S \X UNION R]
    BY <2>1
  <2>3. \A p, q \in P : f[p] = f[q] => p = q
    BY <2>1
  <2> QED
    BY <2>2, <2>3 DEF Injection, IsInjective
<1> QED
  BY <1>6, <1>7, FS_Injection

-----------------------------------------------------------------------------
(* The rounds of the loop.                                                 *)

\* What a round that pops the stack keeps, when it adds nothing to it.
LEMMA RestAttached ==
  ASSUME TypeOK, Attached, stack # <<>>, NEW G, txs \subseteq G
  PROVE  \A i \in DOMAIN Rest :
           /\ Rest[i].depth <= asked.depth \/ asked.depth < 0
           /\ Rest[i].hash \in {Source} \cup {r.from : r \in G} \cup {r.to : r \in G}
<1>1. \A i \in DOMAIN Rest : i \in DOMAIN stack /\ Rest[i] = stack[i]
  BY PopProps
<1> QED
  BY <1>1 DEF TypeOK, Attached, Traversal!Known

LEMMA SkipStep ==
  ASSUME IInv, Skip
  PROVE  IInv'
<1>1. UNCHANGED <<asked, visited, txs, missed, pc>> /\ stack' = Rest /\ stack # <<>>
  BY DEF Skip, Going
<1>2. TypeOK'
  BY <1>1, PopProps, RestAttached DEF IInv, TypeOK, Entries
<1>3. Attached'
  BY <1>1, RestAttached DEF IInv, Attached, Traversal!Known
<1> QED
  BY <1>1, <1>2, <1>3 DEF IInv, SizeKept

\* An address is noted while there is room for it.
LEMMA NotedSize ==
  ASSUME IInv, Going, visited' = visited \cup {Top.hash}
  PROVE  /\ IsFiniteSet(visited') /\ visited' \subseteq Address
         /\ Cardinality(visited') <= asked.limit
<1>1. IsFiniteSet(visited) /\ Cardinality(visited) < asked.limit /\ Cardinality(visited) \in Nat
  BY FS_CardinalityType DEF IInv, Going
<1>2. Top.hash \in Address
  BY PopProps DEF IInv, Going, Entries
<1>3. IsFiniteSet(visited') /\ Cardinality(visited') <= Cardinality(visited) + 1
  <2> DEFINE V == visited \cup {Top.hash}
  <2>1. /\ IsFiniteSet(V)
        /\ Cardinality(V) = IF Top.hash \in visited THEN Cardinality(visited)
                                                    ELSE Cardinality(visited) + 1
    BY <1>1, FS_AddElement
  <2>2. Cardinality(V) <= Cardinality(visited) + 1
    BY <1>1, <2>1
  <2>3. visited' = V
    OBVIOUS
  <2> HIDE DEF V
  <2> QED
    BY <2>1, <2>2, <2>3
<1>4. Cardinality(visited') \in Nat
  BY <1>3, FS_CardinalityType
<1> QED
  BY <1>1, <1>2, <1>3, <1>4, RequestProps DEF IInv, TypeOK

LEMMA NoteStep ==
  ASSUME IInv, Note
  PROVE  IInv'
<1>1. /\ UNCHANGED <<asked, txs, pc>> /\ stack' = Rest /\ stack # <<>>
      /\ missed' \in BOOLEAN
      /\ Going /\ visited' = visited \cup {Top.hash}
  BY DEF Note, Going, IInv, TypeOK
<1>2. TypeOK'
  BY <1>1, PopProps, RestAttached, NotedSize DEF IInv, TypeOK, Entries
<1>3. Attached'
  BY <1>1, RestAttached DEF IInv, Attached, Traversal!Known
<1> QED
  BY <1>1, <1>2, <1>3, NotedSize DEF IInv, SizeKept

\* What an order of arrival brings: each of the rows, at some time.
LEMMA ArrivalsProps ==
  ASSUME NEW Q, IsFiniteSet(Q), NEW t \in Arrivals(Q)
  PROVE  /\ DOMAIN t = 1..Cardinality(Q)
         /\ \A i \in DOMAIN t : t[i] \in Q
         /\ \A q \in Q : \E i \in DOMAIN t : t[i] = q
<1> DEFINE m == Cardinality(Q)
<1>1. m \in Nat
  BY FS_CardinalityType
<1>2. t \in [1..m -> Q] /\ \A i, j \in 1..m : i < j => t[i] # t[j]
  BY DEF Arrivals
<1> HIDE DEF m
<1>3. \A i, j \in 1..m : t[i] = t[j] => i = j
  <2> TAKE i, j \in 1..m
  <2>1. i < j \/ j < i \/ i = j
    BY <1>1
  <2> QED
    BY <1>2, <2>1
<1>4. t \in Injection(1..m, Q)
  BY <1>2, <1>3 DEF Injection, IsInjective
<1>5. IsFiniteSet(1..m) /\ Cardinality(1..m) = m
  <2>1. 1 \in Int /\ m \in Int /\ (1 > m => m = 0) /\ m - 1 + 1 = m
    BY <1>1
  <2>2. Cardinality(1..m) = IF 1 > m THEN 0 ELSE m - 1 + 1
    BY <2>1, FS_Interval
  <2> QED
    BY <2>1, <2>2, FS_Interval
<1>6. Cardinality(1..m) = Cardinality(Q)
  BY <1>5 DEF m
<1>7. t \in Surjection(1..m, Q)
  BY <1>4, <1>6, FS_Injection
<1>8. \A q \in Q : \E i \in 1..m : t[i] = q
  BY <1>7 DEF Surjection
<1> QED
  BY <1>2, <1>8 DEF m

\* An entry that is somewhere in a stack.
In(e, s) == \E i \in DOMAIN s : s[i] = e

\* What a visit puts on the stack: an entry for each row that leads elsewhere, on
\* what was below the top.
LEMMA VisitShape ==
  ASSUME IInv, Visit
  PROVE  LET a == Top.hash
             next(p) == Entry(Other(RowAt(a, p), a), Top.depth + 1)
         IN  \E failed \in SUBSET Positions(a) :
               LET P == Selected(a, Positions(a) \ failed) IN
               /\ missed' = (missed \/ failed # {} \/ Skipped(Top))
               /\ txs' = txs \cup {RowAt(a, p) : p \in P}
               /\ stack' \in Seq(Entries)
               /\ \A i \in DOMAIN stack' :
                    \/ In(stack'[i], Rest)
                    \/ \E p \in P : stack'[i] = next(p)
               /\ \A e : In(e, Rest) => In(e, stack')
               /\ \A p \in P : Other(RowAt(a, p), a) # a => In(next(p), stack')
<1> DEFINE a == Top.hash
           next(p) == Entry(Other(RowAt(a, p), a), Top.depth + 1)
<1>1. stack # <<>>
  BY DEF Visit, Going
<1>2. PICK failed \in SUBSET Positions(a) :
        LET P == Selected(a, Positions(a) \ failed) IN
        /\ missed' = (missed \/ failed # {} \/ Skipped(Top))
        /\ txs' = txs \cup {RowAt(a, p) : p \in P}
        /\ \E t \in Arrivals({p \in P : Other(RowAt(a, p), a) # a}) :
             stack' = Rest \o [i \in DOMAIN t |-> next(t[i])]
  BY DEF Visit
<1> DEFINE P == Selected(a, Positions(a) \ failed)
           Q == {p \in P : Other(RowAt(a, p), a) # a}
<1>4. PICK t \in Arrivals(Q) : stack' = Rest \o [i \in DOMAIN t |-> next(t[i])]
  BY <1>2
<1>5. Top \in Entries /\ a \in Address /\ Top.depth \in Nat
  BY <1>1, PopProps DEF IInv, Entries
<1>6. \A p \in P : Other(RowAt(a, p), a) \in Address
  BY <1>5, SelectedRows
<1>7. IsFiniteSet(Q) /\ Cardinality(Q) \in Nat
  <2>1. IsFiniteSet(P)
    BY <1>5, SelectedFinite
  <2> QED
    BY <2>1, FS_Subset, FS_CardinalityType
<1>p. Q \subseteq P /\ \A p \in P : Other(RowAt(a, p), a) # a => p \in Q
  OBVIOUS
<1>9. \A p \in P : next(p) \in Entries
  BY <1>5, <1>6 DEF Entry, Entries
<1> HIDE DEF P, Q
<1> DEFINE m == Cardinality(Q)
           u == [i \in DOMAIN t |-> next(t[i])]
<1>8. /\ DOMAIN t = 1..m /\ \A i \in 1..m : t[i] \in Q
      /\ \A q \in Q : \E i \in 1..m : t[i] = q
  BY <1>7, ArrivalsProps
<1> HIDE DEF next, m
<1>10. u \in Seq(Entries) /\ Len(u) = m /\ m \in Nat /\ \A i \in 1..m : u[i] = next(t[i])
  BY <1>7, <1>8, <1>9, <1>p DEF m
<1> HIDE DEF u
<1>11. stack' = Rest \o u /\ Rest \in Seq(Entries) /\ Len(Rest) \in Nat /\ DOMAIN Rest = 1..Len(Rest)
  BY <1>1, <1>4, PopProps DEF IInv, u
<1>12. /\ stack' \in Seq(Entries)
       /\ Len(stack') = Len(Rest) + m
       /\ \A i \in 1..(Len(Rest) + m) :
            stack'[i] = IF i <= Len(Rest) THEN Rest[i] ELSE u[i - Len(Rest)]
  BY <1>10, <1>11, ConcatProperties
<1>d. DOMAIN stack' = 1..(Len(Rest) + m)
  BY <1>12
<1>13. \A i \in DOMAIN stack' : In(stack'[i], Rest) \/ \E p \in P : stack'[i] = next(p)
  <2> TAKE i \in DOMAIN stack'
  <2>2. CASE i <= Len(Rest)
    <3>1. i \in DOMAIN Rest /\ stack'[i] = Rest[i]
      BY <1>11, <1>12, <1>d, <2>2
    <3> QED
      BY <3>1 DEF In
  <2>3. CASE ~(i <= Len(Rest))
    <3>1. i - Len(Rest) \in 1..m /\ i \in 1..(Len(Rest) + m)
      BY <1>10, <1>11, <1>d, <2>3
    <3> QED
      BY <1>8, <1>10, <1>12, <1>p, <2>3, <3>1
  <2> QED
    BY <2>2, <2>3
<1>14. ASSUME NEW e, In(e, Rest) PROVE In(e, stack')
  <2>1. PICK i \in DOMAIN Rest : Rest[i] = e
    BY <1>14 DEF In
  <2>2. i \in DOMAIN stack' /\ i <= Len(Rest) /\ i \in 1..(Len(Rest) + m)
    BY <1>10, <1>11, <1>d, <2>1
  <2>3. stack'[i] = e
    BY <1>12, <2>1, <2>2
  <2> QED
    BY <2>2, <2>3 DEF In
<1>15. ASSUME NEW p \in P, Other(RowAt(a, p), a) # a PROVE In(next(p), stack')
  <2>1. PICK i \in 1..m : t[i] = p
    BY <1>8, <1>15, <1>p
  <2> DEFINE j == Len(Rest) + i
  <2>2. j \in DOMAIN stack' /\ j \in 1..(Len(Rest) + m) /\ ~(j <= Len(Rest)) /\ j - Len(Rest) = i
    BY <1>10, <1>11, <1>d
  <2>3. stack'[j] = next(p)
    BY <1>10, <1>12, <2>1, <2>2
  <2> QED
    BY <2>2, <2>3 DEF In
<1> HIDE DEF In
<1>16. /\ missed' = (missed \/ failed # {} \/ Skipped(Top))
       /\ txs' = txs \cup {RowAt(a, p) : p \in P}
  BY <1>2 DEF P
<1> QED
  BY <1>12, <1>13, <1>14, <1>15, <1>16 DEF P, next

\* A visit adds rows that lead on from an address of the graph, and it puts
\* addresses on the stack that they lead to.
LEMMA VisitStep ==
  ASSUME IInv, Visit
  PROVE  /\ IInv' /\ pc = "loop" /\ UNCHANGED <<asked, pc>>
         /\ \E R \in SUBSET RowsInRange :
              txs' = txs \cup R /\ \A r \in R : Follows(r, Top.hash)
         /\ Top.hash \in Traversal!Known
<1> DEFINE a == Top.hash
           next(p) == Entry(Other(RowAt(a, p), a), Top.depth + 1)
<1>1. /\ UNCHANGED <<asked, pc>> /\ pc = "loop" /\ stack # <<>>
      /\ Going /\ Due(Top) /\ visited' = visited \cup {a}
  BY DEF Visit, Going
<1>2. PICK failed \in SUBSET Positions(a) :
        LET P == Selected(a, Positions(a) \ failed) IN
        /\ missed' = (missed \/ failed # {} \/ Skipped(Top))
        /\ txs' = txs \cup {RowAt(a, p) : p \in P}
        /\ stack' \in Seq(Entries)
        /\ \A i \in DOMAIN stack' : In(stack'[i], Rest) \/ \E p \in P : stack'[i] = next(p)
  BY VisitShape
<1> DEFINE P == Selected(a, Positions(a) \ failed)
           R == {RowAt(a, p) : p \in P}
<1>3. txs' = txs \cup R /\ missed' \in BOOLEAN
  BY <1>2 DEF IInv, TypeOK, Skipped
<1>5. Top \in Entries /\ a \in Address /\ Top.depth \in Nat /\ Len(stack) \in DOMAIN stack
  BY <1>1, PopProps DEF IInv, Entries
<1>6. \A p \in P : /\ RowAt(a, p) \in RowsInRange /\ Follows(RowAt(a, p), a)
                   /\ Other(RowAt(a, p), a) \in Address
                   /\ Other(RowAt(a, p), a) \in Ends(RowAt(a, p))
  BY <1>5, SelectedRows
<1>9. \A p \in P : next(p).hash \in Ends(RowAt(a, p)) /\ next(p).depth = Top.depth + 1
  BY <1>6 DEF Entry
<1>12. stack' \in Seq(Entries)
  BY <1>2
<1>13. \A i \in DOMAIN stack' :
         \/ \E j \in DOMAIN Rest : stack'[i] = Rest[j]
         \/ \E p \in P : stack'[i] = next(p)
  BY <1>2 DEF In
<1> HIDE DEF P, next
<1>14. R \subseteq RowsInRange /\ \A r \in R : Follows(r, a)
  BY <1>6
<1>15. a \in Traversal!Known
  BY <1>5 DEF Top, IInv, Attached
<1>16. Top.depth + 1 <= asked.depth /\ asked.depth \in Int
  BY <1>1, <1>5, RequestProps DEF Due, IInv, TypeOK
<1>17. \A i \in DOMAIN stack' : stack'[i].depth <= asked.depth \/ asked.depth < 0
  <2> TAKE i \in DOMAIN stack'
  <2>1. CASE \E j \in DOMAIN Rest : stack'[i] = Rest[j]
    BY <1>1, <2>1, RestAttached DEF IInv
  <2>2. CASE \E p \in P : stack'[i] = next(p)
    BY <1>9, <1>16, <2>2
  <2> QED
    BY <1>13, <2>1, <2>2
<1>18. TypeOK'
  BY <1>1, <1>3, <1>12, <1>14, <1>17, NotedSize DEF IInv, TypeOK, Entries
<1>19. Attached'
  <2> SUFFICES ASSUME NEW i \in DOMAIN stack' PROVE stack'[i].hash \in Traversal!Known'
    BY DEF Attached
  <2>1. CASE \E j \in DOMAIN Rest : stack'[i] = Rest[j]
    <3>1. txs \subseteq txs'
      BY <1>3
    <3> QED
      BY <1>1, <2>1, <3>1, RestAttached DEF IInv, Traversal!Known
  <2>2. CASE \E p \in P : stack'[i] = next(p)
    BY <1>3, <1>9, <2>2 DEF Traversal!Known, Ends
  <2> QED
    BY <1>13, <2>1, <2>2
<1>20. SizeKept'
  <2>1. {r \in txs' : a \notin Ends(r)} \subseteq txs
    BY <1>3, <1>14 DEF Follows, Ends
  <2>2. IsFiniteSet(txs)
    BY RowsAssumption, FS_Subset DEF IInv, TypeOK, RowsInRange
  <2>3. /\ Cardinality({r \in txs' : a \notin Ends(r)}) <= Cardinality(txs)
        /\ Cardinality({r \in txs' : a \notin Ends(r)}) \in Nat /\ Cardinality(txs) \in Nat
    BY <2>1, <2>2, FS_Subset, FS_CardinalityType
  <2>4. Cardinality({r \in txs' : a \notin Ends(r)}) < asked.limit
    BY <1>1, <2>3, RequestProps DEF Going, IInv, TypeOK
  <2>5. \E d \in Address : Cardinality({r \in txs' : d \notin Ends(r)}) < asked.limit
    BY <1>5, <2>4
  <2>6. Cardinality(visited') <= asked.limit
    BY <1>1, NotedSize
  <2> QED
    BY <1>1, <2>5, <2>6 DEF SizeKept, Ends
<1> QED
  BY <1>1, <1>3, <1>14, <1>15, <1>18, <1>19, <1>20, NotedSize DEF IInv

-----------------------------------------------------------------------------
(* The invariant of every execution.                                       *)

LEMMA IInvInit == Init => IInv
<1> SUFFICES ASSUME Init PROVE IInv
  OBVIOUS
<1>1. Entry(Source, 0) \in Entries /\ Entry(Source, 0).hash = Source /\ Entry(Source, 0).depth = 0
  BY SourceAssumption DEF Entry, Entries
<1>2. /\ stack \in Seq(Entries) /\ DOMAIN stack = {1} /\ stack[1].hash = Source
      /\ stack[1].depth = 0
  BY <1>1 DEF Init
<1>3. missed \in BOOLEAN /\ asked \in Requests /\ asked.depth \in Int /\ asked.limit \in Nat \ {0}
  BY RequestProps DEF Init
<1>4. TypeOK
  BY <1>2, <1>3 DEF Init, TypeOK, Entries
<1>5. Attached
  BY <1>2 DEF Attached, Traversal!Known
<1>6. IsFiniteSet(visited) /\ Cardinality(visited) = 0
  BY FS_EmptySet DEF Init
<1>7. SizeKept
  <2>1. {r \in txs : Source \notin Ends(r)} = {}
    BY DEF Init
  <2>2. Cardinality({r \in txs : Source \notin Ends(r)}) < asked.limit
    BY <1>3, <2>1, FS_EmptySet
  <2>3. Cardinality(visited) <= asked.limit
    BY <1>3, <1>6
  <2> QED
    BY <2>2, <2>3, SourceAssumption DEF SizeKept
<1> QED
  BY <1>4, <1>5, <1>6, <1>7 DEF IInv

LEMMA IInvStep == IInv /\ [Next]_vars => IInv'
<1> SUFFICES ASSUME IInv, [Next]_vars PROVE IInv'
  OBVIOUS
<1>1. CASE Skip
  BY <1>1, SkipStep
<1>2. CASE Note
  BY <1>2, NoteStep
<1>3. CASE Visit
  BY <1>3, VisitStep
<1>4. CASE Return
  BY <1>4 DEF Return, IInv, TypeOK, Attached, SizeKept, Traversal!Known
<1>5. CASE UNCHANGED vars
  BY <1>5 DEF vars, IInv, TypeOK, Attached, SizeKept, Traversal!Known
<1> QED
  BY <1>1, <1>2, <1>3, <1>4, <1>5 DEF Next

\* The inductive invariant holds of every execution of CollectDFS.
THEOREM DfsInvariant == Spec => []IInv
<1> QED
  BY IInvInit, IInvStep, PTL DEF Spec

\* The variables keep their types, and no address on the stack is farther away
\* than the depth asked for.
THEOREM DfsTypes == Spec => []TypeOK
<1>1. IInv => TypeOK
  BY DEF IInv
<1> QED
  BY <1>1, DfsInvariant, PTL

\* The graph outgrows its limit by the rows of one address at the most.
THEOREM DfsSize == Spec => []SizeKept
<1>1. IInv => SizeKept
  BY DEF IInv
<1> QED
  BY <1>1, DfsInvariant, PTL

-----------------------------------------------------------------------------
(* CollectDFS implements Exploration.                                      *)

\* Every execution of CollectDFS is one that Exploration allows, in the direction
\* that was asked for.
THEOREM DfsExplores == Spec => ExplorationSpec
<1>1. Init => Traversal!Init
  BY RequestsAssumption DEF Init, Traversal!Init
<1>2. IInv /\ [Next]_vars => [Traversal!Next]_(Traversal!vars)
  <2> SUFFICES ASSUME IInv, [Next]_vars PROVE [Traversal!Next]_(Traversal!vars)
    OBVIOUS
  <2>1. CASE Skip
    BY <2>1 DEF Skip, Traversal!vars
  <2>2. CASE Note
    BY <2>2 DEF Note, Traversal!vars
  <2>3. CASE Visit
    <3>1. PICK R \in SUBSET RowsInRange :
            txs' = txs \cup R /\ \A r \in R : Follows(r, Top.hash)
      BY <2>3, VisitStep
    <3>2. \A r \in R : Traversal!Follows(r, Top.hash)
      BY <3>1 DEF Follows, Traversal!Follows
    <3>3. R \in SUBSET {r \in RowsInRange : Traversal!Follows(r, Top.hash)}
      BY <3>2
    <3> QED
      BY <2>3, <3>1, <3>3, VisitStep DEF Traversal!Next, Traversal!Grow
  <2>4. CASE Return
    BY <2>4 DEF Return, Traversal!Next, Traversal!Answer
  <2>5. CASE UNCHANGED vars
    BY <2>5 DEF vars, Traversal!vars
  <2> QED
    BY <2>1, <2>2, <2>3, <2>4, <2>5 DEF Next
<1> QED
  BY <1>1, <1>2, DfsInvariant, PTL DEF Spec, ExplorationSpec, Traversal!Spec

\* Every address of the graph is led to from the source in the direction asked
\* for, on every content of Redis and whatever reads fail.
THEOREM DfsLed == Spec => []Led
<1>1. Traversal!Spec => []Traversal!Led
  BY Traversal!ExplorationLed
<1> QED
  BY <1>1, DfsExplores, PTL DEF ExplorationSpec, Led

-----------------------------------------------------------------------------
(* How far the traversal goes.                                             *)

\* A row that leads on from an address that is not a hub leads a hop further.
LEMMA HopRow ==
  ASSUME NEW a \in Address, a \notin Blocked, NEW r \in RowsInRange, Follows(r, a),
         NEW b \in Ends(r)
  PROVE  <<a, b>> \in Hops /\ r \in RowsAlong({a})
<1>1. b \in Address
  BY RowAssumption DEF RowsInRange, Ends
<1>2. r \in RowsAlong({a})
  BY DEF RowsAlong
<1> QED
  BY <1>1, <1>2 DEF Hops

\* The request does not change, and so neither does what is near.
LEMMA NearStays ==
  ASSUME UNCHANGED asked
  PROVE  /\ \A n : Near(n)' = Near(n)
         /\ \A S : RowsAlong(S)' = RowsAlong(S)
<1>1. \A r, a : Follows(r, a)' = Follows(r, a)
  BY DEF Follows
<1>2. \A S : RowsAlong(S)' = RowsAlong(S)
  BY <1>1 DEF RowsAlong
<1>3. Hops' = Hops
  BY <1>2 DEF Hops
<1> QED
  BY <1>2, <1>3 DEF Near

\* An address is met where a way without hubs leads, and so are the rows, unless
\* a counter could not be read.
Reached ==
  ~missed => \A i \in DOMAIN stack : stack[i].hash \in Near(stack[i].depth)

LEMMA ReachedStep == IInv /\ Reached /\ DepthSound /\ [Next]_vars => Reached' /\ DepthSound'
<1> SUFFICES ASSUME IInv, Reached, DepthSound, [Next]_vars
             PROVE  Reached' /\ DepthSound'
  OBVIOUS
<1>a. asked' = asked
  BY DEF Next, Skip, Note, Visit, Return, vars
<1>n. /\ \A n : Near(n)' = Near(n)
      /\ \A S : RowsAlong(S)' = RowsAlong(S)
  BY <1>a, NearStays
<1> SUFFICES ASSUME ~missed'
             PROVE  /\ \A i \in DOMAIN stack' : stack'[i].hash \in Near(stack'[i].depth)
                    /\ asked.depth > 0 => txs' \subseteq RowsAlong(Near(asked.depth - 1) \ Blocked)
  BY <1>a, <1>n DEF Reached, DepthSound
<1>1. ~missed
  <2> SUFFICES ASSUME missed PROVE missed'
    OBVIOUS
  <2>1. CASE Visit
    BY <2>1 DEF Visit
  <2> QED
    BY <2>1 DEF Next, Skip, Note, Return, vars
<1>2. /\ \A i \in DOMAIN stack : stack[i].hash \in Near(stack[i].depth)
      /\ asked.depth > 0 => txs \subseteq RowsAlong(Near(asked.depth - 1) \ Blocked)
  BY <1>1 DEF Reached, DepthSound
<1>3. CASE Skip \/ Note
  <2>1. stack' = Rest /\ txs' = txs /\ stack # <<>>
    BY <1>3 DEF Skip, Note, Going
  <2>2. \A i \in DOMAIN Rest : i \in DOMAIN stack /\ Rest[i] = stack[i]
    BY <2>1, PopProps DEF IInv
  <2> QED
    BY <1>2, <2>1, <2>2
<1>4. CASE Visit
  <2> DEFINE a == Top.hash
             d == Top.depth
             next(p) == Entry(Other(RowAt(a, p), a), d + 1)
  <2>1. stack # <<>> /\ Due(Top) /\ asked.depth > 0
    BY <1>4 DEF Visit, Going
  <2>2. PICK failed \in SUBSET Positions(a) :
          LET P == Selected(a, Positions(a) \ failed) IN
          /\ missed' = (missed \/ failed # {} \/ Skipped(Top))
          /\ txs' = txs \cup {RowAt(a, p) : p \in P}
          /\ \A i \in DOMAIN stack' : In(stack'[i], Rest) \/ \E p \in P : stack'[i] = next(p)
    BY <1>4, VisitShape
  <2> DEFINE P == Selected(a, Positions(a) \ failed)
  <2>3. /\ a \in Address /\ d \in Nat /\ Len(stack) \in DOMAIN stack
        /\ d < asked.depth /\ asked.depth \in Int
    BY <2>1, PopProps, RequestProps DEF IInv, Entries, TypeOK, Due
  <2>4. a \in Near(d)
    BY <1>2, <2>3 DEF Top
  <2>5. a \notin Blocked
    <3>1. ~Skipped(Top)
      BY <2>2
    <3>2. CASE d = 0
      BY <2>4, <3>2, WithinZero DEF Near, Blocked
    <3>3. CASE d # 0
      BY <3>1, <3>3 DEF Skipped, Blocked
    <3> QED
      BY <3>2, <3>3
  <2>6. \A p \in P : /\ RowAt(a, p) \in RowsInRange /\ Follows(RowAt(a, p), a)
                     /\ Other(RowAt(a, p), a) \in Address
                     /\ Other(RowAt(a, p), a) \in Ends(RowAt(a, p))
    BY <2>3, SelectedRows
  <2>7. \A p \in P : <<a, Other(RowAt(a, p), a)>> \in Hops /\ RowAt(a, p) \in RowsAlong({a})
    BY <2>3, <2>5, <2>6, HopRow
  <2>8. \A p \in P : next(p).hash \in Near(d + 1) /\ next(p).depth = d + 1
    BY <2>3, <2>4, <2>6, <2>7, WithinStep DEF Near, Entry
  <2> HIDE DEF P, next
  <2>9. \A i \in DOMAIN stack' : stack'[i].hash \in Near(stack'[i].depth)
    <3> TAKE i \in DOMAIN stack'
    <3>1. CASE In(stack'[i], Rest)
      <4>1. \A j \in DOMAIN Rest : j \in DOMAIN stack /\ Rest[j] = stack[j]
        BY <2>1, PopProps DEF IInv
      <4> QED
        BY <1>2, <3>1, <4>1 DEF In
    <3>2. CASE \E p \in P : stack'[i] = next(p)
      BY <2>8, <3>2
    <3> QED
      BY <2>2, <3>1, <3>2 DEF P, next
  <2>10. a \in Near(asked.depth - 1)
    <3>1. d <= asked.depth - 1 /\ asked.depth - 1 \in Nat
      BY <2>1, <2>3
    <3> QED
      BY <2>3, <2>4, <3>1, WithinMore DEF Near
  <2>11. \A p \in P : RowAt(a, p) \in RowsAlong(Near(asked.depth - 1) \ Blocked)
    BY <2>5, <2>7, <2>10 DEF RowsAlong
  <2> QED
    BY <1>2, <2>1, <2>2, <2>9, <2>11 DEF P
<1>5. CASE Return \/ UNCHANGED vars
  BY <1>2, <1>5 DEF Return, vars
<1> QED
  BY <1>3, <1>4, <1>5 DEF Next

LEMMA ReachedInit == Init => Reached /\ DepthSound
<1> SUFFICES ASSUME Init PROVE Reached /\ DepthSound
  OBVIOUS
<1>1. stack = <<Entry(Source, 0)>> /\ txs = {}
  BY DEF Init
<1>2. \A i \in DOMAIN stack : stack[i].hash = Source /\ stack[i].depth = 0
  BY <1>1 DEF Entry
<1>3. Source \in Near(0)
  BY WithinZero DEF Near
<1> QED
  BY <1>1, <1>2, <1>3 DEF Reached, DepthSound

\* A row is in the graph only if an address it leads on from is less than the
\* depth asked for away, by a way that crosses no hub: the depth and the hubs that
\* CollectDFS looks at when it takes an address from its stack.
THEOREM DfsDepthSound == Spec => []DepthSound
<1> DEFINE J == IInv /\ Reached /\ DepthSound
<1>1. Init => J
  BY IInvInit, ReachedInit
<1>2. J /\ [Next]_vars => J'
  BY IInvStep, ReachedStep
<1>3. J => DepthSound
  OBVIOUS
<1> QED
  BY <1>1, <1>2, <1>3, PTL DEF Spec

-----------------------------------------------------------------------------
(* What the traversal finds when nothing disturbs it.                      *)

\* If no read fails and the lists fit, a visit finds each row of its address.
LEMMA SelectedAll ==
  ASSUME ListsFit, NEW a \in Address, NEW r \in RowsInRange, Follows(r, a)
  PROVE  \E p \in Selected(a, Positions(a)) : RowAt(a, p) = r
<1>1. PICK b \in Block : InRange(b) /\ \E i \in DOMAIN Blob[b] : Blob[b][i] = r
  BY DEF RowsInRange
<1>2. PICK i \in DOMAIN Blob[b] : Blob[b][i] = r
  BY <1>1
<1>3. a \in Ends(r)
  BY DEF Follows, Ends
<1>4. b \in AddressBlocks(a)
  BY <1>1, <1>2, <1>3 DEF ListsFit
<1>5. PICK k \in DOMAIN Index[a] : k <= ListCap /\ Index[a][k] = b
  BY <1>4 DEF AddressBlocks
<1>6. k \in Positions(a)
  BY <1>1, <1>5 DEF Positions
<1> DEFINE p == [block |-> k, row |-> i]
<1>7. p \in Selected(a, Positions(a)) /\ RowAt(a, p) = r
  BY <1>2, <1>5, <1>6 DEF Selected, RowAt
<1> QED
  BY <1>7

\* The source is visited first.  From then on the rows of each address visited are
\* in the graph, but for hubs, and if they are to be visited the neighbours of the
\* source have been, or are on the stack at depth 1.
Begins == visited = {} /\ stack = <<Entry(Source, 0)>>

Goes ==
  /\ Source \in visited
  /\ \A a \in visited \ Blocked : RowsAlong({a}) \subseteq txs
  /\ asked.depth = 2 => \A b \in Near(1) : b \in visited \/ In(Entry(b, 1), stack)

Advancing == ~missed /\ ListsFit /\ asked.depth \in {1, 2} => Begins \/ Goes

\* An entry of the stack is its top or is below it.
LEMMA TopOrRest ==
  ASSUME TypeOK, stack # <<>>, NEW e, In(e, stack)
  PROVE  e = Top \/ In(e, Rest)
<1>1. PICK i \in DOMAIN stack : stack[i] = e
  BY DEF In
<1>2. stack \in Seq(Entries) /\ DOMAIN stack = 1..Len(stack) /\ Len(stack) \in Nat
  BY DEF TypeOK, Entries
<1>3. CASE i = Len(stack)
  BY <1>1, <1>3 DEF Top
<1>4. CASE i # Len(stack)
  <2>1. i \in 1..(Len(stack) - 1)
    BY <1>2, <1>4
  <2>2. Rest = [j \in 1..(Len(stack) - 1) |-> stack[j]]
    <3>1. Rest = SubSeq(stack, 1, Len(stack) - 1)
      BY DEF Rest
    <3> QED
      BY <1>2, <3>1
  <2>3. i \in DOMAIN Rest /\ Rest[i] = e
    BY <1>1, <2>1, <2>2
  <2> QED
    BY <2>3 DEF In
<1> QED
  BY <1>3, <1>4

\* An address one hop away is the source's neighbour.
LEMMA NearOne == ASSUME NEW b \in Near(1), b # Source PROVE <<Source, b>> \in Hops
<1>1. PICK k \in 0..1 : \E way \in [0..k -> Address] :
        /\ way[0] = Source /\ way[k] = b
        /\ \A i \in 1..k : <<way[i - 1], way[i]>> \in Hops
  BY DEF Near, Within
<1>2. k = 1
  BY <1>1
<1>3. PICK way \in [0..1 -> Address] :
        /\ way[0] = Source /\ way[1] = b
        /\ \A i \in 1..1 : <<way[i - 1], way[i]>> \in Hops
  BY <1>1, <1>2
<1>4. <<way[1 - 1], way[1]>> \in Hops
  BY <1>3
<1> QED
  BY <1>3, <1>4

\* What one visit finds, when it is not disturbed.
LEMMA VisitAll ==
  ASSUME IInv, Visit, ListsFit, ~missed'
  PROVE  LET a == Top.hash IN
         /\ ~missed /\ ~Skipped(Top) /\ visited' = visited \cup {a} /\ txs \subseteq txs'
         /\ RowsAlong({a}) \subseteq txs'
         /\ \A e : In(e, Rest) => In(e, stack')
         /\ \A r \in RowsAlong({a}) : \A b \in Ends(r) :
              b # a => In(Entry(b, Top.depth + 1), stack')
<1> DEFINE a == Top.hash
           next(p) == Entry(Other(RowAt(a, p), a), Top.depth + 1)
<1>1. PICK failed \in SUBSET Positions(a) :
        LET P == Selected(a, Positions(a) \ failed) IN
        /\ missed' = (missed \/ failed # {} \/ Skipped(Top))
        /\ txs' = txs \cup {RowAt(a, p) : p \in P}
        /\ \A e : In(e, Rest) => In(e, stack')
        /\ \A p \in P : Other(RowAt(a, p), a) # a => In(next(p), stack')
  BY VisitShape
<1>2. failed = {} /\ ~missed /\ ~Skipped(Top)
  BY <1>1
<1> DEFINE P == Selected(a, Positions(a))
<1>3. /\ txs' = txs \cup {RowAt(a, p) : p \in P}
      /\ \A e : In(e, Rest) => In(e, stack')
      /\ \A p \in P : Other(RowAt(a, p), a) # a => In(next(p), stack')
  <2>1. Positions(a) \ failed = Positions(a)
    BY <1>2
  <2> QED
    BY <1>1, <2>1
<1>4. a \in Address
  BY PopProps DEF Visit, Going, IInv, Entries
<1>5. \A r \in RowsAlong({a}) : Follows(r, a) /\ r \in RowsInRange
  BY DEF RowsAlong
<1>6. \A r \in RowsAlong({a}) : \E p \in P : RowAt(a, p) = r
  BY <1>4, <1>5, SelectedAll
<1> HIDE DEF P
<1>7. RowsAlong({a}) \subseteq txs'
  BY <1>3, <1>6
<1>8. ASSUME NEW r \in RowsAlong({a}), NEW b \in Ends(r), b # a
      PROVE  In(Entry(b, Top.depth + 1), stack')
  <2>1. PICK p \in P : RowAt(a, p) = r
    BY <1>6
  <2>2. Other(r, a) = b
    BY <1>5, <1>8 DEF Other, Follows, Ends
  <2> QED
    BY <1>3, <1>8, <2>1, <2>2
<1> QED
  BY <1>2, <1>3, <1>7, <1>8 DEF Visit

LEMMA AdvancingStep == IInv /\ Advancing /\ [Next]_vars => Advancing'
<1> SUFFICES ASSUME IInv, Advancing, [Next]_vars
             PROVE  Advancing'
  OBVIOUS
<1>a. asked' = asked
  BY DEF Next, Skip, Note, Visit, Return, vars
<1>n. /\ \A n : Near(n)' = Near(n)
      /\ \A S : RowsAlong(S)' = RowsAlong(S)
  BY <1>a, NearStays
<1> SUFFICES ASSUME ~missed', ListsFit, asked.depth \in {1, 2}
             PROVE  (Begins \/ Goes)'
  BY <1>a DEF Advancing
<1>1. ~missed
  <2> SUFFICES ASSUME missed PROVE missed'
    OBVIOUS
  <2>1. CASE Visit
    BY <2>1 DEF Visit
  <2> QED
    BY <2>1 DEF Next, Skip, Note, Return, vars
<1>2. Begins \/ Goes
  BY <1>1 DEF Advancing
<1>b. Begins => Top = Entry(Source, 0) /\ Rest = <<>> /\ Due(Top) /\ ~Skipped(Top)
  BY DEF Begins, Top, Rest, Due, Skipped, Entry
<1>3. CASE Skip
  <2>1. stack' = Rest /\ UNCHANGED <<visited, txs>> /\ stack # <<>> /\ ~Due(Top) /\ asked.depth > 0
    BY <1>3 DEF Skip, Going
  <2>2. Goes
    BY <1>2, <1>b, <2>1
  <2>3. ASSUME asked.depth = 2, NEW b \in Near(1)
        PROVE  b \in visited \/ In(Entry(b, 1), Rest)
    <3>1. CASE Entry(b, 1) = Top
      BY <2>1, <2>3, <3>1 DEF Due, Entry
    <3>2. CASE Entry(b, 1) # Top /\ In(Entry(b, 1), stack)
      BY <2>1, <3>2, TopOrRest DEF IInv
    <3> QED
      BY <2>2, <2>3, <3>1, <3>2 DEF Goes
  <2> QED
    BY <1>a, <1>n, <2>1, <2>2, <2>3 DEF Goes
<1>4. CASE Note
  <2>1. /\ stack' = Rest /\ visited' = visited \cup {Top.hash} /\ txs' = txs
        /\ stack # <<>> /\ Due(Top) /\ Skipped(Top)
    BY <1>4 DEF Note, Going
  <2>2. Goes
    BY <1>2, <1>b, <2>1
  <2>3. Top.hash \in Blocked
    BY <2>1, <2>2 DEF Due, Skipped, Goes, Blocked
  <2>4. \A x \in visited' \ Blocked : RowsAlong({x}) \subseteq txs'
    BY <2>1, <2>2, <2>3 DEF Goes
  <2>5. ASSUME asked.depth = 2, NEW b \in Near(1)
        PROVE  b \in visited' \/ In(Entry(b, 1), Rest)
    <3>1. CASE Entry(b, 1) = Top
      BY <2>1, <3>1 DEF Entry
    <3>2. CASE Entry(b, 1) # Top /\ In(Entry(b, 1), stack)
      BY <2>1, <3>2, TopOrRest DEF IInv
    <3> QED
      BY <2>1, <2>2, <2>5, <3>1, <3>2 DEF Goes
  <2>6. Source \in visited'
    BY <2>1, <2>2 DEF Goes
  <2> QED
    BY <1>a, <1>n, <2>1, <2>4, <2>5, <2>6 DEF Goes
<1>5. CASE Visit
  <2> DEFINE a == Top.hash
  <2>1. /\ ~Skipped(Top) /\ visited' = visited \cup {a} /\ txs \subseteq txs'
        /\ RowsAlong({a}) \subseteq txs'
        /\ \A e : In(e, Rest) => In(e, stack')
        /\ \A r \in RowsAlong({a}) : \A b \in Ends(r) :
             b # a => In(Entry(b, Top.depth + 1), stack')
    BY <1>5, VisitAll
  <2>2. stack # <<>>
    BY <1>5 DEF Visit, Going
  <2>3. CASE Begins
    <3>1. a = Source /\ Top.depth = 0
      BY <1>b, <2>3 DEF Entry
    <3>2. visited' = {Source}
      BY <2>1, <2>3, <3>1 DEF Begins
    <3>3. ASSUME NEW b \in Near(1), b # Source PROVE In(Entry(b, 1), stack')
      <4>1. <<Source, b>> \in Hops
        BY <3>3, NearOne
      <4>2. PICK r \in RowsAlong({Source}) : b \in Ends(r)
        BY <4>1 DEF Hops
      <4>3. In(Entry(b, Top.depth + 1), stack')
        BY <2>1, <3>1, <3>3, <4>2
      <4>4. Top.depth + 1 = 1
        BY <3>1
      <4> QED
        BY <4>3, <4>4
    <3> QED
      BY <1>a, <1>n, <2>1, <3>1, <3>2, <3>3 DEF Goes
  <2>4. CASE Goes
    <3>1. ASSUME asked.depth = 2, NEW b \in Near(1)
          PROVE  b \in visited' \/ In(Entry(b, 1), stack')
      <4>1. CASE Entry(b, 1) = Top
        BY <2>1, <4>1 DEF Entry
      <4>2. CASE Entry(b, 1) # Top /\ In(Entry(b, 1), stack)
        BY <2>1, <2>2, <4>2, TopOrRest DEF IInv
      <4> QED
        BY <2>1, <2>4, <3>1, <4>1, <4>2 DEF Goes
    <3>2. \A x \in visited' \ Blocked : RowsAlong({x}) \subseteq txs'
      BY <2>1, <2>4 DEF Goes
    <3>3. Source \in visited'
      BY <2>1, <2>4 DEF Goes
    <3> QED
      BY <1>a, <1>n, <3>1, <3>2, <3>3 DEF Goes
  <2> QED
    BY <1>2, <2>3, <2>4
<1>6. CASE Return \/ UNCHANGED vars
  <2>1. UNCHANGED <<stack, visited, txs>>
    BY <1>6 DEF Return, vars
  <2> QED
    BY <1>2, <1>a, <1>n, <2>1 DEF Begins, Goes, In
<1> QED
  BY <1>3, <1>4, <1>5, <1>6 DEF Next

\* With an empty stack, what the graph holds is all there is for depths 1 and 2.
LEMMA AdvancedFar == IInv /\ Advancing => ShallowComplete
<1> SUFFICES ASSUME IInv, Advancing, Undisturbed, asked.depth \in {1, 2},
                    NEW r \in RowsAlong(Near(asked.depth - 1) \ Blocked)
             PROVE  r \in txs
  BY DEF ShallowComplete
<1>1. Goes
  BY DEF Advancing, Undisturbed, Begins
<1>2. PICK a \in Near(asked.depth - 1) \ Blocked : r \in RowsAlong({a})
  BY DEF RowsAlong
<1>3. a \in visited
  <2>1. CASE asked.depth = 1
    <3>1. asked.depth - 1 = 0
      BY <2>1
    <3>2. a = Source
      BY <1>2, <3>1, WithinZero DEF Near
    <3> QED
      BY <1>1, <3>2 DEF Goes
  <2>2. CASE asked.depth = 2
    <3>1. asked.depth - 1 = 1
      BY <2>2
    <3>2. a \in Near(1)
      BY <1>2, <3>1
    <3> QED
      BY <1>1, <2>2, <3>2 DEF Goes, Undisturbed, In
  <2> QED
    BY <2>1, <2>2
<1> QED
  BY <1>1, <1>2, <1>3 DEF Goes

\* Nothing within depth 1 or 2 is missing from the answer when every read succeeds,
\* the lists fit and the stack runs empty: so far the order in which CollectDFS
\* meets the addresses does not matter.
THEOREM DfsShallowComplete == Spec => []ShallowComplete
<1> DEFINE J == IInv /\ Advancing
<1>1. Init => J
  BY IInvInit DEF Init, Advancing, Begins
<1>2. J /\ [Next]_vars => J'
  BY IInvStep, AdvancingStep
<1>3. J => ShallowComplete
  BY AdvancedFar
<1> QED
  BY <1>1, <1>2, <1>3, PTL DEF Spec

-----------------------------------------------------------------------------
(* The loop ends.  What is ahead of it are two natural numbers, of which    *)
(* every round lowers the first, or the second alone: there are no infinite *)
(* descents, so that a loop that goes on for ever is none of its executions.*)

Before(m, n) == m[1] < n[1] \/ (m[1] = n[1] /\ m[2] < n[2])

\* The visits that the limit leaves, with the return, and the entries to be looked at.
Ahead ==
  <<asked.limit - Cardinality(visited) + (IF pc = "loop" THEN 1 ELSE 0), Len(stack)>>

\* A turn of the loop takes an entry from the stack.
LEMMA RestLength ==
  ASSUME TypeOK, stack # <<>>
  PROVE  Len(stack) \in Nat /\ Len(Rest) = Len(stack) - 1
<1> DEFINE n == Len(stack) - 1
<1>1. stack \in Seq(Entries) /\ Len(stack) \in Nat /\ n \in Nat /\ n - 1 + 1 = n /\ n < Len(stack)
  BY DEF TypeOK, Entries
<1>2. Rest = SubSeq(stack, 1, n)
  BY DEF Rest
<1>3. 1 \in Int /\ n \in Int /\ \A i \in 1..n : stack[i] \in Entries
  BY <1>1
<1> HIDE DEF n
<1>4. Len(Rest) = IF 1 <= n THEN n - 1 + 1 ELSE 0
  BY <1>2, <1>3, SubSeqProperties
<1>5. Len(Rest) = n
  BY <1>1, <1>4
<1> QED
  BY <1>1, <1>5 DEF n

LEMMA AheadType == IInv => Ahead \in Nat \X Nat
<1> SUFFICES ASSUME IInv PROVE Ahead \in Nat \X Nat
  OBVIOUS
<1>1. Cardinality(visited) \in Nat /\ Cardinality(visited) <= asked.limit /\ asked.limit \in Nat
  BY FS_CardinalityType, RequestProps DEF IInv, SizeKept, TypeOK
<1>2. Len(stack) \in Nat
  BY DEF IInv, TypeOK
<1> QED
  BY <1>1, <1>2 DEF Ahead

LEMMA AheadStep == IInv /\ Next => Before(Ahead', Ahead)
<1> SUFFICES ASSUME IInv, Next PROVE Before(Ahead', Ahead)
  OBVIOUS
<1> DEFINE v == Cardinality(visited)
<1>1. IsFiniteSet(visited) /\ v \in Nat /\ asked.limit \in Nat
  BY FS_CardinalityType, RequestProps DEF IInv, TypeOK
<1> HIDE DEF v
<1>2. CASE Skip
  <2>1. UNCHANGED <<asked, visited, pc>> /\ stack' = Rest /\ stack # <<>>
    BY <1>2 DEF Skip, Going
  <2>2. Len(stack) \in Nat /\ Len(stack') = Len(stack) - 1
    BY <2>1, RestLength DEF IInv
  <2>3. Len(stack') < Len(stack)
    BY <2>2
  <2> QED
    BY <2>1, <2>3 DEF Before, Ahead
<1>3. CASE Note \/ Visit
  <2>1. /\ UNCHANGED <<asked, pc>> /\ pc = "loop" /\ visited' = visited \cup {Top.hash}
        /\ Top.hash \notin visited
    BY <1>3 DEF Note, Visit, Due
  <2>2. Cardinality(visited') = v + 1
    BY <1>1, <2>1, FS_AddElement DEF v
  <2>3. asked.limit - (v + 1) + 1 < asked.limit - v + 1
    BY <1>1
  <2> QED
    BY <2>1, <2>2, <2>3 DEF Before, Ahead, v
<1>4. CASE Return
  <2>1. UNCHANGED <<asked, visited>> /\ pc = "loop" /\ pc' = "done"
    BY <1>4 DEF Return
  <2>2. asked.limit - v + 0 < asked.limit - v + 1
    BY <1>1
  <2> QED
    BY <2>1, <2>2 DEF Before, Ahead, v
<1> QED
  BY <1>2, <1>3, <1>4 DEF Next

\* CollectDFS comes to its end on every content of Redis, even one where addresses
\* point back at each other, with any limit and whatever reads fail.
THEOREM DfsAdvances == Spec => [](Ahead \in Nat \X Nat) /\ [][Before(Ahead', Ahead)]_vars
<1>1. IInv => Ahead \in Nat \X Nat
  BY AheadType
<1>2. IInv /\ [Next]_vars => [Before(Ahead', Ahead)]_vars
  BY AheadStep
<1> QED
  BY <1>1, <1>2, DfsInvariant, PTL DEF Spec

\* A request for depth 0 or less has an empty answer.
THEOREM DfsNoDepth == Spec => [](asked.depth <= 0 => txs = {})
<1> DEFINE J == asked.depth <= 0 => txs = {}
<1>1. Init => J
  BY DEF Init
<1>2. IInv /\ J /\ [Next]_vars => J'
  <2> SUFFICES ASSUME IInv, J, [Next]_vars PROVE J'
    OBVIOUS
  <2>1. asked.depth \in Int
    BY RequestProps DEF IInv, TypeOK
  <2>2. UNCHANGED asked
    BY DEF Next, Skip, Note, Visit, Return, vars
  <2>3. CASE Visit
    BY <2>1, <2>2, <2>3 DEF Visit, Going
  <2>4. CASE ~Visit
    BY <2>2, <2>4 DEF Next, Skip, Note, Return, vars
  <2> QED
    BY <2>3, <2>4
<1> QED
  BY <1>1, <1>2, DfsInvariant, PTL DEF Spec

-----------------------------------------------------------------------------
(* The loop is never stuck: the rows of a visit can come in some order.    *)

\* The place of q is that of p, or before it.
Upto(q, p) == q.block < p.block \/ (q.block = p.block /\ q.row <= p.row)

\* Places are put in order by the number of places up to each.
LEMMA ArrivalsExist ==
  ASSUME NEW Q, IsFiniteSet(Q), \A p \in Q : p.block \in Nat /\ p.row \in Nat,
         \A p, q \in Q : p.block = q.block /\ p.row = q.row => p = q
  PROVE  Arrivals(Q) # {}
<1> DEFINE m == Cardinality(Q)
           Low(p) == {q \in Q : Upto(q, p)}
           rank == [p \in Q |-> Cardinality(Low(p))]
<1>1. m \in Nat
  BY FS_CardinalityType
<1>2. ASSUME NEW p \in Q
      PROVE  IsFiniteSet(Low(p)) /\ rank[p] \in 1..m
  <2>1. Low(p) \in SUBSET Q /\ p \in Low(p)
    BY DEF Upto
  <2>2. /\ IsFiniteSet(Low(p)) /\ Cardinality(Low(p)) \in Nat /\ Cardinality(Low(p)) # 0
        /\ Cardinality(Low(p)) <= m
    <3> HIDE DEF Low
    <3> QED
      BY <2>1, FS_Subset, FS_CardinalityType, FS_EmptySet
  <2> QED
    BY <1>1, <2>2
<1>3. ASSUME NEW p \in Q, NEW q \in Q, p # q, Upto(p, q)
      PROVE  rank[p] < rank[q]
  <2>1. Low(p) \in SUBSET Low(q)
    BY <1>3 DEF Upto
  <2>2. q \in Low(q) /\ q \notin Low(p)
    BY <1>3 DEF Upto
  <2>3. IsFiniteSet(Low(q)) /\ rank[p] \in 1..m /\ rank[q] \in 1..m
    BY <1>2
  <2>4. Cardinality(Low(p)) <= Cardinality(Low(q)) /\ Cardinality(Low(q)) # Cardinality(Low(p))
    <3> HIDE DEF Low
    <3> QED
      BY <2>1, <2>2, <2>3, FS_Subset
  <2> QED
    BY <1>1, <2>3, <2>4
<1>4. \A p, q \in Q : Upto(p, q) \/ Upto(q, p)
  BY DEF Upto
<1> HIDE DEF Low, rank, m
<1>5. \A p, q \in Q : p # q => rank[p] # rank[q]
  <2> SUFFICES ASSUME NEW p \in Q, NEW q \in Q, p # q PROVE rank[p] # rank[q]
    OBVIOUS
  <2>1. rank[p] \in Nat /\ rank[q] \in Nat
    BY <1>1, <1>2
  <2>2. rank[p] < rank[q] \/ rank[q] < rank[p]
    BY <1>3, <1>4
  <2> QED
    BY <2>1, <2>2
<1>6. rank \in Surjection(Q, 1..m)
  <2>1. rank \in [Q -> 1..m]
    BY <1>2 DEF rank
  <2>2. rank \in Injection(Q, 1..m)
    BY <1>5, <2>1 DEF Injection, IsInjective
  <2>3. IsFiniteSet(1..m) /\ Cardinality(1..m) = m
    <3>1. 1 \in Int /\ m \in Int /\ (1 > m => m = 0) /\ m - 1 + 1 = m
      BY <1>1
    <3>2. IsFiniteSet(1..m) /\ Cardinality(1..m) = IF 1 > m THEN 0 ELSE m - 1 + 1
      BY <3>1, FS_Interval
    <3> QED
      BY <3>1, <3>2
  <2>4. Cardinality(Q) = Cardinality(1..m)
    BY <2>3 DEF m
  <2> QED
    BY <2>2, <2>3, <2>4, FS_Injection
<1> DEFINE t == [i \in 1..m |-> CHOOSE p \in Q : rank[p] = i]
<1>7. ASSUME NEW i \in 1..m PROVE t[i] \in Q /\ rank[t[i]] = i
  <2>1. \E p \in Q : rank[p] = i
    BY <1>6 DEF Surjection
  <2> QED
    BY <2>1
<1>8. t \in [1..m -> Q] /\ DOMAIN t = 1..m
  BY <1>7
<1> HIDE DEF t
<1>9. ASSUME NEW i \in 1..m, NEW j \in 1..m, i < j
      PROVE  t[i] # t[j] /\ Upto(t[i], t[j])
  <2>1. t[i] # t[j]
    BY <1>1, <1>7, <1>9
  <2>2. ~Upto(t[j], t[i])
    BY <1>1, <1>3, <1>7, <1>9, <2>1
  <2> QED
    BY <1>4, <1>7, <2>1, <2>2
<1>10. ASSUME NEW i \in 1..m, NEW j \in 1..m, i < j, t[i].block = t[j].block
       PROVE  t[i].row < t[j].row
  BY <1>7, <1>9, <1>10 DEF Upto
<1>11. ASSUME NEW i \in 1..m, NEW j \in 1..m, NEW k \in 1..m,
              i < j, j < k, t[i].block = t[k].block
       PROVE  t[j].block = t[i].block
  <2>1. t[i].block <= t[j].block /\ t[j].block <= t[k].block
    BY <1>7, <1>9, <1>11 DEF Upto
  <2> QED
    BY <1>7, <1>11, <2>1
<1>12. t \in Arrivals(Q)
  BY <1>8, <1>9, <1>10, <1>11 DEF Arrivals, m
<1> QED
  BY <1>12

\* Whichever reads fail, there is an order in which the goroutines of a visit can
\* report: no content of Redis stops the loop at an address that is due.
THEOREM DfsNeverStuck ==
  Spec => [](pc = "loop" /\ Going /\ Due(Top) =>
               LET a == Top.hash IN
               \A failed \in SUBSET Positions(a) :
                 Arrivals({p \in Selected(a, Positions(a) \ failed) :
                             Other(RowAt(a, p), a) # a}) # {})
<1>1. ASSUME IInv, Going, NEW failed \in SUBSET Positions(Top.hash)
      PROVE  Arrivals({p \in Selected(Top.hash, Positions(Top.hash) \ failed) :
                         Other(RowAt(Top.hash, p), Top.hash) # Top.hash}) # {}
  <2> DEFINE a == Top.hash
             S == Positions(a) \ failed
             P == Selected(a, S)
             Q == {p \in P : Other(RowAt(a, p), a) # a}
  <2>1. a \in Address
    BY <1>1, PopProps DEF IInv, Going, Entries
  <2>2. S \in SUBSET Positions(a) /\ Q \in SUBSET P
    OBVIOUS
  <2>3. IsFiniteSet(P)
    BY <2>1, <2>2, SelectedFinite
  <2>4. IsFiniteSet(Q)
    BY <2>2, <2>3, FS_Subset
  <2>5. ASSUME NEW p \in P PROVE p.block \in Nat /\ p.row \in Nat
    <3>1. p.block \in DOMAIN Index[a] /\ p.row \in DOMAIN Blob[Index[a][p.block]]
      BY DEF Selected, Positions
    <3>2. Index[a] \in Seq(Block)
      BY <2>1, IndexAssumption
    <3>3. Index[a][p.block] \in Block
      BY <3>1, <3>2
    <3>4. Blob[Index[a][p.block]] \in Seq(Row)
      BY <3>3, BlobAssumption
    <3> QED
      BY <3>1, <3>2, <3>4
  <2>6. ASSUME NEW p \in P, NEW q \in P, p.block = q.block, p.row = q.row PROVE p = q
    <3>1. p = [block |-> p.block, row |-> p.row] /\ q = [block |-> q.block, row |-> q.row]
      BY DEF Selected
    <3> QED
      BY <2>6, <3>1
  <2> HIDE DEF P
  <2>7. /\ \A p \in Q : p.block \in Nat /\ p.row \in Nat
        /\ \A p, q \in Q : p.block = q.block /\ p.row = q.row => p = q
    BY <2>5, <2>6
  <2> HIDE DEF Q
  <2>8. Arrivals(Q) # {}
    BY <2>4, <2>7, ArrivalsExist
  <2> QED
    BY <2>8 DEF Q, P
<1>2. IInv => (pc = "loop" /\ Going /\ Due(Top) =>
                 LET a == Top.hash IN
                 \A failed \in SUBSET Positions(a) :
                   Arrivals({p \in Selected(a, Positions(a) \ failed) :
                               Other(RowAt(a, p), a) # a}) # {})
  BY <1>1
<1> QED
  BY <1>2, DfsInvariant, PTL

=============================================================================
