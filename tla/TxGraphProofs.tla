---------------------------- MODULE TxGraphProofs ----------------------------
(***************************************************************************)
(* How far the source reaches: what one more step adds to Within.          *)
(***************************************************************************)
EXTENDS TxGraph, TLAPS

\* A way within n steps to a, along steps that are allowed.
Way(k, w, a, E) ==
  /\ w \in [0..k -> Address]
  /\ w[0] = Source /\ w[k] = a
  /\ \A i \in 1..k : <<w[i - 1], w[i]>> \in E

LEMMA WithinWay ==
  ASSUME NEW n \in Nat, NEW E, NEW a
  PROVE  a \in Within(n, E) <=> a \in Address /\ \E k \in 0..n : \E w : Way(k, w, a, E)
  BY DEF Within, Way

\* No step leads nowhere.
LEMMA WithinZero == ASSUME NEW E PROVE Within(0, E) = {Source}
<1>1. ASSUME NEW a, a \in Within(0, E) PROVE a = Source
  <2>1. PICK k \in 0..0 : \E w : Way(k, w, a, E)
    BY <1>1, WithinWay
  <2> QED
    BY <2>1 DEF Way
<1>2. Source \in Within(0, E)
  <2> DEFINE w == [i \in 0..0 |-> Source]
  <2>1. Way(0, w, Source, E)
    BY SourceAssumption DEF Way
  <2> QED
    BY <2>1, WithinWay, SourceAssumption
<1> QED
  BY <1>1, <1>2

\* More steps lead at least as far.
LEMMA WithinMore ==
  ASSUME NEW n \in Nat, NEW m \in Nat, n <= m, NEW E
  PROVE  Within(n, E) \subseteq Within(m, E) /\ Within(n, E) \subseteq Address
<1>1. 0..n \subseteq 0..m
  OBVIOUS
<1> QED
  BY <1>1 DEF Within

\* A way can be followed by a step.
LEMMA WithinStep ==
  ASSUME NEW n \in Nat, NEW E, NEW a \in Within(n, E), NEW b \in Address, <<a, b>> \in E
  PROVE  b \in Within(n + 1, E)
<1>1. PICK k \in 0..n : \E w : Way(k, w, a, E)
  BY WithinWay
<1>2. PICK w : Way(k, w, a, E)
  BY <1>1
<1> DEFINE v == [i \in 0..(k + 1) |-> IF i = k + 1 THEN b ELSE w[i]]
<1>3. k \in Nat /\ k + 1 \in 0..(n + 1) /\ \A i \in 0..(k + 1) : i # k + 1 => i \in 0..k
  OBVIOUS
<1>4. /\ w \in [0..k -> Address] /\ w[0] = Source /\ w[k] = a
      /\ \A i \in 1..k : <<w[i - 1], w[i]>> \in E
  BY <1>2 DEF Way
<1>5. v \in [0..(k + 1) -> Address] /\ v[0] = Source /\ v[k + 1] = b /\ v[k] = a
  BY <1>3, <1>4
<1>6. ASSUME NEW i \in 1..(k + 1) PROVE <<v[i - 1], v[i]>> \in E
  <2>1. CASE i = k + 1
    BY <1>3, <1>5, <2>1
  <2>2. CASE i # k + 1
    <3>1. i \in 1..k /\ i \in 0..(k + 1) /\ i - 1 \in 0..(k + 1) /\ i - 1 # k + 1
      BY <1>3, <2>2
    <3>2. v[i - 1] = w[i - 1] /\ v[i] = w[i]
      BY <2>2, <3>1
    <3> QED
      BY <1>4, <3>1, <3>2
  <2> QED
    BY <2>1, <2>2
<1> HIDE DEF v
<1>7. Way(k + 1, v, b, E)
  BY <1>5, <1>6 DEF Way
<1> QED
  BY <1>3, <1>7, WithinWay

\* The last step of a way comes from an address that is one step nearer.
LEMMA WithinLast ==
  ASSUME NEW n \in Nat, NEW E, NEW b \in Within(n + 1, E), b \notin Within(n, E)
  PROVE  \E a \in Within(n, E) : <<a, b>> \in E
<1>1. PICK k \in 0..(n + 1) : \E w : Way(k, w, b, E)
  BY WithinWay
<1>2. PICK w : Way(k, w, b, E)
  BY <1>1
<1>3. k = n + 1
  <2> SUFFICES ASSUME k # n + 1 PROVE FALSE
    OBVIOUS
  <2>1. k \in 0..n
    BY <1>1
  <2>2. b \in Address
    BY <1>2 DEF Way
  <2> QED
    BY <1>2, <2>1, <2>2, WithinWay
<1>4. /\ w \in [0..(n + 1) -> Address] /\ w[0] = Source /\ w[n + 1] = b
      /\ \A i \in 1..(n + 1) : <<w[i - 1], w[i]>> \in E
  BY <1>2, <1>3 DEF Way
<1> DEFINE a == w[n]
           v == [i \in 0..n |-> w[i]]
<1>5. n \in 0..(n + 1) /\ 0..n \subseteq 0..(n + 1) /\ n + 1 \in 1..(n + 1) /\ n + 1 - 1 = n
      /\ 1..n \subseteq 1..(n + 1) /\ \A i \in 1..n : i \in 0..n /\ i - 1 \in 0..n
      /\ 0 \in 0..n /\ n \in 0..n
  OBVIOUS
<1>6. a \in Address /\ <<a, b>> \in E
  BY <1>4, <1>5
<1>7. v \in [0..n -> Address] /\ v[0] = Source /\ v[n] = a
  BY <1>4, <1>5
<1>8. \A i \in 1..n : <<v[i - 1], v[i]>> \in E
  BY <1>4, <1>5
<1> HIDE DEF v
<1>9. Way(n, v, a, E)
  BY <1>7, <1>8 DEF Way
<1>10. a \in Within(n, E)
  BY <1>5, <1>6, <1>9, WithinWay
<1> QED
  BY <1>6, <1>10

=============================================================================
