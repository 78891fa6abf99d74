------------------------------ MODULE MCIndexer ------------------------------
(***************************************************************************)
(* Small chains for the model checker. In TokenChain block 1 has a         *)
(* contract creation, which the indexer skips, and a token transfer        *)
(* through stone, whose contract cannot be read: it counts, but never has  *)
(* a row. Block 2 has a token transfer through coin, which has a row       *)
(* unless coin is not known or its price is not read, and alice paying     *)
(* herself nothing, which counts twice and has no row: the writers of the  *)
(* two blocks meet on alice. NarrowChain is alice paying herself and then  *)
(* a block without transactions, of which only the blob is written: small  *)
(* enough for several faults.                                              *)
(***************************************************************************)
EXTENDS Indexer

CONSTANTS alice, carol, coin, stone, t1, t2, t3, t4, t5

Tx1 == [hash |-> t1, from |-> alice, to |-> alice, signed |-> TRUE, paid |-> TRUE,
        method |-> "none", recipient |-> alice]
Tx2 == [hash |-> t2, from |-> alice, to |-> Nil, signed |-> TRUE, paid |-> TRUE,
        method |-> "none", recipient |-> alice]
Tx3 == [hash |-> t3, from |-> alice, to |-> coin, signed |-> TRUE, paid |-> FALSE,
        method |-> "transfer", recipient |-> carol]

Tx4 == [hash |-> t4, from |-> alice, to |-> stone, signed |-> TRUE, paid |-> FALSE,
        method |-> "transfer", recipient |-> carol]

Tx5 == [Tx1 EXCEPT !.hash = t5, !.paid = FALSE]

TokenChain == <<{Tx2, Tx4}, {Tx3, Tx5}>>
NarrowChain == <<{Tx1}, {}>>
Seeded == {0}
Unseeded == {Nil}

=============================================================================
