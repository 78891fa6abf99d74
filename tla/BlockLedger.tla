----------------------------- MODULE BlockLedger -----------------------------
(***************************************************************************)
(* What the indexer promises to the readers of its Redis keys: a committed *)
(* height that climbs one block at a time and only over blocks whose       *)
(* writing has begun, and an index that only grows and only speaks of      *)
(* blocks that have begun and of the addresses they touch.                 *)
(* It does not promise that a committed block is completely indexed.       *)
(***************************************************************************)
EXTENDS Naturals

CONSTANTS
  Facts   \* Facts[b] is what the index may hold about block b

VARIABLES
  done,      \* the committed height
  begun,     \* the blocks whose writing has begun
  known      \* the facts that are in the index

vars == <<done, begun, known>>

Init == done = 0 /\ begun = {} /\ known = {}

\* The next block is handed to the writers; again, if it was not committed.
Begin == /\ begun' = begun \cup {done + 1}
         /\ UNCHANGED <<done, known>>

\* The height moves over a block that has begun.
Commit == /\ done + 1 \in begun
          /\ done' = done + 1
          /\ UNCHANGED <<begun, known>>

\* A writer stores a fact about a block that has begun, whatever the height.
Store == /\ \E b \in begun : \E f \in Facts[b] : known' = known \cup {f}
         /\ UNCHANGED <<done, begun>>

Next == Begin \/ Commit \/ Store

Spec == Init /\ [][Next]_vars

=============================================================================
