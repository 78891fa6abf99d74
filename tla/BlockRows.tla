------------------------------ MODULE BlockRows ------------------------------
(***************************************************************************)
(* What the indexer makes of the transactions of one Ethereum block        *)
(* (cmd/indexer/indexer.go, handleBlock; internal/blockchain/eth/client.go,*)
(* HandleERC20).  A block is a set of transaction records.  Amounts,       *)
(* prices and the text of the stored blob are left out; a row of the blob  *)
(* is the triple that the traversers use: hash, from, to.                  *)
(***************************************************************************)
EXTENDS Integers, FiniteSets

CONSTANTS
  Addr,      \* addresses
  Tokens,    \* CONTRACTS_TO_TRACK
  Hashes,    \* transaction hashes
  Nil

ASSUME NilAssumption == Nil \notin Addr /\ Nil \notin Tokens

Methods == {"transfer", "transferFrom", "approve", "none"}

\* A transaction as BlockByNumber returns it: to is Nil for a contract
\* creation, signed is FALSE when types.Sender fails, paid says whether the
\* value is positive, method and recipient are what the call data decodes to.
Tx == [hash : Hashes, from : Addr, to : Addr \cup {Nil}, signed : BOOLEAN,
       paid : BOOLEAN, method : Methods, recipient : Addr]

Row == [hash : Hashes, from : Addr, to : Addr]

\* HandleERC20 succeeds, if the client knows the token: a tracked contract and one of the two transfer methods.
IsTransfer(tx) == tx.to \in Tokens /\ tx.method \in {"transfer", "transferFrom"}

\* Variant: contract creations are not skipped.
Counted_KeepsCreations(txs) == {tx \in txs : tx.signed}

\* The transactions handleBlock does not skip.
Counted(txs) == {tx \in txs : tx.to # Nil /\ tx.signed}

\* Zero-value calls that HandleERC20 decodes: their row needs a token price.
TokenTxs(txs) == {tx \in Counted(txs) : ~tx.paid /\ IsTransfer(tx)}

PaidTxs(txs) == {tx \in Counted(txs) : tx.paid}

\* The row of a transaction: a token transfer is filed under the decoded
\* recipient, with the sender of the transaction as its source.
RowOf(tx) == [hash |-> tx.hash, from |-> tx.from,
              to |-> IF tx.paid THEN tx.to ELSE tx.recipient]

\* The transactions that get a row, when the token or its price is missing for
\* the ones in dropped.
Filed(txs, dropped) == PaidTxs(txs) \cup (TokenTxs(txs) \ dropped)

\* The blob of a block: a row for each of these transactions.
Rows(filed) == {RowOf(tx) : tx \in filed}

\* The keys of transMap, and its values: one for each end of each counted
\* transaction, so a transfer to oneself weighs two.
Touched(txs) == {tx.from : tx \in Counted(txs)} \cup {tx.to : tx \in Counted(txs)}

Weight(txs, a) == Cardinality({tx \in Counted(txs) : tx.to = a})
                  + Cardinality({tx \in Counted(txs) : tx.from = a})

=============================================================================
