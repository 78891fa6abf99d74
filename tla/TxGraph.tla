------------------------------- MODULE TxGraph -------------------------------
(***************************************************************************)
(* What the indexer has left in Redis, as the traversers read it, and what *)
(* every traversal is asked: where to start and which blocks to look at.   *)
(*                                                                         *)
(* A row is a line of a stored block, with the hash of its transaction and *)
(* the two addresses; the amounts are left out.  Nothing here changes      *)
(* while a request is served.                                              *)
(***************************************************************************)
EXTENDS Integers, Sequences, FiniteSets

CONSTANTS
  Address,
  Hash,
  Row,            \* the rows: [hash, from, to]
  Block,          \* the block numbers
  Blob,           \* the stored blocks: for each block its rows, in order
  Index,          \* for each address its list of block numbers
  Count,          \* for each address its transaction counter
  ListCap,        \* GetAddressBlocks reads that much of the list: 1001
  MaxDegree,      \* TRAVERSE_MAX_DEGREE: 300
  Source,         \* the address a traversal starts from
  FromBlock, ToBlock

ASSUME RowAssumption == Row \subseteq [hash : Hash, from : Address, to : Address]
ASSUME RowsAssumption == IsFiniteSet(Row)
\* A hash names one row: the maps by hash hold every row that is put in them.
ASSUME HashAssumption == \A r, s \in Row : r.hash = s.hash => r = s
ASSUME BlockAssumption == Block \subseteq Nat /\ IsFiniteSet(Block)
ASSUME BlobAssumption == Blob \in [Block -> Seq(Row)]
ASSUME IndexAssumption == Index \in [Address -> Seq(Block)]
ASSUME CountAssumption == Count \in [Address -> Nat]
ASSUME CapAssumption == ListCap \in Nat \ {0} /\ MaxDegree \in Nat
ASSUME SourceAssumption == Source \in Address
ASSUME RangeAssumption == FromBlock \in Int /\ ToBlock \in Int

\* GetAddressBlocks: the first ListCap entries of the list.
AddressBlocks(a) == {Index[a][i] : i \in {j \in DOMAIN Index[a] : j <= ListCap}}

InRange(b) == FromBlock <= b /\ b <= ToBlock

-----------------------------------------------------------------------------
\* The two addresses of a row, or of any of the rows in a set.
Ends(r) == {r.from, r.to}
AllEnds(R) == UNION {Ends(r) : r \in R}

\* The rows that a traversal may find.
RowsInRange ==
  {r \in Row : \E b \in Block : InRange(b) /\ \E i \in DOMAIN Blob[b] : Blob[b][i] = r}

\* Addresses with more transactions than MaxDegree: exchanges, pools and such.
Hubs == {a \in Address : Count[a] > MaxDegree}

-----------------------------------------------------------------------------
\* The lists of blocks that are read lead to all that was asked for: nothing in
\* the range is cut off, and each address of a row has the block in its list.
ListsFit ==
  \A b \in Block :
    InRange(b) => \A i \in DOMAIN Blob[b] : \A a \in Ends(Blob[b][i]) : b \in AddressBlocks(a)

\* The addresses that a way of at most n steps leads to from the source.
Within(n, steps) ==
  {a \in Address : \E k \in 0..n : \E way \in [0..k -> Address] :
     /\ way[0] = Source /\ way[k] = a
     /\ \A i \in 1..k : <<way[i - 1], way[i]>> \in steps}

=============================================================================
