----------------------------- MODULE SmallGraphs -----------------------------
(***************************************************************************)
(* Small contents of Redis for the traversers.                             *)
(*                                                                         *)
(* CityBlocks: around src are ann and dan, one hop away, ben, two hops     *)
(* away, and cat, three.  hub and pool are hubs that deal with each other; *)
(* dan pays himself.  Block 5, meant to be out of range, would bring cat   *)
(* within one hop of src.                                                  *)
(* Town: ann is one hop from src and ben two, and again there is a hub     *)
(* behind a hub.  Block 4, meant to be out of range, would bring ben near. *)
(* Diamond: src, ann and ben form a triangle, and dan is behind ben.       *)
(***************************************************************************)
EXTENDS Naturals, Sequences, TLC

CONSTANTS src, ann, ben, cat, dan, hub, pool, h1, h2, h3, h4, h5, h6, h7, h8, h9

Line(h, x, y) == [hash |-> h, from |-> x, to |-> y]

CityBlocks ==
  <<<<Line(h1, ann, src), Line(h2, src, hub)>>,
    <<Line(h3, hub, pool), Line(h4, ben, ann)>>,
    <<Line(h5, src, dan), Line(h6, dan, dan)>>,
    <<Line(h7, ben, cat), Line(h8, dan, ann)>>,
    <<Line(h9, cat, src)>>>>

Town ==
  <<<<Line(h1, ann, src), Line(h2, src, hub)>>,
    <<Line(h3, hub, pool), Line(h4, ann, src)>>,
    <<Line(h5, ben, ann), Line(h6, src, src)>>,
    <<Line(h7, ben, src)>>>>

Diamond ==
  <<<<Line(h1, src, ann)>>, <<Line(h2, src, ben)>>, <<Line(h3, ann, ben)>>,
    <<Line(h4, ben, dan)>>, <<Line(h5, dan, cat)>>>>

\* What the indexer would have put in the lists of blocks.
Listing(blobs, people) ==
  [p \in people |->
     SelectSeq([i \in DOMAIN blobs |-> i],
               LAMBDA i : \E j \in DOMAIN blobs[i] : p \in {blobs[i][j].from, blobs[i][j].to})]

Lines(blobs) == UNION {{blobs[i][j] : j \in DOMAIN blobs[i]} : i \in DOMAIN blobs}

People == {src, ann, ben, cat, dan, hub, pool}
Hashes == {h1, h2, h3, h4, h5, h6, h7, h8, h9}

\* Only hub and pool have many transactions.
Counters == [p \in People |-> IF p \in {hub, pool} THEN 9 ELSE 2]

CityLines == Lines(CityBlocks)
CityListing == Listing(CityBlocks, People)
TownLines == Lines(Town)
TownListing == Listing(Town, People)
DiamondLines == Lines(Diamond)
DiamondListing == Listing(Diamond, People)

=============================================================================
