-------------------------------- MODULE MCBfs --------------------------------
(***************************************************************************)
(* Bfs on the graphs of SmallGraphs.                                       *)
(***************************************************************************)
EXTENDS Bfs, SmallGraphs

\* Every depth that matters, with a limit that is soon met and one that never is.
AnyRequest == [depth : {-1, 0, 1, 2, 3}, flow : {"all"}, limit : {1, 13}]

OutputRequest == [depth : {1}, flow : {"output"}, limit : {99}]

=============================================================================
