-------------------------------- MODULE MCDfs --------------------------------
(***************************************************************************)
(* Dfs on the graphs of SmallGraphs.                                       *)
(***************************************************************************)
EXTENDS Dfs, SmallGraphs

\* Every depth that matters, with a limit that is soon met and one that never is.
AnyRequest ==
  [depth : {-1, 0, 1, 2, 3}, flow : {"input", "output", "all"}, limit : {3, 99}]

DeepRequest == [depth : {3}, flow : {"all"}, limit : {99}]

=============================================================================
