------------------------------ MODULE PathReport ------------------------------
(***************************************************************************)
(* What an enumeration of the paths between two vertices promises to its   *)
(* caller: it reports each path once, and when it says that it has         *)
(* finished it has reported them all.  It may also give up.                *)
(***************************************************************************)
CONSTANT
  Paths        \* the paths between the two vertices

VARIABLES
  reported,    \* the paths reported so far
  status       \* "running", "finished" or "gave up"

vars == <<reported, status>>

Init == reported = {} /\ status = "running"

Report == /\ status = "running"
          /\ \E p \in Paths \ reported : reported' = reported \cup {p}
          /\ UNCHANGED status

Finish == /\ status = "running"
          /\ Paths \subseteq reported
          /\ status' = "finished"
          /\ UNCHANGED reported

GiveUp == /\ status = "running"
          /\ status' = "gave up"
          /\ UNCHANGED reported

Next == Report \/ Finish \/ GiveUp

Spec == Init /\ [][Next]_vars

=============================================================================
