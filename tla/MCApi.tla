-------------------------------- MODULE MCApi --------------------------------
(***************************************************************************)
(* Five rows for the model checker.  ann pays bob three times, in two      *)
(* currencies, bob pays cat and cat pays ann: there is a path from ann to  *)
(* cat along the payments and one against them.  dot is no address at all. *)
(***************************************************************************)
EXTENDS Api

CONSTANTS ann, bob, cat, dot, h1, h2, h3, h4, h5, ether, coin

Line(h, x, y, b, c, n) ==
  [hash |-> h, from |-> x, to |-> y, block |-> b, currency |-> c, amount |-> n, usd |-> 2 * n]

Lines == {Line(h1, ann, bob, 1, ether, 1), Line(h2, ann, bob, 2, coin, 2),
          Line(h3, ann, bob, 3, ether, 4), Line(h4, bob, cat, 2, coin, 1),
          Line(h5, cat, ann, 3, ether, 2)}

Exchange == [prime |-> "", type |-> "Exchange", ofac |-> FALSE]
Mixer == [prime |-> "Mixer", type |-> "Mixer", ofac |-> TRUE]
SomeCounts == [a \in Addr |-> 1]
SomeLabels == {Exchange, Mixer}
Known == [a \in Addr |-> IF a = cat THEN Mixer ELSE Nil]

=============================================================================
