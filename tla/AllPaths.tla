------------------------------- MODULE AllPaths -------------------------------
(***************************************************************************)
(* AllPathsBetween (api/handlers/utils/allPathBetween.go): every simple    *)
(* path between two vertices, with two stacks instead of recursion.        *)
(* mainStack is the path being built; viceStack holds, for each vertex of  *)
(* it, the neighbours still to try.  The neighbours come out of a Go map,  *)
(* in any order, so an element of viceStack is a set.                      *)
(*                                                                         *)
(* The errors of checkEmpty and removeLayer cannot happen: StackShape.     *)
(***************************************************************************)
EXTENDS SimplePaths

CONSTANT
  CheckEvery   \* the loop looks at the clock every so many rounds: 100_000

ASSUME NodeAssumption == IsFiniteSet(Node)
ASSUME AdjAssumption == Adj \in [Node -> SUBSET Node]
ASSUME EndsAssumption == Start \in Node /\ End \in Node
ASSUME CheckAssumption == CheckEvery \in Nat \ {0}

VARIABLES
  mainStack,   \* the path being built, a sequence of vertices
  viceStack,   \* for each vertex of mainStack the neighbours still to try
  allPaths,    \* the paths found so far, in order
  cnt,         \* rounds of the main loop, modulo CheckEvery
  pc           \* "loop", "stack" (inside buildStack), "done" or "timeout"

vars == <<mainStack, viceStack, allPaths, cnt, pc>>

\* The methods of stackImpl, which nobody calls on an empty stack: StackShape.
Elements(s) == {s[i] : i \in DOMAIN s}
Front(s) == SubSeq(s, 1, Len(s) - 1)
Top(s) == s[Len(s)]

-----------------------------------------------------------------------------
\* Variant: a neighbour that is already on the path is not left out.
Layer_Revisits(path) == Adj[Top(path)]

\* The neighbours that buildLayer collects for the vertex it has just pushed.
Layer(path) == Adj[Top(path)] \ Elements(path)

\* The first buildLayer.
Init ==
  /\ mainStack = <<Start>>
  /\ viceStack = <<Layer(<<Start>>)>>
  /\ allPaths = <<>>
  /\ cnt = 0
  /\ pc = "loop"

\* A round of the main loop begins: the counter moves, and the clock is looked
\* at when it comes round.
Tick == cnt' = (cnt + 1) % CheckEvery

\* More than five seconds have gone by: the paths found so far are thrown away.
TimeOut ==
  /\ pc = "loop"
  /\ mainStack # <<>>
  /\ Tick
  /\ cnt' = 0
  /\ pc' = "timeout"
  /\ UNCHANGED <<mainStack, viceStack, allPaths>>

\* Variant: a path that reaches the end is recorded and the rest abandoned.
RemoveLayer_FirstPathOnly ==
  /\ pc = "loop"
  /\ mainStack # <<>>
  /\ Top(viceStack) = {}
  /\ Tick
  /\ IF Top(mainStack) = End
       THEN /\ allPaths' = Append(allPaths, mainStack)
            /\ mainStack' = <<>>
            /\ viceStack' = <<>>
       ELSE /\ mainStack' = Front(mainStack)
            /\ viceStack' = Front(viceStack)
            /\ UNCHANGED allPaths
  /\ UNCHANGED pc

\* Variant: the layer of Start is never removed.
RemoveLayer_KeepsRoot ==
  /\ pc = "loop"
  /\ Len(mainStack) > 1
  /\ Top(viceStack) = {}
  /\ Tick
  /\ allPaths' = IF Top(mainStack) = End
                   THEN Append(allPaths, mainStack) ELSE allPaths
  /\ mainStack' = Front(mainStack)
  /\ viceStack' = Front(viceStack)
  /\ UNCHANGED pc

\* Variant: a path that passes through the end is recorded where it stops.
RemoveLayer_Through ==
  /\ pc = "loop"
  /\ mainStack # <<>>
  /\ Top(viceStack) = {}
  /\ Tick
  /\ allPaths' = IF End \in Elements(mainStack)
                   THEN Append(allPaths, mainStack) ELSE allPaths
  /\ mainStack' = Front(mainStack)
  /\ viceStack' = Front(viceStack)
  /\ UNCHANGED pc

\* Nothing is left to try from the last vertex: if it is the end the path is
\* recorded, and in any case both stacks lose their top.
RemoveLayer ==
  /\ pc = "loop"
  /\ mainStack # <<>>
  /\ Top(viceStack) = {}
  /\ Tick
  /\ allPaths' = IF Top(mainStack) = End
                   THEN Append(allPaths, mainStack) ELSE allPaths
  /\ mainStack' = Front(mainStack)
  /\ viceStack' = Front(viceStack)
  /\ UNCHANGED pc

\* Something is left to try: buildStack begins.
EnterBuildStack ==
  /\ pc = "loop"
  /\ mainStack # <<>>
  /\ Top(viceStack) # {}
  /\ Tick
  /\ pc' = "stack"
  /\ UNCHANGED <<mainStack, viceStack, allPaths>>

\* Variant: the neighbour is not popped from the vice stack.
BuildLayer_Keeps ==
  /\ pc = "stack"
  /\ \E e \in Top(viceStack) :
       /\ mainStack' = Append(mainStack, e)
       /\ viceStack' = Append(viceStack, Layer(Append(mainStack, e)))
  /\ UNCHANGED <<allPaths, cnt, pc>>

\* A turn of the loop of buildStack: a neighbour is popped and gets a layer.
BuildLayer ==
  /\ pc = "stack"
  /\ \E e \in Top(viceStack) :
       /\ mainStack' = Append(mainStack, e)
       /\ viceStack' = Append([viceStack EXCEPT ![Len(viceStack)] = @ \ {e}],
                              Layer(Append(mainStack, e)))
  /\ UNCHANGED <<allPaths, cnt, pc>>

\* The last layer built is empty: buildStack returns.
LeaveBuildStack ==
  /\ pc = "stack"
  /\ Top(viceStack) = {}
  /\ pc' = "loop"
  /\ UNCHANGED <<mainStack, viceStack, allPaths, cnt>>

Return ==
  /\ pc = "loop"
  /\ mainStack = <<>>
  /\ pc' = "done"
  /\ UNCHANGED <<mainStack, viceStack, allPaths, cnt>>

Next == TimeOut \/ RemoveLayer \/ EnterBuildStack \/ BuildLayer \/ LeaveBuildStack \/ Return

Spec == Init /\ [][Next]_vars

\* The function runs until it returns.
FairSpec == Spec /\ WF_vars(Next)

-----------------------------------------------------------------------------
(* Properties.                                                             *)

\* The types of the variables, and a bound on the stacks: they never outgrow
\* the graph.
TypeOK ==
  /\ mainStack \in Seq(Node)
  /\ Len(mainStack) <= Cardinality(Node)
  /\ viceStack \in Seq(SUBSET Node)
  /\ allPaths \in Seq(Seq(Node))
  /\ cnt \in 0..(CheckEvery - 1)
  /\ pc \in {"loop", "stack", "done", "timeout"}

\* The two stacks stay in step, mainStack is a simple walk, and a vertex is
\* never both on the path and still to be tried from the same place.  It is
\* what keeps the errors of checkEmpty and removeLayer out of reach.
StackShape ==
  /\ Len(viceStack) = Len(mainStack)
  /\ pc = "stack" => mainStack # <<>>
  /\ pc = "done" => mainStack = <<>>
  /\ IsWalk(mainStack)
  /\ \A i \in 1..Len(mainStack) : viceStack[i] \subseteq Adj[mainStack[i]]
  /\ \A i \in 1..Len(mainStack) : \A j \in 1..i : mainStack[j] \notin viceStack[i]
  /\ \A i \in 1..(Len(mainStack) - 1) : mainStack[i + 1] \notin viceStack[i]

\* A path that the two stacks still promise: it follows mainStack for a while
\* and stops there, or goes on with a neighbour that is still to be tried.
Promised(p) ==
  \E i \in 1..Len(mainStack) :
    /\ i <= Len(p)
    /\ \A j \in 1..i : p[j] = mainStack[j]
    /\ Len(p) = i \/ p[i + 1] \in viceStack[i]

\* Every simple path is recorded or still promised by the stacks, never both
\* and never neither: no path is lost or found twice while the function grows
\* and prunes its stacks.
Accounted ==
  \A p \in Paths : p \in Elements(allPaths) <=> ~Promised(p)

\* What is recorded is a simple path from Start to End, once.
PathsSound ==
  /\ \A k \in DOMAIN allPaths : IsPath(allPaths[k])
  /\ \A k, l \in DOMAIN allPaths : allPaths[k] = allPaths[l] => k = l

\* The function returns, with its paths or with an error, on every graph.
Terminates == <>(pc \in {"done", "timeout"})

Report == INSTANCE PathReport WITH
            reported <- Elements(allPaths),
            status <- CASE pc = "done" -> "finished"
                        [] pc = "timeout" -> "gave up"
                        [] OTHER -> "running",
            Paths <- Paths

\* The enumeration keeps the promise of PathReport: each path at most once,
\* and all of them when it returns without an error.
ReportSpec == Report!Spec

=============================================================================
