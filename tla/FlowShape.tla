------------------------------ MODULE FlowShape ------------------------------
(***************************************************************************)
(* What of a published graph lets the parallel parts of an instance keep   *)
(* apart and come together again (execution.go, join.go), and the          *)
(* invariants of the instances of such a graph.  ValidateGraph asks for    *)
(* neither; the graphs the engine is run with have both.                   *)
(***************************************************************************)
EXTENDS FlowEngine

\* Where an arrival is: on its edge if it comes to a join, else at the node.
Place(n, from) == IF n \in Joins THEN <<from, n>> ELSE <<n, n>>
PlaceOf(a) == Place(a.node, a.from)
Outlet(n, i) == Place(Out[n][i], n)
\* Where the flow waits: at active approvals and, in store, before joins.
WaitingAt(s) == {<<n, n>> : n \in s.current \ Joins} \cup {e \in JoinEdges : s.tokens[e] > 0}
Places(s, q) == WaitingAt(s) \cup {PlaceOf(q[i]) : i \in DOMAIN q}

-------------------------------------------------------------------------------
(* Keeping apart.                                                          *)

\* Beside holds the pairs of places where parts of the flow can be at the same time:
\* those a fork parts, and what they come to by themselves, or with all the others
\* that a join waits for.  That no place is beside itself says that nothing comes to
\* a place twice.
KeepsApart(Beside) ==
  /\ \A x \in Beside : x[1] # x[2] /\ <<x[2], x[1]>> \in Beside
  /\ \A n \in Nodes : Kind[n] # "exclusive_gateway" =>
       \A i, k \in DOMAIN Out[n] : i = k \/ <<Outlet(n, i), Outlet(n, k)>> \in Beside
  /\ \A n \in Nodes \ Joins, x \in Beside : x[1] = <<n, n>> =>
       \A i \in DOMAIN Out[n] : <<Outlet(n, i), x[2]>> \in Beside
  /\ \A j \in Joins, x \in Beside : (\A p \in Preds(j) : <<<<p, j>>, x[2]>> \in Beside) =>
       \A i \in DOMAIN Out[j] : <<Outlet(j, i), x[2]>> \in Beside

\* What waits at S and what arrives in q are at places beside each other.
Apart(Beside, S, q) ==
  /\ \A x, y \in S : x = y \/ <<x, y>> \in Beside
  /\ \A i \in DOMAIN q, x \in S : <<PlaceOf(q[i]), x>> \in Beside
  /\ \A i, k \in DOMAIN q : i = k \/ <<PlaceOf(q[i]), PlaceOf(q[k])>> \in Beside

IsApart(Beside, s, q) ==
  /\ WaitsForTokens(s) /\ \A e \in JoinEdges : s.tokens[e] <= 1
  /\ Apart(Beside, WaitingAt(s), q)

\* The inductive invariant behind JoinTokensAreWaiting, before and during a
\* transaction.
ApartInv(Beside) ==
  /\ db.status \notin Ended => IsApart(Beside, db, <<>>)
  /\ work.status \notin Ended => IsApart(Beside, work, queue)
  /\ db.status = "absent" => WaitingAt(db) = {}

-------------------------------------------------------------------------------
(* Coming together.                                                        *)

\* Heads holds the pairs of a place and the edge into a join that what is there
\* comes to in the end: by one of the ways out of a node, by each of those an
\* exclusive gateway picks from; and together with something else for every other
\* edge of that join.  Depth orders the joins from the inner to the outer ones.
ComesTogether(Heads, Beside, depth) ==
  /\ \A e \in JoinEdges : <<e, e>> \in Heads
  /\ \A e \in JoinEdges : <<<<StartNode, StartNode>>, e>> \notin Heads
  /\ \A x \in Heads : x[2] \in JoinEdges /\ x \notin Beside
  /\ \A x \in Heads : x[1] \in JoinEdges /\ x[1] # x[2] => depth[x[1][2]] < depth[x[2][2]]
  /\ \A n \in Nodes \ Joins, x \in Heads : x[1] = <<n, n>> =>
       /\ \E i \in DOMAIN Out[n] : <<Outlet(n, i), x[2]>> \in Heads
       /\ Kind[n] = "exclusive_gateway" =>
            \A i \in DOMAIN Out[n] : <<Outlet(n, i), x[2]>> \in Heads
  /\ \A e \in JoinEdges, x \in Heads : x[1] = e /\ x[2] # e =>
       \E i \in DOMAIN Out[e[2]] : <<Outlet(e[2], i), x[2]>> \in Heads
  /\ \A n \in Nodes : \A i \in DOMAIN Out[n], e \in JoinEdges : <<Outlet(n, i), e>> \in Heads =>
       \/ n \notin Joins /\ <<<<n, n>>, e>> \in Heads
       \/ n \in Joins /\ e[2] # n /\ \E p \in Preds(n) : <<<<p, n>>, e>> \in Heads
       \/ /\ Kind[n] # "exclusive_gateway"
          /\ \A d \in JoinEdges : d[2] = e[2] =>
               \E k \in DOMAIN Out[n] : <<Outlet(n, k), d>> \in Heads

\* Whenever something heads for a join, something does for each of its edges.
Whole(Heads, P) ==
  \A x \in P : \A e, d \in JoinEdges :
    e[2] = d[2] /\ <<x, e>> \in Heads => \E y \in P : <<y, d>> \in Heads

\* No join has all its tokens and waits nevertheless.
NoneIsFull(s) == \A j \in Joins : \E p \in Preds(j) : s.tokens[<<p, j>>] = 0

\* The inductive invariant behind SomebodyCanAct on a graph with joins.
WholeInv(Heads) ==
  /\ db.status \notin Ended => NoneIsFull(db) /\ Whole(Heads, Places(db, <<>>))
  /\ work.status \notin Ended => NoneIsFull(work) /\ Whole(Heads, Places(work, queue))

\* Nobody sends the flow back to an approval between a fork and its join.
ReturnsStayOut(Heads) ==
  \A t \in db.tasks, target \in Approvals : RollbackTask(t, target) =>
    \A e \in JoinEdges : <<<<target, target>>, e>> \notin Heads
===============================================================================
