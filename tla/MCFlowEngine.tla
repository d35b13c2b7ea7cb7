---------------------------- MODULE MCFlowEngine ----------------------------
(***************************************************************************)
(* Small published graphs for FlowEngine, in the shapes of task_graph.go,  *)
(* application_graph.go and the parallel test graphs.                      *)
(***************************************************************************)
EXTENDS FlowShape, TLC

CONSTANTS u1, u2, u3

AllRule == [kind |-> "all", ratio |-> 100]
AnyRule == [kind |-> "any", ratio |-> 100]
SingleRule == [kind |-> "single", ratio |-> 100]
RatioRule == [kind |-> "ratio", ratio |-> 50]

\* start -> A -> choice -> B -> end, with a way back from the choice to A.
LineNodes == {"start", "A", "choice", "B", "end"}
LineKind == [n \in LineNodes |-> CASE n = "start" -> "start" [] n = "end" -> "end"
               [] n = "choice" -> "exclusive_gateway" [] OTHER -> "approval"]
LineOut == [n \in LineNodes |-> CASE n = "start" -> <<"A">> [] n = "A" -> <<"choice">>
              [] n = "choice" -> <<"B", "A">> [] n = "B" -> <<"end">> [] n = "end" -> <<>>]
LineRank == [n \in LineNodes |-> CASE n = "A" -> 1 [] n = "B" -> 2 [] n = "choice" -> 3
               [] n = "end" -> 4 [] OTHER -> 5]
LineRule == [n \in {"A", "B"} |-> IF n = "A" THEN RatioRule ELSE AllRule]
LineStaff == [n \in {"A", "B"} |-> IF n = "A" THEN {{u1, u2}} ELSE {{u1, u2}, {u1}, {}}]
LineFallback == [n \in {"A", "B"} |-> {{}, {u2}}]
LineReviewers == [n \in {"A", "B"} |-> {}]

\* start -> fork -> A, B -> join -> C -> end.
ForkNodes == {"start", "fork", "A", "B", "join", "C", "end"}
ForkApprovals == {"A", "B", "C"}
ForkKind == [n \in ForkNodes |-> CASE n = "start" -> "start" [] n = "end" -> "end"
               [] n \in {"fork", "join"} -> "parallel_gateway" [] OTHER -> "approval"]
ForkOut == [n \in ForkNodes |-> CASE n = "start" -> <<"fork">> [] n = "fork" -> <<"A", "B">>
              [] n \in {"A", "B"} -> <<"join">> [] n = "join" -> <<"C">>
              [] n = "C" -> <<"end">> [] n = "end" -> <<>>]
ForkRank == [n \in ForkNodes |-> CASE n = "A" -> 1 [] n = "B" -> 2 [] n = "C" -> 3 [] OTHER -> 4]
ForkRule == [n \in ForkApprovals |-> CASE n = "A" -> AnyRule [] n = "B" -> SingleRule [] OTHER -> AllRule]
ForkStaff == [n \in ForkApprovals |-> IF n = "B" THEN {{u3}} ELSE {{u1, u2}}]
ForkFallback == [n \in ForkApprovals |-> {{}}]
ForkReviewers == [n \in ForkApprovals |-> {}]

\* P before the fork: P -> fork -> A, B -> join -> C, so that a return to P
\* runs the parallel part a second time.
CycleNodes == ForkNodes \cup {"P"}
CycleApprovals == ForkApprovals \cup {"P"}
CycleKind == [n \in CycleNodes |-> IF n = "P" THEN "approval" ELSE ForkKind[n]]
CycleOut == [n \in CycleNodes |-> CASE n = "P" -> <<"fork">> [] n = "start" -> <<"P">> [] OTHER -> ForkOut[n]]
CycleRank == [n \in CycleNodes |-> IF n = "P" THEN 5 ELSE ForkRank[n]]
CycleRule == [n \in CycleApprovals |-> IF n = "A" THEN AnyRule ELSE SingleRule]
CycleStaff == [n \in CycleApprovals |-> CASE n = "A" -> {{u1, u2}} [] n = "B" -> {{u2}} [] OTHER -> {{u1}}]
CycleFallback == [n \in CycleApprovals |-> {{}}]
CycleReviewers == [n \in CycleApprovals |-> {}]

\* The membership chain: officer -> minister -> end.
ChainNodes == {"start", "officer", "minister", "end"}
ChainApprovals == {"officer", "minister"}
ChainKind == [n \in ChainNodes |-> IF n \in ChainApprovals THEN "approval" ELSE n]
ChainOut == [n \in ChainNodes |-> CASE n = "start" -> <<"officer">> [] n = "officer" -> <<"minister">>
               [] n = "minister" -> <<"end">> [] n = "end" -> <<>>]
ChainRank == [n \in ChainNodes |-> CASE n = "officer" -> 1 [] n = "minister" -> 2 [] OTHER -> 3]
ChainRule == [n \in ChainApprovals |-> IF n = "officer" THEN RatioRule ELSE AnyRule]
\* Every officer is asked.
ChainOfAll == [n \in ChainApprovals |-> IF n = "officer" THEN AllRule ELSE AnyRule]
ChainStaff == [n \in ChainApprovals |-> IF n = "officer" THEN {{u1, u2}} ELSE {{u1, u3}, {}}]
ChainFallback == [n \in ChainApprovals |-> {{u1, u2}}]
\* The applicant u3 reviews nothing.
ChainReviewers == [n \in ChainApprovals |-> {u1, u2}]

NoApprovals == {}

\* The operations of a generic flow; those of an application, which Protected
\* switches off here, run beside the overdue scan in MCApprovalEscalation.
GenericNext ==
  Start \/ Walk \/ Commit \/ Abort \/ GenericTask \/ Terminate \/ Suspend \/ Resume
GenericSpec == Init /\ [][GenericNext]_vars
FairGenericSpec == GenericSpec /\ WF_vars(Walk \/ Commit \/ Abort)

\* What goes on in A and what goes on in B can go on at the same time and come
\* together in the join: the theorems about joins hold of these graphs.
Way(n) == {<<n, n>>, <<n, "join">>}
SideBySide == (Way("A") \X Way("B")) \cup (Way("B") \X Way("A"))
ToTheJoin == UNION {{<<x, <<n, "join">>>> : x \in Way(n)} : n \in {"A", "B"}}
ASSUME BranchesComeTogether ==
  Nodes \in {ForkNodes, CycleNodes} =>
    KeepsApart(SideBySide) /\ ComesTogether(ToTheJoin, SideBySide, [j \in Joins |-> 0])
=============================================================================
