------------------------ MODULE MCApprovalEscalation ------------------------
(* The membership chain of MCFlowEngine with a timed first step.            *)
EXTENDS MCFlowEngine, ApprovalEscalation

\* Both steps need everybody; the second one is staffed by one person.
CountersignRule == [n \in ChainApprovals |-> AllRule]
CountersignStaff == [n \in ChainApprovals |-> IF n = "officer" THEN {{u1, u2}} ELSE {{u1}}]
\* The ladder may hold the applicant alone or a reviewer.
ChainLadders == {{u3}, {u2, u3}}
=============================================================================
