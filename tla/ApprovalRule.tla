---------------------------- MODULE ApprovalRule ----------------------------
(***************************************************************************)
(* The arithmetic of an approval round: internal/workflow/engine/          *)
(* approval.go.  A round counts approved, rejected and pending votes;      *)
(* transferred, withdrawn and cancelled tasks are in none of the three.    *)
(* A rule is the node's "approvalType" with its "passRatio" in percent.    *)
(***************************************************************************)
EXTENDS Integers

RuleKind == {"single", "all", "any", "ratio"}

\* The configurations ValidateApprovalConfig accepts ("" behaves as "all").
ValidRule == [kind : RuleKind, ratio : 1..100]

\* int(math.Ceil(float64(total) * ratio / 100)).
CeilPercent(total, ratio) == (total * ratio + 99) \div 100

\* The votes a round of `total` counted tasks needs.
Required(rule, total) ==
  CASE rule.kind = "any"   -> 1
    [] rule.kind = "ratio" -> CeilPercent(total, rule.ratio)
    [] OTHER               -> total

Passes(rule, approved, rejected, pending) ==
  LET total == approved + rejected + pending
  IN  total > 0 /\ approved >= Required(rule, total)

\* The pending votes can no longer lift the round to its threshold.
Impossible(rule, approved, rejected, pending) ==
  LET total == approved + rejected + pending
  IN  total > 0 /\ approved + pending < Required(rule, total)
=============================================================================
