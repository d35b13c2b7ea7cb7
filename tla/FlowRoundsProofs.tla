--------------------------- MODULE FlowRoundsProofs ---------------------------
(***************************************************************************)
(* Rounds and votes of FlowEngine, for every graph, staffing and bound: a  *)
(* round is open as long as it is undecided, nobody is counted twice, what *)
(* was done stays done, and the instance waits for somebody.               *)
(***************************************************************************)
EXTENDS FlowEngineProofs, FlowShape, WellFoundedInduction

-------------------------------------------------------------------------------
(* What the arithmetic of approval.go decides, for every rule that           *)
(* ValidateApprovalConfig accepts and every number of votes.                 *)

(* The threshold lies between one vote and all of them, so the fallback in   *)
(* approvalDecision for required < 1 is never taken by a valid rule.         *)
LEMMA CeilPercentBounds ==
  ASSUME NEW total \in Nat \ {0}, NEW ratio \in 1..100
  PROVE  CeilPercent(total, ratio) \in 1..total
<1> DEFINE p == total * ratio
<1>1. p \in Nat /\ p >= 1 /\ p <= total * 100  OBVIOUS
<1> HIDE DEF p
<1>2. (p + 99) \div 100 \in 1..total  BY <1>1
<1> QED  BY <1>2 DEF CeilPercent, p

(* A valid rule asks a nonempty round for at least one vote and never for    *)
(* more than it has (approvalDecision).                                      *)
THEOREM RequiredBounds ==
  ASSUME NEW rule \in ValidRule, NEW total \in Nat \ {0}
  PROVE  Required(rule, total) \in 1..total
<1>1. rule.kind \in RuleKind /\ rule.ratio \in 1..100  BY DEF ValidRule
<1>2. CeilPercent(total, rule.ratio) \in 1..total  BY <1>1, CeilPercentBounds
<1> QED  BY <1>1, <1>2 DEF Required, RuleKind

(* One more counted task never lowers the threshold: a minted vote cannot    *)
(* make the remaining ones weigh more than they did.                         *)
LEMMA CeilPercentMonotone ==
  ASSUME NEW total \in Nat, NEW ratio \in 1..100
  PROVE  CeilPercent(total, ratio) <= CeilPercent(total + 1, ratio)
<1> DEFINE p == total * ratio
           q == (total + 1) * ratio
<1>1. p \in Nat /\ q \in Nat /\ p <= q  OBVIOUS
<1> HIDE DEF p, q
<1>2. (p + 99) \div 100 <= (q + 99) \div 100  BY <1>1
<1> QED  BY <1>2 DEF CeilPercent, p, q

(* A larger round never needs fewer votes (approvalDecision).                *)
THEOREM RequiredMonotone ==
  ASSUME NEW rule \in ValidRule, NEW total \in Nat
  PROVE  Required(rule, total) <= Required(rule, total + 1)
<1>1. rule.kind \in RuleKind /\ rule.ratio \in 1..100  BY DEF ValidRule
<1>2. CeilPercent(total, rule.ratio) <= CeilPercent(total + 1, rule.ratio)
  BY <1>1, CeilPercentMonotone
<1> QED  BY <1>1, <1>2 DEF Required, RuleKind

(* The two answers of approvalDecision exclude each other.                   *)
THEOREM DecisionIsConsistent ==
  ASSUME NEW rule \in ValidRule,
         NEW approved \in Nat, NEW rejected \in Nat, NEW pending \in Nat
  PROVE  ~(Passes(rule, approved, rejected, pending) /\ Impossible(rule, approved, rejected, pending))
<1> DEFINE total == approved + rejected + pending
<1>1. CASE total = 0  BY <1>1 DEF Passes
<1>2. CASE total # 0
  <2>1. Required(rule, total) \in 1..total  BY <1>2, RequiredBounds
  <2> QED  BY <2>1 DEF Passes, Impossible
<1> QED  BY <1>1, <1>2

(* A round whose votes are all in is decided: no countersign waits for ever  *)
(* on people who have answered.                                              *)
THEOREM FullRoundIsDecided ==
  ASSUME NEW rule \in ValidRule, NEW approved \in Nat, NEW rejected \in Nat,
         approved + rejected > 0
  PROVE  Passes(rule, approved, rejected, 0) \/ Impossible(rule, approved, rejected, 0)
<1>1. Required(rule, approved + rejected) \in 1..(approved + rejected)  BY RequiredBounds
<1> QED  BY <1>1 DEF Passes, Impossible

(* A rejection never passes an undecided round, whether it answers an open   *)
(* task or is a task minted for the reviewer (selectApprovalTask); hence     *)
(* CompleteApplicationApproval, which ends the flow after any rejection,     *)
(* never ends one that has just moved on.                                    *)
THEOREM RejectionNeverPasses ==
  ASSUME NEW rule \in ValidRule,
         NEW approved \in Nat, NEW rejected \in Nat, NEW pending \in Nat \ {0},
         ~Passes(rule, approved, rejected, pending)
  PROVE  /\ ~Passes(rule, approved, rejected + 1, pending - 1)
         /\ ~Passes(rule, approved, rejected + 1, pending)
<1> DEFINE total == approved + rejected + pending
<1>1. Required(rule, total) \in 1..total  BY RequiredBounds
<1>2. Required(rule, total) <= Required(rule, total + 1)  BY RequiredMonotone
<1>3. Required(rule, total + 1) \in 1..(total + 1)  BY RequiredBounds
<1>4. approved < Required(rule, total)  BY <1>1 DEF Passes
<1>5. approved + (rejected + 1) + (pending - 1) = total
      /\ approved + (rejected + 1) + pending = total + 1
  OBVIOUS
<1> HIDE DEF total
<1> QED  BY <1>1, <1>2, <1>3, <1>4, <1>5 DEF Passes

(* An approval never makes a round impossible that was open, answered or     *)
(* minted: only rejections do.                                               *)
THEOREM ApprovalKeepsHope ==
  ASSUME NEW rule \in ValidRule,
         NEW approved \in Nat, NEW rejected \in Nat, NEW pending \in Nat \ {0},
         ~Impossible(rule, approved, rejected, pending)
  PROVE  ~Impossible(rule, approved + 1, rejected, pending - 1)
<1> DEFINE total == approved + rejected + pending
<1>1. Required(rule, total) \in 1..total  BY RequiredBounds
<1>2. approved + pending >= Required(rule, total)  BY <1>1 DEF Impossible
<1>3. (approved + 1) + rejected + (pending - 1) = total
      /\ (approved + 1) + (pending - 1) = approved + pending
  OBVIOUS
<1> HIDE DEF total
<1> QED  BY <1>1, <1>2, <1>3 DEF Impossible

-------------------------------------------------------------------------------
(* The rows of one round.                                                    *)

Rows(R) == R \in SUBSET Task /\ IsFiniteSet(R) /\ RowsAreNumbered(R)
Of(R, w) == {u \in R : u.who = w}

\* The rows T of a round change their status.
Marked(R, T, st) == (R \ T) \cup {SetState(t, st) : t \in T}
Mark(R, T, st) == [u \in R |-> IF u \in T THEN SetState(u, st) ELSE u]

\* A person and a number tell the rows of a round apart.
LEMMA NumbersTell ==
  ASSUME NEW R, RowsAreNumbered(R), NEW t \in R, NEW u \in R, u.who = t.who, u.nth = t.nth
  PROVE  u = t
BY Zenon DEF RowsAreNumbered

\* Counting the votes of finitely many rows gives a number, and one of at least
\* one if there is such a vote.
LEMMA VotesAreCounted ==
  ASSUME NEW R, IsFiniteSet(R), NEW st
  PROVE  Votes(R, st) \in Nat /\ ((\E t \in R : t.st = st) <=> Votes(R, st) > 0)
<1> DEFINE V == {t \in R : t.st = st}
<1>1. IsFiniteSet(V)  BY FS_Subset
<1>2. Cardinality(V) \in Nat /\ (Cardinality(V) = 0 <=> V = {})
  BY <1>1, FS_CardinalityType, FS_EmptySet
<1>3. (\E t \in R : t.st = st) <=> V # {}  OBVIOUS
<1>4. Votes(R, st) = Cardinality(V)  BY DEF Votes
<1> HIDE DEF V
<1> QED  BY <1>2, <1>3, <1>4

\* Marking changes neither whose row it is nor its number.
LEMMA MarkFields ==
  ASSUME NEW R \in SUBSET Task, NEW T \in SUBSET R, NEW st \in TaskState, NEW u \in R
  PROVE  LET m == Mark(R, T, st)[u]
         IN  /\ m \in Task /\ m.who = u.who /\ m.nth = u.nth
             /\ m.node = u.node /\ m.round = u.round
             /\ m.st = IF u \in T THEN st ELSE u.st
<1>1. u \in Task  OBVIOUS
<1> QED  BY <1>1, SetStateFields DEF Mark

\* Marking is one to one: no two rows of a round become the same row.
LEMMA MarkIsBijective ==
  ASSUME NEW R, Rows(R), NEW T \in SUBSET R, NEW st \in TaskState
  PROVE  /\ Mark(R, T, st) \in Surjection(R, Marked(R, T, st))
         /\ \A u, v \in R : Mark(R, T, st)[u].who = Mark(R, T, st)[v].who
                              /\ Mark(R, T, st)[u].nth = Mark(R, T, st)[v].nth => u = v
<1> DEFINE f == Mark(R, T, st)
<1>1. R \in SUBSET Task /\ RowsAreNumbered(R)  BY DEF Rows
<1>2. f \in Surjection(R, Marked(R, T, st))
  <2>1. f \in [R -> Marked(R, T, st)]  BY DEF Mark, Marked
  <2>2. \A m \in Marked(R, T, st) : \E u \in R : f[u] = m  BY DEF Mark, Marked
  <2> QED  BY <2>1, <2>2 DEF Surjection
<1>3. \A u \in R : f[u].who = u.who /\ f[u].nth = u.nth  BY <1>1, MarkFields
<1> HIDE DEF f
<1>4. \A u, v \in R : f[u].who = f[v].who /\ f[u].nth = f[v].nth => u = v
  BY <1>1, <1>3, NumbersTell
<1> QED  BY <1>2, <1>4 DEF f

\* Marking keeps how many rows of a round a person has.
LEMMA MarkedKeepsShares ==
  ASSUME NEW R, Rows(R), NEW T \in SUBSET R, NEW st \in TaskState, NEW w
  PROVE  Cardinality(Of(Marked(R, T, st), w)) = Cardinality(Of(R, w))
<1> DEFINE f == Mark(R, T, st)
           g == [u \in Of(R, w) |-> f[u]]
<1>1. R \in SUBSET Task /\ IsFiniteSet(Of(R, w))  BY FS_Subset DEF Rows, Of
<1>2. /\ f \in Surjection(R, Marked(R, T, st))
      /\ \A u, v \in R : f[u].who = f[v].who /\ f[u].nth = f[v].nth => u = v
  BY MarkIsBijective
<1>3. \A u \in R : f[u].who = u.who  BY <1>1, MarkFields
<1> HIDE DEF f
<1>4. /\ f \in [R -> Marked(R, T, st)]
      /\ \A m \in Marked(R, T, st) : \E u \in R : f[u] = m
  BY <1>2 DEF Surjection
<1>5. g \in Surjection(Of(R, w), Of(Marked(R, T, st), w))
  <2>1. g \in [Of(R, w) -> Of(Marked(R, T, st), w)]  BY <1>3, <1>4 DEF Of
  <2>2. \A m \in Of(Marked(R, T, st), w) : \E u \in Of(R, w) : g[u] = m
    BY <1>3, <1>4 DEF Of
  <2> QED  BY <2>1, <2>2 DEF Surjection
<1>6. g \in Injection(Of(R, w), Of(Marked(R, T, st), w))
  <2>1. \A u, v \in Of(R, w) : g[u] = g[v] => u = v  BY <1>2 DEF Of
  <2>2. g \in [Of(R, w) -> Of(Marked(R, T, st), w)]  BY <1>5 DEF Surjection
  <2> QED  BY <2>1, <2>2 DEF Injection, IsInjective
<1> QED  BY <1>1, <1>5, <1>6, FS_Surjection

\* Marked rows are still numbered without a gap.
LEMMA MarkedIsNumbered ==
  ASSUME NEW R, Rows(R), NEW T \in SUBSET R, NEW st \in TaskState
  PROVE  Rows(Marked(R, T, st))
<1> DEFINE f == Mark(R, T, st)
           M == Marked(R, T, st)
<1>1. R \in SUBSET Task /\ IsFiniteSet(R) /\ RowsAreNumbered(R)  BY DEF Rows
<1>2. /\ f \in Surjection(R, M)
      /\ \A u, v \in R : f[u].who = f[v].who /\ f[u].nth = f[v].nth => u = v
  BY MarkIsBijective
<1>3. \A u \in R : f[u] \in Task /\ f[u].who = u.who /\ f[u].nth = u.nth
  BY <1>1, MarkFields
<1>4. \A w : Cardinality(Of(M, w)) = Cardinality(Of(R, w))  BY MarkedKeepsShares
<1> HIDE DEF f, M
<1>5. \A m \in M : \E u \in R : m = f[u]  BY <1>2 DEF Surjection
<1>6. IsFiniteSet(M)  BY <1>1, <1>2, FS_Surjection
<1>7. \A u \in R : u.nth < Cardinality(Of(R, u.who))  BY <1>1 DEF RowsAreNumbered, Of
<1>8. \A m \in M : m.nth < Cardinality(Of(M, m.who))  BY <1>3, <1>4, <1>5, <1>7
<1>9. \A a, b \in M : a.who = b.who /\ a.nth = b.nth => a = b  BY <1>2, <1>5
<1>10. RowsAreNumbered(M)  BY <1>8, <1>9 DEF RowsAreNumbered, Of
<1>11. M \in SUBSET Task  BY <1>3, <1>5
<1> QED  BY <1>6, <1>10, <1>11 DEF Rows, M

\* How the counts of a round change when rows of it change their status.
LEMMA MarkedVotes ==
  ASSUME NEW R, Rows(R), NEW T \in SUBSET R, NEW st \in TaskState
  PROVE  /\ Votes(Marked(R, T, st), st) = Votes(R \ T, st) + Cardinality(T)
         /\ \A o \in TaskState : o # st => Votes(Marked(R, T, st), o) = Votes(R \ T, o)
<1> DEFINE S == {SetState(t, st) : t \in T}
           V == {t \in R \ T : t.st = st}
<1>1. R \in SUBSET Task /\ IsFiniteSet(R) /\ RowsAreNumbered(R)  BY DEF Rows
<1>2. \A t \in T : /\ SetState(t, st) \in Task /\ SetState(t, st).st = st
                   /\ SetState(t, st).who = t.who /\ SetState(t, st).nth = t.nth
  BY <1>1, SetStateFields
<1>3. IsFiniteSet(T) /\ IsFiniteSet(V)  BY <1>1, FS_Subset
<1>4. V \cap S = {}
  <2> SUFFICES ASSUME NEW t \in T, NEW v \in R \ T, v = SetState(t, st) PROVE FALSE
    OBVIOUS
  <2>1. v.who = t.who /\ v.nth = t.nth  BY <1>2
  <2> QED  BY <1>1, <2>1, NumbersTell
<1>5. Cardinality(S) = Cardinality(T) /\ IsFiniteSet(S)
  <2> DEFINE f == [t \in T |-> SetState(t, st)]
  <2>1. f \in Surjection(T, S)  BY DEF Surjection
  <2>2. f \in Injection(T, S)
    <3>1. ASSUME NEW t \in T, NEW u \in T, f[t] = f[u]  PROVE  t = u
      <4>1. SetState(t, st) = SetState(u, st)  BY <3>1
      <4>2. u.who = t.who /\ u.nth = t.nth  BY <1>2, <4>1
      <4> QED  BY <1>1, <4>2, NumbersTell
    <3> QED  BY <3>1 DEF Injection, IsInjective
  <2> QED  BY <1>3, <2>1, <2>2, FS_Surjection
<1>6. {t \in Marked(R, T, st) : t.st = st} = V \cup S  BY <1>2 DEF Marked
<1>7. Cardinality(V \cup S) = Cardinality(V) + Cardinality(T)
  <2> HIDE DEF V, S
  <2>1. Cardinality(V \cup S) = Cardinality(V) + Cardinality(S) - Cardinality(V \cap S)
    BY <1>3, <1>5, FS_Union
  <2>2. Cardinality(V) \in Nat /\ Cardinality(T) \in Nat /\ Cardinality({}) = 0
    BY <1>3, FS_CardinalityType, FS_EmptySet
  <2> QED  BY <1>4, <1>5, <2>1, <2>2
<1>8. Votes(Marked(R, T, st), st) = Votes(R \ T, st) + Cardinality(T)
  BY <1>6, <1>7 DEF Votes
<1>9. ASSUME NEW o \in TaskState, o # st
      PROVE  Votes(Marked(R, T, st), o) = Votes(R \ T, o)
  <2>1. {t \in Marked(R, T, st) : t.st = o} = {t \in R \ T : t.st = o}
    BY <1>2, <1>9 DEF Marked
  <2> QED  BY <2>1 DEF Votes
<1> QED  BY <1>8, <1>9

\* Nobody counts twice because pending rows changed their status.
LEMMA MarkedCountsOnce ==
  ASSUME NEW R, Rows(R), CountsOnce(R), NEW T \in SUBSET R, \A t \in T : t.st = "pending",
         NEW st \in TaskState
  PROVE  CountsOnce(Marked(R, T, st))
<1>1. R \in SUBSET Task  BY DEF Rows
<1>2. \A m \in Marked(R, T, st) :
        \E u \in R : /\ m.who = u.who /\ m = IF u \in T THEN SetState(u, st) ELSE u
                     /\ (m.st \in Counted => u.st \in Counted)
  <2>1. \A u \in R : SetState(u, st).who = u.who  BY <1>1, SetStateFields
  <2> QED  BY <2>1 DEF Marked, Counted
<1> QED  BY <1>2 DEF CountsOnce

\* A further row of a person gets the next number, and the counts grow by it.
LEMMA AddedRow ==
  ASSUME NEW R, Rows(R), NEW x \in Task, x.nth = Cardinality(Of(R, x.who))
  PROVE  /\ x \notin R /\ Rows(R \cup {x})
         /\ Votes(R \cup {x}, x.st) = Votes(R, x.st) + 1
         /\ \A o \in TaskState : o # x.st => Votes(R \cup {x}, o) = Votes(R, o)
<1> DEFINE S == R \cup {x}
<1>1. R \in SUBSET Task /\ IsFiniteSet(R) /\ RowsAreNumbered(R)  BY DEF Rows
<1>2. \A w : IsFiniteSet(Of(R, w)) /\ Cardinality(Of(R, w)) \in Nat
  BY <1>1, FS_Subset, FS_CardinalityType DEF Of
<1>3. \A u \in R : /\ u.nth \in Nat /\ u.nth < Cardinality(Of(R, u.who))
                   /\ \A v \in R : v.who = u.who /\ v.nth = u.nth => v = u
  BY <1>1, TaskFields DEF RowsAreNumbered, Of
<1>4. \A u \in R : u.who = x.who => u.nth < x.nth  BY <1>3
<1>5. \A u \in R : u.who = x.who => u.nth # x.nth  BY <1>2, <1>3, <1>4
<1>6. x \notin R  BY <1>5
<1>7. Of(S, x.who) = Of(R, x.who) \cup {x}  BY DEF Of
<1>8. Cardinality(Of(S, x.who)) = Cardinality(Of(R, x.who)) + 1
  <2>1. x \notin Of(R, x.who)  BY <1>6 DEF Of
  <2> QED  BY <1>2, <1>7, <2>1, FS_AddElement
<1>9. \A w : w # x.who => Of(S, w) = Of(R, w)  BY DEF Of
<1>10. Rows(S)
  <2>1. IsFiniteSet(S)  BY <1>1, FS_AddElement
  <2>2. x.nth < Cardinality(Of(S, x.who))  BY <1>2, <1>8
  <2>3. \A u \in R : u.nth < Cardinality(Of(S, u.who))
    <3>1. \A u \in R : u.who = x.who => u.nth < Cardinality(Of(S, u.who))
      BY <1>2, <1>3, <1>8
    <3>2. \A u \in R : u.who # x.who => u.nth < Cardinality(Of(S, u.who))
      BY <1>3, <1>9
    <3> QED  BY <3>1, <3>2
  <2>4. \A u, v \in S : u.who = v.who /\ u.nth = v.nth => u = v  BY <1>3, <1>5
  <2>5. RowsAreNumbered(S)  BY <2>2, <2>3, <2>4 DEF RowsAreNumbered, Of
  <2> QED  BY <1>1, <2>1, <2>5 DEF Rows
<1>11. Votes(S, x.st) = Votes(R, x.st) + 1
  <2> DEFINE V == {t \in R : t.st = x.st}
  <2>1. {t \in S : t.st = x.st} = V \cup {x} /\ x \notin V /\ IsFiniteSet(V)
    BY <1>1, <1>6, FS_Subset
  <2> HIDE DEF V
  <2>2. Cardinality(V \cup {x}) = Cardinality(V) + 1  BY <2>1, FS_AddElement
  <2> QED  BY <2>1, <2>2 DEF Votes, V
<1>12. ASSUME NEW o \in TaskState, o # x.st
       PROVE  Votes(S, o) = Votes(R, o)
  <2>1. {t \in S : t.st = o} = {t \in R : t.st = o}  BY <1>12
  <2> QED  BY <2>1 DEF Votes
<1> QED  BY <1>6, <1>10, <1>11, <1>12

-------------------------------------------------------------------------------
(* What happens to one round.                                                *)

\* Two rounds that count the same are decided the same.
LEMMA SameCount ==
  ASSUME NEW R, NEW S, NEW n, \A o \in Counted : Votes(S, o) = Votes(R, o)
  PROVE  (RoundPasses(S, n) <=> RoundPasses(R, n)) /\ (RoundImpossible(S, n) <=> RoundImpossible(R, n))
BY DEF RoundPasses, RoundImpossible, Counted

\* The rows OnEnter creates for somebody are an open, undecided round.
LEMMA FreshRound ==
  ASSUME NEW n \in Approvals, NEW r \in Nat, NEW A \in SUBSET Users, A # {},
         NEW N, N = {[node |-> n, round |-> r, who |-> u, nth |-> 0, st |-> "pending"] : u \in A}
  PROVE  Rows(N) /\ CountsOnce(N) /\ IsOpen(N) /\ Undecided(N, n)
<1> DEFINE row(u) == [node |-> n, round |-> r, who |-> u, nth |-> 0, st |-> "pending"]
<1>1. /\ \A x \in N : x \in Task /\ x.nth = 0 /\ x.st = "pending" /\ x = row(x.who) /\ x.who \in A
      /\ \A u \in A : row(u) \in N
  BY DEF Task, TaskState
<1>2. IsFiniteSet(N)
  <2>1. IsFiniteSet(A)  BY GraphAssumption, FS_Subset
  <2>2. [u \in A |-> row(u)] \in Surjection(A, N)  BY DEF Surjection
  <2> QED  BY <2>1, <2>2, FS_Surjection
<1> HIDE DEF row
<1>3. \A x, y \in N : x.who = y.who => x = y  BY <1>1
<1>4. \A x \in N : Of(N, x.who) = {x}  BY <1>3 DEF Of
<1>5. RowsAreNumbered(N)
  <2>1. \A x \in N : x.nth < Cardinality(Of(N, x.who))
    <3>1. \A x \in N : Cardinality(Of(N, x.who)) = 1  BY <1>4, FS_Singleton
    <3> QED  BY <1>1, <3>1
  <2> QED  BY <1>3, <2>1 DEF RowsAreNumbered, Of
<1>6. IsOpen(N)  BY <1>1 DEF IsOpen
<1>7. Undecided(N, n)
  <2>1. Rule[n] \in ValidRule  BY GraphAssumption
  <2>2. Votes(N, "pending") \in Nat /\ Votes(N, "pending") > 0
    BY <1>2, <1>6, VotesAreCounted DEF IsOpen
  <2>3. Votes(N, "approved") = 0 /\ Votes(N, "rejected") = 0
    <3>1. \A o \in {"approved", "rejected"} : ~\E x \in N : x.st = o  BY <1>1
    <3> QED  BY <1>2, <3>1, VotesAreCounted
  <2>4. Required(Rule[n], Votes(N, "pending")) \in 1..Votes(N, "pending")
    BY <2>1, <2>2, RequiredBounds
  <2> QED
    BY <1>1, <2>2, <2>3, <2>4
    DEF Undecided, RoundPasses, RoundImpossible, Passes, Impossible
<1> QED  BY <1>1, <1>2, <1>3, <1>5, <1>6, <1>7 DEF Rows, CountsOnce

\* A round that passes had passed when the tasks still out are cancelled.
LEMMA PassedRound ==
  ASSUME NEW R, Rows(R), NEW n, RoundPasses(R, n), \A u \in R : u.st # "cancelled",
         NEW T, T = {u \in R : u.st = "pending"}, NEW M, M = Marked(R, T, "cancelled")
  PROVE  ~IsOpen(M) /\ HadPassed(M, n)
<1>1. R \in SUBSET Task /\ IsFiniteSet(R) /\ T \in SUBSET R /\ "cancelled" \in TaskState
  BY DEF Rows, TaskState
<1>2. /\ Votes(M, "cancelled") = Votes(R \ T, "cancelled") + Cardinality(T)
      /\ \A o \in TaskState : o # "cancelled" => Votes(M, o) = Votes(R \ T, o)
  BY <1>1, MarkedVotes
<1>3. \A o \in {"approved", "rejected"} : Votes(R \ T, o) = Votes(R, o)
  <2>1. \A o \in {"approved", "rejected"} : {t \in R \ T : t.st = o} = {t \in R : t.st = o}
    OBVIOUS
  <2> QED  BY <2>1 DEF Votes
<1>4. IsFiniteSet(R \ T)  BY <1>1, FS_Subset
<1>5. Votes(R \ T, "pending") = 0 /\ Votes(R \ T, "cancelled") = 0
  BY <1>4, VotesAreCounted
<1>6. Cardinality(T) = Votes(R, "pending") /\ Votes(R, "pending") \in Nat
  BY <1>1, VotesAreCounted DEF Votes
<1>7. Rows(M)  BY <1>1, MarkedIsNumbered
<1>8. Votes(M, "pending") = 0  BY <1>2, <1>5 DEF TaskState
<1>9. ~IsOpen(M)  BY <1>7, <1>8, VotesAreCounted DEF IsOpen, Rows
<1>10. /\ Votes(M, "approved") = Votes(R, "approved")
       /\ Votes(M, "rejected") = Votes(R, "rejected")
       /\ Votes(M, "pending") + Votes(M, "cancelled") = Votes(R, "pending")
  BY <1>2, <1>3, <1>5, <1>6, <1>8 DEF TaskState
<1> QED  BY <1>9, <1>10 DEF HadPassed, RoundPasses

\* A round with a verdict that is not decided has tasks still out.
LEMMA UndecidedRound ==
  ASSUME NEW R \in SUBSET Task, IsFiniteSet(R), NEW n \in Approvals,
         ~RoundPasses(R, n), ~RoundImpossible(R, n), \E u \in R : u.st \in {"approved", "rejected"}
  PROVE  IsOpen(R)
<1>1. IsFiniteSet(R) /\ Rule[n] \in ValidRule  BY GraphAssumption
<1>2. \A o \in TaskState : Votes(R, o) \in Nat /\ ((\E t \in R : t.st = o) <=> Votes(R, o) > 0)
  BY <1>1, VotesAreCounted
<1>3. /\ Votes(R, "approved") \in Nat /\ Votes(R, "rejected") \in Nat
      /\ Votes(R, "pending") \in Nat
  BY <1>2 DEF TaskState
<1>4. Votes(R, "approved") + Votes(R, "rejected") > 0
  <2>1. Votes(R, "approved") > 0 \/ Votes(R, "rejected") > 0  BY <1>2 DEF TaskState
  <2> QED  BY <1>3, <2>1
<1>5. Votes(R, "pending") # 0
  BY <1>1, <1>3, <1>4, FullRoundIsDecided DEF RoundPasses, RoundImpossible
<1> QED  BY <1>2, <1>3, <1>5 DEF IsOpen, TaskState

\* A hand-over leaves a round as undecided as it was, and nobody in it twice.
LEMMA HandedOnRound ==
  ASSUME NEW R, Rows(R), NEW n, Undecided(R, n), NEW t \in R, t.st = "pending",
         NEW x \in Task, x.nth = Cardinality(Of(R, x.who)), x.st = "pending",
         \A u \in R \ {t} : u.who = x.who => u.st \notin Counted,
         NEW S, S = Marked(R, {t}, "transferred") \cup {x}
  PROVE  /\ Rows(S) /\ IsOpen(S) /\ Undecided(S, n) /\ (CountsOnce(R) => CountsOnce(S))
<1> DEFINE M == Marked(R, {t}, "transferred")
           w == SetState(t, "transferred")
<1>1. R \in SUBSET Task /\ {t} \in SUBSET R /\ "transferred" \in TaskState /\ IsFiniteSet(R)
  BY DEF Rows, TaskState
<1>2. Rows(M)  BY <1>1, MarkedIsNumbered
<1>3. x.nth = Cardinality(Of(M, x.who))  BY <1>1, MarkedKeepsShares
<1>4. \A o \in TaskState : o # "transferred" => Votes(M, o) = Votes(R \ {t}, o)
  <2>1. PICK T : T = {t}  OBVIOUS
  <2>2. T \in SUBSET R /\ M = Marked(R, T, "transferred")  BY <2>1
  <2>3. PICK st \in TaskState : st = "transferred"  BY <1>1
  <2>4. \A o \in TaskState : o # st => Votes(Marked(R, T, st), o) = Votes(R \ T, o)
    BY <2>2, MarkedVotes
  <2> QED  BY <2>1, <2>3, <2>4
<1>5. w.st = "transferred"  BY <1>1, SetStateFields
<1>6. M = (R \ {t}) \cup {w}  BY DEF Marked
<1> HIDE DEF M, w
<1>7. /\ Rows(S) /\ Votes(S, "pending") = Votes(M, "pending") + 1
      /\ \A o \in TaskState : o # "pending" => Votes(S, o) = Votes(M, o)
  BY <1>2, <1>3, AddedRow DEF M
<1>8. Votes(R, "pending") = Votes(R \ {t}, "pending") + 1
  <2> DEFINE V == {u \in R : u.st = "pending"}
  <2>1. {u \in R \ {t} : u.st = "pending"} = V \ {t} /\ t \in V /\ IsFiniteSet(V)
    BY <1>1, FS_Subset
  <2> HIDE DEF V
  <2>2. Cardinality(V \ {t}) = Cardinality(V) - 1 /\ Cardinality(V) \in Nat
    BY <2>1, FS_RemoveElement, FS_CardinalityType
  <2>3. Votes(R, "pending") = Cardinality(V)  BY DEF Votes, V
  <2>4. Votes(R \ {t}, "pending") = Cardinality(V \ {t})  BY <2>1 DEF Votes
  <2> QED  BY <2>2, <2>3, <2>4
<1>9. \A o \in {"approved", "rejected"} : Votes(R \ {t}, o) = Votes(R, o)
  <2>1. \A o \in {"approved", "rejected"} : {u \in R \ {t} : u.st = o} = {u \in R : u.st = o}
    OBVIOUS
  <2> QED  BY <2>1 DEF Votes
<1>10. \A o \in Counted : Votes(S, o) = Votes(R, o)
  BY <1>4, <1>7, <1>8, <1>9 DEF Counted, TaskState
<1>11. \A u \in S : u.st # "cancelled"
  BY <1>5, <1>6 DEF Undecided, M
<1>12. Undecided(S, n)  BY <1>10, <1>11, SameCount DEF Undecided
<1>13. CountsOnce(R) => CountsOnce(S)
  <2>1. \A u \in S : u = x \/ (u \in R /\ u # t) \/ u.st \notin Counted
    BY <1>5, <1>6 DEF Counted, M
  <2>2. ASSUME CountsOnce(R), NEW u \in S, NEW v \in S, u.who = v.who,
               {u.st, v.st} \subseteq Counted
        PROVE  u = v
    <3>1. /\ u = x \/ (u \in R /\ u # t)
          /\ v = x \/ (v \in R /\ v # t)
      BY <2>1, <2>2
    <3>2. \A a \in R \ {t} : a.who = x.who => a.st \notin Counted  OBVIOUS
    <3> QED  BY <2>2, <3>1, <3>2 DEF CountsOnce
  <2> QED  BY <2>2 DEF CountsOnce
<1>14. IsOpen(S)  BY DEF IsOpen
<1> QED  BY <1>7, <1>12, <1>13, <1>14

-------------------------------------------------------------------------------
(* What an operation does to the rounds of an instance.                      *)

Held(s) == \A t \in s.tasks : RoundIsSound(s, t)
Clean(s) == \A t \in s.tasks : /\ Rows(Round(s, t))
                               /\ Mints(t.node) \/ CountsOnce(Round(s, t))

\* A vote has been cast in the round of t, and nothing has been made of it yet.
Cast(s, t) ==
  /\ \A u \in s.tasks : (u.node = t.node /\ u.round = t.round) \/ RoundIsSound(s, u)
  /\ Rows(Round(s, t)) /\ (Mints(t.node) \/ CountsOnce(Round(s, t)))
  /\ \A u \in Round(s, t) : u.st # "cancelled"

\* Tasks of one activation see the same round.
LEMMA SameRound ==
  ASSUME NEW s, NEW t, NEW u, u.node = t.node, u.round = t.round
  PROVE  /\ Round(s, u) = Round(s, t) /\ (RoundIsSound(s, u) <=> RoundIsSound(s, t))
         /\ (IsClosed(s, u) <=> IsClosed(s, t))
<1>1. Round(s, u) = Round(s, t)  BY DEF Round
<1>2. IsClosed(s, u) <=> IsClosed(s, t)  BY <1>1 DEF IsClosed
<1> QED  BY <1>1, <1>2 DEF RoundIsSound

\* The rows of a round are finitely many tasks.
LEMMA RoundRows ==
  ASSUME NEW s, Tidy(s), NEW t
  PROVE  Round(s, t) \in SUBSET Task /\ IsFiniteSet(Round(s, t))
<1>1. s.tasks \in SUBSET Task /\ IsFiniteSet(s.tasks)
  BY InstanceFields DEF Tidy
<1> QED  BY <1>1, FS_Subset DEF Round

\* Sound rounds are cleanly numbered and counted.
LEMMA HeldIsClean ==
  ASSUME NEW s, Tidy(s), Held(s)
  PROVE  Clean(s)
BY RoundRows DEF Held, Clean, RoundIsSound, Rows

\* A round whose rows, notes and end stay is still sound.
LEMMA RoundStays ==
  ASSUME NEW s, NEW c, NEW t, RoundIsSound(s, t), Round(c, t) = Round(s, t),
         s.notes \subseteq c.notes, s.status = "terminated" => c.status = "terminated"
  PROVE  RoundIsSound(c, t)
BY DEF RoundIsSound, IsClosed

\* The same rows with the same notes hold the same rounds.
LEMMA SameRows ==
  ASSUME NEW s, Held(s), NEW c, c.tasks = s.tasks, s.notes \subseteq c.notes,
         s.status = "terminated" => c.status = "terminated"
  PROVE  Held(c)
<1>1. \A t : Round(c, t) = Round(s, t)  BY DEF Round
<1> QED  BY <1>1, RoundStays DEF Held

\* Closing rows of an instance marks those of each of its rounds.
LEMMA ClosedRound ==
  ASSUME NEW s, s \in Instance, NEW T \in SUBSET s.tasks, NEW st \in TaskState,
         NEW c, c.tasks = Marked(s.tasks, T, st), NEW t
  PROVE  Round(c, t) = Marked(Round(s, t), T \cap Round(s, t), st)
<1>1. s.tasks \in SUBSET Task  BY InstanceFields
<1>2. \A u \in T : SetState(u, st).node = u.node /\ SetState(u, st).round = u.round
  BY <1>1, SetStateFields
<1> QED  BY <1>2 DEF Round, Marked

\* Closing rows puts no row into a round that had none.
LEMMA HeldByRows ==
  ASSUME NEW s, s \in Instance, NEW T \in SUBSET s.tasks, NEW st \in TaskState,
         NEW c, c.tasks = Marked(s.tasks, T, st), \A t \in s.tasks : RoundIsSound(c, t)
  PROVE  Held(c)
<1>1. s.tasks \in SUBSET Task  BY InstanceFields
<1>2. \A u \in T : SetState(u, st).node = u.node /\ SetState(u, st).round = u.round
  BY <1>1, SetStateFields
<1>3. \A u \in c.tasks : \E v \in s.tasks : u.node = v.node /\ u.round = v.round
  BY <1>2 DEF Marked
<1> QED  BY <1>3, SameRound DEF Held

\* A round none of whose rows is closed keeps its rows.
LEMMA NothingMarked ==
  ASSUME NEW R, NEW st
  PROVE  Marked(R, {}, st) = R
BY DEF Marked

\* Clean rounds stay clean when open tasks are closed.
LEMMA CleanStays ==
  ASSUME NEW s, s \in Instance, Clean(s), NEW T \in SUBSET Pending(s), NEW st \in TaskState,
         NEW c, c.tasks = Marked(s.tasks, T, st), NEW t \in s.tasks
  PROVE  Rows(Round(c, t)) /\ (Mints(t.node) \/ CountsOnce(Round(c, t)))
<1> DEFINE R == Round(s, t)
           U == T \cap R
<1>1. T \in SUBSET s.tasks /\ \A u \in T : u.st = "pending"  BY DEF Pending
<1>2. Round(c, t) = Marked(R, U, st)  BY <1>1, ClosedRound
<1>3. Rows(R) /\ (Mints(t.node) \/ CountsOnce(R))  BY DEF Clean
<1>4. U \in SUBSET R /\ \A u \in U : u.st = "pending"  BY <1>1
<1> HIDE DEF R, U
<1>5. Rows(Marked(R, U, st))  BY <1>3, <1>4, MarkedIsNumbered
<1>6. CountsOnce(R) => CountsOnce(Marked(R, U, st))  BY <1>3, <1>4, MarkedCountsOnce
<1> QED  BY <1>2, <1>3, <1>5, <1>6

\* Ending an instance leaves every round closed.
LEMMA EndedHolds ==
  ASSUME NEW s, s \in Instance, Clean(s),
         NEW c, c.tasks = Marked(s.tasks, Pending(s), "cancelled"), c.status = "terminated"
  PROVE  Held(c)
<1>1. Pending(s) \in SUBSET s.tasks /\ "cancelled" \in TaskState  BY DEF Pending, TaskState
<1>2. ASSUME NEW t \in s.tasks  PROVE  RoundIsSound(c, t)
  <2>1. Rows(Round(c, t)) /\ (Mints(t.node) \/ CountsOnce(Round(c, t)))
    BY <1>1, CleanStays
  <2>2. \A u \in c.tasks : u.st # "pending"
    <3>1. s.tasks \in SUBSET Task  BY InstanceFields
    <3>2. \A u \in s.tasks : SetState(u, "cancelled").st = "cancelled"
      BY <1>1, <3>1, SetStateFields
    <3> QED  BY <3>2 DEF Marked, Pending
  <2>3. ~IsOpen(Round(c, t))  BY <2>2 DEF IsOpen, Round
  <2>4. IsClosed(c, t)  BY DEF IsClosed
  <2> QED  BY <2>1, <2>3, <2>4 DEF RoundIsSound, Rows
<1> QED  BY <1>1, <1>2, HeldByRows

\* A verdict on an open task casts a vote in its round.
LEMMA VoteIsCast ==
  ASSUME NEW s, Tidy(s), Held(s), NEW t \in Pending(s),
         NEW st \in TaskState, st # "pending", st # "cancelled",
         NEW c, c.tasks = Marked(s.tasks, {t}, st), c.notes = s.notes, c.status = s.status
  PROVE  Cast(c, t)
<1>1. s \in Instance /\ Clean(s) /\ t \in s.tasks  BY HeldIsClean DEF Tidy, Pending
<1>2. PICK T : T = {t}  OBVIOUS
<1>3. T \in SUBSET s.tasks /\ T \in SUBSET Pending(s) /\ c.tasks = Marked(s.tasks, T, st)
  BY <1>1, <1>2
<1>4. \A u : Round(c, u) = Marked(Round(s, u), T \cap Round(s, u), st)
  BY <1>1, <1>3, ClosedRound
<1>5. ASSUME NEW u \in s.tasks, ~(u.node = t.node /\ u.round = t.round)
      PROVE  RoundIsSound(c, u)
  <2>1. T \cap Round(s, u) = {}  BY <1>2, <1>5 DEF Round
  <2>2. Round(c, u) = Round(s, u)  BY <1>4, <2>1, NothingMarked
  <2> QED  BY <2>2, RoundStays DEF Held
<1>6. \A u \in c.tasks : \E v \in s.tasks : u.node = v.node /\ u.round = v.round
  <2>1. s.tasks \in SUBSET Task  BY <1>1, InstanceFields
  <2>2. \A u \in T : SetState(u, st).node = u.node /\ SetState(u, st).round = u.round
    BY <1>3, <2>1, SetStateFields
  <2> QED  BY <1>3, <2>2 DEF Marked
<1>7. \A u \in c.tasks : (u.node = t.node /\ u.round = t.round) \/ RoundIsSound(c, u)
  BY <1>5, <1>6, SameRound
<1>8. Rows(Round(c, t)) /\ (Mints(t.node) \/ CountsOnce(Round(c, t)))
  BY <1>1, <1>3, CleanStays
<1>9. \A u \in Round(c, t) : u.st # "cancelled"
  <2>1. t \in Round(s, t) /\ t.st = "pending"  BY <1>1 DEF Round, Pending
  <2>2. IsOpen(Round(s, t))  BY <2>1 DEF IsOpen
  <2>3. \A u \in Round(s, t) : u.st # "cancelled"
    BY <1>1, <2>2 DEF Held, RoundIsSound, Undecided
  <2>4. SetState(t, st).st = st  BY <1>1, InstanceFields, SetStateFields
  <2> QED  BY <1>2, <1>4, <2>3, <2>4 DEF Marked
<1> QED  BY <1>7, <1>8, <1>9 DEF Cast

\* A new row changes the rows of its own round and of no other.
LEMMA AddedToRound ==
  ASSUME NEW s, NEW x, NEW c, c.tasks = s.tasks \cup {x}, NEW t
  PROVE  Round(c, t) = IF x.node = t.node /\ x.round = t.round
                       THEN Round(s, t) \cup {x} ELSE Round(s, t)
BY DEF Round

\* The row a further task of a person gets, and its number.
LEMMA NextTaskIsNumbered ==
  ASSUME NEW s, Tidy(s), NEW p \in s.tasks, NEW v \in Users, NEW x, x = NextTask(s, p, v)
  PROVE  /\ x \in Task /\ x.node = p.node /\ x.round = p.round /\ x.st = "pending"
         /\ x.who = v /\ x.nth = Cardinality(Of(Round(s, p), v))
BY NextTaskIsTyped DEF NextTask, Of

\* A verdict on a task minted for the reviewer casts a vote in the round of p.
LEMMA MintIsCast ==
  ASSUME NEW s, Tidy(s), Held(s), NEW p \in Pending(s), Mints(p.node), NEW v \in Users,
         NEW st \in TaskState, st # "cancelled",
         NEW x, x = SetState(NextTask(s, p, v), st),
         NEW c, c.tasks = s.tasks \cup {x}, c.notes = s.notes, c.status = s.status
  PROVE  Cast(c, p)
<1>1. p \in s.tasks /\ p.st = "pending" /\ Clean(s)  BY HeldIsClean DEF Pending
<1>2. PICK y : y = NextTask(s, p, v)  OBVIOUS
<1>3. /\ y \in Task /\ y.node = p.node /\ y.round = p.round
      /\ y.who = v /\ y.nth = Cardinality(Of(Round(s, p), v))
  BY <1>1, <1>2, NextTaskIsNumbered
<1>4. /\ x \in Task /\ x.node = p.node /\ x.round = p.round /\ x.st = st
      /\ x.nth = Cardinality(Of(Round(s, p), x.who))
  BY <1>2, <1>3, SetStateFields
<1>5. \A u \in s.tasks : ~(u.node = p.node /\ u.round = p.round) => RoundIsSound(c, u)
  BY <1>4, AddedToRound, RoundStays DEF Held
<1>6. \A u \in c.tasks : (u.node = p.node /\ u.round = p.round) \/ RoundIsSound(c, u)
  BY <1>4, <1>5
<1>7. Round(c, p) = Round(s, p) \cup {x}  BY <1>4, AddedToRound
<1>8. Rows(Round(c, p))  BY <1>1, <1>4, <1>7, AddedRow DEF Clean
<1>9. \A u \in Round(c, p) : u.st # "cancelled"
  <2>1. p \in Round(s, p)  BY <1>1 DEF Round
  <2>2. IsOpen(Round(s, p))  BY <1>1, <2>1 DEF IsOpen
  <2>3. \A u \in Round(s, p) : u.st # "cancelled"
    BY <1>1, <2>2 DEF Held, RoundIsSound, Undecided
  <2> QED  BY <1>4, <1>7, <2>3
<1> QED  BY <1>6, <1>8, <1>9 DEF Cast

\* Where a vote has been cast every round is clean.
LEMMA CastIsClean ==
  ASSUME NEW s, Tidy(s), NEW t, Cast(s, t)
  PROVE  Clean(s)
<1>1. ASSUME NEW u \in s.tasks
      PROVE  Rows(Round(s, u)) /\ (Mints(u.node) \/ CountsOnce(Round(s, u)))
  <2>1. CASE u.node = t.node /\ u.round = t.round
    BY <2>1, SameRound DEF Cast
  <2>2. CASE RoundIsSound(s, u)
    BY <2>2, RoundRows DEF RoundIsSound, Rows
  <2> QED  BY <2>1, <2>2 DEF Cast
<1> QED  BY <1>1 DEF Clean

\* A vote that passes its round closes it.
LEMMA PassedHolds ==
  ASSUME NEW s, Tidy(s), NEW t, Cast(s, t), RoundPasses(Round(s, t), t.node),
         NEW c, c.tasks = Marked(s.tasks, Round(s, t) \cap Pending(s), "cancelled"),
         c.notes = s.notes, c.status = s.status
  PROVE  Held(c)
<1> DEFINE R == Round(s, t)
           T == R \cap Pending(s)
<1>1. T \in SUBSET s.tasks /\ T \in SUBSET Pending(s) /\ "cancelled" \in TaskState
  BY DEF Pending, TaskState
<1>2. s \in Instance /\ Clean(s)  BY CastIsClean DEF Tidy
<1>3. T = {u \in R : u.st = "pending"}  BY DEF Round, Pending
<1>4. Rows(R) /\ (\A u \in R : u.st # "cancelled") /\ RoundPasses(R, t.node)  BY DEF Cast
<1>5. c.tasks = Marked(s.tasks, T, "cancelled")  OBVIOUS
<1>6. \A u : Round(c, u) = Marked(Round(s, u), T \cap Round(s, u), "cancelled")
  BY <1>1, <1>2, <1>5, ClosedRound
<1>7. Round(c, t) = Marked(R, T, "cancelled")
  <2>1. T \cap R = T  OBVIOUS
  <2> QED  BY <1>6, <2>1
<1>8. \A u \in s.tasks : Rows(Round(c, u)) /\ (Mints(u.node) \/ CountsOnce(Round(c, u)))
  <2> HIDE DEF T
  <2> QED  BY <1>1, <1>2, <1>5, CleanStays
<1> HIDE DEF R, T
<1>9. ~IsOpen(Round(c, t)) /\ HadPassed(Round(c, t), t.node)
  BY <1>3, <1>4, <1>7, PassedRound
<1>10. ASSUME NEW u \in s.tasks  PROVE  RoundIsSound(c, u)
  <2>1. CASE u.node = t.node /\ u.round = t.round
    <3>1. Round(c, u) = Round(c, t)  BY <2>1, SameRound
    <3>2. ~IsOpen(Round(c, u)) /\ IsClosed(c, u)  BY <1>9, <2>1, <3>1 DEF IsClosed
    <3> QED  BY <1>8, <3>2 DEF RoundIsSound, Rows
  <2>2. CASE ~(u.node = t.node /\ u.round = t.round)
    <3>1. T \cap Round(s, u) = {}  BY <2>2 DEF T, R, Round
    <3>2. Round(c, u) = Round(s, u)  BY <1>6, <3>1, NothingMarked
    <3>3. RoundIsSound(s, u)  BY <2>2 DEF Cast
    <3> QED  BY <3>2, <3>3, RoundStays
  <2> QED  BY <2>1, <2>2
<1> QED  BY <1>1, <1>2, <1>5, <1>10, HeldByRows

\* A vote that leaves its round undecided leaves it open.
LEMMA UndecidedHolds ==
  ASSUME NEW s, Tidy(s), NEW t, t.node \in Approvals, Cast(s, t),
         ~RoundPasses(Round(s, t), t.node), ~RoundImpossible(Round(s, t), t.node),
         \E u \in Round(s, t) : u.st \in {"approved", "rejected"}
  PROVE  Held(s)
<1>1. IsOpen(Round(s, t)) /\ Undecided(Round(s, t), t.node)
  BY RoundRows, UndecidedRound DEF Cast, Undecided
<1>2. \A u \in s.tasks : u.node = t.node /\ u.round = t.round => RoundIsSound(s, u)
  BY <1>1, SameRound DEF Cast, RoundIsSound, Rows
<1> QED  BY <1>2 DEF Cast, Held

\* A hand-over keeps its round as sound as it was.
LEMMA HandedOnHolds ==
  ASSUME NEW s, Tidy(s), Held(s), NEW t \in Pending(s), NEW v \in Users,
         \A u \in Round(s, t) \ {t} : u.who = v => u.st \notin Counted,
         NEW x, x = NextTask(s, t, v),
         NEW c, c.tasks = Marked(s.tasks, {t}, "transferred") \cup {x},
         c.notes = s.notes, c.status = s.status
  PROVE  Held(c)
<1> DEFINE R == Round(s, t)
<1>1. s \in Instance /\ Clean(s) /\ t \in s.tasks /\ t.st = "pending" /\ t \in R
  BY HeldIsClean DEF Tidy, Pending, Round
<1>2. /\ x \in Task /\ x.node = t.node /\ x.round = t.round /\ x.st = "pending"
      /\ x.who = v /\ x.nth = Cardinality(Of(R, v))
  BY <1>1, NextTaskIsNumbered
<1>3. PICK T : T = {t}  OBVIOUS
<1>4. T \in SUBSET s.tasks /\ "transferred" \in TaskState  BY <1>1, <1>3 DEF TaskState
<1>5. PICK m : m = [s EXCEPT !.tasks = Marked(s.tasks, T, "transferred")]  OBVIOUS
<1>6. m.tasks = Marked(s.tasks, T, "transferred") /\ c.tasks = m.tasks \cup {x}
  BY <1>1, <1>3, <1>5, InstanceFields
<1>7. \A u : Round(m, u) = Marked(Round(s, u), T \cap Round(s, u), "transferred")
  BY <1>1, <1>4, <1>6, ClosedRound
<1>8. Round(m, t) = Marked(R, {t}, "transferred")
  <2>1. T \cap R = {t}  BY <1>1, <1>3
  <2> QED  BY <1>7, <2>1
<1>9. Round(c, t) = Marked(R, {t}, "transferred") \cup {x}
  BY <1>2, <1>6, <1>8, AddedToRound
<1>10. Rows(R) /\ (Mints(t.node) \/ CountsOnce(R)) /\ Undecided(R, t.node)
  <2>1. IsOpen(R)  BY <1>1 DEF IsOpen
  <2> QED  BY <1>1, <2>1 DEF Clean, Held, RoundIsSound
<1> HIDE DEF R
<1>11. \A u \in R \ {t} : u.who = x.who => u.st \notin Counted  BY <1>2 DEF R
<1>12. PICK S : S = Marked(R, {t}, "transferred") \cup {x}  OBVIOUS
<1>13. Rows(S) /\ IsOpen(S) /\ Undecided(S, t.node) /\ (CountsOnce(R) => CountsOnce(S))
  BY <1>1, <1>2, <1>10, <1>11, <1>12, HandedOnRound
<1>14. RoundIsSound(c, t)
  BY <1>9, <1>10, <1>12, <1>13 DEF RoundIsSound, Rows
<1>15. ASSUME NEW u \in s.tasks  PROVE  RoundIsSound(c, u)
  <2>1. CASE u.node = t.node /\ u.round = t.round
    BY <1>14, <2>1, SameRound
  <2>2. CASE ~(u.node = t.node /\ u.round = t.round)
    <3>1. T \cap Round(s, u) = {}  BY <1>3, <2>2 DEF Round
    <3>2. Round(m, u) = Round(s, u)  BY <1>7, <3>1, NothingMarked
    <3>3. Round(c, u) = Round(s, u)  BY <1>2, <1>6, <2>2, <3>2, AddedToRound
    <3> QED  BY <3>3, RoundStays DEF Held
  <2> QED  BY <2>1, <2>2
<1>16. \A u \in c.tasks : \E w \in s.tasks : u.node = w.node /\ u.round = w.round
  <2>1. s.tasks \in SUBSET Task  BY <1>1, InstanceFields
  <2>2. \A u \in T : /\ SetState(u, "transferred").node = u.node
                     /\ SetState(u, "transferred").round = u.round
    BY <1>4, <2>1, SetStateFields
  <2> QED  BY <1>1, <1>2, <1>4, <1>6, <2>2 DEF Marked
<1> QED  BY <1>15, <1>16, SameRound DEF Held

\* Cancelling the open tasks of a node with a note for their round closes it.
LEMMA ReturnedHolds ==
  ASSUME NEW s, Tidy(s), Held(s), NEW n,
         NEW c, c.tasks = Marked(s.tasks, PendingAt(s, n), "cancelled"),
         s.notes \subseteq c.notes, c.status = s.status,
         \A t \in PendingAt(s, n) : \E h \in c.notes : h.node = t.node /\ h.round = t.round
  PROVE  Held(c)
<1> DEFINE T == PendingAt(s, n)
<1>1. /\ T \in SUBSET s.tasks /\ T \in SUBSET Pending(s) /\ "cancelled" \in TaskState
      /\ c.tasks = Marked(s.tasks, T, "cancelled")
  BY DEF PendingAt, Pending, TaskState
<1>2. s \in Instance /\ Clean(s)  BY HeldIsClean DEF Tidy
<1>3. \A u \in s.tasks : Rows(Round(c, u)) /\ (Mints(u.node) \/ CountsOnce(Round(c, u)))
  <2> HIDE DEF T
  <2> QED  BY <1>1, <1>2, CleanStays
<1>4. \A u : Round(c, u) = Marked(Round(s, u), T \cap Round(s, u), "cancelled")
  <2> HIDE DEF T
  <2> QED  BY <1>1, <1>2, ClosedRound
<1>5. ASSUME NEW u \in s.tasks  PROVE  RoundIsSound(c, u)
  <2>1. CASE T \cap Round(s, u) = {}
    BY <1>4, <2>1, NothingMarked, RoundStays DEF Held
  <2>2. CASE T \cap Round(s, u) # {}
    <3>1. PICK t \in T : t.node = u.node /\ t.round = u.round  BY <2>2 DEF Round
    <3>2. \A w \in Round(s, u) : w.st = "pending" => w \in T
      BY <3>1 DEF Round, PendingAt, Pending
    <3>3. \A w \in T : SetState(w, "cancelled").st = "cancelled"
      <4>1. s.tasks \in SUBSET Task  BY <1>2, InstanceFields
      <4> QED  BY <1>1, <4>1, SetStateFields
    <3>4. ~IsOpen(Round(c, u))  BY <1>4, <3>2, <3>3 DEF IsOpen, Marked
    <3>5. IsClosed(c, u)  BY <3>1 DEF IsClosed
    <3> QED  BY <1>3, <3>4, <3>5 DEF RoundIsSound, Rows
  <2> QED  BY <2>1, <2>2
<1> HIDE DEF T
<1> QED  BY <1>1, <1>2, <1>5, HeldByRows

\* Opening a round leaves the others as they were.
LEMMA OpenedHolds ==
  ASSUME NEW s, Tidy(s), Held(s), NEW n \in Approvals, NEW A \in SUBSET Users,
         NEW c, c.notes = s.notes, c.status = s.status,
         c.tasks = s.tasks \cup {[node |-> n, round |-> s.rounds + 1, who |-> u,
                                  nth |-> 0, st |-> "pending"] : u \in A}
  PROVE  Held(c)
<1> DEFINE N == {[node |-> n, round |-> s.rounds + 1, who |-> u,
                  nth |-> 0, st |-> "pending"] : u \in A}
<1>1. s.rounds \in Nat /\ s.tasks \in SUBSET Task  BY InstanceFields DEF Tidy
<1>2. \A u \in s.tasks : u.round \in 1..s.rounds  BY DEF Tidy
<1>3. \A x \in N : x.node = n /\ x.round = s.rounds + 1  OBVIOUS
<1>4. A # {} => Rows(N) /\ CountsOnce(N) /\ IsOpen(N) /\ Undecided(N, n)
  <2>1. s.rounds + 1 \in Nat  BY <1>1
  <2> HIDE DEF N
  <2>2. N = {[node |-> n, round |-> s.rounds + 1, who |-> u,
              nth |-> 0, st |-> "pending"] : u \in A}
    BY DEF N
  <2> QED  BY <2>1, <2>2, FreshRound
<1>5. N # {} => A # {}  OBVIOUS
<1> HIDE DEF N
<1>6. c.tasks = s.tasks \cup N  BY DEF N
<1>7. ASSUME NEW u \in s.tasks  PROVE  RoundIsSound(c, u)
  <2>1. u.round # s.rounds + 1  BY <1>1, <1>2
  <2>2. Round(c, u) = Round(s, u)  BY <1>3, <1>6, <2>1 DEF Round
  <2> QED  BY <2>2, RoundStays DEF Held
<1>8. ASSUME NEW x \in N  PROVE  RoundIsSound(c, x)
  <2>1. Round(c, x) = N
    <3>1. \A u \in s.tasks : u.round # x.round  BY <1>1, <1>2, <1>3
    <3> QED  BY <1>3, <1>6, <3>1 DEF Round
  <2> QED  BY <1>3, <1>4, <1>5, <2>1 DEF RoundIsSound, Rows
<1> QED  BY <1>6, <1>7, <1>8 DEF Held

-------------------------------------------------------------------------------
(* Rows are added and closed, never lost or rewritten.                       *)

\* Rows that all stay are extended.
LEMMA AddingExtends ==
  ASSUME NEW s, s \in Instance, NEW c, s.tasks \subseteq c.tasks
  PROVE  Extends(s, c)
<1>1. s.tasks \in SUBSET Task /\ "pending" \in TaskState  BY InstanceFields DEF TaskState
<1>2. \A t \in Pending(s) : SetState(t, "pending") = t
  BY <1>1 DEF Pending, SetState, Task
<1>3. \A t \in Pending(s) : t \in c.tasks  BY DEF Pending
<1> QED  BY <1>1, <1>2, <1>3 DEF Extends

\* Closing open rows extends what was there.
LEMMA MarkingExtends ==
  ASSUME NEW s, s \in Instance, NEW T \in SUBSET Pending(s), NEW st \in TaskState,
         NEW c, Marked(s.tasks, T, st) \subseteq c.tasks
  PROVE  Extends(s, c)
<1>1. \A t \in s.tasks \ T : t \in c.tasks  BY DEF Marked
<1>2. \A t \in T : SetState(t, st) \in c.tasks  BY DEF Marked
<1>3. \A t \in Pending(s) \ T : SetState(t, "pending") \in c.tasks
  <2>1. s.tasks \in SUBSET Task  BY InstanceFields
  <2>2. \A t \in Pending(s) : SetState(t, "pending") = t
    BY <2>1 DEF Pending, SetState, Task
  <2> QED  BY <1>1, <2>2 DEF Pending
<1>4. "pending" \in TaskState  BY DEF TaskState
<1> QED  BY <1>1, <1>2, <1>3, <1>4 DEF Extends

\* What extends an extension extends the original.
LEMMA ExtendsOn ==
  ASSUME NEW s, s \in Instance, NEW b, b \in Instance, NEW c, Extends(s, b), Extends(b, c)
  PROVE  Extends(s, c)
<1>1. s.tasks \in SUBSET Task  BY InstanceFields
<1>2. ASSUME NEW t \in s.tasks \ Pending(s)  PROVE  t \in c.tasks
  <2>1. t \in b.tasks \ Pending(b)  BY <1>2 DEF Extends, Pending
  <2> QED  BY <2>1 DEF Extends
<1>3. ASSUME NEW t \in Pending(s)  PROVE  \E st \in TaskState : SetState(t, st) \in c.tasks
  <2>1. PICK st \in TaskState : SetState(t, st) \in b.tasks  BY <1>3 DEF Extends
  <2>2. t \in Task  BY <1>1 DEF Pending
  <2>3. CASE SetState(t, st) \in Pending(b)
    <3>1. PICK o \in TaskState : SetState(SetState(t, st), o) \in c.tasks
      BY <2>3 DEF Extends
    <3>2. SetState(SetState(t, st), o) = SetState(t, o)  BY <2>2 DEF SetState, Task
    <3> QED  BY <3>1, <3>2
  <2>4. CASE SetState(t, st) \notin Pending(b)
    BY <2>1, <2>4 DEF Extends
  <2> QED  BY <2>3, <2>4
<1> QED  BY <1>2, <1>3 DEF Extends

-------------------------------------------------------------------------------
(* The instance an operation leaves.                                         *)

\* Closing rows marks them and changes nothing else.
LEMMA CloseFields ==
  ASSUME NEW s, s \in Instance, NEW T, NEW st, NEW c, c = Close(s, T, st)
  PROVE  /\ c.tasks = Marked(s.tasks, T, st) /\ c.notes = s.notes /\ c.status = s.status
         /\ c.current = s.current /\ c.rounds = s.rounds /\ c.tokens = s.tokens
BY InstanceFields DEF Close, Marked

\* terminateInstance cancels what is open and leaves every node.
LEMMA TerminatedFields ==
  ASSUME NEW s, Sound(s), NEW c, c = Terminated(s)
  PROVE  /\ c.tasks = Marked(s.tasks, Pending(s), "cancelled") /\ c.notes = s.notes
         /\ c.status = "terminated" /\ c.current = {} /\ c.tokens = s.tokens
<1>1. PICK a : a = CancelAll(s)  OBVIOUS
<1>2. a \in Instance  BY <1>1, CancelAllIsSound DEF Sound
<1>3. /\ a.tasks = Marked(s.tasks, Pending(s), "cancelled") /\ a.notes = s.notes
      /\ a.tokens = s.tokens
  BY <1>1, CloseFields DEF CancelAll, Sound
<1>4. c = [a EXCEPT !.status = "terminated", !.current = {}]  BY <1>1 DEF Terminated
<1> QED  BY <1>2, <1>3, <1>4, InstanceFields

\* Joins are not approvals.
LEMMA JoinsDoNotVote == Joins \cap Approvals = {}
BY DEF Joins, Approvals

\* A move through nodes and joins that leaves the rows alone.
LEMMA MovedIsSound ==
  ASSUME NEW s, s \in Instance, RoundsAreSound(s), NEW c, c.tasks = s.tasks, c.notes = s.notes,
         s.status = "terminated" => c.status = "terminated",
         c.current \subseteq s.current \cup Joins
  PROVE  RoundsAreSound(c) /\ Extends(s, c)
<1>1. Held(c)  BY SameRows DEF RoundsAreSound, Held
<1>2. \A n : PendingAt(c, n) = PendingAt(s, n)  BY DEF PendingAt, Pending
<1>3. IsStaffed(c)  BY <1>2, JoinsDoNotVote DEF RoundsAreSound, IsStaffed
<1>4. Extends(s, c)  BY AddingExtends
<1> QED  BY <1>1, <1>3, <1>4 DEF RoundsAreSound, Held

Kept == /\ RoundsAreSound(db) /\ RoundsAreSound(work)
        /\ held => Extends(db, work)
        /\ db.status \in Live => db.current # {}
Onward == Kept' /\ Extends(db, db') /\ (db.status \in Ended => db' = db)

\* Between transactions the committed rows are those of an instance.
LEMMA RowsAtRest ==
  ASSUME RoundsInv
  PROVE  /\ db \in Instance /\ work \in Instance /\ Sound(db) /\ Sound(work)
         /\ RoundsAreSound(db) /\ RoundsAreSound(work) /\ Held(db) /\ Held(work)
         /\ Tidy(db) /\ Tidy(work)
BY SoundIsTidy DEF RoundsInv, IndInv, TypeOK, Sound, RoundsAreSound, Held

\* An operation that saves sound rounds and ends keeps them.
LEMMA SaveOnward ==
  ASSUME RoundsInv, ~held, db.status \notin Ended, NEW s, RoundsAreSound(s), Extends(db, s),
         s.status \in Live => s.current # {}, Save(s)
  PROVE  Onward
<1>1. db' = s /\ work' = s /\ ~held'  BY DEF Save
<1>2. Kept'  BY <1>1 DEF Kept
<1> QED  BY <1>1, <1>2 DEF Onward

\* An operation that hands arrivals to the loop keeps sound rounds.
LEMMA RunOnward ==
  ASSUME RoundsInv, NEW s, RoundsAreSound(s), Extends(db, s), NEW q, Run(s, q)
  PROVE  Onward
<1>1. db' = db /\ work' = s  BY DEF Run
<1>2. RoundsAreSound(db) /\ (db.status \in Live => db.current # {})  BY DEF RoundsInv
<1>3. Kept'  BY <1>1, <1>2 DEF Kept
<1>4. Extends(db, db)  BY RowsAtRest, AddingExtends
<1> QED  BY <1>1, <1>3, <1>4 DEF Onward

\* A turn of the loop keeps sound rounds.
LEMMA PassOnward ==
  ASSUME RoundsInv, held, NEW s, RoundsAreSound(s), Extends(work, s), NEW next, PassOn(s, next)
  PROVE  Onward
<1>1. db' = db /\ work' = s  BY DEF PassOn
<1>2. RoundsAreSound(db) /\ (db.status \in Live => db.current # {}) /\ Extends(db, work)
  BY DEF RoundsInv
<1>3. Extends(db, s)  BY <1>2, RowsAtRest, ExtendsOn
<1>4. Kept'  BY <1>1, <1>2, <1>3 DEF Kept
<1>5. Extends(db, db)  BY RowsAtRest, AddingExtends
<1> QED  BY <1>1, <1>4, <1>5 DEF Onward

-------------------------------------------------------------------------------
(* One lemma per action.                                                     *)

\* Starting an instance keeps sound rounds.
LEMMA StartOnward ==
  ASSUME RoundsInv, Start
  PROVE  Onward
<1>1. PICK s : s = [db EXCEPT !.status = "running"]  OBVIOUS
<1>2. Run(s, <<[node |-> StartNode, from |-> NoNode]>>) /\ db.status = "absent"
  BY <1>1 DEF Start, Locked
<1>3. s.tasks = db.tasks /\ s.notes = db.notes /\ s.current = db.current
  BY <1>1, RowsAtRest, InstanceFields
<1>4. RoundsAreSound(s) /\ Extends(db, s)  BY <1>2, <1>3, RowsAtRest, MovedIsSound
<1> QED  BY <1>2, <1>4, RunOnward

\* Taking a node out of the active set keeps sound rounds.
LEMMA DeletedOnward ==
  ASSUME RoundsInv, held, NEW n, NEW next, PassOn(Deleted(work, n), next)
  PROVE  Onward
<1>1. PICK s : s = Deleted(work, n)  OBVIOUS
<1>2. /\ s.tasks = work.tasks /\ s.notes = work.notes /\ s.status = work.status
      /\ s.current = work.current \ {n}
  BY <1>1, RowsAtRest, InstanceFields DEF Deleted
<1>3. RoundsAreSound(s) /\ Extends(work, s)  BY <1>2, RowsAtRest, MovedIsSound
<1> QED  BY <1>1, <1>3, PassOnward

\* An arrival at a join keeps sound rounds.
LEMMA ArriveAtJoinOnward ==
  ASSUME RoundsInv, NEW n \in Nodes, ArriveAtJoin(n)
  PROVE  Onward
<1>1. PICK tokens : tokens = Arrived(work, <<Head(queue).from, n>>)  OBVIOUS
<1>2. PICK a : a = Deleted(work, n)  OBVIOUS
<1>3. PICK s : s = [a EXCEPT !.tokens = tokens]  OBVIOUS
<1>4. PICK u : u = [s EXCEPT !.tokens = Released(tokens, n)]  OBVIOUS
<1>5. PICK w : w = [s EXCEPT !.current = s.current \cup {n}]  OBVIOUS
<1>6. /\ held /\ n \in Joins
      /\ PassOn(w, <<>>) \/ PassOn(u, Arrivals(n))
  BY <1>1, <1>2, <1>3, <1>4, <1>5 DEF ArriveAtJoin, Moving, Wait
<1>7. /\ a = [status |-> work.status, current |-> work.current \ {n}, tokens |-> work.tokens,
              rounds |-> work.rounds, tasks |-> work.tasks, notes |-> work.notes]
  BY <1>2, RowsAtRest, InstanceFields DEF Deleted
<1>8. /\ s.tasks = work.tasks /\ s.notes = work.notes /\ s.status = work.status
      /\ s.current = work.current \ {n}
      /\ s = [status |-> work.status, current |-> work.current \ {n}, tokens |-> tokens,
              rounds |-> work.rounds, tasks |-> work.tasks, notes |-> work.notes]
  BY <1>3, <1>7
<1>9. CASE PassOn(w, <<>>)
  <2>1. /\ w.tasks = work.tasks /\ w.notes = work.notes /\ w.status = work.status
        /\ w.current = (work.current \ {n}) \cup {n}
    BY <1>5, <1>8
  <2>2. RoundsAreSound(w) /\ Extends(work, w)  BY <1>6, <2>1, RowsAtRest, MovedIsSound
  <2> QED  BY <1>6, <1>9, <2>2, PassOnward
<1>10. CASE PassOn(u, Arrivals(n))
  <2>1. /\ u.tasks = work.tasks /\ u.notes = work.notes /\ u.status = work.status
        /\ u.current = work.current \ {n}
    BY <1>4, <1>8
  <2>2. RoundsAreSound(u) /\ Extends(work, u)  BY <2>1, RowsAtRest, MovedIsSound
  <2> QED  BY <1>6, <1>10, <2>2, PassOnward
<1> QED  BY <1>6, <1>9, <1>10

\* An approval that is passed through keeps sound rounds.
LEMMA PassThroughOnward ==
  ASSUME RoundsInv, held, NEW next, PassOn(work, next)
  PROVE  Onward
BY RowsAtRest, AddingExtends, PassOnward

\* Opening a round for somebody keeps sound rounds.
LEMMA StaffedByOnward ==
  ASSUME RoundsInv, held, NEW n \in Approvals, n \notin work.current,
         NEW A \in SUBSET Users, FallbackCanAct => A # {}, StaffedBy(n, A)
  PROVE  Onward
<1> DEFINE N == {[node |-> n, round |-> work.rounds + 1, who |-> u,
                  nth |-> 0, st |-> "pending"] : u \in A}
<1>1. PICK b : b = OpenRound(work, n, A)  OBVIOUS
<1>2. PICK c : c = [b EXCEPT !.current = b.current \cup {n}]  OBVIOUS
<1>3. PassOn(c, <<>>)  BY <1>1, <1>2 DEF StaffedBy, Wait
<1>4. /\ c.tasks = work.tasks \cup N /\ c.notes = work.notes /\ c.status = work.status
      /\ c.current = work.current \cup {n}
  BY <1>1, <1>2, RowsAtRest, InstanceFields DEF OpenRound
<1>5. Held(c)  BY <1>4, RowsAtRest, OpenedHolds
<1>6. IsStaffed(c)
  <2>1. \A m : PendingAt(work, m) \subseteq PendingAt(c, m)
    BY <1>4 DEF PendingAt, Pending
  <2>2. FallbackCanAct => PendingAt(c, n) # {}
    <3>1. \A u \in A : [node |-> n, round |-> work.rounds + 1, who |-> u, nth |-> 0,
                        st |-> "pending"] \in PendingAt(c, n)
      BY <1>4 DEF PendingAt, Pending
    <3> QED  BY <3>1
  <2>3. IsStaffed(work)  BY RowsAtRest DEF RoundsAreSound
  <2> HIDE DEF N
  <2> QED  BY <1>4, <2>1, <2>2, <2>3 DEF IsStaffed
<1>7. Extends(work, c)  BY <1>4, RowsAtRest, AddingExtends
<1>8. RoundsAreSound(c)  BY <1>5, <1>6 DEF RoundsAreSound, Held
<1> QED  BY <1>3, <1>7, <1>8, PassOnward

\* Entering an approval keeps sound rounds.
LEMMA EnterApprovalOnward ==
  ASSUME RoundsInv, NEW n \in Nodes, EnterApproval(n)
  PROVE  Onward
<1>1. n \in Approvals /\ held /\ n \notin work.current
  BY DEF EnterApproval, Moving, Approvals
<1>2. PICK S \in Staffing[n], F \in Fallback[n] :
        \/ Eligible(S) # {} /\ StaffedBy(n, Eligible(S))
        \/ n \in Escalates /\ F # {} /\ StaffedBy(n, Eligible(F))
        \/ PassOn(work, Arrivals(n))
  BY DEF EnterApproval
<1>3. Eligible(S) \in SUBSET Users /\ Eligible(F) \in SUBSET Users
  <2>1. Staffing[n] \in SUBSET SUBSET Users /\ Fallback[n] \in SUBSET SUBSET Users
    BY <1>1, GraphAssumption
  <2> QED  BY <2>1 DEF Eligible
<1>4. CASE Eligible(S) # {} /\ StaffedBy(n, Eligible(S))
  BY <1>1, <1>3, <1>4, StaffedByOnward
<1>5. CASE n \in Escalates /\ F # {} /\ StaffedBy(n, Eligible(F))
  <2>1. FallbackCanAct => Eligible(F) # {}  BY <1>5 DEF FallbackCanAct
  <2> QED  BY <1>1, <1>3, <1>5, <2>1, StaffedByOnward
<1> QED  BY <1>1, <1>2, <1>4, <1>5, PassThroughOnward

\* Every turn of the loop keeps sound rounds.
LEMMA WalkOnward ==
  ASSUME RoundsInv, Walk
  PROVE  Onward
<1>1. PICK n \in Nodes : PassNode(n) \/ Branch(n) \/ Fork(n) \/ ArriveAtJoin(n)
                           \/ EnterApproval(n) \/ PassApproval(n)
  BY DEF Walk
<1>2. CASE PassNode(n)  BY <1>2, DeletedOnward DEF PassNode, Moving
<1>3. CASE Branch(n)  BY <1>3, DeletedOnward DEF Branch, Moving
<1>4. CASE Fork(n)  BY <1>4, DeletedOnward DEF Fork, Moving
<1>5. CASE PassApproval(n)  BY <1>5, PassThroughOnward DEF PassApproval, Moving
<1> QED
  BY <1>1, <1>2, <1>3, <1>4, <1>5, ArriveAtJoinOnward, EnterApprovalOnward

\* The commit keeps sound rounds (completeInstance).
LEMMA CommitOnward ==
  ASSUME RoundsInv, Commit
  PROVE  Onward
<1>1. held /\ ~held' /\ db' = work'
  BY DEF Commit
<1>2. \/ work.current # {} /\ work' = work
      \/ work.current = {} /\ work' = [work EXCEPT !.status = "completed"]
  BY DEF Commit
<1>3. work.status = "running" /\ db.status \notin Ended /\ Extends(db, work)
  BY <1>1 DEF RoundsInv, IndInv, Ended
<1>4. PICK c : c = work'  OBVIOUS
<1>5. /\ c.tasks = work.tasks /\ c.notes = work.notes /\ c.current = work.current
      /\ c.status \in Live => c.current # {}
  BY <1>2, <1>4, RowsAtRest, InstanceFields DEF Live
<1>6. RoundsAreSound(c) /\ Extends(work, c)  BY <1>3, <1>5, RowsAtRest, MovedIsSound
<1>7. Extends(db, c)  BY <1>3, <1>6, RowsAtRest, ExtendsOn
<1>8. Kept'  BY <1>1, <1>4, <1>5, <1>6 DEF Kept
<1> QED  BY <1>1, <1>3, <1>4, <1>7, <1>8 DEF Onward

\* A rollback keeps sound rounds.
LEMMA AbortOnward ==
  ASSUME RoundsInv, Abort
  PROVE  Onward
<1>1. db' = db /\ work' = db /\ ~held'  BY DEF Abort
<1>2. Kept'  BY <1>1 DEF RoundsInv, Kept
<1>3. Extends(db, db)  BY RowsAtRest, AddingExtends
<1> QED  BY <1>1, <1>2, <1>3 DEF Onward

\* An operation that ends the instance keeps sound rounds.
LEMMA SaveTerminatedOnward ==
  ASSUME RoundsInv, ~held, db.status \notin Ended, NEW s, Sound(s), Clean(s), Extends(db, s),
         Save(Terminated(s))
  PROVE  Onward
<1>1. PICK c : c = Terminated(s)  OBVIOUS
<1>2. /\ c.tasks = Marked(s.tasks, Pending(s), "cancelled") /\ c.notes = s.notes
      /\ c.status = "terminated" /\ c.current = {}
  BY <1>1, TerminatedFields
<1>3. s \in Instance /\ "cancelled" \in TaskState  BY DEF Sound, TaskState
<1>4. Held(c)  BY <1>2, <1>3, EndedHolds
<1>5. RoundsAreSound(c)  BY <1>2, <1>4 DEF RoundsAreSound, Held, IsStaffed
<1>6. Extends(s, c)  BY <1>2, <1>3, MarkingExtends
<1>7. Extends(db, c)  BY <1>3, <1>6, RowsAtRest, ExtendsOn
<1>8. c.status \notin Live  BY <1>2 DEF Live
<1> QED  BY <1>1, <1>5, <1>7, <1>8, SaveOnward

\* s with the rows T cancelled, and what it has become once the token has left n as well.
Cancelling(s, T) == Close(s, T, "cancelled")
IsLeft(s, T, n, c) ==
  /\ c.tasks = Marked(s.tasks, T, "cancelled") /\ Pending(c) = Pending(s) \ T
  /\ c.notes = s.notes /\ c.status = s.status /\ c.current = s.current \ {n}
  /\ c.tokens = s.tokens /\ Extends(s, c)

\* What is left when a passed round is closed and its node is left.
LEMMA RoundIsLeft ==
  ASSUME NEW s, Sound(s), NEW T \in SUBSET Pending(s), NEW n,
         NEW c, c = [Cancelling(s, T) EXCEPT !.current = Cancelling(s, T).current \ {n}]
  PROVE  IsLeft(s, T, n, c)
<1>a. PICK a : a = Close(s, T, "cancelled")  OBVIOUS
<1>b. c = [a EXCEPT !.current = a.current \ {n}]  BY <1>a DEF Cancelling
<1>1. s \in Instance /\ T \subseteq s.tasks /\ T \in SUBSET Pending(s)  BY DEF Sound, Pending
<1>2. PICK st \in TaskState : st = "cancelled"  BY DEF TaskState
<1>3. /\ a.tasks = Marked(s.tasks, T, st) /\ a.notes = s.notes
      /\ a.status = s.status /\ a.current = s.current /\ a.tokens = s.tokens
  BY <1>a, <1>1, <1>2, CloseFields
<1>4. Sound(a) /\ Pending(a) = Pending(s) \ T
  <2>1. st # "pending" /\ a = Close(s, T, st)  BY <1>a, <1>2
  <2> QED  BY <1>1, <2>1, CloseIsSound
<1>5. /\ c.tasks = a.tasks /\ c.notes = a.notes /\ c.status = a.status
      /\ c.current = a.current \ {n} /\ c.tokens = a.tokens
  BY <1>b, <1>4, InstanceFields DEF Sound
<1>6. Pending(c) = Pending(a)  BY <1>5 DEF Pending
<1>7. Extends(s, c)
  <2>1. Marked(s.tasks, T, st) \subseteq c.tasks  BY <1>3, <1>5
  <2> QED  BY <1>1, <2>1, MarkingExtends
<1> QED  BY <1>2, <1>3, <1>4, <1>5, <1>6, <1>7 DEF IsLeft

\* Somebody has approved or rejected.
HasVerdict(R) == \E u \in R : u.st \in {"approved", "rejected"}

\* A vote in the round of the open task p keeps sound rounds, whatever it decides.
LEMMA ResolveOnward ==
  ASSUME RoundsInv, ~held, db.status = "running", NEW p \in Pending(db), NEW t,
         t.node = p.node, t.round = p.round,
         NEW s, Sound(s), Cast(s, t), Extends(db, s), s.status = db.status, s.current = db.current,
         Pending(s) \subseteq Pending(db), \A q \in Pending(db) \ Pending(s) : q.node = p.node,
         HasVerdict(Round(s, t)),
         NEW forced, Resolve(s, t, forced)
  PROVE  Onward
<1>1. s \in Instance /\ Tidy(s) /\ Clean(s) /\ db.status \notin Ended
  BY SoundIsTidy, CastIsClean DEF Sound, Ended
<1>2. p \in Task /\ p.node \in Approvals /\ p.node \in db.current
  <2>1. p \in Task  BY RowsAtRest, InstanceFields DEF Pending
  <2> QED  BY <2>1, TaskFields, RowsAtRest DEF Sound, SoundRows
<1>3. IsStaffed(db)  BY RowsAtRest DEF RoundsAreSound
<1>4. \A n : n # p.node => PendingAt(s, n) = PendingAt(db, n)  BY DEF PendingAt
<1>5. CASE RoundPasses(Round(s, t), t.node)
           /\ LeaveNode(Close(s, Round(s, t) \cap Pending(s), "cancelled"), t.node)
  <2>1. PICK T : T = Round(s, t) \cap Pending(s)  OBVIOUS
  <2>2. PICK at : at = p.node  OBVIOUS
  <2>3. PICK c : c = [Cancelling(s, T) EXCEPT !.current = Cancelling(s, T).current \ {at}]  OBVIOUS
  <2>4. Run(c, Arrivals(p.node))  BY <1>5, <2>1, <2>2, <2>3 DEF LeaveNode, Cancelling
  <2>5. /\ c.tasks = Marked(s.tasks, T, "cancelled") /\ Pending(c) = Pending(s) \ T
        /\ c.notes = s.notes /\ c.status = s.status /\ c.current = db.current \ {p.node}
        /\ Extends(s, c)
    <3>1. T \in SUBSET Pending(s)  BY <2>1
    <3>2. IsLeft(s, T, at, c)  BY <2>3, <3>1, RoundIsLeft
    <3> QED  BY <2>2, <3>2 DEF IsLeft
  <2>6. Held(c)  BY <1>1, <1>5, <2>1, <2>5, PassedHolds
  <2>7. \A n : n # p.node => PendingAt(c, n) = PendingAt(db, n)
    BY <1>4, <2>1, <2>5 DEF PendingAt, Round
  <2>8. IsStaffed(c)  BY <1>3, <2>5, <2>7 DEF IsStaffed
  <2>9. Extends(db, c)  BY <1>1, <2>5, RowsAtRest, ExtendsOn
  <2>10. RoundsAreSound(c)  BY <2>6, <2>8 DEF RoundsAreSound, Held
  <2> QED  BY <2>4, <2>9, <2>10, RunOnward
<1>6. CASE Save(Terminated(s))  BY <1>1, <1>6, SaveTerminatedOnward
<1>7. CASE /\ ~RoundPasses(Round(s, t), t.node) /\ ~RoundImpossible(Round(s, t), t.node)
           /\ Save(s)
  <2>1. Held(s)  BY <1>1, <1>2, <1>7, UndecidedHolds DEF HasVerdict
  <2>2. PendingAt(s, p.node) # {}
    <3>1. IsOpen(Round(s, t))
      BY <1>1, <1>2, <1>7, RoundRows, UndecidedRound DEF HasVerdict
    <3> QED  BY <3>1 DEF IsOpen, Round, PendingAt, Pending
  <2>3. IsStaffed(s)  BY <1>3, <1>4, <2>2 DEF IsStaffed
  <2>4. RoundsAreSound(s)  BY <2>1, <2>3 DEF RoundsAreSound, Held
  <2>5. s.current # {}  BY <1>2
  <2> QED  BY <1>1, <1>7, <2>4, <2>5, SaveOnward
<1> QED  BY <1>5, <1>6, <1>7 DEF Resolve

\* A vote on an open task keeps sound rounds.
LEMMA BallotOnward ==
  ASSUME RoundsInv, ~held, db.status = "running", NEW t \in Pending(db),
         NEW verdict \in {"approved", "rejected"}, NEW forced,
         Resolve(Close(db, {t}, verdict), t, forced)
  PROVE  Onward
<1>1. verdict \in TaskState /\ verdict # "pending" /\ verdict # "cancelled"  BY DEF TaskState
<1>2. PICK s : s = Close(db, {t}, verdict)  OBVIOUS
<1>3. /\ Sound(s) /\ s.status = db.status /\ s.current = db.current
      /\ \A q : q \in Pending(s) <=> q \in Pending(db) /\ q # t
  BY <1>1, <1>2, RowsAtRest, VotedIsSound
<1>4. PICK T : T = {t}  OBVIOUS
<1>5. s.tasks = Marked(db.tasks, T, verdict) /\ s.notes = db.notes
  BY <1>2, <1>4, RowsAtRest, CloseFields
<1>6. Cast(s, t)  BY <1>1, <1>3, <1>4, <1>5, RowsAtRest, VoteIsCast
<1>7. Extends(db, s)
  <2>1. T \in SUBSET Pending(db) /\ s.tasks \subseteq s.tasks  BY <1>4
  <2> QED  BY <1>1, <1>5, <2>1, RowsAtRest, MarkingExtends
<1>8. HasVerdict(Round(s, t))
  <2>1. t \in Task  BY RowsAtRest, InstanceFields DEF Pending
  <2>2. SetState(t, verdict) \in s.tasks  BY <1>4, <1>5 DEF Marked
  <2>3. SetState(t, verdict) \in Round(s, t) /\ SetState(t, verdict).st = verdict
    BY <1>1, <2>1, <2>2, SetStateFields DEF Round
  <2> QED  BY <2>3 DEF HasVerdict
<1>9. Pending(s) \subseteq Pending(db) /\ \A q \in Pending(db) \ Pending(s) : q.node = t.node
  BY <1>3
<1> QED  BY <1>2, <1>3, <1>6, <1>7, <1>8, <1>9, ResolveOnward

\* CompleteTask with a vote keeps sound rounds.
LEMMA VoteOnward ==
  ASSUME RoundsInv, NEW t \in db.tasks, NEW verdict \in {"approved", "rejected"}, Vote(t, verdict)
  PROVE  Onward
BY BallotOnward DEF Vote, Locked

\* CompleteTask with a withdrawal keeps sound rounds.
LEMMA WithdrawOnward ==
  ASSUME RoundsInv, NEW t \in db.tasks, Withdraw(t)
  PROVE  Onward
<1>1. ~held /\ db.status = "running" /\ t \in Pending(db)  BY DEF Withdraw, Locked
<1>2. "withdrawn" \in TaskState /\ "withdrawn" # "pending" /\ "withdrawn" # "cancelled"
  BY DEF TaskState
<1>3. PICK s : s = Close(db, {t}, "withdrawn")  OBVIOUS
<1>4. Sound(s) /\ s.status = db.status
  <2>1. Sound(s)  BY <1>1, <1>2, <1>3, RowsAtRest, VotedIsSound
  <2>2. s.status = db.status  BY <1>1, <1>2, <1>3, RowsAtRest, VotedIsSound
  <2> QED  BY <2>1, <2>2
<1>5. PICK T : T = {t}  OBVIOUS
<1>6. s.tasks = Marked(db.tasks, T, "withdrawn") /\ s.notes = db.notes
  BY <1>3, <1>5, RowsAtRest, CloseFields
<1>7. Cast(s, t)  BY <1>1, <1>2, <1>4, <1>5, <1>6, RowsAtRest, VoteIsCast
<1>8. Clean(s)  BY <1>4, <1>7, SoundIsTidy, CastIsClean
<1>9. Extends(db, s)
  <2>1. T \in SUBSET Pending(db) /\ s.tasks \subseteq s.tasks  BY <1>1, <1>5
  <2> QED  BY <1>2, <1>6, <2>1, RowsAtRest, MarkingExtends
<1>10. Save(Terminated(s))  BY <1>3 DEF Withdraw
<1> QED  BY <1>1, <1>4, <1>8, <1>9, <1>10, SaveTerminatedOnward DEF Ended

\* CompleteApplicationApproval keeps sound rounds, also with a minted task.
LEMMA ReviewOnward ==
  ASSUME RoundsInv, NEW n \in Approvals, NEW u \in Users, NEW verdict \in {"approved", "rejected"},
         Review(n, u, verdict)
  PROVE  Onward
<1>1. ~held /\ db.status = "running" /\ PendingAt(db, n) \subseteq Pending(db) /\ Protected
  BY DEF Review, Locked, PendingAt
<1>2. CASE \E t \in PendingAt(db, n) :
             t.who = u /\ Resolve(Close(db, {t}, verdict), t, verdict = "rejected")
  BY <1>1, <1>2, BallotOnward
<1>3. CASE /\ n \notin AssignedOnly
           /\ \E ref \in PendingAt(db, n) :
                LET t == NextTask(db, ref, u)
                    minted == [db EXCEPT !.tasks = @ \cup {SetState(t, verdict)}]
                IN  t.nth < MaxHops /\ Resolve(minted, t, verdict = "rejected")
  <2>1. PICK p \in PendingAt(db, n) :
          Resolve([db EXCEPT !.tasks = @ \cup {SetState(NextTask(db, p, u), verdict)}],
                  NextTask(db, p, u), verdict = "rejected")
    BY <1>3
  <2>2. p \in Pending(db) /\ p \in db.tasks /\ p.node = n  BY <1>1 DEF Pending, PendingAt
  <2>3. PICK t : t = NextTask(db, p, u)  OBVIOUS
  <2>4. t \in Task /\ t.node = p.node /\ t.round = p.round
    BY <2>2, <2>3, RowsAtRest, NextTaskIsTyped
  <2>5. PICK x : x = SetState(t, verdict)  OBVIOUS
  <2>6. PICK s : s = [db EXCEPT !.tasks = @ \cup {x}]  OBVIOUS
  <2>7. verdict \in TaskState /\ verdict # "pending" /\ verdict # "cancelled"  BY DEF TaskState
  <2>8. Sound(s) /\ Pending(s) = Pending(db)
    BY <2>2, <2>3, <2>5, <2>6, <2>7, RowsAtRest, MintedIsSound
  <2>9. /\ s.tasks = db.tasks \cup {x} /\ s.notes = db.notes /\ s.status = db.status
        /\ s.current = db.current
    BY <2>6, RowsAtRest, InstanceFields
  <2>10. Cast(s, p)
    <3>1. Mints(p.node)  BY <1>1, <1>3, <2>2 DEF Mints
    <3> QED  BY <2>2, <2>3, <2>5, <2>7, <2>9, <3>1, RowsAtRest, MintIsCast
  <2>11. Round(s, t) = Round(s, p)  BY <2>4, SameRound
  <2>12. Cast(s, t)  BY <2>4, <2>10, <2>11 DEF Cast
  <2>13. HasVerdict(Round(s, t))
    <3>1. x \in Round(s, t) /\ x.st = verdict
      BY <2>4, <2>5, <2>7, <2>9, SetStateFields DEF Round
    <3> QED  BY <3>1 DEF HasVerdict
  <2>14. Extends(db, s)  BY <2>9, RowsAtRest, AddingExtends
  <2>15. Resolve(s, t, verdict = "rejected")  BY <2>1, <2>3, <2>5, <2>6
  <2>16. PICK forced : forced = (verdict = "rejected")  OBVIOUS
  <2> QED
    BY <1>1, <2>2, <2>4, <2>8, <2>9, <2>12, <2>13, <2>14, <2>15, <2>16, ResolveOnward
<1> QED  BY <1>2, <1>3 DEF Review

\* Handing a task over keeps sound rounds (transferPendingTask).
LEMMA TransferOnward ==
  ASSUME RoundsInv, ~held, db.status = "running", NEW t \in Pending(db), NEW v \in Users,
         Transfer(t, v)
  PROVE  Onward
<1>1. PICK s : s = Close(db, {t}, "transferred")  OBVIOUS
<1>2. PICK x : x = NextTask(db, t, v)  OBVIOUS
<1>3. PICK c : c = [s EXCEPT !.tasks = s.tasks \cup {x}]  OBVIOUS
<1>4. Save(c) /\ \A u \in Round(db, t) \ {t} : u.who = v => u.st \notin Counted
  BY <1>1, <1>2, <1>3 DEF Transfer
<1>5. "transferred" \in TaskState /\ "transferred" # "pending"  BY DEF TaskState
<1>6. s \in Instance  BY <1>1, <1>5, RowsAtRest, VotedIsSound DEF Sound
<1>7. PICK T : T = {t}  OBVIOUS
<1>8. /\ s.tasks = Marked(db.tasks, T, "transferred") /\ s.notes = db.notes
      /\ s.status = db.status /\ s.current = db.current
  BY <1>1, <1>7, RowsAtRest, CloseFields
<1>9. /\ c.tasks = Marked(db.tasks, T, "transferred") \cup {x} /\ c.notes = db.notes
      /\ c.status = db.status /\ c.current = db.current
  BY <1>3, <1>6, <1>8, InstanceFields
<1>10. Held(c)
  <2>1. c.tasks = Marked(db.tasks, {t}, "transferred") \cup {x}  BY <1>7, <1>9
  <2> QED  BY <1>2, <1>4, <1>9, <2>1, RowsAtRest, HandedOnHolds
<1>11. t \in db.tasks /\ t.node \in db.current  BY RowsAtRest DEF Pending, Sound, SoundRows
<1>12. x.node = t.node /\ x.st = "pending"  BY <1>2, <1>11, RowsAtRest, NextTaskIsTyped
<1>13. IsStaffed(c)
  <2>1. \A n : n # t.node => PendingAt(db, n) \subseteq PendingAt(c, n)
    BY <1>7, <1>9 DEF PendingAt, Pending, Marked
  <2>2. x \in PendingAt(c, t.node)  BY <1>9, <1>12 DEF PendingAt, Pending
  <2>3. IsStaffed(db)  BY RowsAtRest DEF RoundsAreSound
  <2> QED  BY <1>9, <2>1, <2>2, <2>3 DEF IsStaffed
<1>14. Extends(db, c)
  <2>1. T \in SUBSET Pending(db)  BY <1>7
  <2> QED  BY <1>5, <1>9, <2>1, RowsAtRest, MarkingExtends
<1>15. RoundsAreSound(c)  BY <1>10, <1>13 DEF RoundsAreSound, Held
<1>16. c.current # {} /\ db.status \notin Ended  BY <1>9, <1>11 DEF Ended
<1> QED  BY <1>4, <1>14, <1>15, <1>16, SaveOnward

\* TransferTask keeps sound rounds.
LEMMA TransferTaskOnward ==
  ASSUME RoundsInv, NEW t \in db.tasks, NEW v \in Users, TransferTask(t, v)
  PROVE  Onward
BY TransferOnward DEF TransferTask, Locked

\* TransferApplicationApproval keeps sound rounds.
LEMMA TransferApplicationOnward ==
  ASSUME RoundsInv, NEW n \in Approvals, NEW u \in Users, NEW v \in Users,
         TransferApplication(n, u, v)
  PROVE  Onward
<1>1. ~held /\ db.status = "running"  BY DEF TransferApplication, Locked
<1>2. PICK t \in PendingAt(db, n) : Transfer(t, v)  BY DEF TransferApplication
<1> QED  BY <1>1, <1>2, TransferOnward DEF PendingAt

\* Leaving a node with its tasks cancelled and their round noted keeps sound rounds.
LEMMA ReturnOnward ==
  ASSUME RoundsInv, NEW n, NEW c, c.tasks = Marked(db.tasks, PendingAt(db, n), "cancelled"),
         db.notes \subseteq c.notes, c.status = db.status, c.current \subseteq db.current \ {n},
         \A t \in PendingAt(db, n) : \E h \in c.notes : h.node = t.node /\ h.round = t.round,
         NEW q, Run(c, q)
  PROVE  Onward
<1>1. Held(c)  BY RowsAtRest, ReturnedHolds
<1>2. IsStaffed(c)
  <2>1. \A m : m # n => PendingAt(db, m) \subseteq PendingAt(c, m)
    BY DEF PendingAt, Pending, Marked
  <2>2. IsStaffed(db)  BY RowsAtRest DEF RoundsAreSound
  <2> QED  BY <2>1, <2>2 DEF IsStaffed
<1>3. Extends(db, c)
  <2>1. PendingAt(db, n) \in SUBSET Pending(db) /\ "cancelled" \in TaskState
    BY DEF PendingAt, TaskState
  <2>2. PICK T : T = PendingAt(db, n)  OBVIOUS
  <2> QED  BY <2>1, <2>2, RowsAtRest, MarkingExtends
<1>4. RoundsAreSound(c)  BY <1>1, <1>2 DEF RoundsAreSound, Held
<1> QED  BY <1>3, <1>4, RunOnward

\* RollbackTask keeps sound rounds.
LEMMA RollbackTaskOnward ==
  ASSUME RoundsInv, NEW t \in db.tasks, NEW target \in Approvals, RollbackTask(t, target)
  PROVE  Onward
<1> DEFINE h == [action |-> "rollback", node |-> t.node, round |-> t.round]
<1>1. PICK a : a = CancelAll(db)  OBVIOUS
<1>2. PICK c : c = [a EXCEPT !.current = {}, !.notes = a.notes \cup {h}]  OBVIOUS
<1>3. /\ a \in Instance /\ a.tasks = Marked(db.tasks, Pending(db), "cancelled")
      /\ a.notes = db.notes /\ a.status = db.status
  <2>1. a \in Instance  BY <1>1, RowsAtRest, CancelAllIsSound DEF Sound
  <2> QED  BY <1>1, <2>1, RowsAtRest, CloseFields DEF CancelAll
<1>4. Run(c, <<[node |-> target, from |-> NoNode]>>)
  BY <1>1, <1>2, <1>3 DEF RollbackTask
<1>5. t \in Pending(db) /\ db.current = {t.node}  BY DEF RollbackTask
<1>6. Pending(db) = PendingAt(db, t.node)
  <2>1. \A u \in Pending(db) : u.node = t.node  BY <1>5, RowsAtRest DEF Sound, SoundRows
  <2> QED  BY <2>1 DEF PendingAt
<1> HIDE DEF h
<1>7. /\ c.tasks = a.tasks /\ c.status = a.status /\ c.current = {}
      /\ c.notes = db.notes \cup {h}
  BY <1>2, <1>3, InstanceFields
<1>8. \A u \in PendingAt(db, t.node) : h.node = u.node /\ h.round = u.round
  BY <1>5, <1>6, RowsAtRest, OneRoundPerNode DEF PendingAt, h
<1>9. /\ c.tasks = Marked(db.tasks, PendingAt(db, t.node), "cancelled")
      /\ db.notes \subseteq c.notes /\ c.status = db.status /\ h \in c.notes
      /\ c.current \subseteq db.current \ {t.node}
  BY <1>3, <1>6, <1>7
<1>10. \A u \in PendingAt(db, t.node) : \E g \in c.notes : g.node = u.node /\ g.round = u.round
  BY <1>8, <1>9
<1> QED  BY <1>4, <1>9, <1>10, ReturnOnward

\* SkipApplicationApproval keeps sound rounds.
LEMMA SkipApplicationOnward ==
  ASSUME RoundsInv, NEW n \in Approvals, SkipApplication(n)
  PROVE  Onward
<1> DEFINE skipped == {[action |-> "skip", node |-> n, round |-> t.round] : t \in PendingAt(db, n)}
<1>1. PICK a : a = CancelAt(db, n)  OBVIOUS
<1>2. PICK b : b = [a EXCEPT !.notes = a.notes \cup skipped]  OBVIOUS
<1>3. PICK c : c = [b EXCEPT !.current = b.current \ {n}]  OBVIOUS
<1>4. Run(c, Arrivals(n))  BY <1>1, <1>2, <1>3 DEF SkipApplication, LeaveNode
<1>5. /\ a \in Instance /\ a.tasks = Marked(db.tasks, PendingAt(db, n), "cancelled")
      /\ a.notes = db.notes /\ a.status = db.status /\ a.current = db.current
  <2>1. a \in Instance  BY <1>1, RowsAtRest, CancelAtIsSound DEF Sound
  <2> QED  BY <1>1, <2>1, RowsAtRest, CloseFields DEF CancelAt
<1>6. \A t \in PendingAt(db, n) : \E h \in skipped : h.node = t.node /\ h.round = t.round
  <2> SUFFICES ASSUME NEW t \in PendingAt(db, n)
               PROVE  \E h \in skipped : h.node = t.node /\ h.round = t.round
    OBVIOUS
  <2>1. [action |-> "skip", node |-> n, round |-> t.round] \in skipped  OBVIOUS
  <2>2. t.node = n  BY DEF PendingAt
  <2> QED  BY <2>1, <2>2
<1> HIDE DEF skipped
<1>7. /\ c.tasks = a.tasks /\ c.status = a.status /\ c.current = a.current \ {n}
      /\ c.notes = a.notes \cup skipped
  BY <1>2, <1>3, <1>5, InstanceFields
<1>8. \A t \in PendingAt(db, n) : \E h \in c.notes : h.node = t.node /\ h.round = t.round
  BY <1>6, <1>7
<1>9. /\ c.tasks = Marked(db.tasks, PendingAt(db, n), "cancelled")
      /\ db.notes \subseteq c.notes /\ c.status = db.status
      /\ c.current \subseteq db.current \ {n}
  BY <1>5, <1>7
<1> QED  BY <1>4, <1>8, <1>9, ReturnOnward

\* Terminate keeps sound rounds.
LEMMA TerminateOnward ==
  ASSUME RoundsInv, Terminate
  PROVE  Onward
<1>1. ~held /\ db.status \notin Ended /\ Save(Terminated(db))
  BY DEF Terminate, Locked, Live, Ended
<1>2. Extends(db, db)  BY RowsAtRest, AddingExtends
<1> QED  BY <1>1, <1>2, RowsAtRest, HeldIsClean, SaveTerminatedOnward

\* Suspend and Resume keep sound rounds.
LEMMA PauseOnward ==
  ASSUME RoundsInv, Suspend \/ Resume
  PROVE  Onward
<1>1. PICK st \in Live : Save([db EXCEPT !.status = st]) /\ ~held /\ db.status \in Live
  BY DEF Suspend, Resume, Locked, Live
<1>2. PICK s : s = [db EXCEPT !.status = st]  OBVIOUS
<1>3. s.tasks = db.tasks /\ s.notes = db.notes /\ s.current = db.current
  BY <1>2, RowsAtRest, InstanceFields
<1>4. db.status # "terminated" /\ db.status \notin Ended  BY <1>1 DEF Live, Ended
<1>5. RoundsAreSound(s) /\ Extends(db, s)  BY <1>3, <1>4, RowsAtRest, MovedIsSound
<1>6. s.current # {}  BY <1>1, <1>3 DEF RoundsInv
<1> QED  BY <1>1, <1>2, <1>4, <1>5, <1>6, SaveOnward

\* A step that changes nothing keeps sound rounds.
LEMMA StutterOnward ==
  ASSUME RoundsInv, UNCHANGED vars
  PROVE  Onward
<1>1. db' = db /\ work' = work /\ held' = held  BY DEF vars
<1>2. Kept'  BY <1>1 DEF RoundsInv, Kept
<1>3. Extends(db, db)  BY RowsAtRest, AddingExtends
<1> QED  BY <1>1, <1>2, <1>3 DEF Onward

\* Every step keeps sound rounds and only adds to what is committed.
LEMMA NextOnward ==
  ASSUME RoundsInv, [Next]_vars
  PROVE  Onward
<1>1. CASE Start  BY <1>1, StartOnward
<1>2. CASE Walk  BY <1>2, WalkOnward
<1>3. CASE Commit  BY <1>3, CommitOnward
<1>4. CASE Abort  BY <1>4, AbortOnward
<1>5. CASE GenericTask
  BY <1>5, VoteOnward, WithdrawOnward, TransferTaskOnward, RollbackTaskOnward DEF GenericTask
<1>6. CASE Application
  BY <1>6, SkipApplicationOnward, ReviewOnward, TransferApplicationOnward DEF Application
<1>7. CASE Terminate  BY <1>7, TerminateOnward
<1>8. CASE Suspend \/ Resume  BY <1>8, PauseOnward
<1>9. CASE UNCHANGED vars  BY <1>9, StutterOnward
<1> QED  BY <1>1, <1>2, <1>3, <1>4, <1>5, <1>6, <1>7, <1>8, <1>9 DEF Next

\* An instance that has not started holds sound rounds.
LEMMA InitHolds ==
  ASSUME Init
  PROVE  RoundsInv
<1>1. IndInv  BY InitIsSound
<1>2. /\ db = Empty /\ work = Empty /\ ~held
      /\ Empty.tasks = {} /\ Empty.current = {} /\ Empty.status = "absent"
  BY DEF Init, Empty
<1>3. RoundsAreSound(Empty)  BY <1>2 DEF RoundsAreSound, IsStaffed
<1> QED  BY <1>1, <1>2, <1>3 DEF RoundsInv, Live

\* The invariant is kept by every step.
LEMMA RoundsInvIsInductive ==
  ASSUME RoundsInv, [Next]_vars
  PROVE  RoundsInv'
<1>1. IndInv  BY DEF RoundsInv
<1>2. IndInv'  BY <1>1, NextKeeps DEF Keeps
<1>3. Kept'  BY NextOnward DEF Onward
<1> QED  BY <1>2, <1>3 DEF RoundsInv, Kept

-------------------------------------------------------------------------------
(* What a join is paid for.                                                  *)

\* The rounds of a node are finitely many.
LEMMA RoundsAreCounted ==
  ASSUME NEW s, Tidy(s), NEW n
  PROVE  /\ IsFiniteSet(RoundsAt(s, n)) /\ Cardinality(RoundsAt(s, n)) \in Nat
         /\ IsFiniteSet(PassedAt(s, n)) /\ Cardinality(PassedAt(s, n)) \in Nat
<1>1. RoundsAt(s, n) \subseteq 1..s.rounds  BY DEF RoundsAt, Tidy
<1>2. s.rounds \in Nat  BY InstanceFields DEF Tidy
<1>3. IsFiniteSet(1..s.rounds)  BY <1>2, FS_Interval
<1>4. PassedAt(s, n) \subseteq RoundsAt(s, n)  BY DEF PassedAt
<1>5. IsFiniteSet(RoundsAt(s, n))  BY <1>1, <1>3, FS_Subset
<1>6. IsFiniteSet(PassedAt(s, n))  BY <1>4, <1>5, FS_Subset
<1> QED  BY <1>5, <1>6, FS_CardinalityType

\* A round of sound rows that passed is closed.
LEMMA PassedIsClosed ==
  ASSUME NEW s, Tidy(s), Held(s), NEW t \in s.tasks, HadPassed(Round(s, t), t.node)
  PROVE  ~IsOpen(Round(s, t))
<1>1. SUFFICES ASSUME Undecided(Round(s, t), t.node)  PROVE FALSE
  BY DEF Held, RoundIsSound
<1>2. IsFiniteSet(Round(s, t))  BY RoundRows
<1>3. Votes(Round(s, t), "cancelled") = 0 /\ Votes(Round(s, t), "pending") \in Nat
  BY <1>1, <1>2, VotesAreCounted DEF Undecided
<1>4. RoundPasses(Round(s, t), t.node)  BY <1>3 DEF HadPassed, RoundPasses
<1> QED  BY <1>1, <1>4 DEF Undecided

\* The rounds that passed, told by their tasks.
LEMMA PassedByTask ==
  ASSUME NEW s, NEW n, NEW r
  PROVE  r \in PassedAt(s, n) <=>
           \E t \in s.tasks : t.node = n /\ t.round = r /\ HadPassed(Round(s, t), n)
<1>1. \A t : t.node = n /\ t.round = r =>
             Round(s, t) = {u \in s.tasks : u.node = n /\ u.round = r}
  BY DEF Round
<1>2. r \in RoundsAt(s, n) <=> \E t \in s.tasks : t.node = n /\ t.round = r
  BY DEF RoundsAt
<1> QED  BY <1>1, <1>2 DEF PassedAt

\* The rows of closed rounds stay and none joins them.
KeepsClosed(s, c) ==
  /\ s.tasks \ Pending(s) \subseteq c.tasks
  /\ \A u \in c.tasks \ s.tasks :
       u.round > s.rounds \/ \E t \in Pending(s) : u.node = t.node /\ u.round = t.round

\* What has passed has passed for good.
LEMMA PassedStays ==
  ASSUME NEW s, Tidy(s), Held(s), NEW c, KeepsClosed(s, c), NEW n
  PROVE  PassedAt(s, n) \subseteq PassedAt(c, n)
<1> SUFFICES ASSUME NEW r, r \in PassedAt(s, n)  PROVE r \in PassedAt(c, n)
  OBVIOUS
<1>1. PICK t \in s.tasks : t.node = n /\ t.round = r /\ HadPassed(Round(s, t), n)
  BY PassedByTask
<1>2. ~IsOpen(Round(s, t))  BY <1>1, PassedIsClosed
<1>3. t.round \in 1..s.rounds /\ s.rounds \in Nat  BY InstanceFields DEF Tidy
<1>4. Round(s, t) \cap Pending(s) = {}  BY <1>2 DEF IsOpen, Pending
<1>5. \A u \in c.tasks \ s.tasks : ~(u.node = t.node /\ u.round = t.round)
  <2> SUFFICES ASSUME NEW u \in c.tasks \ s.tasks, u.node = t.node, u.round = t.round
               PROVE  FALSE
    OBVIOUS
  <2>1. ~(u.round > s.rounds)  BY <1>3
  <2>2. PICK v \in Pending(s) : u.node = v.node /\ u.round = v.round  BY <2>1 DEF KeepsClosed
  <2>3. v \in Round(s, t)  BY <2>2 DEF Round, Pending
  <2> QED  BY <1>4, <2>3
<1>6. Round(c, t) = Round(s, t)  BY <1>4, <1>5 DEF Round, KeepsClosed
<1>7. t \in c.tasks  BY <1>6 DEF Round
<1> QED  BY <1>1, <1>6, <1>7, PassedByTask

\* Rows only join rounds that are open.
Within(s, c) ==
  \A u \in c.tasks \ s.tasks : \E t \in Pending(s) : u.node = t.node /\ u.round = t.round

\* Closing open rows adds rows to open rounds only, also after an earlier closing.
LEMMA MarkedWithin ==
  ASSUME NEW s, NEW a, a \in Instance, Within(s, a), Pending(a) \subseteq Pending(s),
         NEW T \in SUBSET Pending(a), NEW st \in TaskState,
         NEW c, c.tasks = Marked(a.tasks, T, st)
  PROVE  Within(s, c)
<1> SUFFICES ASSUME NEW u \in c.tasks \ s.tasks
             PROVE  \E t \in Pending(s) : u.node = t.node /\ u.round = t.round
  BY DEF Within
<1>1. CASE u \in a.tasks  BY <1>1 DEF Within
<1>2. CASE u \notin a.tasks
  <2>1. PICK t \in T : u = SetState(t, st)  BY <1>2 DEF Marked
  <2>2. t \in Task /\ t \in Pending(s)  BY <2>1, InstanceFields DEF Pending
  <2> QED  BY <2>1, <2>2, SetStateFields
<1> QED  BY <1>1, <1>2

\* Where rows only join open rounds and none is lost, no round is new.
LEMMA RevisedRounds ==
  ASSUME NEW s, Tidy(s), NEW c, Extends(s, c), Within(s, c)
  PROVE  KeepsClosed(s, c) /\ \A n : RoundsAt(c, n) = RoundsAt(s, n)
<1>1. KeepsClosed(s, c)  BY DEF Within, KeepsClosed, Extends
<1>2. s.tasks \in SUBSET Task  BY InstanceFields DEF Tidy
<1>3. \A u \in c.tasks : \E t \in s.tasks : u.node = t.node /\ u.round = t.round
  BY DEF Within, Pending
<1>4. ASSUME NEW t \in s.tasks PROVE \E u \in c.tasks : u.node = t.node /\ u.round = t.round
  <2>1. CASE t \notin Pending(s)  BY <2>1 DEF Extends
  <2>2. CASE t \in Pending(s)
    <3>1. PICK st \in TaskState : SetState(t, st) \in c.tasks  BY <2>2 DEF Extends
    <3>2. SetState(t, st).node = t.node /\ SetState(t, st).round = t.round
      BY <1>2, SetStateFields
    <3> QED  BY <3>1, <3>2
  <2> QED  BY <2>1, <2>2
<1>5. ASSUME NEW n PROVE RoundsAt(c, n) = RoundsAt(s, n)
  BY <1>3, <1>4 DEF RoundsAt
<1> QED  BY <1>1, <1>5

\* What is paid for stays paid for, also if an arrival becomes a round.
LEMMA PaidStays ==
  ASSUME NEW s, Tidy(s), Held(s), NEW c, Tidy(c), NEW b \in Blocks,
         NEW k \in Nat, NEW l \in Nat, IsPaid(s, b, k), KeepsClosed(s, c),
         Cardinality(RoundsAt(c, b.step)) + l <= Cardinality(RoundsAt(s, b.step)) + k,
         c.tokens[<<b.branch, b.join>>] = s.tokens[<<b.branch, b.join>>]
  PROVE  IsPaid(c, b, l)
<1>1. PassedAt(s, b.branch) \subseteq PassedAt(c, b.branch)  BY PassedStays
<1>2. /\ IsFiniteSet(PassedAt(c, b.branch)) /\ Cardinality(PassedAt(s, b.branch)) \in Nat
      /\ Cardinality(PassedAt(c, b.branch)) \in Nat /\ Cardinality(RoundsAt(s, b.step)) \in Nat
      /\ Cardinality(RoundsAt(c, b.step)) \in Nat
  BY RoundsAreCounted
<1>3. Cardinality(PassedAt(s, b.branch)) <= Cardinality(PassedAt(c, b.branch))
  BY <1>1, <1>2, FS_Subset
<1>4. s.tokens[<<b.branch, b.join>>] \in Nat
  <2>1. <<b.branch, b.join>> \in JoinEdges  BY DEF Blocks, JoinEdges, Preds
  <2> QED  BY <2>1, InstanceFields DEF Tidy
<1> QED  BY <1>2, <1>3, <1>4 DEF IsPaid

\* The parts of a block.
LEMMA BlockParts ==
  ASSUME NEW b \in Blocks
  PROVE  /\ b.join \in Joins /\ b.join \in Nodes /\ Kind[b.join] = "parallel_gateway"
         /\ b.branch \in Approvals /\ b.step \in Approvals
         /\ <<b.branch, b.join>> \in JoinEdges
         /\ b.branch \notin SkipVars \cup MaySkip
         /\ \A n \in Nodes : \A i \in DOMAIN Out[n] : Out[n][i] = b.step => n = b.join
         /\ b.branch # b.join /\ b.step # b.join
<1>1. /\ b.join \in Joins /\ b.branch \in Approvals /\ b.step \in Approvals
      /\ b.branch \in Preds(b.join) /\ b.branch \notin SkipVars \cup MaySkip
      /\ Preds(b.step) = {b.join}
  BY DEF Blocks
<1>2. \A n \in Nodes : \A i \in DOMAIN Out[n] : Out[n][i] = b.step => n \in Preds(b.step)
  BY DEF Preds, Range
<1>3. b.join \in Nodes /\ Kind[b.join] = "parallel_gateway"  BY <1>1 DEF Joins
<1>4. <<b.branch, b.join>> \in JoinEdges  BY <1>1, <1>3 DEF JoinEdges, Approvals
<1>5. b.branch # b.join /\ b.step # b.join  BY <1>1, <1>3 DEF Approvals
<1> QED  BY <1>1, <1>2, <1>3, <1>4, <1>5

\* The arrivals that follow a node that is no join of the block.
LEMMA OtherArrivals ==
  ASSUME NEW b \in Blocks, NEW n \in Nodes, n # b.join, NEW i \in DOMAIN Arrivals(n)
  PROVE  Arrivals(n)[i].node # b.step /\ Arrivals(n)[i].from = n
<1>1. i \in 1..Len(Out[n]) /\ Arrivals(n)[i] = [node |-> Out[n][i], from |-> n]
  BY DEF Arrivals
<1>2. i \in DOMAIN Out[n]
  <2>1. Out[n] \in Seq(Nodes)  BY GraphAssumption
  <2> QED  BY <1>1, <2>1
<1>3. Out[n][i] # b.step  BY <1>2, BlockParts
<1> QED  BY <1>1, <1>3

Paid(b) ==
  /\ IsPaid(db, b, 0) /\ IsPaid(work, b, One(StepIsNext(b)) + One(BranchIsNext(b)))
  /\ BranchIsNext(b) => queue = <<ComesIn(b)>>

\* A step between tidy rows.
IsTidyStep == RoundsInv /\ Onward /\ Tidy(db') /\ Tidy(work')

\* A turn of the loop takes the first arrival.
LEMMA QueueMoves ==
  ASSUME NEW q \in Seq(Arrival), q # <<>>, NEW next \in Seq(Arrival), NEW c, c = Tail(q) \o next,
         NEW i \in DOMAIN c
  PROVE  \/ \E k \in DOMAIN q : k # 1 /\ c[i] = q[k]
         \/ \E k \in DOMAIN next : c[i] = next[k]
<1>1. /\ Len(q) \in Nat /\ Len(q) >= 1 /\ Tail(q) \in Seq(Arrival) /\ Len(Tail(q)) = Len(q) - 1
      /\ \A k \in 1..(Len(q) - 1) : Tail(q)[k] = q[k + 1]
  OBVIOUS
<1>2. i \in 1..(Len(q) - 1 + Len(next)) /\ Len(next) \in Nat
  BY <1>1
<1>3. CASE i <= Len(q) - 1
  <2>1. c[i] = Tail(q)[i]  BY <1>1, <1>2, <1>3
  <2>2. i + 1 \in DOMAIN q /\ i + 1 # 1 /\ c[i] = q[i + 1]  BY <1>1, <1>2, <1>3, <2>1
  <2> QED  BY <2>2
<1>4. CASE i > Len(q) - 1
  <2>1. c[i] = next[i - (Len(q) - 1)]  BY <1>1, <1>2, <1>4
  <2>2. i - (Len(q) - 1) \in DOMAIN next  BY <1>1, <1>2, <1>4
  <2> QED  BY <2>1, <2>2
<1> QED  BY <1>1, <1>2, <1>3, <1>4

\* After a turn of the loop the branch is not on its way, and the step behind the
\* join only if it was before or is among the new arrivals.
LEMMA ArrivalsMove ==
  ASSUME RoundsInv, NEW b \in Blocks, Paid(b), held, queue # <<>>,
         NEW s, NEW next \in Seq(Arrival), PassOn(s, next),
         \A i \in DOMAIN next : next[i].from # b.branch
  PROVE  /\ db' = db /\ work' = s /\ ~BranchIsNext(b)'
         /\ (b.step \in work.current => b.step \in s.current)
              /\ (\A i \in DOMAIN next : next[i].node # b.step)
              => (StepIsNext(b)' => StepIsNext(b))
<1>1. queue \in Seq(Arrival)  BY DEF RoundsInv, IndInv, TypeOK
<1>2. db' = db /\ work' = s /\ queue' = Tail(queue) \o next  BY DEF PassOn
<1>3. \A i \in DOMAIN queue' : \/ \E k \in DOMAIN queue : k # 1 /\ queue'[i] = queue[k]
                               \/ \E k \in DOMAIN next : queue'[i] = next[k]
  BY <1>1, <1>2, QueueMoves
<1>4. ~BranchIsNext(b)'
  <2> SUFFICES ASSUME NEW i \in DOMAIN queue', queue'[i] = ComesIn(b)  PROVE FALSE
    BY DEF BranchIsNext, ComesIn
  <2>1. ComesIn(b).from = b.branch  BY DEF ComesIn
  <2>2. PICK k \in DOMAIN queue : k # 1 /\ queue[k] = ComesIn(b)  BY <1>3, <2>1
  <2>3. queue = <<ComesIn(b)>>  BY <2>2 DEF Paid, BranchIsNext
  <2> QED  BY <2>2, <2>3
<1>5. ASSUME b.step \in work.current => b.step \in s.current,
             \A i \in DOMAIN next : next[i].node # b.step, StepIsNext(b)'
      PROVE  StepIsNext(b)
  <2>1. PICK i \in DOMAIN queue' : queue'[i].node = b.step  BY <1>5 DEF StepIsNext
  <2>2. \E k \in DOMAIN queue : queue[k].node = b.step  BY <1>3, <1>5, <2>1
  <2>3. b.step \notin work.current  BY <1>2, <1>5 DEF StepIsNext
  <2> QED  BY <2>2, <2>3 DEF StepIsNext
<1> QED  BY <1>2, <1>4, <1>5

\* Rows that stay keep what is closed.
LEMMA SameRowsKeep ==
  ASSUME NEW s, NEW c, c.tasks = s.tasks
  PROVE  KeepsClosed(s, c) /\ \A n : RoundsAt(c, n) = RoundsAt(s, n)
BY DEF KeepsClosed, RoundsAt, Pending

\* A turn of the loop away from the join, which leaves the rows alone.
LEMMA OtherTurnPays ==
  ASSUME IsTidyStep, NEW b \in Blocks, Paid(b), held, queue # <<>>,
         NEW n \in Nodes, n # b.join, n # b.branch,
         NEW s, NEW next \in Seq(Arrival), PassOn(s, next), s.tasks = work.tasks,
         s.tokens[<<b.branch, b.join>>] = work.tokens[<<b.branch, b.join>>],
         b.step \in work.current => b.step \in s.current,
         \A i \in DOMAIN next : next[i].node # b.step /\ next[i].from = n
  PROVE  Paid(b)'
<1>1. /\ db' = db /\ work' = s /\ ~BranchIsNext(b)' /\ (StepIsNext(b)' => StepIsNext(b))
  BY ArrivalsMove DEF IsTidyStep
<1>2. KeepsClosed(work, s) /\ RoundsAt(s, b.step) = RoundsAt(work, b.step)  BY SameRowsKeep
<1>3. PICK k \in Nat : k = One(StepIsNext(b)) + One(BranchIsNext(b))  BY DEF One
<1>4. PICK l \in Nat : l = One(StepIsNext(b)') + One(BranchIsNext(b)')  BY DEF One
<1>5. l <= k  BY <1>1, <1>3, <1>4 DEF One
<1>6. IsPaid(work, b, k) /\ IsPaid(db, b, 0)  BY <1>3 DEF Paid
<1>7. IsPaid(s, b, l)
  <2>1. Tidy(work) /\ Held(work) /\ Tidy(s)  BY <1>1, RowsAtRest DEF IsTidyStep
  <2>2. Cardinality(RoundsAt(work, b.step)) \in Nat  BY <2>1, RoundsAreCounted
  <2>3. Cardinality(RoundsAt(s, b.step)) + l <= Cardinality(RoundsAt(work, b.step)) + k
    BY <1>2, <1>5, <2>2
  <2> QED  BY <1>2, <1>6, <2>1, <2>3, PaidStays
<1> QED  BY <1>1, <1>4, <1>6, <1>7 DEF Paid, IsPaid, ComesIn

\* Walking through nodes that are no approvals and no joins.
LEMMA PassedNodePays ==
  ASSUME IsTidyStep, NEW b \in Blocks, Paid(b), NEW n \in Nodes,
         PassNode(n) \/ Branch(n) \/ Fork(n)
  PROVE  Paid(b)'
<1>1. held /\ queue # <<>> /\ n \notin Approvals /\ n # b.join
  BY BlockParts DEF PassNode, Branch, Fork, Moving, Approvals
<1>2. PICK s : s = Deleted(work, n)  OBVIOUS
<1>3. /\ s.tasks = work.tasks /\ s.tokens = work.tokens /\ s.current = work.current \ {n}
  BY <1>2, RowsAtRest, InstanceFields DEF Deleted, IsTidyStep
<1>4. b.step \in work.current => b.step \in s.current  BY <1>1, <1>3, BlockParts
<1>5. n # b.branch  BY <1>1, BlockParts
<1>6. CASE PassOn(s, Arrivals(n))
  <2>1. Arrivals(n) \in Seq(Arrival)  BY ArrivalsAreTyped
  <2>2. \A i \in DOMAIN Arrivals(n) : Arrivals(n)[i].node # b.step /\ Arrivals(n)[i].from = n
    BY <1>1, OtherArrivals
  <2> QED  BY <1>1, <1>3, <1>4, <1>5, <1>6, <2>1, <2>2, OtherTurnPays
<1>7. CASE \E i \in DOMAIN Out[n] : PassOn(s, <<[node |-> Out[n][i], from |-> n]>>)
  <2>1. PICK i \in DOMAIN Out[n] : PassOn(s, <<[node |-> Out[n][i], from |-> n]>>)  BY <1>7
  <2>2. PICK x : x = [node |-> Out[n][i], from |-> n]  OBVIOUS
  <2>3. Out[n][i] \in Nodes /\ Out[n][i] # b.step
    <3>1. Out[n] \in Seq(Nodes)  BY GraphAssumption
    <3>2. Out[n][i] \in Nodes  BY <3>1
    <3> QED  BY <1>1, <3>2, BlockParts
  <2>4. x \in Arrival /\ x.node # b.step /\ x.from = n  BY <2>2, <2>3 DEF Arrival
  <2>5. PICK next : next = <<x>>  OBVIOUS
  <2>6. next \in Seq(Arrival) /\ PassOn(s, next)  BY <2>1, <2>2, <2>4, <2>5
  <2>7. \A k \in DOMAIN next : next[k].node # b.step /\ next[k].from = n  BY <2>4, <2>5
  <2> QED  BY <1>1, <1>3, <1>4, <1>5, <2>6, <2>7, OtherTurnPays
<1> QED  BY <1>2, <1>6, <1>7 DEF PassNode, Branch, Fork

\* An approval that is passed through.
LEMMA PassedThroughPays ==
  ASSUME IsTidyStep, NEW b \in Blocks, Paid(b), NEW n \in Approvals, Moving(n),
         n \in SkipVars \cup MaySkip, PassOn(work, Arrivals(n))
  PROVE  Paid(b)'
<1>1. held /\ queue # <<>> /\ n \in Nodes /\ n # b.join /\ n # b.branch
  BY BlockParts DEF Moving, Approvals
<1>2. Arrivals(n) \in Seq(Arrival)  BY <1>1, ArrivalsAreTyped
<1>3. \A i \in DOMAIN Arrivals(n) : Arrivals(n)[i].node # b.step /\ Arrivals(n)[i].from = n
  BY <1>1, OtherArrivals
<1> QED  BY <1>1, <1>2, <1>3, OtherTurnPays

\* A join: a branch that comes in is put in store, and one of each is taken from it.
LEMMA JoinPays ==
  ASSUME IsTidyStep, NEW b \in Blocks, Paid(b), NEW n \in Nodes, ArriveAtJoin(n)
  PROVE  Paid(b)'
<1> DEFINE e == <<b.branch, b.join>>
<1>1. PICK from : from = Head(queue).from  OBVIOUS
<1>2. PICK tokens : tokens = Arrived(work, <<from, n>>)  OBVIOUS
<1>3. PICK a : a = Deleted(work, n)  OBVIOUS
<1>4. PICK s : s = [a EXCEPT !.tokens = tokens]  OBVIOUS
<1>5. PICK u : u = [s EXCEPT !.tokens = Released(tokens, n)]  OBVIOUS
<1>6. PICK w : w = [s EXCEPT !.current = s.current \cup {n}]  OBVIOUS
<1>7. /\ held /\ queue # <<>> /\ Head(queue).node = n /\ n \in Joins /\ from \in Preds(n)
      /\ \/ PassOn(w, <<>>)
         \/ AllIn(tokens, n) /\ PassOn(u, Arrivals(n))
  BY <1>1, <1>2, <1>3, <1>4, <1>5, <1>6 DEF ArriveAtJoin, Moving, Wait
<1>8. a = [status |-> work.status, current |-> work.current \ {n}, tokens |-> work.tokens,
           rounds |-> work.rounds, tasks |-> work.tasks, notes |-> work.notes]
  <2>1. work \in Instance  BY RowsAtRest DEF IsTidyStep
  <2> QED  BY <1>3, <2>1, InstanceFields DEF Deleted
<1>9. s = [status |-> work.status, current |-> work.current \ {n}, tokens |-> tokens,
           rounds |-> work.rounds, tasks |-> work.tasks, notes |-> work.notes]
  BY <1>4, <1>8
<1>10. /\ w.tasks = work.tasks /\ w.tokens = tokens /\ w.current = (work.current \ {n}) \cup {n}
       /\ u.tasks = work.tasks /\ u.tokens = Released(tokens, n) /\ u.current = work.current \ {n}
  BY <1>5, <1>6, <1>9
<1>11. /\ work.tokens \in [JoinEdges -> Nat] /\ <<from, n>> \in JoinEdges /\ e \in JoinEdges
  <2>1. work.tokens \in [JoinEdges -> Nat]  BY RowsAtRest, InstanceFields DEF IsTidyStep
  <2>2. <<from, n>> \in JoinEdges  BY <1>7 DEF JoinEdges, Preds
  <2> QED  BY <2>1, <2>2, BlockParts
<1>12. tokens \in [JoinEdges -> Nat]
       /\ tokens[e] = work.tokens[e] + IF <<from, n>> = e THEN 1 ELSE 0
  BY <1>2, <1>11 DEF Arrived
<1>13. Released(tokens, n)[e] = IF b.join = n THEN tokens[e] - 1 ELSE tokens[e]
  BY <1>11 DEF Released
<1>14. n \notin Approvals /\ n # b.branch /\ n # b.step
  BY <1>7, JoinsDoNotVote, BlockParts
<1>15. Arrivals(n) \in Seq(Arrival)  BY ArrivalsAreTyped
<1>b. PICK none : none = <<>>  OBVIOUS
<1>a. none \in Seq(Arrival) /\ none = <<>> /\ DOMAIN none = {}  BY <1>b
<1>16. \A i \in DOMAIN Arrivals(n) : Arrivals(n)[i].from = n  BY DEF Arrivals
<1> HIDE DEF e
<1>17. CASE n # b.join
  <2>1. tokens[e] = work.tokens[e] /\ Released(tokens, n)[e] = work.tokens[e]
    BY <1>12, <1>13, <1>17, <1>11 DEF e
  <2>2. CASE PassOn(w, <<>>)
    <3>1. w.tokens[e] = work.tokens[e] /\ (b.step \in work.current => b.step \in w.current)
      BY <1>10, <2>1
    <3>2. w.tasks = work.tasks  BY <1>10
    <3>3. PassOn(w, none)  BY <2>2, <1>a
    <3>4. \A i \in DOMAIN none : none[i].node # b.step /\ none[i].from = n  BY <1>a
    <3>5. none \in Seq(Arrival) /\ held /\ queue # <<>>  BY <1>7, <1>a
    <3> QED  BY <1>14, <1>17, <3>1, <3>2, <3>3, <3>4, <3>5, OtherTurnPays DEF e
  <2>3. CASE PassOn(u, Arrivals(n))
    <3>1. u.tokens[e] = work.tokens[e] /\ (b.step \in work.current => b.step \in u.current)
      BY <1>10, <1>14, <2>1
    <3>2. \A i \in DOMAIN Arrivals(n) : Arrivals(n)[i].node # b.step /\ Arrivals(n)[i].from = n
      BY <1>17, OtherArrivals
    <3> QED  BY <1>7, <1>10, <1>14, <1>15, <1>17, <2>3, <3>1, <3>2, OtherTurnPays DEF e
  <2> QED  BY <1>7, <2>2, <2>3
<1>18. CASE n = b.join
  <2>1. <<from, n>> = e => BranchIsNext(b)
    <3>1. SUFFICES ASSUME <<from, n>> = e  PROVE BranchIsNext(b)
      OBVIOUS
    <3>2. Head(queue) \in Arrival /\ 1 \in DOMAIN queue /\ queue[1] = Head(queue)
      BY <1>7 DEF IsTidyStep, RoundsInv, IndInv, TypeOK
    <3>3. Head(queue) = ComesIn(b)
      BY <1>1, <1>7, <1>18, <3>1, <3>2 DEF ComesIn, Arrival, e
    <3> QED  BY <3>2, <3>3 DEF BranchIsNext
  <2>2. PICK k \in Nat : k = One(StepIsNext(b)) + One(BranchIsNext(b))  BY DEF One
  <2>3. IsPaid(work, b, k) /\ IsPaid(db, b, 0)  BY <2>2 DEF Paid
  <2>4. /\ Cardinality(RoundsAt(work, b.step)) \in Nat
        /\ Cardinality(PassedAt(work, b.branch)) \in Nat /\ work.tokens[e] \in Nat
    BY <1>11, RowsAtRest, RoundsAreCounted DEF IsTidyStep
  <2>5. \A x : x.tasks = work.tasks => /\ RoundsAt(x, b.step) = RoundsAt(work, b.step)
                                       /\ PassedAt(x, b.branch) = PassedAt(work, b.branch)
    BY DEF RoundsAt, PassedAt
  <2>6. CASE PassOn(w, <<>>)
    <3>1. db' = db /\ work' = w /\ ~BranchIsNext(b)' /\ (StepIsNext(b)' => StepIsNext(b))
      <4>1. b.step \in work.current => b.step \in w.current  BY <1>10
      <4>2. PassOn(w, none)  BY <1>a, <2>6
      <4>3. \A i \in DOMAIN none : none[i].node # b.step /\ none[i].from # b.branch  BY <1>a
      <4>4. none \in Seq(Arrival) /\ held /\ queue # <<>> /\ RoundsInv
        BY <1>7, <1>a DEF IsTidyStep
      <4>5. /\ \A i \in DOMAIN none : none[i].node # b.step
            /\ \A i \in DOMAIN none : none[i].from # b.branch
        BY <4>3
      <4> QED  BY <4>1, <4>2, <4>4, <4>5, ArrivalsMove
    <3>2. One(StepIsNext(b)') + w.tokens[e] <= k + work.tokens[e]
      BY <1>10, <1>12, <2>1, <2>2, <2>4, <3>1 DEF One
    <3>3. IsPaid(w, b, One(StepIsNext(b)'))
      <4>1. PICK l \in Nat : l = One(StepIsNext(b)')  BY DEF One
      <4>2. w.tokens[e] \in Nat  BY <1>10, <1>11, <1>12
      <4> QED  BY <1>10, <2>3, <2>4, <2>5, <3>2, <4>1, <4>2 DEF IsPaid, e
    <3>4. One(StepIsNext(b)') + One(BranchIsNext(b)') = One(StepIsNext(b)')  BY <3>1 DEF One
    <3> QED  BY <2>3, <3>1, <3>3, <3>4 DEF Paid, IsPaid, ComesIn
  <2>7. CASE AllIn(tokens, n) /\ PassOn(u, Arrivals(n))
    <3>1. db' = db /\ work' = u /\ ~BranchIsNext(b)'
      BY <1>7, <1>14, <1>15, <1>16, <2>7, ArrivalsMove DEF IsTidyStep
    <3>2. tokens[e] >= 1
      BY <1>18, <2>7, BlockParts DEF AllIn, e, JoinEdges
    <3>3. u.tokens[e] = tokens[e] - 1  BY <1>10, <1>13, <1>18
    <3>4. One(StepIsNext(b)') + u.tokens[e] <= k + work.tokens[e]
      BY <1>12, <2>1, <2>2, <2>4, <3>3 DEF One
    <3>5. IsPaid(u, b, One(StepIsNext(b)'))
      <4>1. PICK l \in Nat : l = One(StepIsNext(b)')  BY DEF One
      <4>2. u.tokens[e] \in Nat  BY <1>11, <1>12, <3>2, <3>3
      <4> QED  BY <1>10, <2>3, <2>4, <2>5, <3>4, <4>1, <4>2 DEF IsPaid, e
    <3>6. One(StepIsNext(b)') + One(BranchIsNext(b)') = One(StepIsNext(b)')  BY <3>1 DEF One
    <3> QED  BY <2>3, <3>1, <3>5, <3>6 DEF Paid, IsPaid, ComesIn
  <2> QED  BY <1>7, <2>6, <2>7
<1> QED  BY <1>17, <1>18

\* An approval that opens a round: the step behind the join only if it was among the arrivals.
LEMMA StaffedByPays ==
  ASSUME IsTidyStep, NEW b \in Blocks, Paid(b), NEW n \in Approvals, Moving(n),
         n \notin work.current, NEW A \in SUBSET Users, StaffedBy(n, A)
  PROVE  Paid(b)'
<1> DEFINE N == {[node |-> n, round |-> work.rounds + 1, who |-> u,
                  nth |-> 0, st |-> "pending"] : u \in A}
<1>1. PICK a : a = OpenRound(work, n, A)  OBVIOUS
<1>2. PICK c : c = [a EXCEPT !.current = a.current \cup {n}]  OBVIOUS
<1>3. PICK none : none = <<>>  OBVIOUS
<1>4. none \in Seq(Arrival) /\ DOMAIN none = {}  BY <1>3
<1>5. PassOn(c, none) /\ held /\ queue # <<>> /\ Head(queue).node = n
  BY <1>1, <1>2, <1>3 DEF StaffedBy, Wait, Moving
<1>6. work \in Instance /\ Tidy(work) /\ Held(work) /\ work.rounds \in Nat
  BY RowsAtRest, InstanceFields DEF IsTidyStep
<1>7. /\ c.tasks = work.tasks \cup N /\ c.current = work.current \cup {n}
      /\ c.tokens = work.tokens
  BY <1>1, <1>2, <1>6, InstanceFields DEF OpenRound
<1>8. \A u \in N : u.node = n /\ u.round = work.rounds + 1  OBVIOUS
<1> HIDE DEF N
<1>9. KeepsClosed(work, c)  BY <1>6, <1>7, <1>8 DEF KeepsClosed
<1>10. /\ db' = db /\ work' = c /\ ~BranchIsNext(b)' /\ (StepIsNext(b)' => StepIsNext(b))
  <2>1. \A i \in DOMAIN none : none[i].node # b.step /\ none[i].from # b.branch  BY <1>4
  <2>2. b.step \in work.current => b.step \in c.current  BY <1>7
  <2> QED  BY <1>4, <1>5, <2>1, <2>2, ArrivalsMove DEF IsTidyStep
<1>11. PICK k \in Nat : k = One(StepIsNext(b)) + One(BranchIsNext(b))  BY DEF One
<1>12. PICK l \in Nat : l = One(StepIsNext(b)') + One(BranchIsNext(b)')  BY DEF One
<1>13. IsPaid(work, b, k) /\ IsPaid(db, b, 0) /\ Tidy(c)  BY <1>10, <1>11 DEF Paid, IsTidyStep
<1>14. /\ Cardinality(RoundsAt(work, b.step)) \in Nat /\ IsFiniteSet(RoundsAt(work, b.step))
       /\ Cardinality(RoundsAt(c, b.step)) \in Nat
  BY <1>6, <1>13, RoundsAreCounted
<1>15. CASE n # b.step
  <2>1. RoundsAt(c, b.step) = RoundsAt(work, b.step)  BY <1>7, <1>8, <1>15 DEF RoundsAt
  <2>2. l <= k  BY <1>10, <1>11, <1>12 DEF One
  <2> QED  BY <1>14, <2>1, <2>2, Zenon, SMT, PaidStays, <1>6, <1>7, <1>9, <1>10, <1>12, <1>13
           DEF Paid, IsPaid, ComesIn
<1>16. CASE n = b.step
  <2>1. RoundsAt(c, b.step) \subseteq RoundsAt(work, b.step) \cup {work.rounds + 1}
    BY <1>7, <1>8 DEF RoundsAt
  <2>r. PICK R : R = RoundsAt(work, b.step)  OBVIOUS
  <2>x. PICK r : r = work.rounds + 1  OBVIOUS
  <2>2. PICK M : M = R \cup {r}  OBVIOUS
  <2>3. IsFiniteSet(M) /\ Cardinality(M) <= Cardinality(R) + 1
    <3>1. IsFiniteSet(R) /\ Cardinality(R) \in Nat  BY <1>14, <2>r
    <3>2. IsFiniteSet(M) /\ (Cardinality(M) = Cardinality(R) \/ Cardinality(M) = Cardinality(R) + 1)
      BY <2>2, <3>1, FS_AddElement
    <3> QED  BY <3>1, <3>2
  <2>4. Cardinality(RoundsAt(c, b.step)) <= Cardinality(M) /\ Cardinality(M) \in Nat
    <3>1. RoundsAt(c, b.step) \subseteq M  BY <2>1, <2>2, <2>r, <2>x
    <3> QED  BY <2>3, <3>1, FS_Subset, FS_CardinalityType
  <2>5. StepIsNext(b)
    <3>1. 1 \in DOMAIN queue /\ queue[1] = Head(queue)
      BY <1>5 DEF IsTidyStep, RoundsInv, IndInv, TypeOK
    <3> QED  BY <1>5, <1>16, <3>1 DEF StepIsNext
  <2>6. ~StepIsNext(b)'  BY <1>7, <1>10, <1>16 DEF StepIsNext
  <2>7. k >= 1 /\ l = 0  BY <1>10, <1>11, <1>12, <2>5, <2>6 DEF One
  <2>8. Cardinality(RoundsAt(c, b.step)) + l <= Cardinality(RoundsAt(work, b.step)) + k
    BY <1>14, <2>3, <2>4, <2>7, <2>r
  <2>9. IsPaid(c, b, l)  BY <1>6, <1>7, <1>9, <1>13, <2>8, PaidStays
  <2> QED  BY <1>10, <1>12, <1>13, <2>9 DEF Paid, IsPaid, ComesIn
<1> QED  BY <1>15, <1>16

\* ApprovalNode.OnEnter.
LEMMA EnterApprovalPays ==
  ASSUME IsTidyStep, NEW b \in Blocks, Paid(b), NEW n \in Nodes, EnterApproval(n)
  PROVE  Paid(b)'
<1>1. n \in Approvals /\ Moving(n) /\ n \notin work.current
  BY DEF EnterApproval, Approvals
<1>2. PICK S \in Staffing[n], F \in Fallback[n] :
        \/ StaffedBy(n, Eligible(S))
        \/ StaffedBy(n, Eligible(F))
        \/ n \in MaySkip /\ PassOn(work, Arrivals(n))
  BY DEF EnterApproval
<1>3. Eligible(S) \in SUBSET Users /\ Eligible(F) \in SUBSET Users
  <2>1. Staffing[n] \in SUBSET SUBSET Users /\ Fallback[n] \in SUBSET SUBSET Users
    BY <1>1, GraphAssumption
  <2> QED  BY <2>1 DEF Eligible
<1> QED  BY <1>1, <1>2, <1>3, StaffedByPays, PassedThroughPays

\* Every turn of the loop.
LEMMA WalkPays ==
  ASSUME IsTidyStep, NEW b \in Blocks, Paid(b), Walk
  PROVE  Paid(b)'
<1>1. PICK n \in Nodes : PassNode(n) \/ Branch(n) \/ Fork(n) \/ ArriveAtJoin(n)
                           \/ EnterApproval(n) \/ PassApproval(n)
  BY DEF Walk
<1>2. CASE PassApproval(n)
  <2>1. n \in Approvals /\ Moving(n) /\ PassOn(work, Arrivals(n)) /\ n \in SkipVars
    BY <1>2, GraphAssumption DEF PassApproval
  <2> QED  BY <2>1, PassedThroughPays
<1> QED  BY <1>1, <1>2, PassedNodePays, JoinPays, EnterApprovalPays

\* completeInstance and the commit.
LEMMA CommitPays ==
  ASSUME IsTidyStep, NEW b \in Blocks, Paid(b), Commit
  PROVE  Paid(b)'
<1>1. PICK c : c = work'  OBVIOUS
<1>2. /\ work' = c /\ db' = c /\ queue' = <<>>
      /\ c = work \/ c = [work EXCEPT !.status = "completed"]
  BY <1>1 DEF Commit
<1>3. work \in Instance /\ Tidy(work) /\ Held(work) /\ Tidy(c)
  BY <1>1, RowsAtRest DEF IsTidyStep
<1>4. c.tasks = work.tasks /\ c.tokens = work.tokens  BY <1>2, <1>3, InstanceFields
<1>5. PICK k \in Nat : k = One(StepIsNext(b)) + One(BranchIsNext(b))  BY DEF One
<1>6. IsPaid(work, b, k)  BY <1>5 DEF Paid
<1>7. KeepsClosed(work, c) /\ RoundsAt(c, b.step) = RoundsAt(work, b.step)  BY <1>4, SameRowsKeep
<1>8. Cardinality(RoundsAt(work, b.step)) \in Nat  BY <1>3, RoundsAreCounted
<1>9. PICK l \in Nat : l = 0  OBVIOUS
<1>10. Cardinality(RoundsAt(c, b.step)) + l <= Cardinality(RoundsAt(work, b.step)) + k
  BY <1>7, <1>8, <1>9
<1>11. IsPaid(c, b, l)  BY <1>3, <1>4, <1>6, <1>7, <1>10, PaidStays
<1>12. ~StepIsNext(b)' /\ ~BranchIsNext(b)'  BY <1>2 DEF StepIsNext, BranchIsNext
<1>13. One(StepIsNext(b)') + One(BranchIsNext(b)') = l  BY <1>9, <1>12 DEF One
<1> QED  BY <1>2, <1>9, <1>11, <1>12, <1>13 DEF Paid, IsPaid

\* An operation that hands arrivals to the loop: a branch only with a round that passed.
LEMMA RunPays ==
  ASSUME IsTidyStep, NEW b \in Blocks, Paid(b), NEW s, NEW q, Run(s, q),
         s.tokens = db.tokens, Within(db, s), \A i \in DOMAIN q : q[i].node # b.step,
         (\E i \in DOMAIN q : q[i] = ComesIn(b)) =>
            /\ q = <<ComesIn(b)>>
            /\ \E r \in PassedAt(s, b.branch) : r \notin PassedAt(db, b.branch)
  PROVE  Paid(b)'
<1>1. db' = db /\ work' = s /\ queue' = q  BY DEF Run
<1>2. ~StepIsNext(b)'  BY <1>1 DEF StepIsNext
<1>3. IsPaid(db, b, 0) /\ Tidy(db) /\ Held(db) /\ Tidy(s)
  BY <1>1, RowsAtRest DEF Paid, IsTidyStep
<1>r. KeepsClosed(db, s) /\ RoundsAt(s, b.step) = RoundsAt(db, b.step)
  <2>1. Extends(db, s)  BY <1>1 DEF IsTidyStep, Onward, Kept, Run
  <2> QED  BY <1>3, <2>1, RevisedRounds
<1>4. PICK P : P = PassedAt(db, b.branch)  OBVIOUS
<1>5. PICK Q : Q = PassedAt(s, b.branch)  OBVIOUS
<1>6. /\ IsFiniteSet(P) /\ IsFiniteSet(Q) /\ Cardinality(P) \in Nat /\ Cardinality(Q) \in Nat
      /\ Cardinality(RoundsAt(db, b.step)) \in Nat
  BY <1>3, <1>4, <1>5, RoundsAreCounted
<1>7. P \subseteq Q /\ Cardinality(P) <= Cardinality(Q)
  <2>1. P \subseteq Q  BY <1>3, <1>4, <1>5, <1>r, PassedStays
  <2> QED  BY <1>6, <2>1, FS_Subset
<1>8. s.tokens[<<b.branch, b.join>>] \in Nat  BY <1>3, BlockParts, InstanceFields DEF Tidy
<1>9. CASE ~BranchIsNext(b)'
  <2>1. One(StepIsNext(b)') + One(BranchIsNext(b)') = 0  BY <1>2, <1>9 DEF One
  <2>2. IsPaid(s, b, 0)  BY <1>3, <1>4, <1>5, <1>6, <1>7, <1>8, <1>r DEF IsPaid
  <2> QED  BY <1>1, <1>3, <1>9, <2>1, <2>2 DEF Paid, IsPaid
<1>10. CASE BranchIsNext(b)'
  <2>1. \E i \in DOMAIN q : q[i] = ComesIn(b)  BY <1>1, <1>10 DEF BranchIsNext, ComesIn
  <2>2. PICK r \in Q : r \notin P  BY <1>4, <1>5, <2>1
  <2>3. Cardinality(P) < Cardinality(Q)
    <3>1. P # Q  BY <2>2
    <3> QED  BY <1>6, <1>7, <3>1, FS_Subset
  <2>4. One(StepIsNext(b)') + One(BranchIsNext(b)') = 1  BY <1>2, <1>10 DEF One
  <2>5. IsPaid(s, b, 1)  BY <1>3, <1>4, <1>5, <1>6, <1>8, <1>r, <2>3 DEF IsPaid
  <2> QED  BY <1>1, <1>3, <2>1, <2>4, <2>5 DEF Paid, IsPaid, ComesIn
<1> QED  BY <1>9, <1>10

\* An operation that saves its rows and ends.
LEMMA SavePays ==
  ASSUME IsTidyStep, NEW b \in Blocks, Paid(b), ~held, NEW s, Save(s),
         s.tokens = db.tokens, Within(db, s)
  PROVE  Paid(b)'
<1>1. db' = s /\ work' = s /\ queue' = queue  BY DEF Save
<1>2. queue = <<>>  BY DEF IsTidyStep, RoundsInv, IndInv, TypeOK
<1>3. IsPaid(db, b, 0) /\ Tidy(db) /\ Held(db) /\ Tidy(s) /\ Extends(db, s)
  BY <1>1, RowsAtRest DEF Paid, IsTidyStep, Onward
<1>4. KeepsClosed(db, s) /\ RoundsAt(s, b.step) = RoundsAt(db, b.step)
  BY <1>3, RevisedRounds
<1>5. PICK l \in Nat : l = 0  OBVIOUS
<1>6. Cardinality(RoundsAt(s, b.step)) + l <= Cardinality(RoundsAt(db, b.step)) + l
  <2>1. Cardinality(RoundsAt(db, b.step)) \in Nat  BY <1>3, RoundsAreCounted
  <2> QED  BY <1>4, <2>1
<1>7. IsPaid(s, b, l)  BY <1>3, <1>4, <1>5, <1>6, PaidStays
<1>8. ~StepIsNext(b)' /\ ~BranchIsNext(b)'  BY <1>1, <1>2 DEF StepIsNext, BranchIsNext
<1>9. One(StepIsNext(b)') + One(BranchIsNext(b)') = l  BY <1>5, <1>8 DEF One
<1> QED  BY <1>1, <1>5, <1>7, <1>8, <1>9 DEF Paid, IsPaid

\* A rollback of the transaction.
LEMMA AbortPays ==
  ASSUME IsTidyStep, NEW b \in Blocks, Paid(b), Abort
  PROVE  Paid(b)'
<1>1. db' = db /\ work' = db /\ queue' = <<>>  BY DEF Abort
<1>2. ~StepIsNext(b)' /\ ~BranchIsNext(b)'  BY <1>1 DEF StepIsNext, BranchIsNext
<1>3. One(StepIsNext(b)') + One(BranchIsNext(b)') = 0  BY <1>2 DEF One
<1> QED  BY <1>1, <1>2, <1>3 DEF Paid, IsPaid

\* The start of an instance: nothing follows but the start node.
LEMMA StartPays ==
  ASSUME IsTidyStep, NEW b \in Blocks, Paid(b), Start
  PROVE  Paid(b)'
<1>1. PICK s : s = [db EXCEPT !.status = "running"]  OBVIOUS
<1>2. PICK x : x = [node |-> StartNode, from |-> NoNode]  OBVIOUS
<1>3. PICK q : q = <<x>>  OBVIOUS
<1>4. Run(s, q)  BY <1>1, <1>2, <1>3 DEF Start
<1>5. s.tasks = db.tasks /\ s.tokens = db.tokens
  BY <1>1, RowsAtRest, InstanceFields DEF IsTidyStep
<1>6. Within(db, s)  BY <1>5 DEF Within
<1>7. Kind[StartNode] = "start"
  <2>1. \E n \in Nodes : Kind[n] = "start"  BY GraphAssumption
  <2> QED  BY <2>1 DEF StartNode
<1>8. x.node # b.step /\ x.node # b.join  BY <1>2, <1>7, BlockParts DEF Approvals
<1>9. \A i \in DOMAIN q : q[i].node # b.step /\ q[i] # ComesIn(b)
  BY <1>3, <1>8 DEF ComesIn
<1> QED  BY <1>4, <1>5, <1>6, <1>9, RunPays

\* A vote that passes a round passes it for the first time.
LEMMA VotePasses ==
  ASSUME NEW s, Tidy(s), Held(s), NEW t \in Pending(s), NEW a, Tidy(a), Cast(a, t),
         RoundPasses(Round(a, t), t.node),
         NEW c, c.tasks = Marked(a.tasks, Round(a, t) \cap Pending(a), "cancelled"), Extends(s, c)
  PROVE  t.round \in PassedAt(c, t.node) /\ t.round \notin PassedAt(s, t.node)
<1> DEFINE R == Round(a, t)
           T == R \cap Pending(a)
<1>1. T \in SUBSET a.tasks /\ "cancelled" \in TaskState /\ a \in Instance
  BY DEF Pending, TaskState, Tidy
<1>2. T = {u \in R : u.st = "pending"}  BY DEF Round, Pending
<1>3. Rows(R) /\ (\A u \in R : u.st # "cancelled") /\ RoundPasses(R, t.node)  BY DEF Cast
<1>4. Round(c, t) = Marked(R, T, "cancelled")
  <2>1. T \cap R = T  OBVIOUS
  <2>2. Round(c, t) = Marked(Round(a, t), T \cap Round(a, t), "cancelled")
    BY <1>1, ClosedRound
  <2> QED  BY <2>1, <2>2
<1> HIDE DEF R, T
<1>5. HadPassed(Round(c, t), t.node)  BY <1>2, <1>3, <1>4, PassedRound
<1>6. PICK x \in c.tasks : x.node = t.node /\ x.round = t.round
  <2>1. PICK st \in TaskState : SetState(t, st) \in c.tasks  BY DEF Extends
  <2>2. t \in Task  BY InstanceFields DEF Pending, Tidy
  <2> QED  BY <2>1, <2>2, SetStateFields
<1>7. HadPassed(Round(c, x), t.node)  BY <1>5, <1>6, SameRound
<1>8. t.round \in PassedAt(c, t.node)  BY <1>6, <1>7, PassedByTask
<1>9. t.round \notin PassedAt(s, t.node)
  <2> SUFFICES ASSUME t.round \in PassedAt(s, t.node)  PROVE FALSE
    OBVIOUS
  <2>1. PICK u \in s.tasks : u.node = t.node /\ u.round = t.round /\ HadPassed(Round(s, u), t.node)
    BY PassedByTask
  <2>2. ~IsOpen(Round(s, u))  BY <2>1, PassedIsClosed
  <2>3. t \in Round(s, u) /\ t.st = "pending"  BY <2>1 DEF Round, Pending
  <2> QED  BY <2>2, <2>3 DEF IsOpen
<1> QED  BY <1>8, <1>9

\* A branch has one way out, into the join.
LEMMA BranchComesIn ==
  ASSUME NEW b \in Blocks, NEW n \in Approvals, NEW i \in DOMAIN Arrivals(n),
         Arrivals(n)[i] = ComesIn(b)
  PROVE  n = b.branch /\ Arrivals(n) = <<ComesIn(b)>>
<1>1. n \in Nodes /\ Kind[n] = "approval"  BY DEF Approvals
<1>2. Out[n] \in Seq(Nodes) /\ ~(Len(Out[n]) > 1)  BY <1>1, GraphAssumption
<1>3. PICK l \in Nat : l = Len(Out[n]) /\ ~(l > 1)  BY <1>2
<1>4. i \in 1..l /\ Arrivals(n)[i] = [node |-> Out[n][i], from |-> n]
  BY <1>3 DEF Arrivals
<1>5. Len(Out[n]) = 1 /\ i = 1
  <2>1. \A k \in Nat : \A j \in 1..k : k > 1 \/ (j = 1 /\ k = 1)  OBVIOUS
  <2>2. i \in 1..l /\ ~(l > 1) /\ l \in Nat  BY <1>3, <1>4
  <2>3. i = 1 /\ l = 1  BY <2>1, <2>2, Zenon
  <2> QED  BY <1>3, <2>3
<1>6. n = b.branch  BY <1>4 DEF ComesIn
<1>7. PICK x : x = [node |-> Out[n][1], from |-> n]  OBVIOUS
<1>8. x = ComesIn(b)  BY <1>4, <1>5, <1>7
<1>9. Arrivals(n) = [k \in 1..1 |-> x]
  <2>1. \A k \in 1..1 : [node |-> Out[n][k], from |-> n] = x  BY <1>7
  <2> QED  BY <1>5, <2>1 DEF Arrivals
<1>10. <<x>> = [k \in 1..1 |-> x]  OBVIOUS
<1> QED  BY <1>6, <1>8, <1>9, <1>10

\* CompleteTask with a vote.
LEMMA VotePays ==
  ASSUME IsTidyStep, NEW b \in Blocks, Paid(b), NEW t \in db.tasks,
         NEW verdict \in {"approved", "rejected"}, Vote(t, verdict)
  PROVE  Paid(b)'
<1>1. ~held /\ t \in Pending(db)  BY DEF Vote, Locked
<1>2. verdict \in TaskState /\ verdict # "pending" /\ verdict # "cancelled"  BY DEF TaskState
<1>3. db \in Instance /\ Sound(db) /\ Tidy(db) /\ Held(db)  BY RowsAtRest DEF IsTidyStep
<1>4. PICK s : s = Close(db, {t}, verdict)  OBVIOUS
<1>5. Resolve(s, t, FALSE)  BY <1>4 DEF Vote
<1>6. Sound(s) /\ Pending(s) \subseteq Pending(db)
  BY <1>1, <1>2, <1>3, <1>4, VotedIsSound
<1>7. PICK T : T = {t}  OBVIOUS
<1>8. /\ s.tasks = Marked(db.tasks, T, verdict) /\ s.notes = db.notes
      /\ s.status = db.status /\ s.tokens = db.tokens
  BY <1>3, <1>4, <1>7, CloseFields
<1>9. Within(db, db) /\ T \in SUBSET Pending(db)  BY <1>1, <1>7 DEF Within
<1>10. Within(db, s)  BY <1>2, <1>3, <1>8, <1>9, MarkedWithin
<1>11. Cast(s, t)
  <2>1. s.tasks = Marked(db.tasks, {t}, verdict)  BY <1>7, <1>8
  <2> QED  BY <1>1, <1>2, <1>3, <1>8, <2>1, VoteIsCast
<1>12. s \in Instance /\ Tidy(s)  BY <1>6, SoundIsTidy DEF Sound
<1>13. "cancelled" \in TaskState  BY DEF TaskState
<1>14. t.node \in Approvals
  <2>1. t \in Task  BY <1>3, InstanceFields
  <2> QED  BY <2>1, TaskFields
<1>15. CASE /\ RoundPasses(Round(s, t), t.node)
            /\ LeaveNode(Close(s, Round(s, t) \cap Pending(s), "cancelled"), t.node)
  <2>1. PICK U : U = Round(s, t) \cap Pending(s)  OBVIOUS
  <2>2. PICK n : n = t.node  OBVIOUS
  <2>3. PICK c : c = [Cancelling(s, U) EXCEPT !.current = Cancelling(s, U).current \ {n}]  OBVIOUS
  <2>4. PICK q : q = Arrivals(n)  OBVIOUS
  <2>5. Run(c, q)  BY <1>15, <2>1, <2>2, <2>3, <2>4 DEF LeaveNode, Cancelling
  <2>6. U \in SUBSET Pending(s)  BY <2>1
  <2>7. IsLeft(s, U, n, c)  BY <1>6, <2>3, <2>6, RoundIsLeft
  <2>8. c.tasks = Marked(s.tasks, U, "cancelled") /\ c.tokens = db.tokens
    BY <1>8, <2>7 DEF IsLeft
  <2>9. Within(db, c)  BY <1>6, <1>10, <1>12, <1>13, <2>6, <2>8, MarkedWithin
  <2>10. Extends(db, c)  BY <2>5 DEF IsTidyStep, Onward, Kept, Run
  <2>11. t.round \in PassedAt(c, t.node) /\ t.round \notin PassedAt(db, t.node)
    BY <1>1, <1>3, <1>11, <1>12, <1>15, <2>1, <2>8, <2>10, VotePasses
  <2>12. \A i \in DOMAIN q : q[i].node # b.step
    <3>1. n \in Nodes /\ n # b.join  BY <1>14, <2>2, BlockParts DEF Approvals
    <3> QED  BY <2>4, <3>1, OtherArrivals
  <2>13. (\E i \in DOMAIN q : q[i] = ComesIn(b)) => n = b.branch /\ q = <<ComesIn(b)>>
    BY <1>14, <2>2, <2>4, BranchComesIn
  <2> QED  BY <2>2, <2>5, <2>8, <2>9, <2>11, <2>12, <2>13, RunPays
<1>16. CASE Save(Terminated(s))
  <2>1. PICK c : c = Terminated(s)  OBVIOUS
  <2>2. c.tasks = Marked(s.tasks, Pending(s), "cancelled") /\ c.tokens = db.tokens
    BY <1>6, <1>8, <2>1, TerminatedFields
  <2>3. Within(db, c)  BY <1>6, <1>10, <1>12, <1>13, <2>2, MarkedWithin
  <2> QED  BY <1>1, <1>16, <2>1, <2>2, <2>3, SavePays
<1>17. CASE Save(s)  BY <1>1, <1>8, <1>10, <1>17, SavePays
<1> QED  BY <1>5, <1>15, <1>16, <1>17 DEF Resolve

\* CompleteTask with a withdrawal.
LEMMA WithdrawPays ==
  ASSUME IsTidyStep, NEW b \in Blocks, Paid(b), NEW t \in db.tasks, Withdraw(t)
  PROVE  Paid(b)'
<1>1. ~held /\ t \in Pending(db)  BY DEF Withdraw, Locked
<1>2. PICK st \in TaskState : st = "withdrawn" /\ st # "pending"  BY DEF TaskState
<1>3. db \in Instance /\ Sound(db)  BY RowsAtRest DEF IsTidyStep
<1>4. PICK s : s = Close(db, {t}, st)  OBVIOUS
<1>5. PICK c : c = Terminated(s)  OBVIOUS
<1>6. Save(c)  BY <1>2, <1>4, <1>5 DEF Withdraw
<1>7. Sound(s) /\ Pending(s) \subseteq Pending(db) /\ s \in Instance
  BY <1>1, <1>2, <1>3, <1>4, VotedIsSound DEF Sound
<1>8. PICK T : T = {t}  OBVIOUS
<1>9. s.tasks = Marked(db.tasks, T, st) /\ s.tokens = db.tokens
  BY <1>3, <1>4, <1>8, CloseFields
<1>10. Within(db, db) /\ T \in SUBSET Pending(db)  BY <1>1, <1>8 DEF Within
<1>11. Within(db, s)  BY <1>3, <1>9, <1>10, MarkedWithin
<1>12. c.tasks = Marked(s.tasks, Pending(s), "cancelled") /\ c.tokens = db.tokens
  BY <1>5, <1>7, <1>9, TerminatedFields
<1>13. Within(db, c)
  <2>1. "cancelled" \in TaskState  BY DEF TaskState
  <2> QED  BY <1>7, <1>11, <1>12, <2>1, MarkedWithin
<1> QED  BY <1>1, <1>6, <1>12, <1>13, SavePays

\* TransferTask: the new row joins the open round.
LEMMA TransferTaskPays ==
  ASSUME IsTidyStep, NEW b \in Blocks, Paid(b), NEW t \in db.tasks, NEW v \in Users,
         TransferTask(t, v)
  PROVE  Paid(b)'
<1>1. ~held /\ t \in Pending(db)  BY DEF TransferTask, Locked
<1>2. PICK st \in TaskState : st = "transferred"  BY DEF TaskState
<1>3. db \in Instance /\ Tidy(db) /\ Sound(db)  BY RowsAtRest DEF IsTidyStep
<1>4. PICK s : s = Close(db, {t}, st)  OBVIOUS
<1>5. PICK x : x = NextTask(db, t, v)  OBVIOUS
<1>6. PICK c : c = [s EXCEPT !.tasks = s.tasks \cup {x}]  OBVIOUS
<1>7. Save(c)  BY <1>2, <1>4, <1>5, <1>6 DEF TransferTask, Transfer
<1>8. PICK T : T = {t}  OBVIOUS
<1>9. s.tasks = Marked(db.tasks, T, st) /\ s.tokens = db.tokens
  BY <1>3, <1>4, <1>8, CloseFields
<1>10. s \in Instance
  <2>1. st # "pending"  BY <1>2
  <2> QED  BY <1>1, <1>3, <1>4, <2>1, VotedIsSound DEF Sound
<1>11. c.tasks = s.tasks \cup {x} /\ c.tokens = db.tokens
  BY <1>6, <1>9, <1>10, InstanceFields
<1>12. x.node = t.node /\ x.round = t.round  BY <1>3, <1>5, NextTaskIsNumbered
<1>13. Within(db, db) /\ T \in SUBSET Pending(db)  BY <1>1, <1>8 DEF Within
<1>14. Within(db, s)  BY <1>3, <1>9, <1>13, MarkedWithin
<1>15. Within(db, c)  BY <1>1, <1>11, <1>12, <1>14 DEF Within
<1> QED  BY <1>1, <1>7, <1>11, <1>15, SavePays

\* RollbackTask: no later approval is sent back to the step behind the join.
LEMMA RollbackTaskPays ==
  ASSUME IsTidyStep, NEW b \in Blocks, Paid(b), NEW t \in db.tasks, NEW target \in Approvals,
         RollbackTask(t, target)
  PROVE  Paid(b)'
<1>1. t \in Pending(db) /\ target # t.node /\ Precedes(target, t.node)  BY DEF RollbackTask
<1>2. db \in Instance /\ Sound(db) /\ "cancelled" \in TaskState
  BY RowsAtRest DEF IsTidyStep, TaskState
<1>3. PICK a : a = CancelAll(db)  OBVIOUS
<1>4. PICK h : h = [action |-> "rollback", node |-> t.node, round |-> t.round]  OBVIOUS
<1>5. PICK c : c = [a EXCEPT !.current = {}, !.notes = a.notes \cup {h}]  OBVIOUS
<1>6. PICK x : x = [node |-> target, from |-> NoNode]  OBVIOUS
<1>7. PICK q : q = <<x>>  OBVIOUS
<1>8. a \in Instance  BY <1>2, <1>3, CancelAllIsSound DEF Sound
<1>9. Run(c, q)  BY <1>3, <1>4, <1>5, <1>6, <1>7, <1>8 DEF RollbackTask
<1>10. a.tasks = Marked(db.tasks, Pending(db), "cancelled") /\ a.tokens = db.tokens
  BY <1>2, <1>3, CloseFields DEF CancelAll
<1>11. c.tasks = a.tasks /\ c.tokens = a.tokens  BY <1>5, <1>8, InstanceFields
<1>12. Within(db, c)
  <2>1. Within(db, db)  BY DEF Within
  <2> QED  BY <1>2, <1>10, <1>11, <2>1, MarkedWithin
<1>13. target # b.step
  <2>1. t.node \in Approvals
    <3>1. t \in Task  BY <1>2, InstanceFields
    <3> QED  BY <3>1, TaskFields
  <2>2. \A n \in Approvals \ {b.step} : ~Precedes(b.step, n)  BY DEF Blocks
  <2> QED  BY <1>1, <2>1, <2>2
<1>14. target # b.join  BY BlockParts, JoinsDoNotVote
<1>15. \A i \in DOMAIN q : q[i].node # b.step /\ q[i] # ComesIn(b)
  BY <1>6, <1>7, <1>13, <1>14 DEF ComesIn
<1> QED  BY <1>9, <1>10, <1>11, <1>12, <1>15, RunPays

\* Terminate, Suspend and Resume.
LEMMA LifecyclePays ==
  ASSUME IsTidyStep, NEW b \in Blocks, Paid(b), Terminate \/ Suspend \/ Resume
  PROVE  Paid(b)'
<1>1. db \in Instance /\ Sound(db) /\ "cancelled" \in TaskState
  BY RowsAtRest DEF IsTidyStep, TaskState
<1>2. Within(db, db)  BY DEF Within
<1>3. CASE Terminate
  <2>1. PICK c : c = Terminated(db)  OBVIOUS
  <2>2. ~held /\ Save(c)  BY <1>3, <2>1 DEF Terminate, Locked
  <2>3. c.tasks = Marked(db.tasks, Pending(db), "cancelled") /\ c.tokens = db.tokens
    BY <1>1, <2>1, TerminatedFields
  <2>4. Within(db, c)  BY <1>1, <1>2, <2>3, MarkedWithin
  <2> QED  BY <2>2, <2>3, <2>4, SavePays
<1>4. CASE Suspend \/ Resume
  <2>1. PICK st \in Live : Save([db EXCEPT !.status = st]) /\ ~held
    BY <1>4 DEF Suspend, Resume, Locked, Live
  <2>2. PICK c : c = [db EXCEPT !.status = st]  OBVIOUS
  <2>3. c.tasks = db.tasks /\ c.tokens = db.tokens  BY <1>1, <2>2, InstanceFields
  <2>4. Within(db, c)  BY <2>3 DEF Within
  <2> QED  BY <2>1, <2>2, <2>3, <2>4, SavePays
<1> QED  BY <1>3, <1>4

\* Every step of a generic flow keeps a block paid for.
LEMMA NextPays ==
  ASSUME ~Protected, IsTidyStep, NEW b \in Blocks, Paid(b), [Next]_vars
  PROVE  Paid(b)'
<1>1. CASE GenericTask
  BY <1>1, VotePays, WithdrawPays, TransferTaskPays, RollbackTaskPays DEF GenericTask
<1>2. ~Application  BY DEF Application, SkipApplication, Review, TransferApplication
<1>3. CASE UNCHANGED vars
  BY <1>3 DEF vars, Paid, IsPaid, StepIsNext, BranchIsNext, ComesIn
<1> QED
  BY <1>1, <1>2, <1>3, StartPays, WalkPays, CommitPays, AbortPays, LifecyclePays DEF Next

\* An instance that has not started owes nothing.
LEMMA InitPays ==
  ASSUME Init, NEW b \in Blocks
  PROVE  Paid(b)
<1>1. /\ db = Empty /\ work = Empty /\ queue = <<>> /\ Empty.tasks = {}
      /\ Empty.tokens = [e \in JoinEdges |-> 0]
  BY DEF Init, Empty
<1>2. ~StepIsNext(b) /\ ~BranchIsNext(b)  BY <1>1 DEF StepIsNext, BranchIsNext
<1>3. RoundsAt(Empty, b.step) = {} /\ PassedAt(Empty, b.branch) = {}
  BY <1>1 DEF RoundsAt, PassedAt
<1>4. Empty.tokens[<<b.branch, b.join>>] = 0  BY <1>1, BlockParts
<1>5. IsPaid(Empty, b, 0)  BY <1>3, <1>4, FS_EmptySet DEF IsPaid
<1>6. One(StepIsNext(b)) + One(BranchIsNext(b)) = 0  BY <1>2 DEF One
<1> QED  BY <1>1, <1>2, <1>5, <1>6 DEF Paid

-------------------------------------------------------------------------------
(* How the flow moves: what each step does to the nodes an instance is at,   *)
(* to the tokens in store and to the arrivals.                               *)

\* What may follow from a node that is left.
Follows(n, next) ==
  \/ Kind[n] # "exclusive_gateway" /\ next = Arrivals(n)
  \/ /\ Kind[n] = "exclusive_gateway"
     /\ \E i \in DOMAIN Out[n] : next = <<[node |-> Out[n][i], from |-> n]>>

Takes(n, q) == q # <<>> /\ Head(q).node = n
SameTokens(s, c) == c.tokens = s.tokens

\* From rows s and arrivals q to c and p: nothing moves; an approval becomes active; a
\* node is passed; a branch is put in store before a join, or opens it.
Rests(s, q, c, p) == SameTokens(s, c) /\ c.current = s.current /\ p = q
Stays(n, s, q, c, p) ==
  n \in Approvals /\ Takes(n, q) /\ SameTokens(s, c) /\ c.current = s.current \cup {n}
    /\ p = Tail(q) \o <<>>
Crosses(n, next, s, q, c, p) ==
  n \in Nodes \ Joins /\ Takes(n, q) /\ SameTokens(s, c) /\ c.current = s.current \ {n}
    /\ Follows(n, next) /\ p = Tail(q) \o next
Stores(n, e, s, q, c, p) ==
  n \in Joins /\ Takes(n, q) /\ e \in JoinEdges /\ e = <<Head(q).from, n>>
    /\ c.tokens = Arrived(s, e) /\ ~AllIn(c.tokens, n) /\ c.current = s.current \cup {n}
    /\ p = Tail(q) \o <<>>
Opens(n, e, s, q, c, p) ==
  n \in Joins /\ Takes(n, q) /\ e \in JoinEdges /\ e = <<Head(q).from, n>>
    /\ c.tokens = Released(Arrived(s, e), n) /\ AllIn(Arrived(s, e), n)
    /\ c.current = s.current \ {n} /\ p = Tail(q) \o Arrivals(n)

\* At rest: the flow starts, leaves an approval, or goes back to one.
Begins(s, q, c, p) ==
  /\ q = <<>> /\ SameTokens(s, c) /\ c.current = s.current
  /\ s = db /\ db.status = "absent" /\ p = <<[node |-> StartNode, from |-> NoNode]>>
Leaves(n, s, q, c, p) ==
  /\ q = <<>> /\ n \in Approvals /\ n \in s.current /\ SameTokens(s, c)
  /\ c.current = s.current \ {n} /\ p = Arrivals(n)
Returns(n, target, s, q, c, p) ==
  /\ q = <<>> /\ n \in Approvals /\ target \in Approvals /\ s.current = {n} /\ SameTokens(s, c)
  /\ c.current = {} /\ p = <<[node |-> target, from |-> NoNode]>>

Turns(s, q, c, p) ==
  \E n \in Nodes : \/ Stays(n, s, q, c, p) \/ \E next : Crosses(n, next, s, q, c, p)
                   \/ \E e : Stores(n, e, s, q, c, p) \/ Opens(n, e, s, q, c, p)
Departs(s, q, c, p) ==
  \/ Begins(s, q, c, p) \/ \E n : Leaves(n, s, q, c, p)
  \/ \E t \in db.tasks, target \in Approvals :
       RollbackTask(t, target) /\ Returns(t.node, target, s, q, c, p)
Moves(s, q, c, p) == Rests(s, q, c, p) \/ Turns(s, q, c, p) \/ Departs(s, q, c, p)

\* What a step does: it is rolled back, or the working copy moves on, and is or is not
\* committed.
FlowsOn ==
  \/ db' = db /\ work' = db /\ queue' = <<>>
  \/ /\ db' = db \/ (db' = work' /\ queue' = <<>> /\ db'.status # "absent")
     /\ work'.status \notin Ended
          => work.status \notin Ended /\ Moves(work, queue, work', queue')

\* Taking a node out of the active set changes nothing else.
LEMMA DeletedFields ==
  ASSUME NEW s \in Instance, NEW n, NEW a, a = Deleted(s, n)
  PROVE  a = [status |-> s.status, current |-> s.current \ {n}, tokens |-> s.tokens,
              rounds |-> s.rounds, tasks |-> s.tasks, notes |-> s.notes]
<1>1. a = [s EXCEPT !.current = s.current \ {n}]  BY DEF Deleted
<1>2. s = [status |-> s.status, current |-> s.current, tokens |-> s.tokens,
           rounds |-> s.rounds, tasks |-> s.tasks, notes |-> s.notes]
  BY InstanceFields
<1> QED  BY <1>1, <1>2

\* Walking through nodes.
LEMMA WalkFlows ==
  ASSUME RoundsInv, Walk
  PROVE  FlowsOn
<1>1. PICK n \in Nodes : PassNode(n) \/ Branch(n) \/ Fork(n) \/ ArriveAtJoin(n)
                           \/ EnterApproval(n) \/ PassApproval(n)
  BY DEF Walk
<1>2. Moving(n) /\ Takes(n, queue)
  BY <1>1 DEF PassNode, Branch, Fork, ArriveAtJoin, EnterApproval, PassApproval, Moving, Takes
<1>3. db' = db /\ work.status \notin Ended
  <2>1. work.status = "running"  BY <1>2 DEF RoundsInv, IndInv, Moving
  <2>2. db' = db
    BY <1>1 DEF PassNode, Branch, Fork, ArriveAtJoin, EnterApproval, PassApproval, PassOn,
                StaffedBy, Wait
  <2> QED  BY <2>1, <2>2 DEF Ended
<1>4. work \in Instance  BY RowsAtRest
<1>5. SUFFICES Turns(work, queue, work', queue')
  BY <1>3 DEF FlowsOn, Moves
<1>6. ASSUME NEW next, n \notin Joins, Follows(n, next), PassOn(Deleted(work, n), next)
      PROVE  Turns(work, queue, work', queue')
  <2>1. work' = Deleted(work, n) /\ queue' = Tail(queue) \o next  BY <1>6 DEF PassOn
  <2>2. SameTokens(work, work') /\ work'.current = work.current \ {n}
    BY <1>4, <2>1, DeletedFields DEF SameTokens
  <2>3. Crosses(n, next, work, queue, work', queue')  BY <1>2, <1>6, <2>1, <2>2 DEF Crosses
  <2> QED  BY <2>3 DEF Turns
<1>7. CASE PassNode(n) \/ Fork(n)
  <2>1. /\ n \notin Joins /\ Kind[n] # "exclusive_gateway"
        /\ PassOn(Deleted(work, n), Arrivals(n))
    BY <1>7 DEF PassNode, Fork, Joins
  <2> QED  BY <1>6, <2>1 DEF Follows
<1>8. CASE Branch(n)
  <2>1. n \notin Joins /\ Kind[n] = "exclusive_gateway"  BY <1>8 DEF Branch, Joins
  <2>2. PICK i \in DOMAIN Out[n] :
          PassOn(Deleted(work, n), <<[node |-> Out[n][i], from |-> n]>>)
    BY <1>8 DEF Branch
  <2> QED  BY <1>6, <2>1, <2>2 DEF Follows
<1>9. CASE ArriveAtJoin(n)
  <2>1. PICK from : from = Head(queue).from  OBVIOUS
  <2>2. PICK e : e = <<from, n>>  OBVIOUS
  <2>3. PICK tokens : tokens = Arrived(work, e)  OBVIOUS
  <2>4. PICK a : a = Deleted(work, n)  OBVIOUS
  <2>5. PICK s : s = [a EXCEPT !.tokens = tokens]  OBVIOUS
  <2>6. PICK u : u = [s EXCEPT !.tokens = Released(tokens, n)]  OBVIOUS
  <2>7. PICK w : w = [s EXCEPT !.current = s.current \cup {n}]  OBVIOUS
  <2>8. /\ n \in Joins /\ from \in Preds(n)
        /\ \/ ~AllIn(tokens, n) /\ PassOn(w, <<>>)
           \/ AllIn(tokens, n) /\ PassOn(u, Arrivals(n))
    BY <1>9, <2>1, <2>2, <2>3, <2>4, <2>5, <2>6, <2>7 DEF ArriveAtJoin, Wait
  <2>9. a = [status |-> work.status, current |-> work.current \ {n}, tokens |-> work.tokens,
             rounds |-> work.rounds, tasks |-> work.tasks, notes |-> work.notes]
    BY <1>4, <2>4, DeletedFields
  <2>10. s = [status |-> work.status, current |-> work.current \ {n}, tokens |-> tokens,
              rounds |-> work.rounds, tasks |-> work.tasks, notes |-> work.notes]
    BY <2>5, <2>9
  <2>11. /\ w.tokens = tokens /\ w.current = work.current \cup {n}
         /\ u.tokens = Released(tokens, n) /\ u.current = work.current \ {n}
    BY <2>6, <2>7, <2>10
  <2>12. e \in JoinEdges /\ e = <<Head(queue).from, n>>
    BY <2>1, <2>2, <2>8 DEF JoinEdges, Preds
  <2>13. CASE ~AllIn(tokens, n) /\ PassOn(w, <<>>)
    <3>1. work' = w /\ queue' = Tail(queue) \o <<>>  BY <2>13 DEF PassOn
    <3>2. Stores(n, e, work, queue, work', queue')
      BY <1>2, <2>3, <2>8, <2>11, <2>12, <2>13, <3>1 DEF Stores
    <3> QED  BY <3>2 DEF Turns
  <2>14. CASE AllIn(tokens, n) /\ PassOn(u, Arrivals(n))
    <3>1. work' = u /\ queue' = Tail(queue) \o Arrivals(n)  BY <2>14 DEF PassOn
    <3>2. Opens(n, e, work, queue, work', queue')
      BY <1>2, <2>3, <2>8, <2>11, <2>12, <2>14, <3>1 DEF Opens
    <3> QED  BY <3>2 DEF Turns
  <2> QED  BY <2>8, <2>13, <2>14
<1>10. ASSUME n \in Approvals, n \notin work.current, PassOn(work, Arrivals(n))
       PROVE  Turns(work, queue, work', queue')
  <2>1. n \notin Joins /\ Kind[n] # "exclusive_gateway"  BY <1>10 DEF Approvals, Joins
  <2>2. work' = work /\ queue' = Tail(queue) \o Arrivals(n)  BY <1>10 DEF PassOn
  <2>3. work'.current = work.current \ {n}  BY <1>10, <2>2
  <2>4. Crosses(n, Arrivals(n), work, queue, work', queue')
    BY <1>2, <2>1, <2>2, <2>3 DEF Crosses, SameTokens, Follows
  <2> QED  BY <2>4 DEF Turns
<1>11. CASE EnterApproval(n)
  <2>1. n \in Approvals /\ n \notin work.current  BY <1>11 DEF EnterApproval, Approvals
  <2>2. CASE PassOn(work, Arrivals(n))  BY <1>10, <2>1, <2>2
  <2>3. CASE \E A : StaffedBy(n, A)
    <3>1. PICK A : StaffedBy(n, A)  BY <2>3
    <3>2. PICK b : b = OpenRound(work, n, A)  OBVIOUS
    <3>3. PICK c : c = [b EXCEPT !.current = b.current \cup {n}]  OBVIOUS
    <3>4. work' = c /\ queue' = Tail(queue) \o <<>>
      BY <3>1, <3>2, <3>3 DEF StaffedBy, Wait, PassOn
    <3>5. c.tokens = work.tokens /\ c.current = work.current \cup {n}
      BY <1>4, <3>2, <3>3, InstanceFields DEF OpenRound
    <3>6. Stays(n, work, queue, work', queue')
      BY <1>2, <2>1, <3>4, <3>5 DEF Stays, SameTokens
    <3> QED  BY <3>6 DEF Turns
  <2> QED  BY <1>11, <2>2, <2>3 DEF EnterApproval
<1>12. CASE PassApproval(n)
  <2>1. n \in Approvals /\ n \notin work.current /\ PassOn(work, Arrivals(n))
    BY <1>12, GraphAssumption DEF PassApproval
  <2> QED  BY <1>10, <2>1
<1> QED  BY <1>1, <1>7, <1>8, <1>9, <1>11, <1>12

\* At rest the working copy is the committed one.
LEMMA RestsInStore ==
  ASSUME RoundsInv, ~held
  PROVE  work = db /\ queue = <<>>
BY IdleIsSound DEF RoundsInv

\* An operation that saves its rows: the instance ends, or stays where it is.
LEMMA SaveFlows ==
  ASSUME RoundsInv, ~held, db.status \notin Ended, NEW s, Save(s), s.status # "absent",
         s.status \notin Ended => s.tokens = db.tokens /\ s.current = db.current
  PROVE  FlowsOn
<1>1. db' = s /\ work' = s /\ queue' = queue  BY DEF Save
<1>2. work = db /\ queue = <<>>  BY RestsInStore
<1>3. work'.status \notin Ended => Rests(work, queue, work', queue')
  BY <1>1, <1>2 DEF Rests, SameTokens
<1> QED  BY <1>1, <1>2, <1>3 DEF FlowsOn, Moves

\* An operation that hands arrivals to the loop.
LEMMA RunFlows ==
  ASSUME RoundsInv, ~held, db.status \notin Ended, NEW s, NEW q, Run(s, q),
         Departs(db, <<>>, s, q)
  PROVE  FlowsOn
<1>1. db' = db /\ work' = s /\ queue' = q  BY DEF Run
<1>2. work = db /\ queue = <<>>  BY RestsInStore
<1>3. Departs(work, queue, s, q)  BY <1>2
<1> QED  BY <1>1, <1>2, <1>3 DEF FlowsOn, Moves

\* The start of an instance.
LEMMA StartFlows ==
  ASSUME RoundsInv, Start
  PROVE  FlowsOn
<1>1. PICK s : s = [db EXCEPT !.status = "running"]  OBVIOUS
<1>2. PICK q : q = <<[node |-> StartNode, from |-> NoNode]>>  OBVIOUS
<1>3. Run(s, q) /\ ~held /\ db.status = "absent"  BY <1>1, <1>2 DEF Start, Locked
<1>4. s.tokens = db.tokens /\ s.current = db.current  BY <1>1, RowsAtRest, InstanceFields
<1>5. Begins(db, <<>>, s, q)  BY <1>2, <1>3, <1>4 DEF Begins, SameTokens
<1> QED  BY <1>3, <1>5, RunFlows DEF Departs, Ended

\* completeInstance and the commit.
LEMMA CommitFlows ==
  ASSUME RoundsInv, Commit
  PROVE  FlowsOn
<1>1. /\ held /\ queue = <<>> /\ queue' = queue /\ db' = work'
      /\ work' = work \/ work' = [work EXCEPT !.status = "completed"]
  BY DEF Commit
<1>2. work.status = "running"  BY <1>1 DEF RoundsInv, IndInv
<1>3. work' = work \/ work'.status = "completed"  BY <1>1, RowsAtRest, InstanceFields
<1>4. work'.status # "absent"  BY <1>2, <1>3
<1>5. CASE work'.status \in Ended  BY <1>1, <1>4, <1>5 DEF FlowsOn
<1>6. CASE work' = work
  <2>1. Rests(work, queue, work', queue')  BY <1>1, <1>6 DEF Rests, SameTokens
  <2> QED  BY <1>1, <1>2, <1>4, <2>1 DEF FlowsOn, Moves, Ended
<1> QED  BY <1>3, <1>5, <1>6 DEF Ended

\* A vote, from its verdict on.
LEMMA ResolveFlows ==
  ASSUME RoundsInv, ~held, db.status = "running", NEW s, Sound(s), s.status = db.status,
         s.tokens = db.tokens, s.current = db.current,
         NEW t, t.node \in Approvals, t.node \in db.current, NEW forced, Resolve(s, t, forced)
  PROVE  FlowsOn
<1>1. CASE LeaveNode(Close(s, Round(s, t) \cap Pending(s), "cancelled"), t.node)
  <2>1. PICK T : T = Round(s, t) \cap Pending(s)  OBVIOUS
  <2>2. PICK n : n = t.node  OBVIOUS
  <2>3. PICK c : c = [Cancelling(s, T) EXCEPT !.current = Cancelling(s, T).current \ {n}]  OBVIOUS
  <2>4. PICK q : q = Arrivals(n)  OBVIOUS
  <2>5. Run(c, q)  BY <1>1, <2>1, <2>2, <2>3, <2>4 DEF LeaveNode, Cancelling
  <2>6. IsLeft(s, T, n, c)
    <3>1. T \in SUBSET Pending(s)  BY <2>1
    <3> QED  BY <2>3, <3>1, RoundIsLeft
  <2>7. Leaves(n, db, <<>>, c, q)  BY <2>2, <2>4, <2>6 DEF IsLeft, Leaves, SameTokens
  <2> QED  BY <2>5, <2>7, RunFlows DEF Departs, Ended
<1>2. CASE Save(Terminated(s))
  <2>1. PICK c : c = Terminated(s)  OBVIOUS
  <2>2. c.status = "terminated"  BY <2>1, TerminatedFields
  <2> QED  BY <1>2, <2>1, <2>2, SaveFlows DEF Ended
<1>3. CASE Save(s)  BY <1>3, SaveFlows DEF Ended
<1> QED  BY <1>1, <1>2, <1>3 DEF Resolve

\* An open task is at an approval the instance is at.
LEMMA TaskIsWhereFlowIs ==
  ASSUME RoundsInv, NEW t \in Pending(db)
  PROVE  t \in db.tasks /\ t.node \in Approvals /\ t.node \in db.current
<1>1. t \in db.tasks /\ t \in Task  BY RowsAtRest, InstanceFields DEF Pending
<1> QED  BY <1>1, TaskFields, RowsAtRest DEF Sound, SoundRows

\* A vote on an open task.
LEMMA BallotFlows ==
  ASSUME RoundsInv, ~held, db.status = "running", NEW t \in Pending(db),
         NEW verdict \in {"approved", "rejected"}, NEW forced,
         Resolve(Close(db, {t}, verdict), t, forced)
  PROVE  FlowsOn
<1>1. verdict \in TaskState /\ verdict # "pending"  BY DEF TaskState
<1>2. PICK s : s = Close(db, {t}, verdict)  OBVIOUS
<1>3. Sound(s)  BY <1>1, <1>2, RowsAtRest, VotedIsSound
<1>4. s.status = db.status /\ s.tokens = db.tokens /\ s.current = db.current
  <2>1. PICK T : T = {t}  OBVIOUS
  <2> QED  BY <1>2, <2>1, RowsAtRest, CloseFields
<1>5. Resolve(s, t, forced)  BY <1>2
<1> QED  BY <1>3, <1>4, <1>5, TaskIsWhereFlowIs, ResolveFlows

\* CompleteApplicationApproval.
LEMMA ReviewFlows ==
  ASSUME RoundsInv, NEW n \in Approvals, NEW u \in Users, NEW verdict \in {"approved", "rejected"},
         Review(n, u, verdict)
  PROVE  FlowsOn
<1>1. ~held /\ db.status = "running" /\ PendingAt(db, n) \subseteq Pending(db)
  BY DEF Review, Locked, PendingAt
<1>2. CASE \E t \in PendingAt(db, n) :
             t.who = u /\ Resolve(Close(db, {t}, verdict), t, verdict = "rejected")
  BY <1>1, <1>2, BallotFlows
<1>3. CASE \E ref \in PendingAt(db, n) :
             LET t == NextTask(db, ref, u)
                 minted == [db EXCEPT !.tasks = @ \cup {SetState(t, verdict)}]
             IN  t.nth < MaxHops /\ Resolve(minted, t, verdict = "rejected")
  <2>1. PICK p \in PendingAt(db, n) :
          Resolve([db EXCEPT !.tasks = @ \cup {SetState(NextTask(db, p, u), verdict)}],
                  NextTask(db, p, u), verdict = "rejected")
    BY <1>3
  <2>2. p \in db.tasks /\ p.node \in Approvals /\ p.node \in db.current /\ p \in Pending(db)
    BY <1>1, TaskIsWhereFlowIs
  <2>3. PICK t : t = NextTask(db, p, u)  OBVIOUS
  <2>4. t.node = p.node  BY <2>2, <2>3, RowsAtRest, NextTaskIsTyped
  <2>5. PICK x : x = SetState(t, verdict)  OBVIOUS
  <2>6. PICK s : s = [db EXCEPT !.tasks = @ \cup {x}]  OBVIOUS
  <2>7. verdict \in TaskState /\ verdict # "pending" /\ verdict # "cancelled"  BY DEF TaskState
  <2>8. Sound(s)  BY <2>2, <2>3, <2>5, <2>6, <2>7, RowsAtRest, MintedIsSound
  <2>9. s.status = db.status /\ s.tokens = db.tokens /\ s.current = db.current
    BY <2>6, RowsAtRest, InstanceFields
  <2>10. PICK forced : forced = (verdict = "rejected")  OBVIOUS
  <2>11. Resolve(s, t, forced)  BY <2>1, <2>3, <2>5, <2>6, <2>10
  <2> QED  BY <1>1, <2>2, <2>4, <2>8, <2>9, <2>11, ResolveFlows
<1> QED  BY <1>2, <1>3 DEF Review

\* Handing a task over leaves the flow where it is.
LEMMA TransferFlows ==
  ASSUME RoundsInv, ~held, db.status = "running", NEW t \in Pending(db), NEW v, Transfer(t, v)
  PROVE  FlowsOn
<1>1. PICK st \in TaskState : st = "transferred" /\ st # "pending"  BY DEF TaskState
<1>2. PICK s : s = Close(db, {t}, st)  OBVIOUS
<1>3. PICK x : x = NextTask(db, t, v)  OBVIOUS
<1>4. PICK c : c = [s EXCEPT !.tasks = s.tasks \cup {x}]  OBVIOUS
<1>5. Save(c)  BY <1>1, <1>2, <1>3, <1>4 DEF Transfer
<1>6. s \in Instance  BY <1>1, <1>2, RowsAtRest, VotedIsSound DEF Sound
<1>7. s.status = db.status /\ s.tokens = db.tokens /\ s.current = db.current
  <2>1. PICK T : T = {t}  OBVIOUS
  <2> QED  BY <1>2, <2>1, RowsAtRest, CloseFields
<1>8. c.status = db.status /\ c.tokens = db.tokens /\ c.current = db.current
  BY <1>4, <1>6, <1>7, InstanceFields
<1> QED  BY <1>5, <1>8, SaveFlows DEF Ended

\* CompleteTask and TransferTask.
LEMMA TaskFlows ==
  ASSUME RoundsInv, NEW t \in db.tasks,
         \/ \E verdict \in {"approved", "rejected"} : Vote(t, verdict)
         \/ Withdraw(t)
         \/ \E v \in Users : TransferTask(t, v)
  PROVE  FlowsOn
<1>1. CASE \E verdict \in {"approved", "rejected"} : Vote(t, verdict)
  BY <1>1, BallotFlows DEF Vote, Locked
<1>2. CASE Withdraw(t)
  <2>1. ~held /\ db.status = "running" /\ t \in Pending(db)  BY <1>2 DEF Withdraw, Locked
  <2>2. PICK st \in TaskState : st = "withdrawn" /\ st # "pending"  BY DEF TaskState
  <2>3. PICK s : s = Close(db, {t}, st)  OBVIOUS
  <2>4. Sound(s)  BY <2>1, <2>2, <2>3, RowsAtRest, VotedIsSound
  <2>5. PICK c : c = Terminated(s)  OBVIOUS
  <2>6. Save(c)  BY <1>2, <2>2, <2>3, <2>5 DEF Withdraw
  <2>7. c.status = "terminated"  BY <2>4, <2>5, TerminatedFields
  <2> QED  BY <2>1, <2>6, <2>7, SaveFlows DEF Ended
<1>3. CASE \E v \in Users : TransferTask(t, v)
  BY <1>3, TransferFlows DEF TransferTask, Locked
<1> QED  BY <1>1, <1>2, <1>3

\* RollbackTask.
LEMMA RollbackTaskFlows ==
  ASSUME RoundsInv, NEW t \in db.tasks, NEW target \in Approvals, RollbackTask(t, target)
  PROVE  FlowsOn
<1>1. /\ ~held /\ db.status = "running" /\ t \in Pending(db) /\ db.current = {t.node}
  BY DEF RollbackTask, Locked
<1>2. PICK a : a = CancelAll(db)  OBVIOUS
<1>3. PICK h : h = [action |-> "rollback", node |-> t.node, round |-> t.round]  OBVIOUS
<1>4. PICK c : c = [a EXCEPT !.current = {}, !.notes = a.notes \cup {h}]  OBVIOUS
<1>5. PICK q : q = <<[node |-> target, from |-> NoNode]>>  OBVIOUS
<1>6. a \in Instance /\ a.tokens = db.tokens  BY <1>2, RowsAtRest, CancelAllIsSound DEF Sound
<1>7. Run(c, q)  BY <1>2, <1>3, <1>4, <1>5, <1>6 DEF RollbackTask
<1>8. c.tokens = db.tokens /\ c.current = {}  BY <1>4, <1>6, InstanceFields
<1>9. PICK n : n = t.node  OBVIOUS
<1>10. n \in Approvals  BY <1>1, <1>9, TaskIsWhereFlowIs
<1>11. Returns(n, target, db, <<>>, c, q)
  BY <1>1, <1>5, <1>8, <1>9, <1>10 DEF Returns, SameTokens
<1>12. Departs(db, <<>>, c, q)  BY <1>9, <1>11 DEF Departs
<1> QED  BY <1>1, <1>7, <1>12, RunFlows DEF Ended

\* SkipApplicationApproval and TransferApplicationApproval.
LEMMA ApplicationFlows ==
  ASSUME RoundsInv, NEW n \in Approvals,
         SkipApplication(n) \/ \E u, v \in Users : TransferApplication(n, u, v)
  PROVE  FlowsOn
<1>1. CASE SkipApplication(n)
  <2>1. ~held /\ db.status = "running" /\ n \in db.current
    BY <1>1 DEF SkipApplication, Locked, IsCurrentApproval
  <2>2. PICK k : k = {[action |-> "skip", node |-> n, round |-> t.round] : t \in PendingAt(db, n)}
    OBVIOUS
  <2>3. PICK a : a = CancelAt(db, n)  OBVIOUS
  <2>4. PICK b : b = [a EXCEPT !.notes = a.notes \cup k]  OBVIOUS
  <2>5. PICK c : c = [b EXCEPT !.current = b.current \ {n}]  OBVIOUS
  <2>6. PICK q : q = Arrivals(n)  OBVIOUS
  <2>7. Run(c, q)  BY <1>1, <2>2, <2>3, <2>4, <2>5, <2>6 DEF SkipApplication, LeaveNode
  <2>8. a \in Instance /\ a.tokens = db.tokens /\ a.current = db.current
    BY <2>3, RowsAtRest, CancelAtIsSound DEF Sound
  <2>9. c.tokens = db.tokens /\ c.current = db.current \ {n}
    BY <2>4, <2>5, <2>8, InstanceFields
  <2>10. Leaves(n, db, <<>>, c, q)  BY <2>1, <2>6, <2>9 DEF Leaves, SameTokens
  <2> QED  BY <2>1, <2>7, <2>10, RunFlows DEF Departs, Ended
<1>2. CASE \E u, v \in Users : TransferApplication(n, u, v)
  <2>1. ~held /\ db.status = "running"  BY <1>2 DEF TransferApplication, Locked
  <2>2. PICK v \in Users : \E t \in PendingAt(db, n) : Transfer(t, v)
    BY <1>2 DEF TransferApplication
  <2> QED  BY <2>1, <2>2, TransferFlows DEF PendingAt
<1> QED  BY <1>1, <1>2

\* Terminate, Suspend and Resume.
LEMMA LifecycleFlows ==
  ASSUME RoundsInv, Terminate \/ Suspend \/ Resume
  PROVE  FlowsOn
<1>1. CASE Terminate
  <2>1. PICK c : c = Terminated(db)  OBVIOUS
  <2>2. ~held /\ db.status \in Live /\ Save(c)  BY <1>1, <2>1 DEF Terminate, Locked
  <2>3. c.status = "terminated"  BY <2>1, RowsAtRest, TerminatedFields
  <2> QED  BY <2>2, <2>3, SaveFlows DEF Live, Ended
<1>2. CASE Suspend \/ Resume
  <2>1. PICK st \in Live : Save([db EXCEPT !.status = st]) /\ ~held /\ db.status \in Live
    BY <1>2 DEF Suspend, Resume, Locked, Live
  <2>2. PICK c : c = [db EXCEPT !.status = st]  OBVIOUS
  <2>3. c.tokens = db.tokens /\ c.current = db.current /\ c.status = st
    BY <2>2, RowsAtRest, InstanceFields
  <2> QED  BY <2>1, <2>2, <2>3, SaveFlows DEF Live, Ended
<1> QED  BY <1>1, <1>2

\* Every step is one of these moves, is rolled back, or ends the instance.
LEMMA NextFlows ==
  ASSUME RoundsInv, [Next]_vars
  PROVE  FlowsOn
<1>1. CASE GenericTask  BY <1>1, TaskFlows, RollbackTaskFlows DEF GenericTask
<1>2. CASE Application  BY <1>2, ApplicationFlows, ReviewFlows DEF Application
<1>3. CASE Abort  BY <1>3 DEF Abort, FlowsOn
<1>4. CASE UNCHANGED vars  BY <1>4 DEF vars, FlowsOn, Moves, Rests, SameTokens
<1> QED
  BY <1>1, <1>2, <1>3, <1>4, StartFlows, WalkFlows, CommitFlows, LifecycleFlows DEF Next

-------------------------------------------------------------------------------
(* The parts of the flow keep apart.                                         *)

\* Nothing is beside itself, and being beside each other is mutual.
LEMMA BesideIsMutual ==
  ASSUME NEW B, KeepsApart(B), NEW x, NEW y, <<x, y>> \in B
  PROVE  x # y /\ <<y, x>> \in B
<1>1. \A z \in B : z[1] # z[2] /\ <<z[2], z[1]>> \in B  BY DEF KeepsApart
<1>2. PICK z \in B : z = <<x, y>>  OBVIOUS
<1> QED  BY <1>1, <1>2

\* What comes out of a node together is apart.
LEMMA OutletsAreApart ==
  ASSUME NEW B, KeepsApart(B), NEW n \in Nodes, Kind[n] # "exclusive_gateway",
         NEW i \in DOMAIN Out[n], NEW k \in DOMAIN Out[n]
  PROVE  i = k \/ <<Outlet(n, i), Outlet(n, k)>> \in B
BY DEF KeepsApart

\* A join has an edge into it.
LEMMA JoinHasEdges ==
  ASSUME NEW n \in Joins
  PROVE  /\ n \in Nodes /\ Kind[n] = "parallel_gateway" /\ \E p \in Nodes : p \in Preds(n)
         /\ \A p \in Preds(n) : <<p, n>> \in JoinEdges
<1>1. n \in Nodes /\ Kind[n] = "parallel_gateway" /\ Cardinality(Preds(n)) >= 2  BY DEF Joins
<1>2. Preds(n) # {}  BY <1>1, FS_EmptySet
<1> QED  BY <1>1, <1>2 DEF Preds, JoinEdges

\* The places a node takes its arrivals from.
Inlets(n) == IF n \in Joins THEN {<<p, n>> : p \in Preds(n)} ELSE {<<n, n>>}
Aside(B, n, y) == \A x \in Inlets(n) : <<x, y>> \in B

\* What comes out of a node is beside all that what came in was beside.
LEMMA OutletsStayAside ==
  ASSUME NEW B, KeepsApart(B), NEW n \in Nodes, NEW y, Aside(B, n, y)
  PROVE  \A i \in DOMAIN Out[n] : <<Outlet(n, i), y>> \in B
<1>1. CASE n \notin Joins
  <2>1. PICK x : x = <<<<n, n>>, y>>  OBVIOUS
  <2>2. x \in B /\ x[1] = <<n, n>> /\ x[2] = y  BY <1>1, <2>1 DEF Aside, Inlets
  <2>3. \A z \in B : z[1] = <<n, n>> => \A i \in DOMAIN Out[n] : <<Outlet(n, i), z[2]>> \in B
    BY <1>1 DEF KeepsApart
  <2> QED  BY <2>2, <2>3
<1>2. CASE n \in Joins
  <2>1. PICK p : p \in Preds(n)  BY <1>2, JoinHasEdges
  <2>2. \A r \in Preds(n) : <<<<r, n>>, y>> \in B  BY <1>2 DEF Aside, Inlets
  <2>3. PICK x : x = <<<<p, n>>, y>>  OBVIOUS
  <2>4. x \in B /\ x[2] = y  BY <2>1, <2>2, <2>3
  <2>5. \A z \in B : (\A r \in Preds(n) : <<<<r, n>>, z[2]>> \in B) =>
                       \A i \in DOMAIN Out[n] : <<Outlet(n, i), z[2]>> \in B
    BY <1>2 DEF KeepsApart
  <2> QED  BY <2>2, <2>4, <2>5
<1> QED  BY <1>1, <1>2

\* What follows from a node comes out of it.
ComesFrom(n, next) ==
  /\ next \in Seq(Arrival)
  /\ \A k \in DOMAIN next : \E i \in DOMAIN Out[n] : PlaceOf(next[k]) = Outlet(n, i)
  /\ Kind[n] # "exclusive_gateway" => /\ DOMAIN next = DOMAIN Out[n]
                                      /\ \A k \in DOMAIN Out[n] : PlaceOf(next[k]) = Outlet(n, k)
  /\ Kind[n] = "exclusive_gateway" => DOMAIN next = {1}

LEMMA FollowsComesFrom ==
  ASSUME NEW n \in Nodes, NEW next, Follows(n, next)
  PROVE  ComesFrom(n, next)
<1>1. Out[n] \in Seq(Nodes)  BY GraphAssumption
<1>2. CASE Kind[n] # "exclusive_gateway" /\ next = Arrivals(n)
  <2>1. next \in Seq(Arrival)  BY <1>2, ArrivalsAreTyped
  <2>2. DOMAIN next = DOMAIN Out[n]  BY <1>1, <1>2 DEF Arrivals
  <2>3. \A k \in DOMAIN Out[n] : next[k] = [node |-> Out[n][k], from |-> n]
    BY <1>1, <1>2 DEF Arrivals
  <2>4. \A k \in DOMAIN Out[n] : PlaceOf(next[k]) = Outlet(n, k)
    <3> SUFFICES ASSUME NEW k \in DOMAIN Out[n]  PROVE PlaceOf(next[k]) = Outlet(n, k)
      OBVIOUS
    <3>1. PICK m : m = Out[n][k]  OBVIOUS
    <3>2. next[k] = [node |-> m, from |-> n]  BY <2>3, <3>1
    <3>3. next[k].node = m /\ next[k].from = n  BY <3>2
    <3> QED  BY <3>1, <3>3 DEF PlaceOf, Outlet
  <2> QED  BY <1>2, <2>1, <2>2, <2>4 DEF ComesFrom
<1>3. CASE /\ Kind[n] = "exclusive_gateway"
           /\ \E i \in DOMAIN Out[n] : next = <<[node |-> Out[n][i], from |-> n]>>
  <2>1. PICK i \in DOMAIN Out[n] : next = <<[node |-> Out[n][i], from |-> n]>>  BY <1>3
  <2>2. PICK x : x = [node |-> Out[n][i], from |-> n]  OBVIOUS
  <2>3. Out[n][i] \in Nodes  BY <1>1
  <2>4. x \in Arrival  BY <2>2, <2>3 DEF Arrival
  <2>5. next = <<x>> /\ next \in Seq(Arrival)  BY <2>1, <2>2, <2>4
  <2>6. DOMAIN next = {1} /\ next[1] = x  BY <2>5
  <2>7. PlaceOf(x) = Outlet(n, i)  BY <2>2 DEF PlaceOf, Outlet
  <2> QED  BY <1>3, <2>5, <2>6, <2>7 DEF ComesFrom
<1> QED  BY <1>2, <1>3 DEF Follows

\* Where the arrivals are after a turn of the loop: l old ones, then the new ones.
Shifts(l, q, next, c) ==
  \A i \in DOMAIN c : /\ i \in Nat
                      /\ i <= l => i + 1 \in DOMAIN q /\ i + 1 # 1 /\ c[i] = q[i + 1]
                      /\ i > l => i - l \in DOMAIN next /\ c[i] = next[i - l]
Holds(c, q) == \A k \in DOMAIN q : \E i \in DOMAIN c : c[i] = q[k]
Retains(c, q) == \A k \in DOMAIN q : k # 1 => \E i \in DOMAIN c : c[i] = q[k]

LEMMA QueueShifts ==
  ASSUME NEW q \in Seq(Arrival), q # <<>>, NEW next \in Seq(Arrival), NEW c, c = Tail(q) \o next
  PROVE  /\ 1 \in DOMAIN q /\ Head(q) = q[1] /\ c \in Seq(Arrival)
         /\ \E l \in Nat : Shifts(l, q, next, c)
         /\ Retains(c, q) /\ Holds(c, next)
<1>1. /\ Len(q) \in Nat /\ Len(q) >= 1 /\ Tail(q) \in Seq(Arrival) /\ Len(Tail(q)) = Len(q) - 1
      /\ \A k \in 1..(Len(q) - 1) : Tail(q)[k] = q[k + 1]
  OBVIOUS
<1>2. PICK l : l = Len(q) - 1  OBVIOUS
<1>3. PICK m : m = Len(next)  OBVIOUS
<1>4. l \in Nat /\ m \in Nat
  <2>1. \A k \in Nat : k >= 1 => k - 1 \in Nat  OBVIOUS
  <2>2. Len(next) \in Nat  OBVIOUS
  <2> QED  BY <1>1, <1>2, <1>3, <2>1, <2>2
<1>5. DOMAIN q = 1..(l + 1) /\ DOMAIN next = 1..m /\ DOMAIN c = 1..(l + m)
  BY <1>1, <1>2, <1>3
<1>6. \A i \in 1..l : c[i] = q[i + 1]  BY <1>1, <1>2
<1>7. \A i \in 1..(l + m) : i > l => c[i] = next[i - l]  BY <1>1, <1>2, <1>3
<1>8. \A i \in 1..(l + m) : i > l => i - l \in 1..m  BY <1>4
<1>9. \A k \in 1..(l + 1) : k # 1 => k - 1 \in 1..l /\ k - 1 \in 1..(l + m) /\ k = (k - 1) + 1
  BY <1>4
<1>10. \A k \in 1..m : k + l \in 1..(l + m) /\ k + l > l /\ (k + l) - l = k  BY <1>4
<1>11. \A i \in 1..(l + m) : i \in Nat /\ (i <= l => i \in 1..l /\ i + 1 \in 1..(l + 1) /\ i + 1 # 1)
  BY <1>4
<1>12. c \in Seq(Arrival) /\ Head(q) = q[1] /\ 1 \in DOMAIN q  BY <1>1
<1>13. \A k \in 1..(l + 1) : k # 1 => \E i \in 1..(l + m) : c[i] = q[k]  BY <1>6, <1>9
<1>14. \A k \in 1..m : \E i \in 1..(l + m) : c[i] = next[k]  BY <1>7, <1>10
<1>15. Shifts(l, q, next, c)  BY <1>5, <1>6, <1>7, <1>8, <1>11 DEF Shifts
<1>16. Holds(c, next)  BY <1>5, <1>14 DEF Holds
<1>17. Retains(c, q)  BY <1>5, <1>13 DEF Retains
<1> QED  BY <1>4, <1>12, <1>15, <1>16, <1>17

\* A turn of the loop that adds to what waits at most where its arrival was keeps
\* the parts of the flow apart, if what follows is.
LEMMA TurnKeepsApart ==
  ASSUME NEW B, KeepsApart(B), NEW q \in Seq(Arrival), q # <<>>,
         NEW next \in Seq(Arrival), NEW c, c = Tail(q) \o next,
         NEW S, Apart(B, S, q), NEW T, T \subseteq S \cup {PlaceOf(Head(q))},
         \A i \in DOMAIN next, x \in T : <<PlaceOf(next[i]), x>> \in B,
         \A i \in DOMAIN next, k \in DOMAIN q :
           k # 1 => <<PlaceOf(next[i]), PlaceOf(q[k])>> \in B,
         \A i, k \in DOMAIN next : i = k \/ <<PlaceOf(next[i]), PlaceOf(next[k])>> \in B
  PROVE  Apart(B, T, c)
<1>1. 1 \in DOMAIN q /\ Head(q) = q[1]  BY QueueShifts
<1>s. PICK l \in Nat : Shifts(l, q, next, c)  BY QueueShifts
<1>2. \A i \in DOMAIN c : /\ i \in Nat
                          /\ i <= l => i + 1 \in DOMAIN q /\ i + 1 # 1 /\ c[i] = q[i + 1]
                          /\ i > l => i - l \in DOMAIN next /\ c[i] = next[i - l]
  BY <1>s DEF Shifts
<1>c. \A i \in Nat : i <= l \/ i > l  OBVIOUS
<1>3. /\ \A x, y \in S : x = y \/ <<x, y>> \in B
      /\ \A i \in DOMAIN q, x \in S : <<PlaceOf(q[i]), x>> \in B
      /\ \A i, k \in DOMAIN q : i = k \/ <<PlaceOf(q[i]), PlaceOf(q[k])>> \in B
  BY DEF Apart
<1>4. \A x, y : <<x, y>> \in B => <<y, x>> \in B  BY BesideIsMutual
<1>5. \A x, y \in T : x = y \/ <<x, y>> \in B
  <2>1. \A x \in S : <<PlaceOf(Head(q)), x>> \in B  BY <1>1, <1>3
  <2> QED  BY <1>3, <1>4, <2>1
<1>6. ASSUME NEW i \in DOMAIN c, NEW x \in T  PROVE <<PlaceOf(c[i]), x>> \in B
  <2>1. CASE i <= l
    <3>1. i + 1 \in DOMAIN q /\ i + 1 # 1 /\ c[i] = q[i + 1]  BY <1>2, <2>1
    <3>2. x \in S \/ x = PlaceOf(q[1])  BY <1>1
    <3> QED  BY <1>1, <1>3, <3>1, <3>2
  <2>2. CASE i > l
    <3>1. i - l \in DOMAIN next /\ c[i] = next[i - l]  BY <1>2, <2>2
    <3> QED  BY <3>1
  <2> QED  BY <1>2, <1>c, <2>1, <2>2
<1>7. ASSUME NEW i \in DOMAIN c, NEW k \in DOMAIN c, i # k
      PROVE  <<PlaceOf(c[i]), PlaceOf(c[k])>> \in B
  <2>1. i \in Nat /\ k \in Nat  BY <1>2
  <2>2. CASE i <= l /\ k <= l
    <3>1. i + 1 \in DOMAIN q /\ c[i] = q[i + 1] /\ k + 1 \in DOMAIN q /\ c[k] = q[k + 1]
      BY <1>2, <2>2
    <3>2. i + 1 # k + 1  BY <1>7, <2>1
    <3> QED  BY <1>3, <3>1, <3>2
  <2>3. CASE i > l /\ k <= l
    <3>1. i - l \in DOMAIN next /\ c[i] = next[i - l]  BY <1>2, <2>3
    <3>2. k + 1 \in DOMAIN q /\ k + 1 # 1 /\ c[k] = q[k + 1]  BY <1>2, <2>3
    <3> QED  BY <3>1, <3>2
  <2>4. CASE i <= l /\ k > l
    <3>1. k - l \in DOMAIN next /\ c[k] = next[k - l]  BY <1>2, <2>4
    <3>2. i + 1 \in DOMAIN q /\ i + 1 # 1 /\ c[i] = q[i + 1]  BY <1>2, <2>4
    <3> QED  BY <1>4, <3>1, <3>2
  <2>5. CASE i > l /\ k > l
    <3>1. i - l \in DOMAIN next /\ c[i] = next[i - l]  BY <1>2, <2>5
    <3>2. k - l \in DOMAIN next /\ c[k] = next[k - l]  BY <1>2, <2>5
    <3>3. i - l # k - l  BY <1>7, <2>1
    <3> QED  BY <3>1, <3>2, <3>3
  <2> QED  BY <1>c, <2>1, <2>2, <2>3, <2>4, <2>5
<1> QED  BY <1>5, <1>6, <1>7 DEF Apart

\* Where an instance waits after its active nodes have changed and its tokens have not.
LEMMA WaitingMoves ==
  ASSUME NEW s, NEW c, SameTokens(s, c), NEW n, n \notin Joins
  PROVE  /\ c.current = s.current => WaitingAt(c) = WaitingAt(s)
         /\ c.current = s.current \ {n} => WaitingAt(c) = WaitingAt(s) \ {<<n, n>>}
         /\ c.current = s.current \cup {n} => WaitingAt(c) = WaitingAt(s) \cup {<<n, n>>}
<1>1. \A e \in JoinEdges : e # <<n, n>>  BY DEF JoinEdges
<1> QED  BY <1>1 DEF WaitingAt, SameTokens

\* Only the joins that are active and the tokens matter to waiting.
LEMMA WaitsOn ==
  ASSUME NEW s, WaitsForTokens(s), NEW c, SameTokens(s, c),
         \A j \in Joins : j \in c.current <=> j \in s.current
  PROVE  WaitsForTokens(c)
BY DEF WaitsForTokens, SameTokens

\* No arrival is nothing to keep apart.
LEMMA NoArrival ==
  <<>> \in Seq(Arrival) /\ \A i \in DOMAIN <<>> : FALSE
OBVIOUS

\* An approval that becomes active stands where its arrival was.
LEMMA StaysApart ==
  ASSUME NEW B, KeepsApart(B), NEW s, NEW q \in Seq(Arrival), IsApart(B, s, q),
         NEW c, NEW p, NEW n, Stays(n, s, q, c, p)
  PROVE  IsApart(B, c, p)
<1>1. /\ n \in Approvals /\ q # <<>> /\ Head(q).node = n /\ SameTokens(s, c)
      /\ c.current = s.current \cup {n} /\ p = Tail(q) \o <<>>
  BY DEF Stays, Takes
<1>2. n \notin Joins  BY <1>1, JoinsDoNotVote
<1>3. WaitingAt(c) = WaitingAt(s) \cup {<<n, n>>}  BY <1>1, <1>2, WaitingMoves
<1>4. PlaceOf(Head(q)) = <<n, n>>  BY <1>1, <1>2 DEF PlaceOf, Place
<1>5. PICK none : none = <<>>  OBVIOUS
<1>6. none \in Seq(Arrival) /\ \A i \in DOMAIN none : FALSE  BY <1>5, NoArrival
<1>7. Apart(B, WaitingAt(s), q)  BY DEF IsApart
<1>8. Apart(B, WaitingAt(c), p)
  <2>1. p = Tail(q) \o none  BY <1>1, <1>5
  <2>2. WaitingAt(c) \subseteq WaitingAt(s) \cup {PlaceOf(Head(q))}  BY <1>3, <1>4
  <2>3. /\ \A i \in DOMAIN none, x \in WaitingAt(c) : <<PlaceOf(none[i]), x>> \in B
        /\ \A i \in DOMAIN none, k \in DOMAIN q :
             k # 1 => <<PlaceOf(none[i]), PlaceOf(q[k])>> \in B
        /\ \A i, k \in DOMAIN none : i = k \/ <<PlaceOf(none[i]), PlaceOf(none[k])>> \in B
    BY <1>6
  <2> QED  BY <1>1, <1>6, <1>7, <2>1, <2>2, <2>3, TurnKeepsApart
<1>9. WaitsForTokens(c)  BY <1>1, <1>2, WaitsOn DEF IsApart
<1> QED  BY <1>1, <1>8, <1>9 DEF IsApart, SameTokens

\* What comes out of a node is apart from all that its inlets were apart from.
LEMMA ComesFromApart ==
  ASSUME NEW B, KeepsApart(B), NEW n \in Nodes, NEW next, ComesFrom(n, next)
  PROVE  /\ \A y : Aside(B, n, y) => \A i \in DOMAIN next : <<PlaceOf(next[i]), y>> \in B
         /\ \A i, k \in DOMAIN next : i = k \/ <<PlaceOf(next[i]), PlaceOf(next[k])>> \in B
<1>1. ASSUME NEW y, Aside(B, n, y), NEW i \in DOMAIN next
      PROVE  <<PlaceOf(next[i]), y>> \in B
  <2>1. PICK k \in DOMAIN Out[n] : PlaceOf(next[i]) = Outlet(n, k)  BY DEF ComesFrom
  <2>2. <<Outlet(n, k), y>> \in B  BY <1>1, OutletsStayAside
  <2> QED  BY <2>1, <2>2
<1>2. ASSUME NEW i \in DOMAIN next, NEW k \in DOMAIN next, i # k
      PROVE  <<PlaceOf(next[i]), PlaceOf(next[k])>> \in B
  <2>1. CASE Kind[n] = "exclusive_gateway"
    <3>1. DOMAIN next = {1}  BY <2>1 DEF ComesFrom
    <3> QED  BY <1>2, <3>1
  <2>2. CASE Kind[n] # "exclusive_gateway"
    <3>1. i \in DOMAIN Out[n] /\ k \in DOMAIN Out[n]  BY <2>2 DEF ComesFrom
    <3>2. PlaceOf(next[i]) = Outlet(n, i) /\ PlaceOf(next[k]) = Outlet(n, k)
      BY <2>2, <3>1 DEF ComesFrom
    <3> QED  BY <1>2, <2>2, <3>1, <3>2, OutletsAreApart
  <2> QED  BY <2>1, <2>2
<1> QED  BY <1>1, <1>2

\* Passing a node.
LEMMA PassesApart ==
  ASSUME NEW B, KeepsApart(B), NEW s, NEW q \in Seq(Arrival), IsApart(B, s, q),
         NEW c, NEW p, NEW n, NEW next, Crosses(n, next, s, q, c, p)
  PROVE  IsApart(B, c, p)
<1>1. /\ n \in Nodes /\ n \notin Joins /\ q # <<>> /\ Head(q).node = n /\ SameTokens(s, c)
      /\ c.current = s.current \ {n} /\ Follows(n, next) /\ p = Tail(q) \o next
  BY DEF Crosses, Takes
<1>2. WaitingAt(c) = WaitingAt(s) \ {<<n, n>>}  BY <1>1, WaitingMoves
<1>3. PlaceOf(Head(q)) = <<n, n>> /\ Head(q) = q[1] /\ 1 \in DOMAIN q
  BY <1>1 DEF PlaceOf, Place
<1>4. ComesFrom(n, next) /\ next \in Seq(Arrival)  BY <1>1, FollowsComesFrom DEF ComesFrom
<1>5. Apart(B, WaitingAt(s), q)  BY DEF IsApart
<1>6. \A y : <<PlaceOf(q[1]), y>> \in B => Aside(B, n, y)  BY <1>1, <1>3 DEF Aside, Inlets
<1>7. Apart(B, WaitingAt(c), p)
  <2>1. \A i \in DOMAIN next, x \in WaitingAt(c) : <<PlaceOf(next[i]), x>> \in B
    <3>1. \A x \in WaitingAt(c) : Aside(B, n, x)  BY <1>2, <1>3, <1>5, <1>6 DEF Apart
    <3> QED  BY <1>1, <1>4, <3>1, ComesFromApart
  <2>2. \A i \in DOMAIN next, k \in DOMAIN q : k # 1 => <<PlaceOf(next[i]), PlaceOf(q[k])>> \in B
    <3>1. \A k \in DOMAIN q : k # 1 => Aside(B, n, PlaceOf(q[k]))
      BY <1>3, <1>5, <1>6 DEF Apart
    <3> QED  BY <1>1, <1>4, <3>1, ComesFromApart
  <2>3. \A i, k \in DOMAIN next : i = k \/ <<PlaceOf(next[i]), PlaceOf(next[k])>> \in B
    BY <1>1, <1>4, ComesFromApart
  <2>4. WaitingAt(c) \subseteq WaitingAt(s) \cup {PlaceOf(Head(q))}  BY <1>2
  <2> QED  BY <1>1, <1>4, <1>5, <2>1, <2>2, <2>3, <2>4, TurnKeepsApart
<1>8. WaitsForTokens(c)  BY <1>1, WaitsOn DEF IsApart
<1> QED  BY <1>1, <1>7, <1>8 DEF IsApart, SameTokens

\* The arrival at a join stands before it; nothing else is on its edge.
LEMMA EdgeIsFree ==
  ASSUME NEW B, KeepsApart(B), NEW s \in Instance, NEW q \in Seq(Arrival), IsApart(B, s, q),
         NEW n \in Joins, Takes(n, q), NEW e \in JoinEdges, e = <<Head(q).from, n>>
  PROVE  /\ q # <<>> /\ 1 \in DOMAIN q /\ q[1] = Head(q) /\ PlaceOf(Head(q)) = e
         /\ s.tokens \in [JoinEdges -> Nat] /\ s.tokens[e] = 0
         /\ Arrived(s, e) \in [JoinEdges -> Nat] /\ Arrived(s, e)[e] = 1
         /\ \A d \in JoinEdges : d # e => Arrived(s, e)[d] = s.tokens[d]
<1>1. q # <<>> /\ Head(q).node = n  BY DEF Takes
<1>2. 1 \in DOMAIN q /\ q[1] = Head(q)  BY <1>1
<1>3. PlaceOf(Head(q)) = e  BY <1>1 DEF PlaceOf, Place
<1>4. s.tokens \in [JoinEdges -> Nat]  BY InstanceFields
<1>5. s.tokens[e] = 0
  <2> SUFFICES ASSUME s.tokens[e] > 0  PROVE FALSE
    BY <1>4
  <2>1. e \in WaitingAt(s)  BY DEF WaitingAt
  <2>2. <<PlaceOf(q[1]), e>> \in B  BY <1>2, <2>1 DEF IsApart, Apart
  <2> QED  BY <1>2, <1>3, <2>2, BesideIsMutual
<1>6. Arrived(s, e) \in [JoinEdges -> Nat]  BY TokensAreTyped
<1>7. Arrived(s, e)[e] = 1  BY <1>4, <1>5 DEF Arrived
<1>8. \A d \in JoinEdges : d # e => Arrived(s, e)[d] = s.tokens[d]  BY <1>4 DEF Arrived
<1> QED  BY <1>1, <1>2, <1>3, <1>4, <1>5, <1>6, <1>7, <1>8

\* A branch that is put in store.
LEMMA StoresApart ==
  ASSUME NEW B, KeepsApart(B), NEW s \in Instance, NEW q \in Seq(Arrival), IsApart(B, s, q),
         NEW c, NEW p, NEW n, NEW e, Stores(n, e, s, q, c, p)
  PROVE  IsApart(B, c, p) /\ WaitingAt(c) = WaitingAt(s) \cup {e}
<1>1. /\ n \in Joins /\ Takes(n, q) /\ e \in JoinEdges /\ e = <<Head(q).from, n>>
      /\ c.tokens = Arrived(s, e) /\ c.current = s.current \cup {n} /\ p = Tail(q) \o <<>>
  BY DEF Stores
<1>2. q # <<>> /\ PlaceOf(Head(q)) = e /\ s.tokens[e] = 0 /\ c.tokens[e] = 1
  BY <1>1, EdgeIsFree
<1>3. \A d \in JoinEdges : d # e => c.tokens[d] = s.tokens[d]
  BY <1>1, EdgeIsFree
<1>4. WaitingAt(c) = WaitingAt(s) \cup {e}
  <2>1. c.current \ Joins = s.current \ Joins  BY <1>1
  <2>2. \A d \in JoinEdges : c.tokens[d] > 0 <=> s.tokens[d] > 0 \/ d = e  BY <1>2, <1>3
  <2> QED  BY <1>1, <2>1, <2>2 DEF WaitingAt
<1>5. PICK none : none = <<>>  OBVIOUS
<1>6. none \in Seq(Arrival) /\ \A i \in DOMAIN none : FALSE  BY <1>5, NoArrival
<1>7. Apart(B, WaitingAt(s), q) /\ WaitsForTokens(s) /\ \A d \in JoinEdges : s.tokens[d] <= 1
  BY DEF IsApart
<1>8. Apart(B, WaitingAt(c), p)
  <2>1. p = Tail(q) \o none  BY <1>1, <1>5
  <2>2. WaitingAt(c) \subseteq WaitingAt(s) \cup {PlaceOf(Head(q))}  BY <1>2, <1>4
  <2>3. /\ \A i \in DOMAIN none, x \in WaitingAt(c) : <<PlaceOf(none[i]), x>> \in B
        /\ \A i \in DOMAIN none, k \in DOMAIN q :
             k # 1 => <<PlaceOf(none[i]), PlaceOf(q[k])>> \in B
        /\ \A i, k \in DOMAIN none : i = k \/ <<PlaceOf(none[i]), PlaceOf(none[k])>> \in B
    BY <1>6
  <2> QED  BY <1>2, <1>6, <1>7, <2>1, <2>2, <2>3, TurnKeepsApart
<1>9. WaitsForTokens(c)
  <2>1. e[2] = n  BY <1>1
  <2>2. c.tokens[e] > 0  BY <1>2
  <2>3. ASSUME NEW j \in Joins
        PROVE  j \in c.current <=> \E d \in JoinEdges : d[2] = j /\ c.tokens[d] > 0
    <3>1. CASE j = n  BY <1>1, <2>1, <2>2, <3>1
    <3>2. CASE j # n
      <4>1. \A d \in JoinEdges : d[2] = j => c.tokens[d] = s.tokens[d]  BY <1>3, <2>1, <3>2
      <4>2. j \in s.current <=> \E d \in JoinEdges : d[2] = j /\ s.tokens[d] > 0
        BY <1>7 DEF WaitsForTokens
      <4>3. j \in c.current <=> j \in s.current  BY <1>1, <3>2
      <4> QED  BY <4>1, <4>2, <4>3
    <3> QED  BY <3>1, <3>2
  <2> QED  BY <2>3 DEF WaitsForTokens
<1>10. \A d \in JoinEdges : c.tokens[d] <= 1  BY <1>2, <1>3, <1>7
<1> QED  BY <1>4, <1>8, <1>9, <1>10 DEF IsApart

\* A join that opens: all its edges are free again.
LEMMA OpensApart ==
  ASSUME NEW B, KeepsApart(B), NEW s \in Instance, NEW q \in Seq(Arrival), IsApart(B, s, q),
         NEW c, NEW p, NEW n, NEW e, Opens(n, e, s, q, c, p)
  PROVE  /\ IsApart(B, c, p) /\ WaitingAt(c) = WaitingAt(s) \ Inlets(n)
         /\ \A d \in JoinEdges : c.tokens[d] = IF d[2] = n THEN 0 ELSE s.tokens[d]
         /\ Inlets(n) \subseteq WaitingAt(s) \cup {PlaceOf(Head(q))}
<1>1. /\ n \in Joins /\ Takes(n, q) /\ e \in JoinEdges /\ e = <<Head(q).from, n>>
      /\ c.tokens = Released(Arrived(s, e), n) /\ AllIn(Arrived(s, e), n)
      /\ c.current = s.current \ {n} /\ p = Tail(q) \o Arrivals(n)
  BY DEF Opens
<1>2. /\ q # <<>> /\ 1 \in DOMAIN q /\ q[1] = Head(q) /\ PlaceOf(Head(q)) = e
      /\ s.tokens \in [JoinEdges -> Nat] /\ s.tokens[e] = 0 /\ Arrived(s, e)[e] = 1
  BY <1>1, EdgeIsFree
<1>3. \A d \in JoinEdges : d # e => Arrived(s, e)[d] = s.tokens[d]  BY <1>1, EdgeIsFree
<1>4. Apart(B, WaitingAt(s), q) /\ WaitsForTokens(s) /\ \A d \in JoinEdges : s.tokens[d] <= 1
  BY DEF IsApart
<1>5. \A d \in JoinEdges : d[2] = n => Arrived(s, e)[d] = 1
  <2> SUFFICES ASSUME NEW d \in JoinEdges, d[2] = n  PROVE Arrived(s, e)[d] = 1
    OBVIOUS
  <2>1. PICK r : r \in Preds(n) /\ d = <<r, n>>  BY DEF JoinEdges
  <2>2. Arrived(s, e)[d] >= 1  BY <1>1, <2>1 DEF AllIn
  <2>3. CASE d = e  BY <1>2, <2>3
  <2>4. CASE d # e
    <3>1. Arrived(s, e)[d] = s.tokens[d] /\ s.tokens[d] \in Nat /\ s.tokens[d] <= 1
      BY <1>2, <1>3, <1>4, <2>4
    <3> QED  BY <2>2, <3>1
  <2> QED  BY <2>3, <2>4
<1>6. \A d \in JoinEdges : c.tokens[d] = IF d[2] = n THEN 0 ELSE s.tokens[d]
  <2> SUFFICES ASSUME NEW d \in JoinEdges
               PROVE  c.tokens[d] = IF d[2] = n THEN 0 ELSE s.tokens[d]
    OBVIOUS
  <2>1. c.tokens[d] = IF d[2] = n THEN Arrived(s, e)[d] - 1 ELSE Arrived(s, e)[d]
    BY <1>1 DEF Released
  <2>2. d[2] # n => d # e  BY <1>1
  <2> QED  BY <1>3, <1>5, <2>1, <2>2
<1>7. Inlets(n) = {d \in JoinEdges : d[2] = n}
  BY <1>1, JoinHasEdges DEF Inlets, JoinEdges
<1>8. WaitingAt(c) = WaitingAt(s) \ Inlets(n)
  <2>1. c.current \ Joins = s.current \ Joins  BY <1>1
  <2>2. \A d \in JoinEdges : c.tokens[d] > 0 <=> s.tokens[d] > 0 /\ d[2] # n  BY <1>2, <1>6
  <2>3. \A m \in s.current \ Joins : <<m, m>> \notin Inlets(n)  BY <1>1, <1>7
  <2> QED  BY <1>7, <2>1, <2>2, <2>3 DEF WaitingAt
<1>9. Inlets(n) \subseteq WaitingAt(s) \cup {e}
  <2> SUFFICES ASSUME NEW d \in JoinEdges, d[2] = n, d # e  PROVE d \in WaitingAt(s)
    BY <1>7
  <2>1. s.tokens[d] = 1  BY <1>3, <1>5
  <2> QED  BY <2>1 DEF WaitingAt
<1>10. ComesFrom(n, Arrivals(n)) /\ Arrivals(n) \in Seq(Arrival) /\ n \in Nodes
  <2>1. n \in Nodes /\ Kind[n] # "exclusive_gateway"  BY <1>1, JoinHasEdges
  <2> QED  BY <2>1, FollowsComesFrom, ArrivalsAreTyped DEF Follows
<1>11. Apart(B, WaitingAt(c), p)
  <2>1. PICK next \in Seq(Arrival) : next = Arrivals(n)  BY <1>10
  <2>2. ComesFrom(n, next) /\ p = Tail(q) \o next  BY <1>1, <1>10, <2>1
  <2>3. \A i \in DOMAIN next, x \in WaitingAt(c) : <<PlaceOf(next[i]), x>> \in B
    <3>1. ASSUME NEW x \in WaitingAt(c)  PROVE Aside(B, n, x)
      <4>1. x \in WaitingAt(s) /\ x \notin Inlets(n)  BY <1>8
      <4>2. <<e, x>> \in B  BY <1>2, <1>4, <4>1 DEF Apart
      <4>3. \A y \in Inlets(n) : y \in WaitingAt(s) => <<y, x>> \in B  BY <1>4, <4>1 DEF Apart
      <4> QED  BY <1>9, <4>2, <4>3 DEF Aside
    <3> QED  BY <1>10, <2>2, <3>1, ComesFromApart
  <2>4. \A i \in DOMAIN next, k \in DOMAIN q : k # 1 => <<PlaceOf(next[i]), PlaceOf(q[k])>> \in B
    <3>1. ASSUME NEW k \in DOMAIN q, k # 1  PROVE Aside(B, n, PlaceOf(q[k]))
      <4>1. <<e, PlaceOf(q[k])>> \in B  BY <1>2, <1>4, <3>1 DEF Apart
      <4>2. \A y \in WaitingAt(s) : <<PlaceOf(q[k]), y>> \in B  BY <1>4 DEF Apart
      <4>3. \A y \in WaitingAt(s) : <<y, PlaceOf(q[k])>> \in B  BY <4>2, BesideIsMutual
      <4> QED  BY <1>9, <4>1, <4>3 DEF Aside
    <3> QED  BY <1>10, <2>2, <3>1, ComesFromApart
  <2>5. \A i, k \in DOMAIN next : i = k \/ <<PlaceOf(next[i]), PlaceOf(next[k])>> \in B
    BY <1>10, <2>2, ComesFromApart
  <2>6. WaitingAt(c) \subseteq WaitingAt(s) \cup {PlaceOf(Head(q))}  BY <1>8
  <2> QED  BY <1>2, <1>4, <2>2, <2>3, <2>4, <2>5, <2>6, TurnKeepsApart
<1>12. WaitsForTokens(c)
  <2> SUFFICES ASSUME NEW j \in Joins
               PROVE  j \in c.current <=> \E d \in JoinEdges : d[2] = j /\ c.tokens[d] > 0
    BY DEF WaitsForTokens
  <2>1. CASE j = n  BY <1>1, <1>6, <2>1
  <2>2. CASE j # n
    <3>1. \A d \in JoinEdges : d[2] = j => c.tokens[d] = s.tokens[d]  BY <1>6, <2>2
    <3>2. j \in s.current <=> \E d \in JoinEdges : d[2] = j /\ s.tokens[d] > 0
      BY <1>4 DEF WaitsForTokens
    <3>3. j \in c.current <=> j \in s.current  BY <1>1, <2>2
    <3> QED  BY <3>1, <3>2, <3>3
  <2> QED  BY <2>1, <2>2
<1>13. \A d \in JoinEdges : c.tokens[d] <= 1  BY <1>4, <1>6
<1> QED  BY <1>2, <1>6, <1>8, <1>9, <1>11, <1>12, <1>13 DEF IsApart

\* The flow leaves an approval between transactions.
LEMMA LeavesApart ==
  ASSUME NEW B, KeepsApart(B), NEW s, NEW q, IsApart(B, s, q),
         NEW c, NEW p, NEW n, Leaves(n, s, q, c, p)
  PROVE  IsApart(B, c, p) /\ WaitingAt(c) = WaitingAt(s) \ {<<n, n>>} /\ <<n, n>> \in WaitingAt(s)
<1>1. /\ n \in Approvals /\ n \in s.current /\ SameTokens(s, c)
      /\ c.current = s.current \ {n} /\ p = Arrivals(n)
  BY DEF Leaves
<1>2. n \notin Joins /\ n \in Nodes /\ Kind[n] # "exclusive_gateway"
  BY <1>1, JoinsDoNotVote DEF Approvals
<1>3. WaitingAt(c) = WaitingAt(s) \ {<<n, n>>}  BY <1>1, <1>2, WaitingMoves
<1>4. <<n, n>> \in WaitingAt(s)  BY <1>1, <1>2 DEF WaitingAt
<1>5. ComesFrom(n, p)  BY <1>1, <1>2, FollowsComesFrom DEF Follows
<1>6. Apart(B, WaitingAt(s), q) /\ WaitsForTokens(s)  BY DEF IsApart
<1>7. \A x \in WaitingAt(c) : Aside(B, n, x)
  BY <1>2, <1>3, <1>4, <1>6 DEF Apart, Aside, Inlets
<1>8. \A x, y \in WaitingAt(c) : x = y \/ <<x, y>> \in B  BY <1>3, <1>6 DEF Apart
<1>9. \A i \in DOMAIN p, x \in WaitingAt(c) : <<PlaceOf(p[i]), x>> \in B
  BY <1>2, <1>5, <1>7, ComesFromApart
<1>10. \A i, k \in DOMAIN p : i = k \/ <<PlaceOf(p[i]), PlaceOf(p[k])>> \in B
  BY <1>2, <1>5, ComesFromApart
<1>11. Apart(B, WaitingAt(c), p)  BY <1>8, <1>9, <1>10 DEF Apart
<1>12. WaitsForTokens(c)  BY <1>1, <1>2, <1>6, WaitsOn
<1> QED  BY <1>1, <1>3, <1>4, <1>11, <1>12 DEF IsApart, SameTokens

\* One arrival alone is apart.
LEMMA AloneIsApart ==
  ASSUME NEW B, NEW c, WaitingAt(c) = {}, NEW x, NEW p, p = <<x>>
  PROVE  Apart(B, WaitingAt(c), p)
<1>1. DOMAIN p = {1}  OBVIOUS
<1> QED  BY <1>1 DEF Apart

\* The flow goes back: no join waited, and so no token is left.
LEMMA ReturnsApart ==
  ASSUME NEW B, NEW s \in Instance, NEW q, IsApart(B, s, q),
         NEW c, NEW p, NEW n, NEW target, Returns(n, target, s, q, c, p)
  PROVE  /\ IsApart(B, c, p) /\ WaitingAt(c) = {} /\ target \in Approvals
         /\ p = <<[node |-> target, from |-> NoNode]>>
<1>1. /\ n \in Approvals /\ s.current = {n} /\ SameTokens(s, c) /\ c.current = {}
      /\ p = <<[node |-> target, from |-> NoNode]>> /\ target \in Approvals
  BY DEF Returns
<1>2. n \notin Joins  BY <1>1, JoinsDoNotVote
<1>3. WaitsForTokens(c)  BY <1>1, <1>2, WaitsOn DEF IsApart
<1>4. \A d \in JoinEdges : ~(c.tokens[d] > 0)
  <2>1. \A d \in JoinEdges : d[2] \in Joins  BY DEF JoinEdges
  <2> QED  BY <1>1, <1>3, <2>1 DEF WaitsForTokens
<1>5. WaitingAt(c) = {}  BY <1>1, <1>4 DEF WaitingAt
<1>6. Apart(B, WaitingAt(c), p)
  <2>1. PICK x : x = [node |-> target, from |-> NoNode]  OBVIOUS
  <2> QED  BY <1>1, <1>5, <2>1, AloneIsApart
<1> QED  BY <1>1, <1>3, <1>5, <1>6 DEF IsApart, SameTokens

\* The flow starts.
LEMMA BeginsApart ==
  ASSUME NEW B, NEW s, NEW q, IsApart(B, s, q), s = db => WaitingAt(s) = {},
         NEW c, NEW p, Begins(s, q, c, p)
  PROVE  /\ IsApart(B, c, p) /\ WaitingAt(c) = {}
         /\ p = <<[node |-> StartNode, from |-> NoNode]>>
<1>1. /\ SameTokens(s, c) /\ c.current = s.current /\ WaitingAt(s) = {}
      /\ p = <<[node |-> StartNode, from |-> NoNode]>>
  BY DEF Begins
<1>2. WaitsForTokens(c)  BY <1>1, WaitsOn DEF IsApart
<1>3. WaitingAt(c) = {}  BY <1>1 DEF WaitingAt, SameTokens
<1>4. Apart(B, WaitingAt(c), p)
  <2>1. PICK x : x = [node |-> StartNode, from |-> NoNode]  OBVIOUS
  <2> QED  BY <1>1, <1>3, <2>1, AloneIsApart
<1> QED  BY <1>1, <1>2, <1>3, <1>4 DEF IsApart, SameTokens

\* Nothing moves.
LEMMA RestsApart ==
  ASSUME NEW B, NEW s, NEW q, IsApart(B, s, q), NEW c, NEW p, Rests(s, q, c, p)
  PROVE  IsApart(B, c, p) /\ WaitingAt(c) = WaitingAt(s)
BY DEF Rests, SameTokens, IsApart, WaitingAt, WaitsForTokens

\* Every move keeps the parts of the flow apart.
LEMMA MovesApart ==
  ASSUME NEW B, KeepsApart(B), NEW s \in Instance, NEW q \in Seq(Arrival), IsApart(B, s, q),
         s = db /\ db.status = "absent" => WaitingAt(s) = {},
         NEW c, NEW p, Moves(s, q, c, p)
  PROVE  IsApart(B, c, p)
<1>1. CASE Rests(s, q, c, p)  BY <1>1, RestsApart
<1>2. CASE Turns(s, q, c, p)
  BY <1>2, StaysApart, PassesApart, StoresApart, OpensApart DEF Turns
<1>3. CASE Departs(s, q, c, p)
  <2>1. CASE Begins(s, q, c, p)
    <3>1. WaitingAt(s) = {}  BY <2>1 DEF Begins
    <3> QED  BY <2>1, <3>1, BeginsApart
  <2> QED  BY <1>3, <2>1, LeavesApart, ReturnsApart DEF Departs
<1> QED  BY <1>1, <1>2, <1>3 DEF Moves

\* Every step keeps them apart.
LEMMA NextApart ==
  ASSUME NEW B, KeepsApart(B), RoundsInv, ApartInv(B), [Next]_vars
  PROVE  ApartInv(B)'
<1>1. FlowsOn  BY NextFlows
<1>2. work \in Instance /\ queue \in Seq(Arrival)  BY DEF RoundsInv, IndInv, TypeOK
<1>3. /\ db.status \notin Ended => IsApart(B, db, <<>>)
      /\ work.status \notin Ended => IsApart(B, work, queue)
      /\ db.status = "absent" => WaitingAt(db) = {}
  BY DEF ApartInv
<1>4. CASE db' = db /\ work' = db /\ queue' = <<>>
  BY <1>3, <1>4 DEF ApartInv, IsApart, Apart, WaitingAt, WaitsForTokens
<1>5. CASE /\ db' = db \/ (db' = work' /\ queue' = <<>> /\ db'.status # "absent")
           /\ work'.status \notin Ended
                => work.status \notin Ended /\ Moves(work, queue, work', queue')
  <2>1. work'.status \notin Ended => IsApart(B, work', queue')
    <3>1. SUFFICES ASSUME work'.status \notin Ended  PROVE IsApart(B, work', queue')
      OBVIOUS
    <3>2. IsApart(B, work, queue) /\ Moves(work, queue, work', queue')  BY <1>3, <1>5, <3>1
    <3>3. work = db /\ db.status = "absent" => WaitingAt(work) = {}  BY <1>3
    <3> QED  BY <1>2, <3>2, <3>3, MovesApart
  <2>2. db'.status \notin Ended => IsApart(B, db', <<>>)  BY <1>3, <1>5, <2>1
  <2>3. db'.status = "absent" => WaitingAt(db') = {}  BY <1>3, <1>5
  <2> QED  BY <2>1, <2>2, <2>3 DEF ApartInv, IsApart, Apart, WaitingAt, WaitsForTokens
<1> QED  BY <1>1, <1>4, <1>5 DEF FlowsOn

\* An instance that has not started is nowhere.
LEMMA InitApart ==
  ASSUME NEW B, Init
  PROVE  ApartInv(B)
<1>1. /\ db = Empty /\ work = Empty /\ queue = <<>> /\ Empty.current = {}
      /\ Empty.tokens = [e \in JoinEdges |-> 0]
  BY DEF Init, Empty
<1>2. WaitingAt(Empty) = {}  BY <1>1 DEF WaitingAt
<1>3. WaitsForTokens(Empty) /\ \A e \in JoinEdges : Empty.tokens[e] <= 1
  BY <1>1 DEF WaitsForTokens
<1>4. Apart(B, WaitingAt(Empty), <<>>)  BY <1>2 DEF Apart
<1> QED  BY <1>1, <1>2, <1>3, <1>4 DEF ApartInv, IsApart

-------------------------------------------------------------------------------
(* The parts of the flow come together.                                      *)

\* Nothing is at two places that are not beside each other.
PairsApart(B, P) == \A x, y \in P : x = y \/ <<x, y>> \in B

LEMMA PlacesAreApart ==
  ASSUME NEW B, KeepsApart(B), NEW s, NEW q, IsApart(B, s, q)
  PROVE  PairsApart(B, Places(s, q))
<1>1. Apart(B, WaitingAt(s), q)  BY DEF IsApart
<1>2. \A x, y : <<x, y>> \in B => <<y, x>> \in B  BY BesideIsMutual
<1> QED  BY <1>1, <1>2 DEF PairsApart, Places, Apart

\* Something that follows comes to d.
ComesOn(H, next, d) == \E k \in DOMAIN next : <<PlaceOf(next[k]), d>> \in H

\* What came in for an edge further on is in what follows.
LEMMA InletsComeOn ==
  ASSUME NEW H, NEW B, NEW depth, ComesTogether(H, B, depth),
         NEW n \in Nodes, NEW next, ComesFrom(n, next),
         NEW y \in Inlets(n), NEW d \in JoinEdges, <<y, d>> \in H, y # d
  PROVE  ComesOn(H, next, d)
<1>1. PICK x \in H : x = <<y, d>>  OBVIOUS
<1>2. x[1] = y /\ x[2] = d  BY <1>1
<1>3. CASE n \in Joins
  <2>1. PICK r \in Preds(n) : y = <<r, n>>  BY <1>3 DEF Inlets
  <2>2. y \in JoinEdges /\ y[2] = n /\ Kind[n] # "exclusive_gateway"
    BY <1>3, <2>1, JoinHasEdges
  <2>3. \A e \in JoinEdges, z \in H : z[1] = e /\ z[2] # e =>
          \E i \in DOMAIN Out[e[2]] : <<Outlet(e[2], i), z[2]>> \in H
    BY DEF ComesTogether
  <2>4. PICK i \in DOMAIN Out[n] : <<Outlet(n, i), d>> \in H  BY <1>2, <2>2, <2>3
  <2>5. i \in DOMAIN next /\ PlaceOf(next[i]) = Outlet(n, i)  BY <2>2 DEF ComesFrom
  <2> QED  BY <2>4, <2>5 DEF ComesOn
<1>4. CASE n \notin Joins
  <2>1. y = <<n, n>>  BY <1>4 DEF Inlets
  <2>2. \A m \in Nodes \ Joins, z \in H : z[1] = <<m, m>> =>
          /\ \E i \in DOMAIN Out[m] : <<Outlet(m, i), z[2]>> \in H
          /\ Kind[m] = "exclusive_gateway" =>
               \A i \in DOMAIN Out[m] : <<Outlet(m, i), z[2]>> \in H
    BY DEF ComesTogether
  <2>3. /\ \E i \in DOMAIN Out[n] : <<Outlet(n, i), d>> \in H
        /\ Kind[n] = "exclusive_gateway" => \A i \in DOMAIN Out[n] : <<Outlet(n, i), d>> \in H
    BY <1>2, <1>4, <2>1, <2>2
  <2>4. CASE Kind[n] = "exclusive_gateway"
    <3>1. 1 \in DOMAIN next  BY <2>4 DEF ComesFrom
    <3>2. PICK i \in DOMAIN Out[n] : PlaceOf(next[1]) = Outlet(n, i)  BY <3>1 DEF ComesFrom
    <3> QED  BY <2>3, <2>4, <3>1, <3>2 DEF ComesOn
  <2>5. CASE Kind[n] # "exclusive_gateway"
    <3>1. PICK i \in DOMAIN Out[n] : <<Outlet(n, i), d>> \in H  BY <2>3
    <3>2. i \in DOMAIN next /\ PlaceOf(next[i]) = Outlet(n, i)  BY <2>5 DEF ComesFrom
    <3> QED  BY <3>1, <3>2 DEF ComesOn
  <2> QED  BY <2>4, <2>5
<1> QED  BY <1>3, <1>4

\* What follows and comes to e either came in for e, or parts here from what comes to
\* the other edges of that join.
LEMMA OutletsCameIn ==
  ASSUME NEW H, NEW B, NEW depth, ComesTogether(H, B, depth),
         NEW n \in Nodes, NEW next, ComesFrom(n, next),
         NEW e \in JoinEdges, ComesOn(H, next, e)
  PROVE  \/ \E y \in Inlets(n) : <<y, e>> \in H /\ (n \in Joins => e[2] # n)
         \/ \A d \in JoinEdges : d[2] = e[2] => ComesOn(H, next, d)
<1>1. PICK k \in DOMAIN next : <<PlaceOf(next[k]), e>> \in H  BY DEF ComesOn
<1>2. PICK i \in DOMAIN Out[n] : PlaceOf(next[k]) = Outlet(n, i)  BY DEF ComesFrom
<1>3. <<Outlet(n, i), e>> \in H  BY <1>1, <1>2
<1>4. \A m \in Nodes : \A l \in DOMAIN Out[m], c \in JoinEdges : <<Outlet(m, l), c>> \in H =>
       \/ m \notin Joins /\ <<<<m, m>>, c>> \in H
       \/ m \in Joins /\ c[2] # m /\ \E p \in Preds(m) : <<<<p, m>>, c>> \in H
       \/ /\ Kind[m] # "exclusive_gateway"
          /\ \A d \in JoinEdges : d[2] = c[2] =>
               \E o \in DOMAIN Out[m] : <<Outlet(m, o), d>> \in H
  BY DEF ComesTogether
<1>5. \/ n \notin Joins /\ <<<<n, n>>, e>> \in H
      \/ n \in Joins /\ e[2] # n /\ \E p \in Preds(n) : <<<<p, n>>, e>> \in H
      \/ /\ Kind[n] # "exclusive_gateway"
         /\ \A d \in JoinEdges : d[2] = e[2] =>
              \E o \in DOMAIN Out[n] : <<Outlet(n, o), d>> \in H
  BY <1>3, <1>4
<1>6. CASE n \notin Joins /\ <<<<n, n>>, e>> \in H  BY <1>6 DEF Inlets
<1>7. CASE n \in Joins /\ e[2] # n /\ \E p \in Preds(n) : <<<<p, n>>, e>> \in H
  BY <1>7 DEF Inlets
<1>8. CASE /\ Kind[n] # "exclusive_gateway"
           /\ \A d \in JoinEdges : d[2] = e[2] =>
                \E o \in DOMAIN Out[n] : <<Outlet(n, o), d>> \in H
  <2>1. \A o \in DOMAIN Out[n] : o \in DOMAIN next /\ PlaceOf(next[o]) = Outlet(n, o)
    BY <1>8 DEF ComesFrom
  <2> QED  BY <1>8, <2>1 DEF ComesOn
<1> QED  BY <1>5, <1>6, <1>7, <1>8

\* What is in C gives way to what is next.
Replaces(P, C, next, Q) ==
  /\ C \subseteq P /\ P \ C \subseteq Q
  /\ \A y \in Q : y \in P \ C \/ \E k \in DOMAIN next : y = PlaceOf(next[k])
  /\ \A k \in DOMAIN next : PlaceOf(next[k]) \in Q

\* When a node hands on what came in, all that a join needs is still underway.
LEMMA HandingOnIsWhole ==
  ASSUME NEW H, NEW B, NEW depth, ComesTogether(H, B, depth),
         NEW n \in Nodes, NEW next, ComesFrom(n, next),
         NEW P, PairsApart(B, P), Whole(H, P), NEW Q, Replaces(P, Inlets(n), next, Q)
  PROVE  Whole(H, Q)
<1> SUFFICES ASSUME NEW x \in Q, NEW e \in JoinEdges, NEW d \in JoinEdges,
                    e[2] = d[2], <<x, e>> \in H
             PROVE  \E y \in Q : <<y, d>> \in H
  BY DEF Whole
<1>1. /\ Inlets(n) \subseteq P /\ P \ Inlets(n) \subseteq Q
      /\ x \in P \ Inlets(n) \/ \E k \in DOMAIN next : x = PlaceOf(next[k])
      /\ \A k \in DOMAIN next : PlaceOf(next[k]) \in Q
  BY DEF Replaces
<1>2. ComesOn(H, next, d) => \E y \in Q : <<y, d>> \in H  BY <1>1 DEF ComesOn
<1>3. ASSUME NEW z \in P, <<z, e>> \in H
      PROVE  \E y \in P : <<y, d>> \in H
  BY <1>3 DEF Whole
<1>4. ASSUME NEW y \in P, <<y, d>> \in H, y # d
      PROVE  \E w \in Q : <<w, d>> \in H
  <2>1. CASE y \notin Inlets(n)  BY <1>1, <1>4, <2>1
  <2>2. CASE y \in Inlets(n)
    <3>1. ComesOn(H, next, d)  BY <1>4, <2>2, InletsComeOn
    <3> QED  BY <1>2, <3>1
  <2> QED  BY <2>1, <2>2
<1>5. CASE x \in P \ Inlets(n)
  <2>1. PICK y \in P : <<y, d>> \in H  BY <1>3, <1>5
  <2>2. CASE y # d  BY <1>4, <2>1, <2>2
  <2>3. CASE y = d /\ y \notin Inlets(n)  BY <1>1, <2>1, <2>3
  <2>4. CASE y = d /\ y \in Inlets(n)
    <3>1. n \in Joins /\ d[2] = n
      <4>1. d[2] \in Joins  BY DEF JoinEdges
      <4> QED  BY <2>4, <4>1 DEF Inlets
    <3>2. e \in Inlets(n)
      <4>1. PICK r \in Preds(n) : e = <<r, n>>  BY <3>1 DEF JoinEdges
      <4> QED  BY <3>1, <4>1 DEF Inlets
    <3>3. e \in P /\ x # e  BY <1>1, <1>5, <3>2
    <3>4. <<x, e>> \in B  BY <1>5, <3>3 DEF PairsApart
    <3>5. \A z \in H : z \notin B  BY DEF ComesTogether
    <3> QED  BY <3>4, <3>5
  <2> QED  BY <2>2, <2>3, <2>4
<1>6. CASE \E k \in DOMAIN next : x = PlaceOf(next[k])
  <2>1. ComesOn(H, next, e)  BY <1>6 DEF ComesOn
  <2>2. CASE \E y \in Inlets(n) : <<y, e>> \in H /\ (n \in Joins => e[2] # n)
    <3>1. PICK z \in Inlets(n) : <<z, e>> \in H /\ (n \in Joins => e[2] # n)  BY <2>2
    <3>2. PICK y \in P : <<y, d>> \in H  BY <1>1, <1>3, <3>1
    <3>3. CASE y \in Inlets(n)
      <4>1. y # d
        <5>1. d[2] \in Joins  BY DEF JoinEdges
        <5> QED  BY <3>1, <3>3, <5>1 DEF Inlets
      <4> QED  BY <1>4, <3>2, <4>1
    <3>4. CASE y \notin Inlets(n)  BY <1>1, <3>2, <3>4
    <3> QED  BY <3>3, <3>4
  <2>3. CASE \A c \in JoinEdges : c[2] = e[2] => ComesOn(H, next, c)
    <3>1. ComesOn(H, next, d)  BY <2>3
    <3> QED  BY <1>2, <3>1
  <2> QED  BY <2>1, <2>2, <2>3, OutletsCameIn
<1> QED  BY <1>1, <1>5, <1>6

\* A turn of the loop that hands on what its arrival, and what waits at C, came in for.
LEMMA TurnReplaces ==
  ASSUME NEW B, KeepsApart(B), NEW s, NEW q \in Seq(Arrival), q # <<>>, IsApart(B, s, q),
         NEW next \in Seq(Arrival), NEW p, p = Tail(q) \o next,
         NEW C, C \subseteq WaitingAt(s) \cup {PlaceOf(Head(q))}, PlaceOf(Head(q)) \in C,
         NEW c, WaitingAt(c) = WaitingAt(s) \ C
  PROVE  Replaces(Places(s, q), C, next, Places(c, p))
<1>1. 1 \in DOMAIN q /\ Head(q) = q[1]  BY QueueShifts
<1>2. PICK l \in Nat : Shifts(l, q, next, p)  BY QueueShifts
<1>3. /\ \A k \in DOMAIN q : k # 1 => \E i \in DOMAIN p : p[i] = q[k]
      /\ \A k \in DOMAIN next : \E i \in DOMAIN p : p[i] = next[k]
  <2>1. Retains(p, q) /\ Holds(p, next)  BY QueueShifts
  <2> QED  BY <2>1 DEF Retains, Holds
<1>4. Apart(B, WaitingAt(s), q)  BY DEF IsApart
<1>5. \A k \in DOMAIN q : k # 1 => PlaceOf(q[k]) \notin C
  <2> SUFFICES ASSUME NEW k \in DOMAIN q, k # 1, PlaceOf(q[k]) \in C  PROVE FALSE
    OBVIOUS
  <2>1. CASE PlaceOf(q[k]) \in WaitingAt(s)
    <3>1. <<PlaceOf(q[k]), PlaceOf(q[k])>> \in B  BY <1>4, <2>1 DEF Apart
    <3> QED  BY <3>1, BesideIsMutual
  <2>2. CASE PlaceOf(q[k]) = PlaceOf(q[1])
    <3>1. <<PlaceOf(q[k]), PlaceOf(q[1])>> \in B  BY <1>1, <1>4 DEF Apart
    <3> QED  BY <2>2, <3>1, BesideIsMutual
  <2> QED  BY <1>1, <2>1, <2>2
<1>6. C \subseteq Places(s, q)  BY <1>1 DEF Places
<1>7. ASSUME NEW x \in Places(s, q), x \notin C  PROVE x \in Places(c, p)
  <2>1. CASE x \in WaitingAt(s)  BY <1>7, <2>1 DEF Places
  <2>2. CASE \E k \in DOMAIN q : x = PlaceOf(q[k])
    <3>1. PICK k \in DOMAIN q : x = PlaceOf(q[k])  BY <2>2
    <3>2. k # 1  BY <1>1, <1>7, <3>1
    <3>3. PICK i \in DOMAIN p : p[i] = q[k]  BY <1>3, <3>2
    <3> QED  BY <3>1, <3>3 DEF Places
  <2> QED  BY <1>7, <2>1, <2>2 DEF Places
<1>8. ASSUME NEW y \in Places(c, p)
      PROVE  y \in Places(s, q) \ C \/ \E k \in DOMAIN next : y = PlaceOf(next[k])
  <2>1. CASE y \in WaitingAt(c)  BY <2>1 DEF Places
  <2>2. CASE \E i \in DOMAIN p : y = PlaceOf(p[i])
    <3>1. PICK i \in DOMAIN p : y = PlaceOf(p[i])  BY <2>2
    <3>2. i \in Nat /\ (i <= l => i + 1 \in DOMAIN q /\ i + 1 # 1 /\ p[i] = q[i + 1])
          /\ (i > l => i - l \in DOMAIN next /\ p[i] = next[i - l])
      BY <1>2 DEF Shifts
    <3>3. i <= l \/ i > l  BY <3>2
    <3>4. CASE i <= l
      <4>1. i + 1 \in DOMAIN q /\ i + 1 # 1 /\ y = PlaceOf(q[i + 1])  BY <3>1, <3>2, <3>4
      <4>2. PICK k \in DOMAIN q : k # 1 /\ y = PlaceOf(q[k])  BY <4>1
      <4> QED  BY <1>5, <4>2 DEF Places
    <3>5. CASE i > l
      <4>1. i - l \in DOMAIN next /\ y = PlaceOf(next[i - l])  BY <3>1, <3>2, <3>5
      <4> QED  BY <4>1
    <3> QED  BY <3>3, <3>4, <3>5
  <2> QED  BY <2>1, <2>2 DEF Places
<1>9. \A k \in DOMAIN next : PlaceOf(next[k]) \in Places(c, p)  BY <1>3 DEF Places
<1> QED  BY <1>6, <1>7, <1>8, <1>9 DEF Replaces

\* A turn of the loop whose arrival comes to stand where it is.
LEMMA TurnStays ==
  ASSUME NEW q \in Seq(Arrival), q # <<>>, NEW p, p = Tail(q) \o <<>>,
         NEW s, NEW c, WaitingAt(c) = WaitingAt(s) \cup {PlaceOf(Head(q))}
  PROVE  Places(c, p) = Places(s, q)
<1>1. PICK none : none = <<>>  OBVIOUS
<1>2. none \in Seq(Arrival) /\ (\A i \in DOMAIN none : FALSE) /\ p = Tail(q) \o none
  BY <1>1, NoArrival
<1>3. 1 \in DOMAIN q /\ Head(q) = q[1]  BY <1>2, QueueShifts
<1>4. PICK l \in Nat : Shifts(l, q, none, p)  BY <1>2, QueueShifts
<1>5. Retains(p, q)  BY <1>2, QueueShifts
<1>6. \A i \in DOMAIN p : \E k \in DOMAIN q : p[i] = q[k]
  <2>1. \A i \in DOMAIN p : i \in Nat /\ (i <= l => i + 1 \in DOMAIN q /\ p[i] = q[i + 1])
          /\ (i > l => i - l \in DOMAIN none)
    BY <1>4 DEF Shifts
  <2>2. \A i \in Nat : i <= l \/ i > l  OBVIOUS
  <2> QED  BY <1>2, <2>1, <2>2
<1>7. Places(c, p) \subseteq Places(s, q)  BY <1>3, <1>6 DEF Places
<1>8. Places(s, q) \subseteq Places(c, p)  BY <1>3, <1>5 DEF Places, Retains
<1> QED  BY <1>7, <1>8

\* Every join waits for a token, and whatever heads for one has company.
IsWhole(H, s, q) == NoneIsFull(s) /\ Whole(H, Places(s, q))

LEMMA TurnsWhole ==
  ASSUME NEW B, KeepsApart(B), NEW H, NEW depth, ComesTogether(H, B, depth),
         NEW s \in Instance, NEW q \in Seq(Arrival), IsApart(B, s, q), IsWhole(H, s, q),
         NEW c, NEW p, Turns(s, q, c, p)
  PROVE  IsWhole(H, c, p)
<1>1. Whole(H, Places(s, q)) /\ NoneIsFull(s) /\ PairsApart(B, Places(s, q))
  BY PlacesAreApart DEF IsWhole
<1>2. SameTokens(s, c) => NoneIsFull(c)  BY <1>1 DEF NoneIsFull, SameTokens
<1>3. ASSUME NEW n \in Nodes, Stays(n, s, q, c, p)  PROVE IsWhole(H, c, p)
  <2>1. /\ n \in Approvals /\ q # <<>> /\ Head(q).node = n /\ SameTokens(s, c)
        /\ c.current = s.current \cup {n} /\ p = Tail(q) \o <<>>
    BY <1>3 DEF Stays, Takes
  <2>2. n \notin Joins  BY <2>1, JoinsDoNotVote
  <2>3. WaitingAt(c) = WaitingAt(s) \cup {<<n, n>>}  BY <2>1, <2>2, WaitingMoves
  <2>4. PlaceOf(Head(q)) = <<n, n>>  BY <2>1, <2>2 DEF PlaceOf, Place
  <2>5. Places(c, p) = Places(s, q)  BY <2>1, <2>3, <2>4, TurnStays
  <2> QED  BY <1>1, <1>2, <2>1, <2>5 DEF IsWhole
<1>4. ASSUME NEW n \in Nodes, NEW next, Crosses(n, next, s, q, c, p)  PROVE IsWhole(H, c, p)
  <2>1. /\ n \notin Joins /\ q # <<>> /\ Head(q).node = n /\ SameTokens(s, c)
        /\ c.current = s.current \ {n} /\ Follows(n, next) /\ p = Tail(q) \o next
    BY <1>4 DEF Crosses, Takes
  <2>2. WaitingAt(c) = WaitingAt(s) \ {<<n, n>>}  BY <2>1, WaitingMoves
  <2>3. PlaceOf(Head(q)) = <<n, n>> /\ Inlets(n) = {<<n, n>>}
    BY <2>1 DEF PlaceOf, Place, Inlets
  <2>4. ComesFrom(n, next) /\ next \in Seq(Arrival)  BY <2>1, FollowsComesFrom DEF ComesFrom
  <2>5. PICK C : C = Inlets(n)  OBVIOUS
  <2>6. /\ C \subseteq WaitingAt(s) \cup {PlaceOf(Head(q))} /\ PlaceOf(Head(q)) \in C
        /\ WaitingAt(c) = WaitingAt(s) \ C
    BY <2>2, <2>3, <2>5
  <2>7. Replaces(Places(s, q), C, next, Places(c, p))  BY <2>1, <2>4, <2>6, TurnReplaces
  <2>8. Whole(H, Places(c, p))  BY <1>1, <2>4, <2>5, <2>7, HandingOnIsWhole
  <2> QED  BY <1>2, <2>1, <2>8 DEF IsWhole
<1>5. ASSUME NEW n \in Nodes, NEW e, Stores(n, e, s, q, c, p)  PROVE IsWhole(H, c, p)
  <2>1. /\ n \in Joins /\ Takes(n, q) /\ e \in JoinEdges /\ e = <<Head(q).from, n>>
        /\ c.tokens = Arrived(s, e) /\ ~AllIn(c.tokens, n) /\ p = Tail(q) \o <<>>
    BY <1>5 DEF Stores
  <2>2. WaitingAt(c) = WaitingAt(s) \cup {e}  BY <1>5, StoresApart
  <2>3. q # <<>> /\ PlaceOf(Head(q)) = e /\ c.tokens \in [JoinEdges -> Nat]
    <3>1. Arrived(s, e) \in [JoinEdges -> Nat]  BY <2>1, TokensAreTyped
    <3>2. q # <<>> /\ PlaceOf(Head(q)) = e  BY <2>1, EdgeIsFree
    <3> QED  BY <2>1, <3>1, <3>2
  <2>4. \A d \in JoinEdges : d # e => c.tokens[d] = s.tokens[d]  BY <2>1, EdgeIsFree
  <2>5. Places(c, p) = Places(s, q)  BY <2>1, <2>2, <2>3, TurnStays
  <2>6. NoneIsFull(c)
    <3> SUFFICES ASSUME NEW j \in Joins  PROVE \E r \in Preds(j) : c.tokens[<<r, j>>] = 0
      BY DEF NoneIsFull
    <3>1. \A r \in Preds(j) : <<r, j>> \in JoinEdges  BY JoinHasEdges
    <3>2. CASE j = n
      <4>1. PICK r \in Preds(n) : ~(c.tokens[<<r, n>>] >= 1)  BY <2>1 DEF AllIn
      <4>2. c.tokens[<<r, n>>] \in Nat  BY <2>3, <3>1, <3>2
      <4>3. c.tokens[<<r, n>>] = 0  BY <4>1, <4>2
      <4> QED  BY <3>2, <4>3
    <3>3. CASE j # n
      <4>1. PICK r \in Preds(j) : s.tokens[<<r, j>>] = 0  BY <1>1 DEF NoneIsFull
      <4>2. <<r, j>> # e  BY <2>1, <3>3
      <4> QED  BY <2>4, <3>1, <4>1, <4>2
    <3> QED  BY <3>2, <3>3
  <2> QED  BY <1>1, <2>5, <2>6 DEF IsWhole
<1>6. ASSUME NEW n \in Nodes, NEW e, Opens(n, e, s, q, c, p)  PROVE IsWhole(H, c, p)
  <2>1. /\ n \in Joins /\ Takes(n, q) /\ e \in JoinEdges /\ e = <<Head(q).from, n>>
        /\ p = Tail(q) \o Arrivals(n)
    BY <1>6 DEF Opens
  <2>2. q # <<>> /\ PlaceOf(Head(q)) = e  BY <2>1, EdgeIsFree
  <2>3. /\ WaitingAt(c) = WaitingAt(s) \ Inlets(n)
        /\ \A d \in JoinEdges : c.tokens[d] = IF d[2] = n THEN 0 ELSE s.tokens[d]
        /\ Inlets(n) \subseteq WaitingAt(s) \cup {PlaceOf(Head(q))}
    BY <1>6, OpensApart
  <2>4. Kind[n] # "exclusive_gateway"  BY <2>1, JoinHasEdges
  <2>5. PICK next : next = Arrivals(n)  OBVIOUS
  <2>6. ComesFrom(n, next) /\ next \in Seq(Arrival)
    BY <2>4, <2>5, FollowsComesFrom DEF Follows, ComesFrom
  <2>7. PICK C : C = Inlets(n)  OBVIOUS
  <2>8. PlaceOf(Head(q)) \in C
    <3>1. PICK r \in Preds(n) : e = <<r, n>>  BY <2>1 DEF JoinEdges
    <3> QED  BY <2>1, <2>2, <2>7, <3>1 DEF Inlets
  <2>9. Replaces(Places(s, q), C, next, Places(c, p))
    <3>1. p = Tail(q) \o next  BY <2>1, <2>5
    <3>2. C \subseteq WaitingAt(s) \cup {PlaceOf(Head(q))} /\ WaitingAt(c) = WaitingAt(s) \ C
      BY <2>3, <2>7
    <3> QED  BY <2>2, <2>6, <2>8, <3>1, <3>2, TurnReplaces
  <2>10. Whole(H, Places(c, p))  BY <1>1, <2>6, <2>7, <2>9, HandingOnIsWhole
  <2>11. NoneIsFull(c)
    <3> SUFFICES ASSUME NEW j \in Joins  PROVE \E r \in Preds(j) : c.tokens[<<r, j>>] = 0
      BY DEF NoneIsFull
    <3>1. PICK r \in Preds(j) : s.tokens[<<r, j>>] = 0  BY <1>1 DEF NoneIsFull
    <3>2. <<r, j>> \in JoinEdges  BY JoinHasEdges
    <3> QED  BY <2>3, <3>1, <3>2
  <2> QED  BY <2>10, <2>11 DEF IsWhole
<1> QED  BY <1>3, <1>4, <1>5, <1>6 DEF Turns

\* The flow leaves an approval.
LEMMA LeavesWhole ==
  ASSUME NEW B, KeepsApart(B), NEW H, NEW depth, ComesTogether(H, B, depth),
         NEW s, NEW q, IsApart(B, s, q), IsWhole(H, s, q),
         NEW c, NEW p, NEW n, Leaves(n, s, q, c, p)
  PROVE  IsWhole(H, c, p)
<1>1. /\ q = <<>> /\ n \in Approvals /\ SameTokens(s, c) /\ p = Arrivals(n)
      /\ WaitingAt(c) = WaitingAt(s) \ {<<n, n>>} /\ <<n, n>> \in WaitingAt(s)
  BY LeavesApart DEF Leaves
<1>2. n \notin Joins /\ n \in Nodes /\ Kind[n] # "exclusive_gateway"
  BY <1>1, JoinsDoNotVote DEF Approvals
<1>3. Whole(H, Places(s, q)) /\ NoneIsFull(s) /\ PairsApart(B, Places(s, q))
  BY PlacesAreApart DEF IsWhole
<1>4. ComesFrom(n, p)  BY <1>1, <1>2, FollowsComesFrom DEF Follows
<1>5. Places(s, q) = WaitingAt(s)  BY <1>1, NoArrival DEF Places
<1>6. Inlets(n) = {<<n, n>>}  BY <1>2 DEF Inlets
<1>7. Replaces(Places(s, q), Inlets(n), p, Places(c, p))
  BY <1>1, <1>5, <1>6 DEF Replaces, Places
<1>8. Whole(H, Places(c, p))  BY <1>2, <1>3, <1>4, <1>7, HandingOnIsWhole
<1> QED  BY <1>1, <1>3, <1>8 DEF IsWhole, NoneIsFull, SameTokens

\* One arrival that heads for no join needs no company.
LEMMA AloneIsWhole ==
  ASSUME NEW H, NEW c, WaitingAt(c) = {}, NEW p, NEW a, p = <<a>>,
         \A e \in JoinEdges : <<PlaceOf(a), e>> \notin H
  PROVE  Whole(H, Places(c, p))
<1>1. DOMAIN p = {1} /\ p[1] = a  OBVIOUS
<1>2. Places(c, p) = {PlaceOf(a)}  BY <1>1 DEF Places
<1> QED  BY <1>2 DEF Whole

\* The flow goes back to an approval that no branch holds.
LEMMA ReturnsWhole ==
  ASSUME NEW B, NEW H, NEW s \in Instance, NEW q, IsApart(B, s, q), IsWhole(H, s, q),
         NEW c, NEW p, NEW n, NEW target, Returns(n, target, s, q, c, p),
         \A e \in JoinEdges : <<<<target, target>>, e>> \notin H
  PROVE  IsWhole(H, c, p)
<1>1. WaitingAt(c) = {} /\ target \in Approvals /\ SameTokens(s, c)
      /\ p = <<[node |-> target, from |-> NoNode]>>
  BY ReturnsApart DEF Returns
<1>2. PICK a : a = [node |-> target, from |-> NoNode]  OBVIOUS
<1>3. PlaceOf(a) = <<target, target>>  BY <1>1, <1>2, JoinsDoNotVote DEF PlaceOf, Place
<1>4. p = <<a>>  BY <1>1, <1>2
<1>5. Whole(H, Places(c, p))  BY <1>1, <1>3, <1>4, AloneIsWhole
<1> QED  BY <1>1, <1>5 DEF IsWhole, NoneIsFull, SameTokens

\* The flow starts, before every fork.
LEMMA BeginsWhole ==
  ASSUME NEW B, NEW H, NEW depth, ComesTogether(H, B, depth),
         NEW s, NEW q, IsApart(B, s, q), IsWhole(H, s, q), s = db => WaitingAt(s) = {},
         NEW c, NEW p, Begins(s, q, c, p)
  PROVE  IsWhole(H, c, p)
<1>1. WaitingAt(c) = {} /\ SameTokens(s, c) /\ p = <<[node |-> StartNode, from |-> NoNode]>>
  BY BeginsApart DEF Begins
<1>2. PICK a : a = [node |-> StartNode, from |-> NoNode]  OBVIOUS
<1>3. StartNode \notin Joins  BY GraphAssumption DEF StartNode, Joins
<1>4. PlaceOf(a) = <<StartNode, StartNode>>  BY <1>2, <1>3 DEF PlaceOf, Place
<1>5. \A e \in JoinEdges : <<<<StartNode, StartNode>>, e>> \notin H  BY DEF ComesTogether
<1>6. p = <<a>>  BY <1>1, <1>2
<1>7. Whole(H, Places(c, p))  BY <1>1, <1>4, <1>5, <1>6, AloneIsWhole
<1> QED  BY <1>1, <1>7 DEF IsWhole, NoneIsFull, SameTokens

\* Every move keeps the parts of the flow in company, a return that stays out too.
LEMMA MovesWhole ==
  ASSUME NEW B, KeepsApart(B), NEW H, NEW depth, ComesTogether(H, B, depth),
         ReturnsStayOut(H), NEW s \in Instance, NEW q \in Seq(Arrival), IsApart(B, s, q),
         IsWhole(H, s, q), s = db /\ db.status = "absent" => WaitingAt(s) = {},
         NEW c, NEW p, Moves(s, q, c, p)
  PROVE  IsWhole(H, c, p)
<1>1. CASE Rests(s, q, c, p)
  <2>1. WaitingAt(c) = WaitingAt(s) /\ p = q /\ SameTokens(s, c)
    BY <1>1, RestsApart DEF Rests
  <2> QED  BY <2>1 DEF IsWhole, NoneIsFull, SameTokens, Places
<1>2. CASE Turns(s, q, c, p)  BY <1>2, TurnsWhole
<1>3. CASE Departs(s, q, c, p)
  <2>1. CASE Begins(s, q, c, p)
    <3>1. WaitingAt(s) = {}  BY <2>1 DEF Begins
    <3> QED  BY <2>1, <3>1, BeginsWhole
  <2>2. CASE \E n : Leaves(n, s, q, c, p)  BY <2>2, LeavesWhole
  <2>3. CASE \E t \in db.tasks, target \in Approvals :
               RollbackTask(t, target) /\ Returns(t.node, target, s, q, c, p)
    <3>1. PICK t \in db.tasks, target \in Approvals :
            RollbackTask(t, target) /\ Returns(t.node, target, s, q, c, p)
      BY <2>3
    <3>2. \A e \in JoinEdges : <<<<target, target>>, e>> \notin H
      BY <3>1 DEF ReturnsStayOut
    <3> QED  BY <3>1, <3>2, ReturnsWhole
  <2> QED  BY <1>3, <2>1, <2>2, <2>3 DEF Departs
<1> QED  BY <1>1, <1>2, <1>3 DEF Moves

\* Every step keeps them in company.
LEMMA NextWhole ==
  ASSUME NEW B, KeepsApart(B), NEW H, NEW depth, ComesTogether(H, B, depth),
         RoundsInv, ApartInv(B), WholeInv(H), [Next]_vars, [ReturnsStayOut(H)]_vars
  PROVE  WholeInv(H)'
<1>1. FlowsOn  BY NextFlows
<1>2. work \in Instance /\ queue \in Seq(Arrival)  BY DEF RoundsInv, IndInv, TypeOK
<1>3. /\ db.status \notin Ended => IsWhole(H, db, <<>>)
      /\ work.status \notin Ended => IsWhole(H, work, queue)
  BY DEF WholeInv, IsWhole
<1>4. /\ work.status \notin Ended => IsApart(B, work, queue)
      /\ db.status = "absent" => WaitingAt(db) = {}
  BY DEF ApartInv
<1>5. ASSUME db'.status \notin Ended => IsWhole(H, db', <<>>),
             work'.status \notin Ended => IsWhole(H, work', queue')
      PROVE  WholeInv(H)'
  BY <1>5 DEF WholeInv, IsWhole, NoneIsFull, Whole, Places, WaitingAt
<1>6. CASE UNCHANGED vars
  <2>1. db' = db /\ work' = work /\ queue' = queue  BY <1>6 DEF vars
  <2> QED  BY <1>3, <1>5, <2>1
<1>7. CASE db' = db /\ work' = db /\ queue' = <<>>  BY <1>3, <1>5, <1>7
<1>8. CASE /\ ReturnsStayOut(H)
           /\ db' = db \/ (db' = work' /\ queue' = <<>> /\ db'.status # "absent")
           /\ work'.status \notin Ended
                => work.status \notin Ended /\ Moves(work, queue, work', queue')
  <2>1. SUFFICES ASSUME work'.status \notin Ended  PROVE IsWhole(H, work', queue')
    BY <1>3, <1>5, <1>8
  <2>2. /\ IsApart(B, work, queue) /\ IsWhole(H, work, queue)
        /\ Moves(work, queue, work', queue')
    BY <1>3, <1>4, <1>8, <2>1
  <2>3. work = db /\ db.status = "absent" => WaitingAt(work) = {}  BY <1>4
  <2> QED  BY <1>2, <1>8, <2>2, <2>3, MovesWhole
<1> QED  BY <1>1, <1>6, <1>7, <1>8 DEF FlowsOn

\* An instance that has not started heads nowhere.
LEMMA InitWhole ==
  ASSUME NEW H, Init
  PROVE  WholeInv(H)
<1>1. /\ db = Empty /\ work = Empty /\ queue = <<>> /\ Empty.current = {}
      /\ Empty.tokens = [e \in JoinEdges |-> 0]
  BY DEF Init, Empty
<1>2. WaitingAt(Empty) = {}  BY <1>1 DEF WaitingAt
<1>3. Places(Empty, <<>>) = {}  BY <1>2, NoArrival DEF Places
<1>4. NoneIsFull(Empty)
  <2> SUFFICES ASSUME NEW j \in Joins  PROVE \E p \in Preds(j) : Empty.tokens[<<p, j>>] = 0
    BY DEF NoneIsFull
  <2>1. PICK p \in Preds(j) : <<p, j>> \in JoinEdges  BY JoinHasEdges
  <2> QED  BY <1>1, <2>1
<1> QED  BY <1>1, <1>3, <1>4 DEF WholeInv, Whole

\* Of the things that are numbered one has the least number.
LEMMA OneIsLeast ==
  ASSUME NEW W, W # {}, NEW f, \A x \in W : f[x] \in Nat
  PROVE  \E x \in W : \A y \in W : f[x] <= f[y]
<1> DEFINE R == OpToRel(<, Nat)
           D == {f[x] : x \in W}
<1>1. IsWellFoundedOn(R, Nat)  BY NatLessThanWellFounded
<1>2. \A k, m \in Nat : <<k, m>> \in R <=> k < m  BY DEF OpToRel
<1>3. D \in SUBSET Nat /\ D # {}  OBVIOUS
<1>4. \A x \in W : f[x] \in D  OBVIOUS
<1>5. \A m \in D : \E x \in W : m = f[x]  OBVIOUS
<1> HIDE DEF R, D
<1>6. PICK m \in D : \A k \in D : ~(<<k, m>> \in R)  BY <1>1, <1>3, WFMin
<1>7. PICK x \in W : m = f[x]  BY <1>5
<1>8. ASSUME NEW y \in W  PROVE f[x] <= f[y]
  <2>1. f[x] \in Nat /\ f[y] \in Nat /\ ~(f[y] < f[x])  BY <1>2, <1>4, <1>6, <1>7
  <2> QED  BY <2>1
<1> QED  BY <1>8

\* An instance that waits at joins only lacks a token at the innermost of them, and what
\* heads there is at none of the others.
LEMMA WholeIsAlive ==
  ASSUME FallbackCanAct, NEW B, NEW H, NEW depth \in [Joins -> Nat],
         ComesTogether(H, B, depth), RoundsInv, ApartInv(B), WholeInv(H)
  PROVE  SomebodyCanAct
<1> SUFFICES ASSUME db.status \in Live, Pending(db) = {}  PROVE FALSE
  BY DEF SomebodyCanAct
<1>1. db.status \notin Ended  BY DEF Live, Ended
<1>2. WaitsForTokens(db) /\ NoneIsFull(db) /\ Whole(H, Places(db, <<>>))
  BY <1>1 DEF ApartInv, IsApart, WholeInv
<1>3. db.current \subseteq Joins /\ db.current # {}
  <2>1. /\ db.current \subseteq Approvals \cup Joins /\ db.current # {}
        /\ \A n \in db.current \cap Approvals : PendingAt(db, n) # {}
    BY DEF RoundsInv, RoundsAreSound, IsStaffed
  <2>2. \A n : PendingAt(db, n) = {}  BY DEF PendingAt
  <2> QED  BY <2>1, <2>2
<1> DEFINE W == {e \in JoinEdges : db.tokens[e] > 0}
           f == [e \in W |-> depth[e[2]]]
<1>4. Places(db, <<>>) = W
  <2>1. WaitingAt(db) = W  BY <1>3 DEF WaitingAt
  <2>2. Places(db, <<>>) = WaitingAt(db)  BY NoArrival DEF Places
  <2> QED  BY <2>1, <2>2
<1>5. W # {}  BY <1>2, <1>3 DEF WaitsForTokens
<1>6. \A e \in JoinEdges : e[2] \in Joins  BY DEF JoinEdges
<1>7. \A e \in W : f[e] = depth[e[2]] /\ f[e] \in Nat  BY <1>6
<1>8. W \subseteq JoinEdges  OBVIOUS
<1>9. \A e \in W : db.tokens[e] > 0  OBVIOUS
<1> HIDE DEF W, f
<1>10. PICK x \in W : \A y \in W : f[x] <= f[y]  BY <1>5, <1>7, OneIsLeast
<1>11. PICK j : j = x[2]  OBVIOUS
<1>12. j \in Joins /\ x \in JoinEdges  BY <1>6, <1>8, <1>11
<1>13. PICK p \in Preds(j) : db.tokens[<<p, j>>] = 0  BY <1>2, <1>12 DEF NoneIsFull
<1>14. PICK d \in JoinEdges : db.tokens[d] = 0 /\ d[2] = j
  <2>1. <<p, j>> \in JoinEdges  BY <1>12, JoinHasEdges
  <2> QED  BY <1>13, <2>1
<1>15. PICK y \in W : <<y, d>> \in H
  <2>1. <<x, x>> \in H  BY <1>12 DEF ComesTogether
  <2> QED  BY <1>2, <1>4, <1>11, <1>12, <1>14, <2>1 DEF Whole
<1>16. y \in JoinEdges /\ y # d
  <2>1. y \in JoinEdges /\ db.tokens[y] > 0  BY <1>8, <1>9
  <2>2. ~(0 > 0)  OBVIOUS
  <2> QED  BY <1>14, <2>1, <2>2
<1>17. depth[y[2]] < depth[d[2]]  BY <1>15, <1>16 DEF ComesTogether
<1>18. f[x] <= f[y] /\ f[x] \in Nat /\ f[y] \in Nat /\ f[y] < f[x]
  BY <1>7, <1>10, <1>11, <1>14, <1>17
<1> QED  BY <1>18

-------------------------------------------------------------------------------
(* The theorems.                                                             *)

\* Before, during and after every transaction each round is numbered, counted and
\* decided as its rule says, and the rows go back to the committed ones
\* (approval.go, task.go, task_operations.go).
THEOREM RoundsStaySound == Spec => []RoundsInv
<1>1. RoundsInv /\ [Next]_vars => RoundsInv'  BY RoundsInvIsInductive
<1>2. Init => RoundsInv  BY InitHolds
<1> QED  BY <1>1, <1>2, PTL DEF Spec

\* What was voted, handed over or cancelled is never rewritten, no row is lost, and
\* an ended instance changes no more (task.go, lifecycle.go).
THEOREM NothingIsRewritten == Spec => HistoryIsFinal
<1>1. RoundsInv /\ [Next]_vars
        => [Extends(db, db') /\ (db.status \in Ended => db' = db)]_db
  BY NextOnward DEF Onward
<1> QED  BY <1>1, RoundsStaySound, PTL DEF Spec, HistoryIsFinal

\* A round is open exactly as long as its votes leave it undecided, and the flow
\* went on past it only for a reason on record (approval.go, resolveApproval).
THEOREM RoundsAreDecidedByRule == Spec => []RoundsFollowTheRule
<1>1. ASSUME RoundsInv  PROVE RoundsFollowTheRule
  <2>1. \A t \in db.tasks : RoundIsSound(db, t)  BY <1>1 DEF RoundsInv, RoundsAreSound
  <2>2. \A t \in Pending(db) : t \in db.tasks /\ IsOpen(Round(db, t))
    BY DEF Pending, IsOpen, Round
  <2>3. OpenRoundsAreUndecided
    BY <2>1, <2>2 DEF OpenRoundsAreUndecided, RoundIsSound, Undecided
  <2>4. ClosedRoundsAreExplained
    BY <2>1 DEF ClosedRoundsAreExplained, IsExplained, RoundIsSound
  <2> QED  BY <2>3, <2>4 DEF RoundsFollowTheRule
<1> QED  BY <1>1, RoundsStaySound, PTL

\* Where the review mints no task, and no generic flow does, nobody is counted
\* twice in a round, whatever was transferred to and fro (transferPendingTask).
THEOREM NobodyVotesTwice ==
  ASSUME \A n \in Approvals : ~Mints(n)
  PROVE  Spec => []OnePersonOneVote
<1>1. ASSUME RoundsInv  PROVE OnePersonOneVote
  <2>1. \A t \in db.tasks : CountsOnce(Round(db, t))
    <3>1. \A t \in db.tasks : t.node \in Approvals
      BY <1>1, RowsAtRest, InstanceFields, TaskFields
    <3> QED  BY <1>1, <3>1 DEF RoundsInv, RoundsAreSound, RoundIsSound
  <2>2. \A t, u \in db.tasks : t.node = u.node /\ t.round = u.round
                                 => t \in Round(db, t) /\ u \in Round(db, t)
    BY DEF Round
  <2> QED  BY <2>1, <2>2 DEF OnePersonOneVote, CountsOnce
<1> QED  BY <1>1, RoundsStaySound, PTL

\* An approval the instance waits at has an open task, unless the applicant alone
\* holds a fallback role (ApprovalNode.OnEnter).
THEOREM ApprovalsAreStaffed ==
  ASSUME FallbackCanAct
  PROVE  Spec => []ActiveApprovalsAreStaffed
<1>1. RoundsInv => ActiveApprovalsAreStaffed
  BY DEF RoundsInv, RoundsAreSound, IsStaffed, ActiveApprovalsAreStaffed
<1> QED  BY <1>1, RoundsStaySound, PTL

\* Without joins a live instance always waits for somebody (execution.go).
THEOREM SomebodyCanAlwaysAct ==
  ASSUME FallbackCanAct, Joins = {}
  PROVE  Spec => []SomebodyCanAct
<1>1. ASSUME RoundsInv  PROVE SomebodyCanAct
  <2>1. SUFFICES ASSUME db.status \in Live  PROVE Pending(db) # {}
    BY DEF SomebodyCanAct
  <2>2. PICK n \in db.current : n \in Approvals
    BY <1>1, <2>1 DEF RoundsInv, RoundsAreSound, IsStaffed
  <2>3. PendingAt(db, n) # {}
    BY <1>1, <2>2 DEF RoundsInv, RoundsAreSound, IsStaffed
  <2> QED  BY <2>3 DEF PendingAt
<1> QED  BY <1>1, RoundsStaySound, PTL

\* In a generic flow the step behind a join opens no more often than each branch
\* whose approval a vote must end was passed (join.go, arriveParallelJoin).
THEOREM JoinsOpenForFullSets ==
  ASSUME ~Protected
  PROVE  Spec => []JoinsNeedEveryBranch
<1>1. \A b \in Blocks : Paid(b) <=>
        /\ IsPaid(db, b, 0) /\ IsPaid(work, b, One(StepIsNext(b)) + One(BranchIsNext(b)))
        /\ BranchIsNext(b) => queue = <<ComesIn(b)>>
  BY DEF Paid
<1>2. Init => BlocksInv  BY InitPays, <1>1 DEF BlocksInv
<1>3. ASSUME RoundsInv, RoundsInv', BlocksInv, [Next]_vars  PROVE BlocksInv'
  <2>1. IsTidyStep
    <3>1. Sound(db)' /\ Sound(work)'  BY <1>3 DEF RoundsInv, IndInv, TypeOK, Sound
    <3>2. Tidy(db') /\ Tidy(work')  BY <3>1, SoundIsTidy DEF Sound
    <3> QED  BY <1>3, <3>2, NextOnward DEF IsTidyStep
  <2>2. ASSUME NEW b \in Blocks  PROVE Paid(b)'
    <3>1. Paid(b)  BY <1>1, <1>3 DEF BlocksInv
    <3> QED  BY <1>3, <2>1, <3>1, NextPays
  <2> QED  BY <2>2 DEF BlocksInv, Paid
<1>4. ASSUME RoundsInv, BlocksInv  PROVE JoinsNeedEveryBranch
  <2> SUFFICES ASSUME NEW b \in Blocks
               PROVE  Cardinality(RoundsAt(db, b.step)) <= Cardinality(PassedAt(db, b.branch))
    BY DEF JoinsNeedEveryBranch
  <2>1. Tidy(db)  BY <1>4, RowsAtRest
  <2>2. Cardinality(RoundsAt(db, b.step)) \in Nat /\ Cardinality(PassedAt(db, b.branch)) \in Nat
    BY <2>1, RoundsAreCounted
  <2>3. db.tokens[<<b.branch, b.join>>] \in Nat  BY <2>1, BlockParts, InstanceFields DEF Tidy
  <2>4. IsPaid(db, b, 0)  BY <1>4 DEF BlocksInv
  <2> QED  BY <2>2, <2>3, <2>4 DEF IsPaid
<1> QED  BY <1>2, <1>3, <1>4, RoundsStaySound, PTL DEF Spec

\* Where the parts of the flow keep apart, a join waits exactly while it holds a token,
\* whatever was returned, skipped or rolled back: no token is left over to open a later
\* cycle early (join.go, arriveParallelJoin; RollbackTask takes no token back).
THEOREM TokensAreNeverLeftOver ==
  ASSUME NEW B, KeepsApart(B)
  PROVE  Spec => []JoinTokensAreWaiting
<1>1. Init => ApartInv(B)  BY InitApart
<1>2. RoundsInv /\ ApartInv(B) /\ [Next]_vars => ApartInv(B)'  BY NextApart
<1>3. ApartInv(B) => JoinTokensAreWaiting
  BY DEF ApartInv, IsApart, JoinTokensAreWaiting, Live, Ended
<1> QED  BY <1>1, <1>2, <1>3, RoundsStaySound, PTL DEF Spec

\* In such a graph a join opens once for every full set of its branches (join.go).
THEOREM JoinsStayExact ==
  ASSUME ~Protected, NEW B, KeepsApart(B)
  PROVE  Spec => []JoinsAreExact
<1>1. JoinsNeedEveryBranch /\ JoinTokensAreWaiting => JoinsAreExact  BY DEF JoinsAreExact
<1>2. Spec => []JoinsNeedEveryBranch  BY JoinsOpenForFullSets
<1>3. Spec => []JoinTokensAreWaiting  BY TokensAreNeverLeftOver
<1> QED  BY <1>1, <1>2, <1>3, PTL

\* Where what a fork parts also comes together again, a live instance always waits for
\* somebody, unless someone sends the flow back to an approval between a fork and its
\* join: only RollbackTask can leave a join waiting for a branch that is nowhere
\* (execution.go, join.go, task_operations.go).
THEOREM SomebodyCanActBeforeJoins ==
  ASSUME FallbackCanAct, NEW B, KeepsApart(B), NEW H, NEW depth \in [Joins -> Nat],
         ComesTogether(H, B, depth)
  PROVE  Spec /\ [][ReturnsStayOut(H)]_vars => []SomebodyCanAct
<1>1. Init => ApartInv(B) /\ WholeInv(H)  BY InitApart, InitWhole
<1>2. RoundsInv /\ ApartInv(B) /\ [Next]_vars => ApartInv(B)'  BY NextApart
<1>3. RoundsInv /\ ApartInv(B) /\ WholeInv(H) /\ [Next]_vars /\ [ReturnsStayOut(H)]_vars
        => WholeInv(H)'
  BY NextWhole
<1>4. RoundsInv /\ ApartInv(B) /\ WholeInv(H) => SomebodyCanAct  BY WholeIsAlive
<1> QED  BY <1>1, <1>2, <1>3, <1>4, RoundsStaySound, PTL DEF Spec
===============================================================================
