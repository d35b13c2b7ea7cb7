--------------------------- MODULE EscalationProofs ---------------------------
(***************************************************************************)
(* The overdue scan beside the flow, for every graph, staffing and bound.  *)
(* A hand-over may open tasks at a node the flow has left and rewrite rows *)
(* of the round it ends, so neither IndInv nor RoundsInv holds here.  What *)
(* holds is that the rounds no hand-over has followed are as sound as if   *)
(* the others did not exist.                                               *)
(***************************************************************************)
EXTENDS FlowRoundsProofs, ApprovalEscalation

-------------------------------------------------------------------------------
(* The rounds that no hand-over has followed.                                *)

\* A hand-over in H has opened a later round at the node of t.
Followed(H, t) == \E h \in H : h.node = t.node /\ h.round > t.round

\* The instance without the rounds that a hand-over has followed.
Standing(s, H) == [s EXCEPT !.tasks = {t \in s.tasks : ~Followed(H, t)}]
Firm(s, H) == Tidy(s) /\ Held(Standing(s, H))

\* Leaving out rows changes nothing else of the instance.
LEMMA StandingFields ==
  ASSUME NEW s, s \in Instance, NEW H, NEW b, b = Standing(s, H)
  PROVE  /\ b \in Instance /\ b.tasks = {t \in s.tasks : ~Followed(H, t)}
         /\ b.notes = s.notes /\ b.status = s.status /\ b.rounds = s.rounds
         /\ Pending(b) = {t \in Pending(s) : ~Followed(H, t)}
<1>1. s.tasks \in SUBSET Task  BY InstanceFields
<1>2. {t \in s.tasks : ~Followed(H, t)} \in SUBSET Task  BY <1>1
<1>3. /\ b \in Instance /\ b.tasks = {t \in s.tasks : ~Followed(H, t)}
      /\ b.notes = s.notes /\ b.status = s.status /\ b.rounds = s.rounds
  BY <1>2 DEF Standing, Instance
<1> QED  BY <1>3 DEF Pending

\* It leaves finitely many rows of issued rounds.
LEMMA StandingIsTidy ==
  ASSUME NEW s, Tidy(s), NEW H
  PROVE  Tidy(Standing(s, H))
<1>1. PICK b : b = Standing(s, H)  OBVIOUS
<1>2. b \in Instance /\ b.tasks = {t \in s.tasks : ~Followed(H, t)} /\ b.rounds = s.rounds
  BY <1>1, StandingFields DEF Tidy
<1>3. IsFiniteSet(b.tasks)  BY <1>2, FS_Subset DEF Tidy
<1>4. \A t \in b.tasks : t.round \in 1..b.rounds  BY <1>2 DEF Tidy
<1> QED  BY <1>1, <1>2, <1>3, <1>4 DEF Tidy

\* A round is left out as a whole or not at all.
LEMMA StandingRound ==
  ASSUME NEW s, s \in Instance, NEW H, NEW t, ~Followed(H, t)
  PROVE  Round(Standing(s, H), t) = Round(s, t)
<1>1. PICK b : b = Standing(s, H)  OBVIOUS
<1>2. b.tasks = {u \in s.tasks : ~Followed(H, u)}  BY <1>1, StandingFields
<1>3. \A u : u.node = t.node /\ u.round = t.round => ~Followed(H, u)  BY DEF Followed
<1>4. Round(b, t) = Round(s, t)  BY <1>2, <1>3 DEF Round
<1> QED  BY <1>1, <1>4

\* Closing rows closes those of them that are not left out.
LEMMA StandingMarked ==
  ASSUME NEW s, s \in Instance, NEW T \in SUBSET s.tasks, NEW st \in TaskState,
         NEW c, c \in Instance, c.tasks = Marked(s.tasks, T, st), NEW H
  PROVE  Standing(c, H).tasks
           = Marked(Standing(s, H).tasks, {t \in T : ~Followed(H, t)}, st)
<1>1. s.tasks \in SUBSET Task  BY InstanceFields
<1>2. \A t \in T : Followed(H, SetState(t, st)) <=> Followed(H, t)
  <2>1. \A t \in T : SetState(t, st).node = t.node /\ SetState(t, st).round = t.round
    BY <1>1, SetStateFields
  <2> QED  BY <2>1 DEF Followed
<1>3. /\ Standing(s, H).tasks = {t \in s.tasks : ~Followed(H, t)}
      /\ Standing(c, H).tasks = {t \in c.tasks : ~Followed(H, t)}
  BY StandingFields
<1> QED  BY <1>2, <1>3 DEF Marked

\* The same of two instances that are told by name.
LEMMA StandingClosed ==
  ASSUME NEW s, Tidy(s), NEW T \in SUBSET s.tasks, NEW st \in TaskState, NEW H,
         NEW c, Tidy(c), c.tasks = Marked(s.tasks, T, st),
         NEW b, b = Standing(s, H), NEW d, d = Standing(c, H)
  PROVE  d.tasks = Marked(b.tasks, {t \in T : ~Followed(H, t)}, st)
<1>1. s \in Instance /\ c \in Instance  BY DEF Tidy
<1>2. Standing(c, H).tasks
        = Marked(Standing(s, H).tasks, {t \in T : ~Followed(H, t)}, st)
  BY <1>1, StandingMarked
<1> QED  BY <1>2

\* The same rows with the same notes are as firm.
LEMMA FirmByRows ==
  ASSUME NEW s, NEW H, Firm(s, H), NEW c, c \in Instance, c.tasks = s.tasks,
         c.rounds = s.rounds, s.notes \subseteq c.notes,
         s.status = "terminated" => c.status = "terminated"
  PROVE  Firm(c, H)
<1>1. s \in Instance  BY DEF Firm, Tidy
<1>2. Tidy(c)  BY DEF Firm, Tidy
<1>3. PICK b : b = Standing(s, H)  OBVIOUS
<1>4. PICK d : d = Standing(c, H)  OBVIOUS
<1>5. /\ b.tasks = {t \in s.tasks : ~Followed(H, t)} /\ b.notes = s.notes /\ b.status = s.status
      /\ d.tasks = {t \in c.tasks : ~Followed(H, t)} /\ d.notes = c.notes /\ d.status = c.status
  BY <1>1, <1>3, <1>4, StandingFields
<1>6. Held(b)  BY <1>3 DEF Firm
<1>7. Held(d)  BY <1>5, <1>6, SameRows
<1> QED  BY <1>2, <1>4, <1>7 DEF Firm

\* Where everything is firm the rows are clean, and all closed rounds explained.
LEMMA FirmIsClean ==
  ASSUME NEW s, NEW H, Firm(s, H)
  PROVE  Clean(Standing(s, H))
BY StandingIsTidy, HeldIsClean DEF Firm

\* Closing rows leaves finitely many rows of issued rounds.
LEMMA CloseIsTidy ==
  ASSUME NEW s, Tidy(s), NEW T \in SUBSET s.tasks, NEW st \in TaskState,
         NEW c, c = Close(s, T, st)
  PROVE  /\ Tidy(c) /\ c.tasks = Marked(s.tasks, T, st) /\ c.notes = s.notes
         /\ c.status = s.status /\ c.current = s.current /\ c.rounds = s.rounds
<1> DEFINE M == {SetState(t, st) : t \in T}
<1>1. s \in Instance /\ s.tasks \in SUBSET Task /\ IsFiniteSet(s.tasks)
  BY InstanceFields DEF Tidy
<1>2. \A t \in T : /\ SetState(t, st) \in Task
                   /\ SetState(t, st).node = t.node /\ SetState(t, st).round = t.round
  BY <1>1, SetStateFields
<1>3. /\ c.tasks = Marked(s.tasks, T, st) /\ c.notes = s.notes
      /\ c.status = s.status /\ c.current = s.current /\ c.rounds = s.rounds
  BY <1>1, CloseFields
<1>4. c \in Instance
  <2>1. (s.tasks \ T) \cup M \in SUBSET Task  BY <1>1, <1>2
  <2> QED  BY <1>1, <2>1 DEF Close, Instance
<1>5. IsFiniteSet(c.tasks)
  <2>1. IsFiniteSet(T) /\ IsFiniteSet(s.tasks \ T)  BY <1>1, FS_Subset
  <2>2. IsFiniteSet(M)  BY <2>1, MarkedFinite
  <2>3. IsFiniteSet((s.tasks \ T) \cup M)  BY <2>1, <2>2, FS_Union
  <2> QED  BY <1>3, <2>3 DEF Marked
<1>6. \A u \in c.tasks : u.round \in 1..c.rounds  BY <1>2, <1>3 DEF Tidy, Marked
<1> QED  BY <1>3, <1>4, <1>5, <1>6 DEF Tidy

\* terminateInstance leaves finitely many rows, every round closed.
LEMMA TerminatedIsFirm ==
  ASSUME NEW s, Tidy(s), NEW H, Clean(Standing(s, H)), NEW c, c = Terminated(s)
  PROVE  Firm(c, H) /\ c.status = "terminated" /\ c.current = {} /\ Extends(s, c)
<1>1. PICK a : a = CancelAll(s)  OBVIOUS
<1>2. s \in Instance /\ Pending(s) \in SUBSET s.tasks /\ "cancelled" \in TaskState
  BY DEF Tidy, Pending, TaskState
<1>3. /\ Tidy(a) /\ a.tasks = Marked(s.tasks, Pending(s), "cancelled") /\ a.notes = s.notes
      /\ a.rounds = s.rounds
  BY <1>1, <1>2, CloseIsTidy DEF CancelAll
<1>4. c = [a EXCEPT !.status = "terminated", !.current = {}]  BY <1>1 DEF Terminated
<1>5. /\ c \in Instance /\ c.tasks = a.tasks /\ c.notes = a.notes /\ c.rounds = a.rounds
      /\ c.status = "terminated" /\ c.current = {}
  BY <1>3, <1>4 DEF Tidy, Instance, Status
<1>6. Tidy(c)  BY <1>3, <1>5 DEF Tidy
<1>7. PICK b : b = Standing(s, H)  OBVIOUS
<1>8. PICK d : d = Standing(c, H)  OBVIOUS
<1>9. b \in Instance /\ Pending(b) = {t \in Pending(s) : ~Followed(H, t)}
  BY <1>2, <1>7, StandingFields
<1>10. d.tasks = Marked(b.tasks, Pending(b), "cancelled")
  BY <1>2, <1>3, <1>5, <1>7, <1>8, <1>9, StandingMarked
<1>11. d.status = "terminated"  BY <1>5, <1>8, StandingFields
<1>12. Held(d)  BY <1>7, <1>9, <1>10, <1>11, EndedHolds
<1>13. Extends(s, c)
  <2>1. PICK T \in SUBSET Pending(s) : T = Pending(s)  OBVIOUS
  <2> QED  BY <1>2, <1>3, <1>5, <2>1, MarkingExtends
<1> QED  BY <1>5, <1>6, <1>8, <1>12, <1>13 DEF Firm

\* A new round at n, whether a hand-over has followed it already or not.
LEMMA OpenedIsFirm ==
  ASSUME NEW s, NEW H, Firm(s, H), NEW n \in Approvals, NEW A \in SUBSET Users,
         NEW c, c = OpenRound(s, n, A)
  PROVE  /\ Firm(c, H) /\ Extends(s, c) /\ c.status = s.status /\ c.rounds = s.rounds + 1
         /\ c.current = s.current /\ s.tasks \subseteq c.tasks
         /\ A # {} => PendingAt(c, n) # {}
<1> DEFINE row(u) == [node |-> n, round |-> s.rounds + 1, who |-> u, nth |-> 0, st |-> "pending"]
           N == {row(u) : u \in A}
<1>1. s \in Instance /\ s.tasks \in SUBSET Task /\ s.rounds \in Nat /\ IsFiniteSet(s.tasks)
  BY InstanceFields DEF Firm, Tidy
<1>2. /\ c.tasks = s.tasks \cup N /\ c.notes = s.notes /\ c.status = s.status
      /\ c.rounds = s.rounds + 1 /\ c.current = s.current
  BY <1>1, InstanceFields DEF OpenRound
<1>3. \A x \in N : x \in Task /\ x.node = n /\ x.round = s.rounds + 1
  BY <1>1 DEF Task, TaskState
<1>4. c \in Instance
  <2>1. s.tasks \cup N \in SUBSET Task  BY <1>1, <1>3
  <2>2. s.rounds + 1 \in Nat  BY <1>1
  <2>3. c = [s EXCEPT !.rounds = s.rounds + 1, !.tasks = s.tasks \cup N]  BY DEF OpenRound
  <2> HIDE DEF N
  <2> QED  BY <1>1, <2>1, <2>2, <2>3 DEF Instance
<1>5. IsFiniteSet(c.tasks)
  <2>1. IsFiniteSet(A)  BY GraphAssumption, FS_Subset
  <2>2. IsFiniteSet(N)
    <3> DEFINE f == [u \in A |-> row(u)]
    <3>1. f \in Surjection(A, N)  BY DEF Surjection
    <3> QED  BY <2>1, <3>1, FS_Surjection
  <2>3. IsFiniteSet(s.tasks \cup N)  BY <1>1, <2>2, FS_Union
  <2> QED  BY <1>2, <2>3
<1>6. Tidy(c)
  <2>1. \A u \in s.tasks : u.round \in 1..s.rounds  BY DEF Firm, Tidy
  <2>2. \A u \in c.tasks : u.round \in 1..c.rounds  BY <1>1, <1>2, <1>3, <2>1
  <2> QED  BY <1>4, <1>5, <2>2 DEF Tidy
<1>7. PICK b : b = Standing(s, H)  OBVIOUS
<1>8. PICK d : d = Standing(c, H)  OBVIOUS
<1>9. /\ b.tasks = {t \in s.tasks : ~Followed(H, t)} /\ b.notes = s.notes
      /\ b.status = s.status /\ b.rounds = s.rounds
      /\ d.tasks = {t \in c.tasks : ~Followed(H, t)} /\ d.notes = c.notes /\ d.status = c.status
  BY <1>1, <1>4, <1>7, <1>8, StandingFields
<1>10. Tidy(b) /\ Held(b)  BY <1>7, StandingIsTidy DEF Firm
<1>11. PICK gone \in BOOLEAN :
         gone <=> \E h \in H : h.node = n /\ h.round > s.rounds + 1
  OBVIOUS
<1>12. \A x \in N : Followed(H, x) <=> gone  BY <1>3, <1>11 DEF Followed
<1>13. Held(d)
  <2>1. CASE gone
    <3>1. d.tasks = b.tasks  BY <1>2, <1>9, <1>12, <2>1
    <3> QED  BY <1>2, <1>9, <1>10, <3>1, SameRows
  <2>2. CASE ~gone
    <3>1. d.tasks = b.tasks \cup N  BY <1>2, <1>9, <1>12, <2>2
    <3>2. N = {[node |-> n, round |-> b.rounds + 1, who |-> u,
                nth |-> 0, st |-> "pending"] : u \in A}
      BY <1>9
    <3> HIDE DEF N
    <3> QED  BY <1>2, <1>9, <1>10, <3>1, <3>2, OpenedHolds
  <2> QED  BY <2>1, <2>2
<1>14. Extends(s, c)  BY <1>1, <1>2, AddingExtends
<1>15. A # {} => PendingAt(c, n) # {}
  <2>1. \A u \in A : row(u) \in PendingAt(c, n)  BY <1>2 DEF PendingAt, Pending
  <2> QED  BY <2>1
<1> QED  BY <1>2, <1>6, <1>8, <1>13, <1>14, <1>15 DEF Firm

-------------------------------------------------------------------------------
(* Votes, hand-overs between users, and skips.                               *)

\* A vote has been cast in the round of t; if no hand-over has followed the
\* round, it is the one round nothing has been made of yet.
Balloted(s, t, H) ==
  /\ Tidy(s)
  /\ \/ Followed(H, t) /\ Held(Standing(s, H))
     \/ ~Followed(H, t) /\ Cast(Standing(s, H), t)

LEMMA BallotedIsClean ==
  ASSUME NEW s, NEW t, NEW H, Balloted(s, t, H)
  PROVE  Clean(Standing(s, H))
<1>1. Tidy(Standing(s, H))  BY StandingIsTidy DEF Balloted
<1> QED  BY <1>1, HeldIsClean, CastIsClean DEF Balloted

\* A vote that passes its round closes it.
LEMMA PassedIsFirm ==
  ASSUME NEW s, NEW t, NEW H, Balloted(s, t, H), RoundPasses(Round(s, t), t.node),
         NEW c, c = Close(s, Round(s, t) \cap Pending(s), "cancelled")
  PROVE  Firm(c, H) /\ Extends(s, c) /\ c.status = s.status
<1>1. PICK T : T = Round(s, t) \cap Pending(s)  OBVIOUS
<1>2. s \in Instance /\ T \in SUBSET s.tasks /\ T \in SUBSET Pending(s) /\ "cancelled" \in TaskState
  BY <1>1 DEF Balloted, Tidy, Pending, TaskState
<1>3. /\ Tidy(c) /\ c.tasks = Marked(s.tasks, T, "cancelled") /\ c.notes = s.notes
      /\ c.status = s.status
  BY <1>1, <1>2, CloseIsTidy DEF Balloted
<1>4. PICK b : b = Standing(s, H)  OBVIOUS
<1>a. PICK z : z = c  OBVIOUS
<1>b. /\ Tidy(z) /\ z.tasks = Marked(s.tasks, T, "cancelled") /\ z.notes = s.notes
      /\ z.status = s.status
  BY <1>3, <1>a
<1>5. PICK d : d = Standing(z, H)  OBVIOUS
<1>6. PICK U : U = {u \in T : ~Followed(H, u)}  OBVIOUS
<1>7. /\ d.tasks = Marked(b.tasks, U, "cancelled") /\ d.notes = b.notes /\ d.status = b.status
      /\ Pending(b) = {u \in Pending(s) : ~Followed(H, u)}
  <2>1. Tidy(s)  BY DEF Balloted
  <2>2. d.tasks = Marked(b.tasks, {u \in T : ~Followed(H, u)}, "cancelled")
    <3>1. s \in Instance /\ T \in SUBSET s.tasks /\ "cancelled" \in TaskState  BY <1>2
    <3>2. z \in Instance /\ z.tasks = Marked(s.tasks, T, "cancelled")  BY <1>b DEF Tidy
    <3>3. Standing(z, H).tasks
            = Marked(Standing(s, H).tasks, {u \in T : ~Followed(H, u)}, "cancelled")
      BY <3>1, <3>2, StandingMarked
    <3> QED  BY <3>3, <1>4, <1>5
  <2>3. s \in Instance /\ z \in Instance  BY <1>b, <2>1 DEF Tidy
  <2>4. /\ b.notes = s.notes /\ b.status = s.status
        /\ Pending(b) = {u \in Pending(s) : ~Followed(H, u)}
    BY <1>4, <2>3, StandingFields
  <2>5. d.notes = z.notes /\ d.status = z.status
    BY <1>5, <2>3, StandingFields
  <2> QED  BY <1>b, <1>6, <2>2, <2>4, <2>5
<1>8. \A u \in T : Followed(H, u) <=> Followed(H, t)  BY <1>1 DEF Round, Followed
<1>9. Held(d)
  <2>1. CASE Followed(H, t)
    <3>1. U = {}  BY <1>6, <1>8, <2>1
    <3>2. d.tasks = b.tasks  BY <1>7, <3>1, NothingMarked
    <3>3. Held(b)  BY <1>4, <2>1 DEF Balloted
    <3> QED  BY <1>7, <3>2, <3>3, SameRows
  <2>2. CASE ~Followed(H, t)
    <3>1. Round(b, t) = Round(s, t)  BY <1>2, <1>4, <2>2, StandingRound
    <3>2. U = Round(b, t) \cap Pending(b)  BY <1>1, <1>6, <1>7, <1>8, <2>2, <3>1
    <3>3. Tidy(b) /\ Cast(b, t)  BY <1>4, <2>2, StandingIsTidy DEF Balloted
    <3> QED  BY <1>7, <3>1, <3>2, <3>3, PassedHolds
  <2> QED  BY <2>1, <2>2
<1>10. Extends(s, c)
  <2>1. Marked(s.tasks, T, "cancelled") \subseteq c.tasks  BY <1>3
  <2> QED  BY <1>2, <2>1, MarkingExtends
<1> QED  BY <1>3, <1>a, <1>5, <1>9, <1>10 DEF Firm

\* A vote that leaves its round undecided leaves it open.
LEMMA UndecidedIsFirm ==
  ASSUME NEW s, NEW t, NEW H, Balloted(s, t, H), t.node \in Approvals,
         ~RoundPasses(Round(s, t), t.node), ~RoundImpossible(Round(s, t), t.node),
         HasVerdict(Round(s, t))
  PROVE  Firm(s, H)
<1>1. CASE Followed(H, t)  BY <1>1 DEF Balloted, Firm
<1>2. CASE ~Followed(H, t)
  <2>1. PICK b : b = Standing(s, H)  OBVIOUS
  <2>2. Tidy(b) /\ Cast(b, t)  BY <1>2, <2>1, StandingIsTidy DEF Balloted
  <2>3. Round(b, t) = Round(s, t)  BY <1>2, <2>1, StandingRound DEF Balloted, Tidy
  <2>4. Held(b)  BY <2>2, <2>3, UndecidedHolds DEF HasVerdict
  <2> QED  BY <2>1, <2>4 DEF Balloted, Firm
<1> QED  BY <1>1, <1>2

\* A verdict on an open task.
LEMMA VotedIsBalloted ==
  ASSUME NEW s, NEW H, Firm(s, H), NEW t \in Pending(s), NEW st \in {"approved", "rejected"},
         NEW c, c = Close(s, {t}, st)
  PROVE  /\ Balloted(c, t, H) /\ HasVerdict(Round(c, t)) /\ Extends(s, c)
         /\ c.status = s.status /\ t.node \in Approvals
<1>1. PICK T : T = {t}  OBVIOUS
<1>2. st \in TaskState /\ st # "pending" /\ st # "cancelled"  BY DEF TaskState
<1>3. Tidy(s) /\ s \in Instance /\ T \in SUBSET s.tasks /\ T \in SUBSET Pending(s)
  BY <1>1 DEF Firm, Tidy, Pending
<1>4. /\ Tidy(c) /\ c.tasks = Marked(s.tasks, T, st) /\ c.notes = s.notes
      /\ c.status = s.status
  BY <1>1, <1>2, <1>3, CloseIsTidy
<1>5. PICK b : b = Standing(s, H)  OBVIOUS
<1>a. PICK z : z = c  OBVIOUS
<1>b. /\ Tidy(z) /\ z.tasks = Marked(s.tasks, T, st) /\ z.notes = s.notes
      /\ z.status = s.status
  BY <1>4, <1>a
<1>6. PICK d : d = Standing(z, H)  OBVIOUS
<1>c. d = Standing(c, H)  BY <1>a, <1>6
<1>7. /\ d.tasks = Marked(b.tasks, {u \in T : ~Followed(H, u)}, st) /\ d.notes = b.notes
      /\ d.status = b.status /\ Pending(b) = {u \in Pending(s) : ~Followed(H, u)}
  <2>1. d.tasks = Marked(b.tasks, {u \in T : ~Followed(H, u)}, st)
    <3>1. Tidy(s) /\ T \in SUBSET s.tasks /\ st \in TaskState  BY <1>2, <1>3
    <3>2. Tidy(z) /\ z.tasks = Marked(s.tasks, T, st)  BY <1>b
    <3> QED  BY <3>1, <3>2, <1>5, <1>6, StandingClosed
  <2>2. s \in Instance /\ z \in Instance  BY <1>b, <1>3 DEF Tidy
  <2>3. /\ b.notes = s.notes /\ b.status = s.status
        /\ Pending(b) = {u \in Pending(s) : ~Followed(H, u)}
    BY <1>5, <2>2, StandingFields
  <2>4. d.notes = z.notes /\ d.status = z.status
    BY <1>6, <2>2, StandingFields
  <2> QED  BY <1>b, <2>1, <2>3, <2>4
<1>8. Tidy(b) /\ Held(b)  BY <1>3, <1>5, StandingIsTidy DEF Firm
<1>9. Balloted(c, t, H)
  <2>1. CASE Followed(H, t)
    <3>1. {u \in T : ~Followed(H, u)} = {}  BY <1>1, <2>1
    <3>2. d.tasks = b.tasks  BY <1>7, <3>1, NothingMarked
    <3>3. Held(d)  BY <1>7, <1>8, <3>2, SameRows
    <3> QED  BY <1>4, <1>c, <2>1, <3>3 DEF Balloted
  <2>2. CASE ~Followed(H, t)
    <3>1. t \in Pending(b) /\ {u \in T : ~Followed(H, u)} = {t}  BY <1>1, <1>7, <2>2
    <3>2. Cast(d, t)  BY <1>2, <1>7, <1>8, <3>1, VoteIsCast
    <3> QED  BY <1>4, <1>c, <2>2, <3>2 DEF Balloted
  <2> QED  BY <2>1, <2>2
<1>10. t \in Task /\ t.node \in Approvals  BY <1>3, InstanceFields, TaskFields DEF Pending
<1>11. HasVerdict(Round(c, t))
  <2>1. SetState(t, st) \in c.tasks  BY <1>1, <1>4 DEF Marked
  <2>2. SetState(t, st) \in Round(c, t) /\ SetState(t, st).st = st
    BY <1>2, <1>10, <2>1, SetStateFields DEF Round
  <2> QED  BY <2>2 DEF HasVerdict
<1>12. Extends(s, c)
  <2>1. Marked(s.tasks, T, st) \subseteq c.tasks  BY <1>4
  <2> QED  BY <1>2, <1>3, <2>1, MarkingExtends
<1> QED  BY <1>4, <1>9, <1>10, <1>11, <1>12

\* One row more in the round of an open task.
LEMMA AddingIsTidy ==
  ASSUME NEW s, Tidy(s), NEW p \in s.tasks, NEW x \in Task, x.round = p.round,
         NEW c, c = [s EXCEPT !.tasks = s.tasks \cup {x}]
  PROVE  /\ Tidy(c) /\ c.tasks = s.tasks \cup {x} /\ c.notes = s.notes
         /\ c.status = s.status /\ c.rounds = s.rounds /\ Extends(s, c)
<1>1. s \in Instance /\ s.tasks \in SUBSET Task /\ IsFiniteSet(s.tasks)
  BY InstanceFields DEF Tidy
<1>2. /\ c.tasks = s.tasks \cup {x} /\ c.notes = s.notes /\ c.status = s.status
      /\ c.rounds = s.rounds
  BY <1>1, InstanceFields
<1>3. c \in Instance
  <2>1. s.tasks \cup {x} \in SUBSET Task  BY <1>1
  <2> QED  BY <1>1, <2>1 DEF Instance
<1>4. IsFiniteSet(c.tasks)  BY <1>1, <1>2, FS_AddElement
<1>5. \A u \in c.tasks : u.round \in 1..c.rounds  BY <1>2 DEF Tidy
<1>6. Extends(s, c)  BY <1>1, <1>2, AddingExtends
<1> QED  BY <1>2, <1>3, <1>4, <1>5, <1>6 DEF Tidy

\* A verdict on a task minted for the reviewer.
LEMMA MintedIsBalloted ==
  ASSUME NEW s, NEW H, Firm(s, H), NEW p \in Pending(s), Mints(p.node), NEW v \in Users,
         NEW st \in {"approved", "rejected"},
         NEW t, t = NextTask(s, p, v), NEW x, x = SetState(t, st),
         NEW c, c = [s EXCEPT !.tasks = s.tasks \cup {x}]
  PROVE  /\ Balloted(c, t, H) /\ HasVerdict(Round(c, t)) /\ Extends(s, c)
         /\ c.status = s.status /\ t.node \in Approvals
<1>1. Tidy(s) /\ s \in Instance /\ p \in s.tasks /\ p \in Task  BY InstanceFields DEF Firm, Tidy, Pending
<1>2. st \in TaskState /\ st # "cancelled"  BY DEF TaskState
<1>3. t \in Task /\ t.node = p.node /\ t.round = p.round  BY <1>1, NextTaskIsTyped
<1>4. x \in Task /\ x.node = p.node /\ x.round = p.round /\ x.st = st
  BY <1>2, <1>3, SetStateFields
<1>5. /\ Tidy(c) /\ c.tasks = s.tasks \cup {x} /\ c.notes = s.notes /\ c.status = s.status
      /\ Extends(s, c)
  BY <1>1, <1>4, AddingIsTidy
<1>6. PICK b : b = Standing(s, H)  OBVIOUS
<1>a. PICK z : z = c  OBVIOUS
<1>b. Tidy(z) /\ z.tasks = s.tasks \cup {x} /\ z.notes = s.notes /\ z.status = s.status
  BY <1>5, <1>a
<1>7. PICK d : d = Standing(z, H)  OBVIOUS
<1>c. d = Standing(c, H)  BY <1>a, <1>7
<1>8. /\ b.tasks = {u \in s.tasks : ~Followed(H, u)} /\ d.tasks = {u \in z.tasks : ~Followed(H, u)}
      /\ d.notes = b.notes /\ d.status = b.status
      /\ Pending(b) = {u \in Pending(s) : ~Followed(H, u)}
  <2>1. z \in Instance  BY <1>b DEF Tidy
  <2>2. /\ b.tasks = {u \in s.tasks : ~Followed(H, u)} /\ b.notes = s.notes
        /\ b.status = s.status /\ Pending(b) = {u \in Pending(s) : ~Followed(H, u)}
    BY <1>1, <1>6, StandingFields
  <2>3. /\ d.tasks = {u \in z.tasks : ~Followed(H, u)} /\ d.notes = z.notes
        /\ d.status = z.status
    BY <1>7, <2>1, StandingFields
  <2> QED  BY <1>b, <2>2, <2>3
<1>9. Tidy(b) /\ Held(b)  BY <1>1, <1>6, StandingIsTidy DEF Firm
<1>10. (Followed(H, x) <=> Followed(H, p)) /\ (Followed(H, t) <=> Followed(H, p))
  BY <1>3, <1>4 DEF Followed
<1>11. Balloted(c, t, H)
  <2>1. CASE Followed(H, p)
    <3>1. d.tasks = b.tasks  BY <1>b, <1>8, <1>10, <2>1
    <3>2. Held(d)  BY <1>8, <1>9, <3>1, SameRows
    <3> QED  BY <1>5, <1>c, <1>10, <2>1, <3>2 DEF Balloted
  <2>2. CASE ~Followed(H, p)
    <3>1. p \in Pending(b) /\ d.tasks = b.tasks \cup {x}  BY <1>b, <1>8, <1>10, <2>2
    <3>2. Round(b, p) = Round(s, p)  BY <1>1, <1>6, <2>2, StandingRound
    <3>3. x = SetState(NextTask(b, p, v), st)  BY <3>2 DEF NextTask
    <3>4. Cast(d, p)  BY <1>2, <1>8, <1>9, <3>1, <3>3, MintIsCast
    <3>5. Round(d, t) = Round(d, p)  BY <1>3, SameRound
    <3>6. Cast(d, t)  BY <1>3, <3>4, <3>5 DEF Cast
    <3> QED  BY <1>5, <1>c, <1>10, <2>2, <3>6 DEF Balloted
  <2> QED  BY <2>1, <2>2
<1>12. HasVerdict(Round(c, t))
  <2>1. x \in Round(c, t)  BY <1>3, <1>4, <1>5 DEF Round
  <2> QED  BY <1>4, <2>1 DEF HasVerdict
<1>13. t.node \in Approvals  BY <1>3, TaskFields
<1> QED  BY <1>5, <1>11, <1>12, <1>13

\* A task handed to another user.
LEMMA HandedOnIsFirm ==
  ASSUME NEW s, NEW H, Firm(s, H), NEW t \in Pending(s), NEW v \in Users,
         \A u \in Round(s, t) \ {t} : u.who = v => u.st \notin Counted,
         NEW m, m = Close(s, {t}, "transferred"),
         NEW c, c = [m EXCEPT !.tasks = m.tasks \cup {NextTask(s, t, v)}]
  PROVE  Firm(c, H) /\ Extends(s, c) /\ c.status = s.status
<1>1. PICK T : T = {t}  OBVIOUS
<1>2. PICK x : x = NextTask(s, t, v)  OBVIOUS
<1>3. /\ Tidy(s) /\ s \in Instance /\ T \in SUBSET s.tasks /\ T \in SUBSET Pending(s)
      /\ "transferred" \in TaskState /\ t \in s.tasks /\ t \in Task
  BY <1>1, InstanceFields DEF Firm, Tidy, Pending, TaskState
<1>a. PICK y : y = m  OBVIOUS
<1>b. PICK z : z = c  OBVIOUS
<1>4. /\ Tidy(m) /\ m.tasks = Marked(s.tasks, T, "transferred") /\ m.notes = s.notes
      /\ m.status = s.status /\ m.rounds = s.rounds
  BY <1>1, <1>3, CloseIsTidy
<1>c. /\ Tidy(y) /\ y.tasks = Marked(s.tasks, T, "transferred") /\ y.notes = s.notes
      /\ y.status = s.status /\ y.rounds = s.rounds
  BY <1>4, <1>a
<1>5. x \in Task /\ x.node = t.node /\ x.round = t.round  BY <1>2, <1>3, NextTaskIsTyped
<1>6. PICK w : w = SetState(t, "transferred")  OBVIOUS
<1>7. w \in y.tasks /\ w.round = t.round
  BY <1>1, <1>3, <1>c, <1>6, SetStateFields DEF Marked
<1>8. /\ Tidy(z) /\ z.tasks = y.tasks \cup {x} /\ z.notes = s.notes /\ z.status = s.status
  <2>1. x.round = w.round  BY <1>5, <1>7
  <2>2. z = [y EXCEPT !.tasks = y.tasks \cup {x}]  BY <1>2, <1>a, <1>b
  <2>3. /\ Tidy(z) /\ z.tasks = y.tasks \cup {x} /\ z.notes = y.notes /\ z.status = y.status
    BY <1>c, <1>5, <1>7, <2>1, <2>2, AddingIsTidy
  <2> QED  BY <1>c, <2>3
<1>9. Extends(s, z)
  <2>1. Marked(s.tasks, T, "transferred") \subseteq z.tasks  BY <1>c, <1>8
  <2> QED  BY <1>3, <2>1, MarkingExtends
<1>10. PICK b : b = Standing(s, H)  OBVIOUS
<1>11. PICK d : d = Standing(z, H)  OBVIOUS
<1>12. PICK e : e = Standing(y, H)  OBVIOUS
<1>13. /\ e.tasks = Marked(b.tasks, {u \in T : ~Followed(H, u)}, "transferred")
       /\ e.tasks = {u \in y.tasks : ~Followed(H, u)}
       /\ d.tasks = {u \in z.tasks : ~Followed(H, u)} /\ d.notes = b.notes /\ d.status = b.status
       /\ Pending(b) = {u \in Pending(s) : ~Followed(H, u)}
  <2>1. e.tasks = Marked(b.tasks, {u \in T : ~Followed(H, u)}, "transferred")
    BY <1>3, <1>c, <1>10, <1>12, StandingClosed
  <2>2. y \in Instance /\ z \in Instance  BY <1>c, <1>8 DEF Tidy
  <2>3. /\ b.notes = s.notes /\ b.status = s.status
        /\ Pending(b) = {u \in Pending(s) : ~Followed(H, u)}
    BY <1>3, <1>10, StandingFields
  <2>4. e.tasks = {u \in y.tasks : ~Followed(H, u)}  BY <1>12, <2>2, StandingFields
  <2>5. /\ d.tasks = {u \in z.tasks : ~Followed(H, u)} /\ d.notes = z.notes
        /\ d.status = z.status
    BY <1>11, <2>2, StandingFields
  <2> QED  BY <1>8, <2>1, <2>3, <2>4, <2>5
<1>14. Tidy(b) /\ Held(b)  BY <1>3, <1>10, StandingIsTidy DEF Firm
<1>15. Followed(H, x) <=> Followed(H, t)  BY <1>5 DEF Followed
<1>16. Held(d)
  <2>1. CASE Followed(H, t)
    <3>1. {u \in T : ~Followed(H, u)} = {}  BY <1>1, <2>1
    <3>2. e.tasks = b.tasks  BY <1>13, <3>1, NothingMarked
    <3>3. d.tasks = b.tasks  BY <1>8, <1>13, <1>15, <2>1, <3>2
    <3> QED  BY <1>13, <1>14, <3>3, SameRows
  <2>2. CASE ~Followed(H, t)
    <3>1. t \in Pending(b) /\ {u \in T : ~Followed(H, u)} = {t}  BY <1>1, <1>13, <2>2
    <3>2. d.tasks = e.tasks \cup {x}  BY <1>8, <1>13, <1>15, <2>2
    <3>3. d.tasks = Marked(b.tasks, {t}, "transferred") \cup {x}  BY <1>13, <3>1, <3>2
    <3>4. Round(b, t) = Round(s, t)  BY <1>3, <1>10, <2>2, StandingRound
    <3>5. x = NextTask(b, t, v)  BY <1>2, <3>4 DEF NextTask
    <3>6. \A u \in Round(b, t) \ {t} : u.who = v => u.st \notin Counted  BY <3>4
    <3> QED  BY <1>13, <1>14, <3>1, <3>3, <3>5, <3>6, HandedOnHolds
  <2> QED  BY <2>1, <2>2
<1> QED  BY <1>b, <1>8, <1>9, <1>11, <1>16 DEF Firm

\* The notes in k are about the open rounds of n.
Noted(s, n, k) == \A t \in PendingAt(s, n) : \E h \in k : h.node = t.node /\ h.round = t.round

\* The open tasks of a node cancelled, with a note for each of their rounds.
LEMMA SkippedIsFirm ==
  ASSUME NEW s, NEW H, Firm(s, H), NEW n, NEW c, Tidy(c),
         c.tasks = Marked(s.tasks, PendingAt(s, n), "cancelled"),
         c.status = s.status, s.notes \subseteq c.notes, Noted(s, n, c.notes)
  PROVE  Firm(c, H) /\ Extends(s, c)
<1>1. PICK T : T = PendingAt(s, n)  OBVIOUS
<1>2. /\ Tidy(s) /\ T \in SUBSET s.tasks /\ T \in SUBSET Pending(s) /\ "cancelled" \in TaskState
      /\ s \in Instance /\ c \in Instance /\ c.tasks = Marked(s.tasks, T, "cancelled")
  BY <1>1 DEF Firm, Tidy, PendingAt, Pending, TaskState
<1>3. PICK b : b = Standing(s, H)  OBVIOUS
<1>4. PICK d : d = Standing(c, H)  OBVIOUS
<1>5. d.tasks = Marked(b.tasks, {u \in T : ~Followed(H, u)}, "cancelled")
  <2>1. Standing(c, H).tasks
          = Marked(Standing(s, H).tasks, {u \in T : ~Followed(H, u)}, "cancelled")
    BY <1>2, StandingMarked
  <2> QED  BY <1>3, <1>4, <2>1
<1>6. /\ b.notes = s.notes /\ b.status = s.status
      /\ Pending(b) = {u \in Pending(s) : ~Followed(H, u)}
  BY <1>2, <1>3, StandingFields
<1>7. d.notes = c.notes /\ d.status = c.status  BY <1>2, <1>4, StandingFields
<1>8. Tidy(b) /\ Held(b)  BY <1>2, <1>3, StandingIsTidy DEF Firm
<1>9. {u \in T : ~Followed(H, u)} = PendingAt(b, n)  BY <1>1, <1>6 DEF PendingAt
<1>10. Held(d)
  <2>1. d.tasks = Marked(b.tasks, PendingAt(b, n), "cancelled")  BY <1>5, <1>9
  <2>2. b.notes \subseteq d.notes /\ d.status = b.status  BY <1>6, <1>7
  <2>3. \A t \in PendingAt(b, n) : \E h \in d.notes : h.node = t.node /\ h.round = t.round
    BY <1>1, <1>7, <1>9 DEF Noted
  <2> QED  BY <1>8, <2>1, <2>2, <2>3, ReturnedHolds
<1>11. Extends(s, c)
  <2>1. Marked(s.tasks, T, "cancelled") \subseteq c.tasks  BY <1>2
  <2> QED  BY <1>2, <2>1, MarkingExtends
<1> QED  BY <1>4, <1>10, <1>11 DEF Firm

-------------------------------------------------------------------------------
(* How operations of the flow end beside the scan.                           *)

\* The flow's part of the invariant: what no hand-over has followed is sound and
\* every active approval staffed in the committed rows, and in those of an open
\* transaction, which go back to them.
FlowFits ==
  /\ TypeOK /\ Firm(db, handed) /\ Firm(work, handed) /\ IsStaffed(db) /\ IsStaffed(work)
  /\ held => work.status = "running" /\ Extends(db, work)
Sustained == FlowFits' /\ Extends(db, db')

\* The rows of a firm instance are finitely many tasks.
LEMMA FitRows ==
  ASSUME FlowFits
  PROVE  /\ db \in Instance /\ work \in Instance /\ Tidy(db) /\ Tidy(work)
         /\ Firm(db, handed) /\ Firm(work, handed) /\ Extends(db, db) /\ Extends(work, work)
         /\ IsStaffed(db) /\ IsStaffed(work)
<1>1. /\ Firm(db, handed) /\ Firm(work, handed) /\ Tidy(db) /\ Tidy(work)
      /\ db \in Instance /\ work \in Instance /\ IsStaffed(db) /\ IsStaffed(work)
  BY DEF FlowFits, Firm, Tidy
<1>2. Extends(db, db) /\ Extends(work, work)  BY <1>1, AddingExtends
<1> QED  BY <1>1, <1>2

\* Firm rows that are saved by an operation that ends.
LEMMA SavedFits ==
  ASSUME FlowFits, ~held, NEW s, Firm(s, handed'), IsStaffed(s), Save(s)
  PROVE  FlowFits' /\ db' = s
<1>1. db' = s /\ work' = s /\ ~held' /\ held' \in BOOLEAN /\ queue' = <<>> /\ turns' = 0
  BY DEF Save, FlowFits, TypeOK
<1>2. s \in Instance  BY DEF Firm, Tidy
<1>3. TypeOK'  BY <1>1, <1>2, MaxTurnsIsNat, EmptySeq DEF TypeOK
<1> QED  BY <1>1, <1>3 DEF FlowFits

\* An operation that saves firm rows which go back to the committed ones.
LEMMA SaveFits ==
  ASSUME FlowFits, ~held, NEW s, Firm(s, handed'), IsStaffed(s), Extends(db, s), Save(s)
  PROVE  Sustained
BY SavedFits DEF Sustained

\* An operation that hands arrivals to the loop.
LEMMA RunFits ==
  ASSUME FlowFits, NEW s, Firm(s, handed), IsStaffed(s), s.status = "running", Extends(db, s),
         NEW q \in Seq(Arrival), Run(s, q), handed' = handed
  PROVE  Sustained
<1>1. db' = db /\ held' = TRUE /\ work' = s /\ queue' = q /\ turns' = 0  BY DEF Run
<1>2. s \in Instance  BY DEF Firm, Tidy
<1>3. TypeOK'  BY <1>1, <1>2, MaxTurnsIsNat, FitRows DEF TypeOK
<1> QED  BY <1>1, <1>3, FitRows DEF Sustained, FlowFits

\* A turn of the loop.
LEMMA PassOnFits ==
  ASSUME FlowFits, NEW n, Moving(n), NEW s, Firm(s, handed), IsStaffed(s), s.status = "running",
         Extends(work, s), NEW next \in Seq(Arrival), PassOn(s, next), handed' = handed
  PROVE  Sustained
<1>1. /\ db' = db /\ held' = held /\ work' = s /\ queue' = Tail(queue) \o next
      /\ turns' = turns + 1
  BY DEF PassOn
<1>2. held /\ queue # <<>> /\ turns < MaxTurns  BY DEF Moving
<1>3. queue \in Seq(Arrival) /\ turns \in 0..MaxTurns  BY DEF FlowFits, TypeOK
<1>4. queue' \in Seq(Arrival)  BY <1>1, <1>2, <1>3, QueueIsTyped
<1>5. turns' \in 0..MaxTurns  BY <1>1, <1>2, <1>3, GraphAssumption
<1>6. s \in Instance  BY DEF Firm, Tidy
<1>7. TypeOK'  BY <1>1, <1>2, <1>4, <1>5, <1>6, FitRows DEF TypeOK, FlowFits
<1>8. Extends(db, s)
  <2>1. Extends(db, work)  BY <1>2 DEF FlowFits
  <2> QED  BY <2>1, FitRows, ExtendsOn
<1> QED  BY <1>1, <1>7, <1>8, FitRows DEF Sustained, FlowFits

\* The same rows staff the same approvals.
LEMMA SameStaff ==
  ASSUME NEW s, IsStaffed(s), NEW c, c.tasks = s.tasks, c.current \subseteq s.current \cup Joins
  PROVE  IsStaffed(c)
<1>1. \A n : PendingAt(c, n) = PendingAt(s, n)  BY DEF PendingAt, Pending
<1>2. \A n \in c.current \cap Approvals : n \in s.current \cap Approvals  BY JoinsDoNotVote
<1> QED  BY <1>1, <1>2 DEF IsStaffed

\* Rows of one node change: the other approvals stay staffed.
LEMMA OtherStaff ==
  ASSUME NEW s, IsStaffed(s), NEW n, NEW c,
         \A u \in Pending(s) : u.node # n => u \in Pending(c),
         c.current \subseteq s.current, n \in c.current => PendingAt(c, n) # {}
  PROVE  IsStaffed(c)
<1>1. \A k : k # n => PendingAt(s, k) \subseteq PendingAt(c, k)  BY DEF PendingAt
<1> QED  BY <1>1 DEF IsStaffed

\* A turn of the loop that leaves the rows alone.
LEMMA MovedFits ==
  ASSUME FlowFits, NEW n, Moving(n), NEW s, s \in Instance, s.tasks = work.tasks,
         s.notes = work.notes, s.rounds = work.rounds, s.status = work.status,
         s.current \subseteq work.current \cup Joins,
         NEW next \in Seq(Arrival), PassOn(s, next), handed' = handed
  PROVE  Sustained
<1>1. work.status = "running"  BY DEF FlowFits, Moving
<1>2. Firm(s, handed)
  <2>1. work.notes \subseteq s.notes  OBVIOUS
  <2> QED  BY <2>1, FitRows, FirmByRows
<1>3. Extends(work, s)  BY FitRows, AddingExtends
<1>4. IsStaffed(s)  BY FitRows, SameStaff
<1> QED  BY <1>1, <1>2, <1>3, <1>4, PassOnFits

-------------------------------------------------------------------------------
(* One lemma per action of the flow.                                         *)

\* An arrival that is passed on is an arrival.
LEMMA ArrivalIsTyped ==
  ASSUME NEW m \in Nodes, NEW n \in Nodes \cup {NoNode}
  PROVE  <<[node |-> m, from |-> n]>> \in Seq(Arrival)
<1>1. [node |-> m, from |-> n] \in Arrival  BY DEF Arrival
<1> QED  BY <1>1

\* engine.go, start.
LEMMA StartFits ==
  ASSUME FlowFits, Start, handed' = handed
  PROVE  Sustained
<1>1. PICK s : s = [db EXCEPT !.status = "running"]  OBVIOUS
<1>2. PICK q : q = <<[node |-> StartNode, from |-> NoNode]>>  OBVIOUS
<1>3. ~held /\ db.status = "absent" /\ Run(s, q)  BY <1>1, <1>2 DEF Start, Locked
<1>4. /\ s \in Instance /\ s.tasks = db.tasks /\ s.notes = db.notes /\ s.rounds = db.rounds
      /\ s.status = "running" /\ s.current = db.current
  BY <1>1, FitRows DEF Instance, Status
<1>5. Firm(s, handed)
  <2>1. db.notes \subseteq s.notes /\ db.status # "terminated"  BY <1>3, <1>4
  <2> QED  BY <1>4, <2>1, FitRows, FirmByRows
<1>6. Extends(db, s)  BY <1>4, FitRows, AddingExtends
<1>7. q \in Seq(Arrival)  BY <1>2, StartNodeIsNode, ArrivalIsTyped
<1>8. IsStaffed(s)  BY <1>4, FitRows, SameStaff
<1> QED  BY <1>3, <1>4, <1>5, <1>6, <1>7, <1>8, RunFits

\* A node leaves the active set and passes the flow on.
LEMMA DeletedFits ==
  ASSUME FlowFits, NEW n, Moving(n), NEW next \in Seq(Arrival),
         PassOn(Deleted(work, n), next), handed' = handed
  PROVE  Sustained
<1>1. PICK s : s = Deleted(work, n)  OBVIOUS
<1>2. /\ s \in Instance /\ s.tasks = work.tasks /\ s.notes = work.notes
      /\ s.rounds = work.rounds /\ s.status = work.status
      /\ s.current = work.current \ {n}
  BY <1>1, FitRows DEF Deleted, Instance
<1>3. PassOn(s, next)  BY <1>1
<1> QED  BY <1>2, <1>3, MovedFits

\* An exclusive gateway.
LEMMA BranchFits ==
  ASSUME FlowFits, NEW n \in Nodes, Branch(n), handed' = handed
  PROVE  Sustained
<1>1. Moving(n)  BY DEF Branch
<1>2. PICK i \in DOMAIN Out[n] : PassOn(Deleted(work, n), <<[node |-> Out[n][i], from |-> n]>>)
  BY DEF Branch
<1>3. Out[n][i] \in Nodes
  <2>1. Out[n] \in Seq(Nodes)  BY GraphAssumption
  <2> QED  BY <2>1, LenProperties, ElementOfSeq
<1>4. <<[node |-> Out[n][i], from |-> n]>> \in Seq(Arrival)  BY <1>3, ArrivalIsTyped
<1> QED  BY <1>1, <1>2, <1>4, DeletedFits

\* arriveParallelJoin.
LEMMA ArriveAtJoinFits ==
  ASSUME FlowFits, NEW n \in Nodes, ArriveAtJoin(n), handed' = handed
  PROVE  Sustained
<1>1. PICK tokens : tokens = Arrived(work, <<Head(queue).from, n>>)  OBVIOUS
<1>2. PICK a : a = Deleted(work, n)  OBVIOUS
<1>3. PICK s : s = [a EXCEPT !.tokens = tokens]  OBVIOUS
<1>4. PICK u : u = [s EXCEPT !.tokens = Released(tokens, n)]  OBVIOUS
<1>5. PICK w : w = [s EXCEPT !.current = s.current \cup {n}]  OBVIOUS
<1>6. /\ Moving(n) /\ n \in Joins /\ Head(queue).from \in Preds(n)
      /\ \/ PassOn(w, <<>>)
         \/ AllIn(tokens, n) /\ PassOn(u, Arrivals(n))
  BY <1>1, <1>2, <1>3, <1>4, <1>5 DEF ArriveAtJoin, Wait
<1>7. tokens \in [JoinEdges -> Nat]
  <2>1. <<Head(queue).from, n>> \in JoinEdges  BY <1>6 DEF JoinEdges, Preds
  <2> QED  BY <1>1, <2>1, FitRows, TokensAreTyped
<1>8. /\ a \in Instance /\ a.tasks = work.tasks /\ a.notes = work.notes
      /\ a.rounds = work.rounds /\ a.status = work.status
      /\ a.current = work.current \ {n}
  BY <1>2, FitRows DEF Deleted, Instance
<1>9. /\ s \in Instance /\ s.tasks = work.tasks /\ s.notes = work.notes
      /\ s.rounds = work.rounds /\ s.status = work.status
      /\ s.current = work.current \ {n}
  BY <1>3, <1>7, <1>8 DEF Instance
<1>10. CASE PassOn(w, <<>>)
  <2>1. /\ w \in Instance /\ w.tasks = work.tasks /\ w.notes = work.notes
        /\ w.rounds = work.rounds /\ w.status = work.status
        /\ w.current = (work.current \ {n}) \cup {n}
    BY <1>5, <1>9 DEF Instance
  <2>2. <<>> \in Seq(Arrival)  BY EmptySeq
  <2> QED  BY <1>6, <1>10, <2>1, <2>2, MovedFits
<1>11. CASE AllIn(tokens, n) /\ PassOn(u, Arrivals(n))
  <2>1. Released(tokens, n) \in [JoinEdges -> Nat]  BY <1>6, <1>7, <1>11, ReleasedIsTyped
  <2>2. /\ u \in Instance /\ u.tasks = work.tasks /\ u.notes = work.notes
        /\ u.rounds = work.rounds /\ u.status = work.status
        /\ u.current = work.current \ {n}
    BY <1>4, <1>9, <2>1 DEF Instance
  <2> QED  BY <1>6, <1>11, <2>2, ArrivalsAreTyped, MovedFits
<1> QED  BY <1>6, <1>10, <1>11

\* An approval that is passed through.
LEMMA PassThroughFits ==
  ASSUME FlowFits, NEW n \in Nodes, Moving(n), PassOn(work, Arrivals(n)), handed' = handed
  PROVE  Sustained
BY FitRows, ArrivalsAreTyped, MovedFits

\* Opening a round in the walk.
LEMMA StaffedByFits ==
  ASSUME FlowFits, NEW n \in Approvals, Moving(n), NEW A \in SUBSET Users, FallbackCanAct => A # {},
         StaffedBy(n, A),
         handed' = handed
  PROVE  Sustained
<1>1. PICK b : b = OpenRound(work, n, A)  OBVIOUS
<1>2. PICK c : c = [b EXCEPT !.current = b.current \cup {n}]  OBVIOUS
<1>3. PassOn(c, <<>>)  BY <1>1, <1>2 DEF StaffedBy, Wait
<1>4. /\ Firm(b, handed) /\ Extends(work, b) /\ b.status = work.status
      /\ b.current = work.current /\ work.tasks \subseteq b.tasks
      /\ A # {} => PendingAt(b, n) # {}
  BY <1>1, FitRows, OpenedIsFirm
<1>5. b \in Instance /\ n \in Nodes  BY <1>4 DEF Firm, Tidy, Approvals
<1>6. /\ c \in Instance /\ c.tasks = b.tasks /\ c.notes = b.notes /\ c.rounds = b.rounds
      /\ c.status = b.status /\ c.current = b.current \cup {n}
  BY <1>2, <1>5 DEF Instance
<1>7. Firm(c, handed)
  <2>1. b.notes \subseteq c.notes  BY <1>6
  <2> QED  BY <1>4, <1>6, <2>1, FirmByRows
<1>8. Extends(work, c)  BY <1>4, <1>6 DEF Extends
<1>9. c.status = "running"  BY <1>4, <1>6 DEF FlowFits, Moving
<1>10. <<>> \in Seq(Arrival)  BY EmptySeq
<1>11. IsStaffed(c)
  <2>1. \A k : PendingAt(work, k) \subseteq PendingAt(c, k)  BY <1>4, <1>6 DEF PendingAt, Pending
  <2>2. FallbackCanAct => PendingAt(c, n) # {}  BY <1>4, <1>6 DEF PendingAt, Pending
  <2>3. IsStaffed(work)  BY FitRows
  <2> QED  BY <1>4, <1>6, <2>1, <2>2, <2>3 DEF IsStaffed
<1> QED  BY <1>3, <1>7, <1>8, <1>9, <1>10, <1>11, PassOnFits

\* ApprovalNode.OnEnter.
LEMMA EnterApprovalFits ==
  ASSUME FlowFits, NEW n \in Nodes, EnterApproval(n), handed' = handed
  PROVE  Sustained
<1>1. n \in Approvals /\ Moving(n)  BY DEF EnterApproval, Approvals
<1>2. PICK S \in Staffing[n], F \in Fallback[n] :
        \/ Eligible(S) # {} /\ StaffedBy(n, Eligible(S))
        \/ n \in Escalates /\ F # {} /\ StaffedBy(n, Eligible(F))
        \/ PassOn(work, Arrivals(n))
  BY DEF EnterApproval
<1>3. S \in SUBSET Users /\ F \in SUBSET Users
  <2>1. Staffing[n] \in SUBSET SUBSET Users /\ Fallback[n] \in SUBSET SUBSET Users
    BY <1>1, GraphAssumption
  <2> QED  BY <2>1
<1>4. Eligible(S) \in SUBSET Users /\ Eligible(F) \in SUBSET Users  BY <1>3 DEF Eligible
<1>5. CASE Eligible(S) # {} /\ StaffedBy(n, Eligible(S))
  BY <1>1, <1>4, <1>5, StaffedByFits
<1>6. CASE n \in Escalates /\ F # {} /\ StaffedBy(n, Eligible(F))
  <2>1. FallbackCanAct => Eligible(F) # {}  BY <1>6 DEF FallbackCanAct
  <2> QED  BY <1>1, <1>4, <1>6, <2>1, StaffedByFits
<1> QED  BY <1>1, <1>2, <1>5, <1>6, PassThroughFits

\* Every turn of the loop.
LEMMA WalkFits ==
  ASSUME FlowFits, Walk, handed' = handed
  PROVE  Sustained
<1>1. PICK n \in Nodes : PassNode(n) \/ Branch(n) \/ Fork(n) \/ ArriveAtJoin(n)
                           \/ EnterApproval(n) \/ PassApproval(n)
  BY DEF Walk
<1>2. CASE PassNode(n)  BY <1>2, ArrivalsAreTyped, DeletedFits DEF PassNode
<1>3. CASE Branch(n)  BY <1>3, BranchFits
<1>4. CASE Fork(n)  BY <1>4, ArrivalsAreTyped, DeletedFits DEF Fork
<1>5. CASE ArriveAtJoin(n)  BY <1>5, ArriveAtJoinFits
<1>6. CASE EnterApproval(n)  BY <1>6, EnterApprovalFits
<1>7. CASE PassApproval(n)  BY <1>7, PassThroughFits DEF PassApproval
<1> QED  BY <1>1, <1>2, <1>3, <1>4, <1>5, <1>6, <1>7

\* completeInstance and the commit.
LEMMA CommitFits ==
  ASSUME FlowFits, Commit, handed' = handed
  PROVE  Sustained
<1>1. /\ held /\ held' = FALSE /\ queue = <<>> /\ queue' = queue /\ turns' = 0 /\ db' = work'
      /\ work' = work \/ work' = [work EXCEPT !.status = "completed"]
  BY DEF Commit
<1>2. work.status = "running" /\ Extends(db, work)  BY <1>1 DEF FlowFits
<1>3. PICK c : c = work'  OBVIOUS
<1>4. /\ c \in Instance /\ c.tasks = work.tasks /\ c.notes = work.notes /\ c.rounds = work.rounds
      /\ c.current = work.current
  BY <1>1, <1>3, FitRows DEF Instance, Status
<1>5. Firm(c, handed)
  <2>1. work.notes \subseteq c.notes /\ work.status # "terminated"  BY <1>2, <1>4
  <2> QED  BY <1>4, <2>1, FitRows, FirmByRows
<1>6. Extends(db, c)  BY <1>2, <1>4 DEF Extends
<1>7. TypeOK'  BY <1>1, <1>3, <1>4, MaxTurnsIsNat, EmptySeq DEF TypeOK
<1>8. IsStaffed(c)  BY <1>4, FitRows, SameStaff
<1> QED  BY <1>1, <1>3, <1>5, <1>6, <1>7, <1>8 DEF Sustained, FlowFits

\* A rollback.
LEMMA AbortFits ==
  ASSUME FlowFits, Abort, handed' = handed
  PROVE  Sustained
<1>1. held' = FALSE /\ work' = db /\ queue' = <<>> /\ turns' = 0 /\ db' = db  BY DEF Abort
<1>2. TypeOK'  BY <1>1, FitRows, MaxTurnsIsNat, EmptySeq DEF TypeOK
<1> QED  BY <1>1, <1>2, FitRows DEF Sustained, FlowFits

\* What follows from a vote, whatever it decides.
LEMMA ResolveFits ==
  ASSUME FlowFits, ~held, NEW t, t.node \in Approvals, NEW s, Balloted(s, t, handed),
         HasVerdict(Round(s, t)), Extends(db, s), s.status = "running", s.current = db.current,
         \A u \in Pending(db) : u.node # t.node => u \in Pending(s),
         NEW forced, Resolve(s, t, forced), handed' = handed
  PROVE  Sustained
<1>1. Tidy(s) /\ s \in Instance  BY DEF Balloted, Tidy
<1>2. CASE RoundPasses(Round(s, t), t.node)
           /\ LeaveNode(Close(s, Round(s, t) \cap Pending(s), "cancelled"), t.node)
  <2>1. PICK a : a = Close(s, Round(s, t) \cap Pending(s), "cancelled")  OBVIOUS
  <2>2. PICK at : at = t.node  OBVIOUS
  <2>3. PICK c : c = [a EXCEPT !.current = a.current \ {at}]  OBVIOUS
  <2>4. Run(c, Arrivals(at))  BY <1>2, <2>1, <2>2, <2>3 DEF LeaveNode
  <2>5. Firm(a, handed) /\ Extends(s, a) /\ a.status = s.status  BY <1>2, <2>1, PassedIsFirm
  <2>6. a \in Instance /\ at \in Nodes  BY <2>2, <2>5 DEF Firm, Tidy, Approvals
  <2>7. /\ c \in Instance /\ c.tasks = a.tasks /\ c.notes = a.notes /\ c.rounds = a.rounds
        /\ c.status = a.status /\ c.current = a.current \ {at}
    BY <2>3, <2>6 DEF Instance
  <2>8. Firm(c, handed)
    <3>1. a.notes \subseteq c.notes  BY <2>7
    <3> QED  BY <2>5, <2>7, <3>1, FirmByRows
  <2>9. Extends(db, c)
    <3>1. Extends(db, a)  BY <1>1, <2>5, FitRows, ExtendsOn
    <3> QED  BY <2>7, <3>1 DEF Extends
  <2>10. c.status = "running" /\ Arrivals(at) \in Seq(Arrival)
    BY <2>5, <2>6, <2>7, ArrivalsAreTyped
  <2>11. IsStaffed(c)
    <3>1. PICK T : T = Round(s, t) \cap Pending(s)  OBVIOUS
    <3>2. a.tasks = Marked(s.tasks, T, "cancelled") /\ a.current = s.current
      BY <1>1, <2>1, <3>1, CloseFields
    <3>3. \A u \in T : u.node = at  BY <2>2, <3>1 DEF Round
    <3>4. Marked(s.tasks, T, "cancelled") \subseteq c.tasks  BY <2>7, <3>2
    <3>5. \A u \in Pending(s) : u.node # at => u \in Pending(c)
      BY <3>3, <3>4 DEF Marked, Pending
    <3>6. \A u \in Pending(db) : u.node # at => u \in Pending(c)  BY <2>2, <3>5
    <3>7. c.current \subseteq db.current /\ at \notin c.current  BY <2>7, <3>2
    <3> QED  BY <3>6, <3>7, FitRows, OtherStaff
  <2> QED  BY <2>4, <2>8, <2>9, <2>10, <2>11, RunFits
<1>3. CASE Save(Terminated(s))
  <2>1. PICK c : c = Terminated(s)  OBVIOUS
  <2>2. Clean(Standing(s, handed))  BY BallotedIsClean
  <2>3. Firm(c, handed) /\ Extends(s, c) /\ c.current = {}
    BY <1>1, <2>1, <2>2, TerminatedIsFirm
  <2>4. Extends(db, c)  BY <1>1, <2>3, FitRows, ExtendsOn
  <2>5. Save(c)  BY <1>3, <2>1
  <2>6. IsStaffed(c)  BY <2>3 DEF IsStaffed
  <2> QED  BY <2>3, <2>4, <2>5, <2>6, SaveFits
<1>4. CASE /\ ~RoundPasses(Round(s, t), t.node) /\ ~RoundImpossible(Round(s, t), t.node)
           /\ Save(s)
  <2>1. Firm(s, handed)  BY <1>4, UndecidedIsFirm
  <2>2. IsStaffed(s)
    <3>1. IsOpen(Round(s, t))  BY <1>1, <1>4, RoundRows, UndecidedRound DEF HasVerdict
    <3>2. PendingAt(s, t.node) # {}  BY <3>1 DEF IsOpen, Round, PendingAt, Pending
    <3> QED  BY <3>2, FitRows, OtherStaff
  <2> QED  BY <1>4, <2>1, <2>2, SaveFits
<1> QED  BY <1>2, <1>3, <1>4 DEF Resolve

\* CompleteApplicationApproval.
LEMMA ReviewFits ==
  ASSUME FlowFits, NEW n \in Approvals, NEW u \in Users, NEW verdict \in {"approved", "rejected"},
         Review(n, u, verdict), handed' = handed
  PROVE  Sustained
<1>1. /\ ~held /\ db.status = "running" /\ Protected
      /\ \A p \in PendingAt(db, n) : p \in Pending(db) /\ p.node = n
  BY DEF Review, Locked, PendingAt
<1>2. PICK forced : forced = (verdict = "rejected")  OBVIOUS
<1>3. CASE \E t \in PendingAt(db, n) : Resolve(Close(db, {t}, verdict), t, forced)
  <2>1. PICK t \in PendingAt(db, n) : Resolve(Close(db, {t}, verdict), t, forced)  BY <1>3
  <2>2. PICK s : s = Close(db, {t}, verdict)  OBVIOUS
  <2>3. t \in Pending(db)  BY <1>1
  <2>4. /\ Balloted(s, t, handed) /\ HasVerdict(Round(s, t)) /\ Extends(db, s)
        /\ s.status = db.status /\ t.node \in Approvals
    BY <2>2, <2>3, FitRows, VotedIsBalloted
  <2>5. Resolve(s, t, forced) /\ s.status = "running"  BY <1>1, <2>1, <2>2, <2>4
  <2>6. s.tasks = Marked(db.tasks, {t}, verdict) /\ s.current = db.current
    BY <2>2, FitRows, CloseFields
  <2>7. \A w \in Pending(db) : w.node # t.node => w \in Pending(s)
    BY <2>6 DEF Marked, Pending
  <2> QED  BY <1>1, <2>4, <2>5, <2>6, <2>7, ResolveFits
<1>4. CASE /\ n \notin AssignedOnly
           /\ \E p \in PendingAt(db, n) :
                Resolve([db EXCEPT !.tasks = @ \cup {SetState(NextTask(db, p, u), verdict)}],
                        NextTask(db, p, u), forced)
  <2>1. PICK p \in PendingAt(db, n) :
          Resolve([db EXCEPT !.tasks = @ \cup {SetState(NextTask(db, p, u), verdict)}],
                  NextTask(db, p, u), forced)
    BY <1>4
  <2>2. PICK t : t = NextTask(db, p, u)  OBVIOUS
  <2>3. PICK x : x = SetState(t, verdict)  OBVIOUS
  <2>4. PICK s : s = [db EXCEPT !.tasks = db.tasks \cup {x}]  OBVIOUS
  <2>5. p \in Pending(db) /\ Mints(p.node)  BY <1>1, <1>4 DEF Mints
  <2>6. /\ Balloted(s, t, handed) /\ HasVerdict(Round(s, t)) /\ Extends(db, s)
        /\ s.status = db.status /\ t.node \in Approvals
    BY <2>2, <2>3, <2>4, <2>5, FitRows, MintedIsBalloted
  <2>7. Resolve(s, t, forced) /\ s.status = "running"  BY <1>1, <2>1, <2>2, <2>3, <2>4, <2>6
  <2>8. db.tasks \subseteq s.tasks /\ s.current = db.current
    BY <2>4, FitRows, InstanceFields
  <2>9. \A w \in Pending(db) : w.node # t.node => w \in Pending(s)  BY <2>8 DEF Pending
  <2> QED  BY <1>1, <2>6, <2>7, <2>8, <2>9, ResolveFits
<1> QED  BY <1>2, <1>3, <1>4 DEF Review

\* TransferApplicationApproval.
LEMMA TransferApplicationFits ==
  ASSUME FlowFits, NEW n \in Approvals, NEW u \in Users, NEW v \in Users,
         TransferApplication(n, u, v), handed' = handed
  PROVE  Sustained
<1>1. ~held  BY DEF TransferApplication, Locked
<1>2. PICK t \in PendingAt(db, n) : Transfer(t, v)  BY DEF TransferApplication
<1>3. t \in Pending(db)  BY DEF PendingAt
<1>4. PICK m : m = Close(db, {t}, "transferred")  OBVIOUS
<1>5. PICK c : c = [m EXCEPT !.tasks = m.tasks \cup {NextTask(db, t, v)}]  OBVIOUS
<1>6. Save(c) /\ \A w \in Round(db, t) \ {t} : w.who = v => w.st \notin Counted
  BY <1>2, <1>4, <1>5 DEF Transfer
<1>7. Firm(c, handed) /\ Extends(db, c)  BY <1>3, <1>4, <1>5, <1>6, FitRows, HandedOnIsFirm
<1>8. IsStaffed(c)
  <2>1. PICK x : x = NextTask(db, t, v)  OBVIOUS
  <2>2. /\ m.tasks = Marked(db.tasks, {t}, "transferred") /\ m.current = db.current
    BY <1>4, FitRows, CloseFields
  <2>3. c.tasks = m.tasks \cup {x} /\ c.current = m.current
    <3>1. m = [db EXCEPT !.tasks = m.tasks]  BY <1>4, FitRows, InstanceFields DEF Close
    <3> QED  BY <1>5, <2>1, <3>1, FitRows, InstanceFields
  <2>4. x.node = t.node /\ x.st = "pending"  BY <2>1 DEF NextTask
  <2>5. \A w \in Pending(db) : w.node # t.node => w \in Pending(c)
    BY <2>2, <2>3 DEF Marked, Pending
  <2>6. x \in PendingAt(c, t.node)  BY <2>3, <2>4 DEF PendingAt, Pending
  <2> QED  BY <2>2, <2>3, <2>5, <2>6, FitRows, OtherStaff
<1> QED  BY <1>1, <1>6, <1>7, <1>8, SaveFits

\* SkipApplicationApproval.
LEMMA SkipApplicationFits ==
  ASSUME FlowFits, NEW n \in Approvals, SkipApplication(n), handed' = handed
  PROVE  Sustained
<1>1. PICK k : k = {[action |-> "skip", node |-> n, round |-> t.round] : t \in PendingAt(db, n)}
  OBVIOUS
<1>2. PICK a : a = CancelAt(db, n)  OBVIOUS
<1>3. PICK b : b = [a EXCEPT !.notes = a.notes \cup k]  OBVIOUS
<1>4. PICK c : c = [b EXCEPT !.current = b.current \ {n}]  OBVIOUS
<1>5. db.status = "running" /\ Run(c, Arrivals(n))
  BY <1>1, <1>2, <1>3, <1>4 DEF SkipApplication, LeaveNode, Locked
<1>6. k \in SUBSET Note
  <2>1. \A t \in PendingAt(db, n) : t.round \in Nat
    BY FitRows, InstanceFields, TaskFields DEF PendingAt, Pending
  <2> QED  BY <1>1, <2>1 DEF Note
<1>7. PICK T \in SUBSET db.tasks : T = PendingAt(db, n)  BY DEF PendingAt, Pending
<1>8. /\ Tidy(a) /\ a.tasks = Marked(db.tasks, T, "cancelled") /\ a.notes = db.notes
      /\ a.status = db.status /\ a.current = db.current
  <2>1. a = Close(db, T, "cancelled") /\ "cancelled" \in TaskState
    BY <1>2, <1>7 DEF CancelAt, TaskState
  <2> QED  BY <2>1, FitRows, CloseIsTidy
<1>9. /\ c \in Instance /\ c.tasks = a.tasks /\ c.notes = a.notes \cup k /\ c.rounds = a.rounds
      /\ c.status = a.status /\ c.current = a.current \ {n}
  <2>1. a \in Instance /\ a.notes \cup k \in SUBSET Note
    BY <1>6, <1>8, InstanceFields DEF Tidy
  <2>2. /\ b \in Instance /\ b.tasks = a.tasks /\ b.notes = a.notes \cup k
        /\ b.rounds = a.rounds /\ b.status = a.status /\ b.current = a.current
    BY <1>3, <2>1 DEF Instance
  <2> QED  BY <1>4, <2>2 DEF Instance
<1>10. Tidy(c)  BY <1>8, <1>9 DEF Tidy
<1>11. Noted(db, n, c.notes)
  <2> SUFFICES ASSUME NEW t \in PendingAt(db, n)
               PROVE  \E h \in c.notes : h.node = t.node /\ h.round = t.round
    BY DEF Noted
  <2>1. [action |-> "skip", node |-> n, round |-> t.round] \in c.notes  BY <1>1, <1>9
  <2>2. t.node = n  BY DEF PendingAt
  <2> QED  BY <2>1, <2>2
<1>12. /\ c.tasks = Marked(db.tasks, PendingAt(db, n), "cancelled") /\ c.status = db.status
       /\ db.notes \subseteq c.notes
  BY <1>7, <1>8, <1>9
<1>13. Firm(c, handed) /\ Extends(db, c)  BY <1>10, <1>11, <1>12, FitRows, SkippedIsFirm
<1>14. c.status = "running" /\ Arrivals(n) \in Seq(Arrival)
  BY <1>5, <1>12, ArrivalsAreTyped DEF Approvals
<1>15. IsStaffed(c)
  <2>1. \A w \in Pending(db) : w.node # n => w \in Pending(c)
    BY <1>12 DEF Marked, PendingAt, Pending
  <2>2. c.current \subseteq db.current /\ n \notin c.current  BY <1>8, <1>9
  <2> QED  BY <2>1, <2>2, FitRows, OtherStaff
<1> QED  BY <1>5, <1>13, <1>14, <1>15, RunFits

\* Terminate.
LEMMA TerminateFits ==
  ASSUME FlowFits, Terminate, handed' = handed
  PROVE  Sustained
<1>1. PICK c : c = Terminated(db)  OBVIOUS
<1>2. ~held /\ Save(c)  BY <1>1 DEF Terminate, Locked
<1>3. Clean(Standing(db, handed))  BY FitRows, FirmIsClean
<1>4. Firm(c, handed) /\ Extends(db, c) /\ c.current = {}
  BY <1>1, <1>3, FitRows, TerminatedIsFirm
<1>5. IsStaffed(c)  BY <1>4 DEF IsStaffed
<1> QED  BY <1>2, <1>4, <1>5, SaveFits

\* Every step of the flow of a member application.
LEMMA FlowStepFits ==
  ASSUME FlowFits, Next, handed' = handed
  PROVE  Sustained
<1>1. ~GenericTask /\ ~Suspend /\ ~Resume
  BY ScanAssumption DEF GenericTask, Vote, Withdraw, TransferTask, RollbackTask, Suspend, Resume
<1>2. CASE Start  BY <1>2, StartFits
<1>3. CASE Walk  BY <1>3, WalkFits
<1>4. CASE Commit  BY <1>4, CommitFits
<1>5. CASE Abort  BY <1>5, AbortFits
<1>6. CASE Application
  BY <1>6, SkipApplicationFits, ReviewFits, TransferApplicationFits DEF Application
<1>7. CASE Terminate  BY <1>7, TerminateFits
<1> QED  BY <1>1, <1>2, <1>3, <1>4, <1>5, <1>6, <1>7 DEF Next

-------------------------------------------------------------------------------
(* The statements of the scan.                                               *)

Statements == [pc : Statement, node : Approvals \cup {NoNode}, to : SUBSET Users,
               rows : SUBSET Task, row : SUBSET Task]

\* What the scan x has read: open rows of the node it works on, which is none that
\* H has handed over once it has looked for that, and has somebody to go to.
Aimed(x, H) ==
  /\ x \in Statements /\ x.row \subseteq x.rows /\ (x.pc # "insert" => x.row = {})
  /\ \A t \in x.rows : t.node = x.node /\ t.st = "pending"
  /\ x.pc # "idle" => x.node \in Approvals
  /\ x.pc \in {"collect", "update", "insert"} =>
       (\A h \in H : h.node # x.node) /\ Eligible(x.to) # {}

\* The inductive invariant of the flow and the scan beside it.
EscalationInv ==
  /\ FlowFits /\ Aimed(scan, handed) /\ HandedOverOnce
  /\ handed \subseteq Round0 /\ errors \in 0..MaxErrors

\* What was decided before the scan collected the open tasks is not rewritten.
EarlierStand ==
  \A t \in db.tasks \ Pending(db) :
    t \in db'.tasks \/ \E u \in scan.rows : SameRow(t, u) /\ u.st = "pending"
Escalated == EscalationInv' /\ EarlierStand

\* The fields of a scan have their types.
LEMMA StatementFields ==
  ASSUME NEW x \in Statements
  PROVE  /\ x.pc \in Statement /\ x.node \in Approvals \cup {NoNode} /\ x.to \in SUBSET Users
         /\ x.rows \in SUBSET Task /\ x.row \in SUBSET Task
BY DEF Statements

\* A scan that has given up has read nothing.
LEMMA IdleIsAimed ==
  ASSUME NEW H
  PROVE  Aimed(Idle, H)
<1>1. /\ Idle \in Statements /\ Idle.pc = "idle" /\ Idle.rows = {} /\ Idle.row = {}
  BY DEF Idle, Statements, Statement
<1> QED  BY <1>1 DEF Aimed

\* A statement that only reads goes on to the next.
LEMMA GoIsAimed ==
  ASSUME NEW x, NEW H, Aimed(x, H), x.pc # "idle", x.pc # "insert",
         NEW pc \in {"tasks", "history", "collect"},
         pc = "collect" => (\A h \in H : h.node # x.node) /\ Eligible(x.to) # {},
         NEW y, y = [x EXCEPT !.pc = pc]
  PROVE  Aimed(y, H)
<1>1. /\ y \in Statements /\ y.pc = pc /\ y.node = x.node /\ y.rows = x.rows /\ y.row = x.row
      /\ y.to = x.to
  BY DEF Aimed, Statements, Statement
<1> QED  BY <1>1 DEF Aimed

\* A hand-over leaves out whole rounds only.
LEMMA FirmOnward ==
  ASSUME NEW s, NEW H, Firm(s, H), NEW G, H \subseteq G
  PROVE  Firm(s, G)
<1>1. s \in Instance /\ Tidy(s)  BY DEF Firm, Tidy
<1>2. PICK b : b = Standing(s, H)  OBVIOUS
<1>3. PICK d : d = Standing(s, G)  OBVIOUS
<1>4. /\ b.tasks = {t \in s.tasks : ~Followed(H, t)} /\ b.notes = s.notes /\ b.status = s.status
  BY <1>1, <1>2, StandingFields
<1>5. /\ d.tasks = {t \in s.tasks : ~Followed(G, t)} /\ d.notes = s.notes /\ d.status = s.status
  BY <1>1, <1>3, StandingFields
<1>6. \A t : Followed(H, t) => Followed(G, t)  BY DEF Followed
<1>7. ASSUME NEW t \in d.tasks  PROVE RoundIsSound(d, t)
  <2>1. t \in b.tasks /\ ~Followed(H, t) /\ ~Followed(G, t)  BY <1>4, <1>5, <1>6
  <2>2. Round(b, t) = Round(s, t)  BY <1>1, <1>2, <2>1, StandingRound
  <2>3. Round(d, t) = Round(s, t)  BY <1>1, <1>3, <2>1, StandingRound
  <2>4. RoundIsSound(b, t)  BY <1>2, <2>1 DEF Firm, Held
  <2>5. b.notes \subseteq d.notes /\ Round(d, t) = Round(b, t) /\ d.status = b.status
    BY <1>4, <1>5, <2>2, <2>3
  <2> QED  BY <2>4, <2>5, RoundStays
<1> QED  BY <1>1, <1>3, <1>7 DEF Firm, Held

\* Rewriting rows of rounds that are left out changes nothing of the others.
LEMMA LeftOutIsFirm ==
  ASSUME NEW s, NEW H, Firm(s, H), NEW T \in SUBSET s.tasks, \A t \in T : Followed(H, t),
         NEW c, Tidy(c), c.tasks = Marked(s.tasks, T, "cancelled"), c.notes = s.notes,
         c.status = s.status
  PROVE  Firm(c, H)
<1>1. s \in Instance /\ c \in Instance /\ "cancelled" \in TaskState
  BY DEF Firm, Tidy, TaskState
<1>2. PICK b : b = Standing(s, H)  OBVIOUS
<1>3. PICK d : d = Standing(c, H)  OBVIOUS
<1>4. Standing(c, H).tasks
        = Marked(Standing(s, H).tasks, {t \in T : ~Followed(H, t)}, "cancelled")
  BY <1>1, StandingMarked
<1>5. {t \in T : ~Followed(H, t)} = {}  OBVIOUS
<1>6. d.tasks = b.tasks  BY <1>2, <1>3, <1>4, <1>5, NothingMarked
<1>7. b.notes = s.notes /\ b.status = s.status  BY <1>1, <1>2, StandingFields
<1>8. d.notes = c.notes /\ d.status = c.status  BY <1>1, <1>3, StandingFields
<1>9. Held(b)  BY <1>2 DEF Firm
<1>10. b.notes \subseteq d.notes /\ d.status = b.status  BY <1>7, <1>8
<1>11. Held(d)  BY <1>6, <1>9, <1>10, SameRows
<1> QED  BY <1>3, <1>11 DEF Firm

\* A statement that changes nothing but what the scan has read.
LEMMA ReadingEscalates ==
  ASSUME EscalationInv, UNCHANGED vars, handed' = handed, errors' \in 0..MaxErrors,
         Aimed(scan', handed)
  PROVE  Escalated
<1>1. db' = db /\ held' = held /\ work' = work /\ queue' = queue /\ turns' = turns
  BY DEF vars
<1>2. FlowFits'
  BY <1>1 DEF EscalationInv, FlowFits, TypeOK
<1>3. HandedOverOnce' /\ handed' \subseteq Round0  BY DEF EscalationInv, HandedOverOnce
<1>4. EscalationInv'  BY <1>2, <1>3 DEF EscalationInv
<1>5. EarlierStand  BY <1>1 DEF EarlierStand
<1> QED  BY <1>4, <1>5 DEF Escalated

\* ListOverdueApprovalTodos.
LEMMA ListOverdueEscalates ==
  ASSUME EscalationInv, ListOverdue
  PROVE  Escalated
<1>1. PICK n \in Timed, L \in Ladders :
        scan' = [Idle EXCEPT !.pc = "instance", !.node = n, !.to = L]
  BY DEF ListOverdue
<1>2. UNCHANGED vars /\ handed' = handed /\ errors' = errors  BY DEF ListOverdue
<1>3. n \in Approvals /\ L \in SUBSET Users  BY ScanAssumption
<1>4. PICK x : x = scan'  OBVIOUS
<1>5. /\ x \in Statements /\ x.pc = "instance" /\ x.node = n /\ x.rows = {} /\ x.row = {}
  BY <1>1, <1>3, <1>4 DEF Idle, Statements, Statement
<1>6. Aimed(x, handed)  BY <1>3, <1>5 DEF Aimed
<1> QED  BY <1>2, <1>4, <1>6, ReadingEscalates DEF EscalationInv

\* The reads of EscalateOverdueApproval.
LEMMA ReadEscalates ==
  ASSUME EscalationInv, ReadInstance \/ ReadTasks \/ ReadHistory
  PROVE  Escalated
<1>1. PICK pc \in {"tasks", "history", "collect"} :
        /\ Go(pc) \/ GiveUp
        /\ Go(pc) /\ pc = "collect" =>
             (\A h \in handed : h.node # scan.node) /\ Eligible(scan.to) # {}
        /\ scan.pc # "idle" /\ scan.pc # "insert"
  <2>1. CASE ReadInstance
    <3>1. /\ Go("tasks") \/ GiveUp
          /\ scan.pc # "idle" /\ scan.pc # "insert"
      BY <2>1 DEF ReadInstance
    <3> QED  BY <3>1
  <2>2. CASE ReadTasks
    <3>1. /\ Go("history") \/ GiveUp
          /\ scan.pc # "idle" /\ scan.pc # "insert"
      BY <2>2 DEF ReadTasks
    <3> QED  BY <3>1
  <2>3. CASE ReadHistory
    <3>1. scan.pc # "idle" /\ scan.pc # "insert"  BY <2>3 DEF ReadHistory
    <3>2. CASE (\A h \in handed : h.node # scan.node) /\ Eligible(scan.to) # {} /\ Go("collect")
      BY <3>1, <3>2
    <3>3. CASE GiveUp
      <4>1. GiveUp /\ "tasks" \in {"tasks", "history", "collect"} /\ "tasks" # "collect"
        BY <3>3
      <4> QED  BY <3>1, <4>1
    <3> QED  BY <2>3, <3>2, <3>3 DEF ReadHistory
  <2> QED  BY <2>1, <2>2, <2>3
<1>2. CASE Go(pc)
  <2>1. PICK y : y = [scan EXCEPT !.pc = pc]  OBVIOUS
  <2>2. scan' = y /\ UNCHANGED vars /\ handed' = handed /\ errors' = errors
    BY <1>2, <2>1 DEF Go
  <2>3. Aimed(y, handed)  BY <1>1, <1>2, <2>1, GoIsAimed DEF EscalationInv
  <2> QED  BY <2>2, <2>3, ReadingEscalates DEF EscalationInv
<1>3. CASE GiveUp
  <2>1. scan' = Idle /\ UNCHANGED vars /\ handed' = handed /\ errors' = errors
    BY <1>3 DEF GiveUp
  <2> QED  BY <2>1, IdleIsAimed, ReadingEscalates DEF EscalationInv
<1> QED  BY <1>1, <1>2, <1>3

\* cancelNodePendingTasks reads the open tasks of the node.
LEMMA CollectEscalates ==
  ASSUME EscalationInv, Collect
  PROVE  Escalated
<1>1. PICK T : T = PendingAt(db, scan.node)  OBVIOUS
<1>2. PICK x : x = [scan EXCEPT !.pc = "update", !.rows = T]  OBVIOUS
<1>3. /\ scan.pc = "collect" /\ scan' = x
      /\ UNCHANGED vars /\ handed' = handed /\ errors' = errors
  BY <1>1, <1>2 DEF Collect
<1>4. T \in SUBSET Task /\ \A t \in T : t.node = scan.node /\ t.st = "pending"
  BY <1>1, FitRows, InstanceFields DEF PendingAt, Pending, EscalationInv
<1>5. Aimed(scan, handed)  BY DEF EscalationInv
<1>6. /\ x \in Statements /\ x.pc = "update" /\ x.node = scan.node /\ x.rows = T
      /\ x.row = scan.row /\ x.to = scan.to
  BY <1>2, <1>4, <1>5 DEF Aimed, Statements, Statement
<1>7. Aimed(x, handed)  BY <1>3, <1>4, <1>5, <1>6 DEF Aimed
<1> QED  BY <1>3, <1>7, ReadingEscalates DEF EscalationInv

\* The first Save locks its row.
LEMMA UpdateFirstEscalates ==
  ASSUME EscalationInv, UpdateFirst
  PROVE  Escalated
<1>1. /\ scan.pc = "update"
      /\ UNCHANGED vars /\ handed' = handed /\ errors' = errors
  BY DEF UpdateFirst
<1>2. Aimed(scan, handed)  BY DEF EscalationInv
<1>3. PICK R \in SUBSET scan.rows : scan' = [scan EXCEPT !.pc = "insert", !.row = R]
  <2>1. CASE scan' = [scan EXCEPT !.pc = "insert"]
    <3>1. scan.row = {} /\ scan \in Statements  BY <1>1, <1>2 DEF Aimed
    <3>2. scan' = [scan EXCEPT !.pc = "insert", !.row = {}]  BY <2>1, <3>1 DEF Statements
    <3> QED  BY <3>2
  <2>2. CASE \E t \in scan.rows : scan' = [scan EXCEPT !.pc = "insert", !.row = {t}]
    BY <2>2
  <2> QED  BY <2>1, <2>2 DEF UpdateFirst
<1>4. PICK x : x = scan'  OBVIOUS
<1>5. R \in SUBSET Task  BY <1>2, StatementFields DEF Aimed
<1>6. /\ x \in Statements /\ x.pc = "insert" /\ x.node = scan.node /\ x.rows = scan.rows
      /\ x.row = R /\ x.to = scan.to
  BY <1>2, <1>3, <1>4, <1>5 DEF Aimed, Statements, Statement
<1>7. Aimed(x, handed)  BY <1>1, <1>2, <1>6 DEF Aimed
<1> QED  BY <1>1, <1>4, <1>7, ReadingEscalates DEF EscalationInv

\* The remaining statements and the commit.
LEMMA HandOverEscalates ==
  ASSUME EscalationInv, HandOver
  PROVE  Escalated
<1>1. PICK n : n = scan.node  OBVIOUS
<1>2. PICK g : g = [node |-> n, round |-> db.rounds + 1]  OBVIOUS
<1>3. PICK T : T = {u \in db.tasks : \E t \in scan.rows : SameRow(u, t)}  OBVIOUS
<1>4. PICK m : m = Close(db, T, "cancelled")  OBVIOUS
<1>5. PICK c : c = OpenRound(m, n, Eligible(scan.to))  OBVIOUS
<1>6. /\ scan.pc = "insert" /\ ~held /\ Save(c) /\ handed' = handed \cup {g}
      /\ scan' = Idle /\ errors' = errors
  BY <1>1, <1>2, <1>3, <1>4, <1>5 DEF HandOver, HandedOver
<1>7. Aimed(scan, handed) /\ FlowFits  BY DEF EscalationInv
<1>8. /\ n \in Approvals /\ Eligible(scan.to) \in SUBSET Users /\ Eligible(scan.to) # {}
      /\ \A h \in handed : h.node # n
      /\ \A t \in scan.rows : t.node = n /\ t.st = "pending"
  <2>1. scan.to \in SUBSET Users  BY <1>7, StatementFields DEF Aimed
  <2> QED  BY <1>1, <1>6, <1>7, <2>1 DEF Aimed, Eligible
<1>9. db.rounds \in Nat /\ \A u \in db.tasks : u.round \in 1..db.rounds
  BY <1>7, FitRows, InstanceFields DEF Tidy
<1>10. T \in SUBSET db.tasks /\ "cancelled" \in TaskState  BY <1>3 DEF TaskState
<1>11. /\ Tidy(m) /\ m.tasks = Marked(db.tasks, T, "cancelled") /\ m.notes = db.notes
       /\ m.status = db.status /\ m.rounds = db.rounds /\ m.current = db.current
  BY <1>4, <1>7, <1>10, FitRows, CloseIsTidy
<1>12. \A u \in T : Followed(handed', u)
  <2>1. \A u \in T : u \in db.tasks /\ u.node = n  BY <1>3, <1>8 DEF SameRow
  <2>2. \A u \in T : g.node = u.node /\ g.round > u.round  BY <1>2, <1>9, <2>1
  <2> QED  BY <1>6, <2>2 DEF Followed
<1>13. Firm(db, handed')  BY <1>6, <1>7, FitRows, FirmOnward
<1>14. Firm(m, handed')  BY <1>10, <1>11, <1>12, <1>13, LeftOutIsFirm
<1>15. /\ Firm(c, handed') /\ m.tasks \subseteq c.tasks /\ c.current = m.current
       /\ PendingAt(c, n) # {}
  BY <1>5, <1>8, <1>14, OpenedIsFirm
<1>a. IsStaffed(c)
  <2>1. \A w \in T : w.node = n  BY <1>3, <1>8 DEF SameRow
  <2>2. Marked(db.tasks, T, "cancelled") \subseteq c.tasks  BY <1>11, <1>15
  <2>3. \A w \in Pending(db) : w.node # n => w \in Pending(c)
    BY <2>1, <2>2 DEF Marked, Pending
  <2>4. c.current \subseteq db.current  BY <1>11, <1>15
  <2> QED  BY <1>7, <1>15, <2>3, <2>4, FitRows, OtherStaff
<1>16. FlowFits'  BY <1>6, <1>7, <1>15, <1>a, SavedFits
<1>17. HandedOverOnce'
  <2>1. \A h, k \in handed : h.node = k.node => h = k
    BY DEF EscalationInv, HandedOverOnce
  <2>2. g.node = n  BY <1>2
  <2>3. \A h, k \in handed \cup {g} : h.node = k.node => h = k  BY <1>8, <2>1, <2>2
  <2> QED  BY <1>6, <2>3 DEF HandedOverOnce
<1>18. handed' \subseteq Round0
  <2>1. g \in Round0  BY <1>2, <1>8, <1>9 DEF Round0
  <2> QED  BY <1>6, <2>1 DEF EscalationInv
<1>19. Aimed(scan', handed')  BY <1>6, IdleIsAimed
<1>20. EscalationInv'  BY <1>6, <1>16, <1>17, <1>18, <1>19 DEF EscalationInv
<1>21. EarlierStand
  <2>1. m.tasks \subseteq c.tasks  BY <1>15
  <2>2. db' = c  BY <1>6 DEF Save
  <2>3. ASSUME NEW t \in db.tasks \ Pending(db)
        PROVE  t \in db'.tasks \/ \E u \in scan.rows : SameRow(t, u) /\ u.st = "pending"
    <3>1. CASE t \in T  BY <1>3, <1>8, <3>1
    <3>2. CASE t \notin T  BY <1>11, <2>1, <2>2, <3>2 DEF Marked
    <3> QED  BY <3>1, <3>2
  <2> QED  BY <2>3 DEF EarlierStand
<1> QED  BY <1>20, <1>21 DEF Escalated

\* An error or a crash of the scan.
LEMMA ScanFailsEscalates ==
  ASSUME EscalationInv, ScanFails
  PROVE  Escalated
<1>1. /\ scan' = Idle /\ UNCHANGED vars /\ handed' = handed
      /\ errors < MaxErrors /\ errors' = errors + 1
  BY DEF ScanFails
<1>2. errors' \in 0..MaxErrors  BY <1>1, ScanAssumption DEF EscalationInv
<1> QED  BY <1>1, <1>2, IdleIsAimed, ReadingEscalates

\* A step of the flow, which may throw the scan back.
LEMMA FlowStepEscalates ==
  ASSUME EscalationInv, FlowStep
  PROVE  Escalated
<1>1. Next /\ handed' = handed /\ errors' = errors /\ (scan' = Idle \/ scan' = scan)
  BY DEF FlowStep
<1>2. FlowFits' /\ Extends(db, db')  BY <1>1, FlowStepFits DEF EscalationInv, Sustained
<1>3. Aimed(scan', handed')  BY <1>1, IdleIsAimed DEF EscalationInv
<1>4. HandedOverOnce' /\ handed' \subseteq Round0 /\ errors' \in 0..MaxErrors
  BY <1>1 DEF EscalationInv, HandedOverOnce
<1>5. EscalationInv'  BY <1>2, <1>3, <1>4 DEF EscalationInv
<1>6. EarlierStand  BY <1>2 DEF EarlierStand, Extends
<1> QED  BY <1>5, <1>6 DEF Escalated

\* Every step keeps the invariant and what was decided earlier.
LEMMA ScanNextEscalates ==
  ASSUME EscalationInv, [ScanNext]_allVars
  PROVE  Escalated
<1>1. CASE FlowStep  BY <1>1, FlowStepEscalates
<1>2. CASE ScanStep
  BY <1>2, ListOverdueEscalates, ReadEscalates, CollectEscalates, UpdateFirstEscalates,
     HandOverEscalates
  DEF ScanStep
<1>3. CASE ScanFails  BY <1>3, ScanFailsEscalates
<1>4. CASE UNCHANGED allVars
  <2>1. UNCHANGED vars /\ scan' = scan /\ handed' = handed /\ errors' = errors
    BY <1>4 DEF allVars
  <2> QED  BY <2>1, ReadingEscalates DEF EscalationInv
<1> QED  BY <1>1, <1>2, <1>3, <1>4 DEF ScanNext

\* Before anything has started there is nothing to hand over.
LEMMA ScanInitIsFirm ==
  ASSUME ScanInit
  PROVE  EscalationInv
<1>1. RoundsInv /\ scan = Idle /\ handed = {} /\ errors = 0  BY InitHolds DEF ScanInit
<1>2. TypeOK /\ Tidy(db) /\ Held(db) /\ ~held /\ work = db
  BY <1>1, RowsAtRest DEF RoundsInv, IndInv, TypeOK, ScanInit, Init
<1>3. Firm(db, {})
  <2>1. PICK b : b = Standing(db, {})  OBVIOUS
  <2>2. db \in Instance  BY <1>2 DEF Tidy
  <2>3. /\ b.tasks = {t \in db.tasks : ~Followed({}, t)} /\ b.notes = db.notes
        /\ b.status = db.status
    BY <2>1, <2>2, StandingFields
  <2>4. b.tasks = db.tasks  BY <2>3 DEF Followed
  <2>5. Held(b)  BY <1>2, <2>3, <2>4, SameRows
  <2> QED  BY <1>2, <2>1, <2>5 DEF Firm
<1>4. FlowFits
  <2>1. IsStaffed(db)  BY <1>1 DEF RoundsInv, RoundsAreSound
  <2> QED  BY <1>1, <1>2, <1>3, <2>1 DEF FlowFits
<1>5. Aimed(scan, handed)  BY <1>1, IdleIsAimed
<1>6. 0 \in 0..MaxErrors  BY ScanAssumption
<1> QED  BY <1>1, <1>4, <1>5, <1>6 DEF EscalationInv, HandedOverOnce

-------------------------------------------------------------------------------
(* The theorems.                                                             *)

\* Beside the scan the rounds that no hand-over has followed stay as sound as if
\* the scan did not exist, and the scan rewrites open rows of one node that was not
\* handed over before (EscalateOverdueApproval).
THEOREM EscalationStaysSound == ScanSpec => []EscalationInv
<1>1. EscalationInv /\ [ScanNext]_allVars => EscalationInv'
  BY ScanNextEscalates DEF Escalated
<1>2. ScanInit => EscalationInv  BY ScanInitIsFirm
<1> QED  BY <1>1, <1>2, PTL DEF ScanSpec

\* A step is handed over once, and every closed round has its reason on record or
\* was handed over to a later one (timeout_escalate.go).
THEOREM HandOversAreSound == ScanSpec => []HandOverIsSound
<1>1. ASSUME EscalationInv  PROVE HandOverIsSound
  <2>1. FlowFits /\ Aimed(scan, handed) /\ HandedOverOnce /\ TypeOK /\ Firm(db, handed)
    BY <1>1 DEF EscalationInv, FlowFits
  <2>2. ScanTypeOK  BY <1>1, <2>1 DEF EscalationInv, ScanTypeOK, Aimed, Statements
  <2>3. ASSUME NEW t \in db.tasks, ~Followed(handed, t)  PROVE IsExplained(t)
    <3>1. PICK b : b = Standing(db, handed)  OBVIOUS
    <3>2. db \in Instance  BY <2>1, FitRows
    <3>3. /\ b.tasks = {u \in db.tasks : ~Followed(handed, u)} /\ b.notes = db.notes
          /\ b.status = db.status
      BY <3>1, <3>2, StandingFields
    <3>4. RoundIsSound(b, t)  BY <2>1, <2>3, <3>1, <3>3 DEF Firm, Held
    <3>5. Round(b, t) = Round(db, t)  BY <2>3, <3>1, <3>2, StandingRound
    <3> QED  BY <3>3, <3>4, <3>5 DEF RoundIsSound, IsExplained, IsClosed
  <2>4. ClosedOrHandedOver  BY <2>3 DEF ClosedOrHandedOver, Followed
  <2> QED  BY <2>1, <2>2, <2>4 DEF HandOverIsSound
<1> QED  BY <1>1, EscalationStaysSound, PTL

\* A vote is lost to the scan only if it was cast after the scan had collected the
\* open tasks (cancelNodePendingTasks).
THEOREM EarlierVotesAreKept == ScanSpec => EarlierVotesStand
<1>1. EscalationInv /\ [ScanNext]_allVars
        => [\A t \in db.tasks \ Pending(db) :
              t \in db'.tasks
                \/ \E u \in scan.rows : SameRow(t, u) /\ u.st = "pending"]_allVars
  BY ScanNextEscalates DEF Escalated, EarlierStand
<1> QED  BY <1>1, EscalationStaysSound, PTL DEF ScanSpec, EarlierVotesStand

\* A scan that takes the tasks of a step away gives it to somebody in the same
\* moment, also when the flow has moved meanwhile: beside it, too, an approval the
\* instance waits at has an open task, unless the applicant alone holds a fallback
\* role (timeout_escalate.go, ApprovalNode.OnEnter).
THEOREM HandOversLeaveApprovalsStaffed ==
  ASSUME FallbackCanAct
  PROVE  ScanSpec => []ActiveApprovalsAreStaffed
<1>1. EscalationInv => ActiveApprovalsAreStaffed
  BY DEF EscalationInv, FlowFits, IsStaffed, ActiveApprovalsAreStaffed
<1> QED  BY <1>1, EscalationStaysSound, PTL
===============================================================================
