--------------------------- MODULE FlowEngineProofs ---------------------------
(***************************************************************************)
(* Type correctness, the inductive invariant and the contract of           *)
(* FlowEngine, for every graph, staffing and bound.                        *)
(***************************************************************************)
EXTENDS FlowEngine, FiniteSetTheorems, SequenceTheorems, TLAPS

Sound(s) == s \in Instance /\ SoundRows(s)
Tidy(s) == s \in Instance /\ IsFiniteSet(s.tasks) /\ \A t \in s.tasks : t.round \in 1..s.rounds

\* Sound rows are finitely many, of rounds that were issued.
LEMMA SoundIsTidy == ASSUME NEW s, Sound(s)  PROVE  Tidy(s)
BY DEF Sound, SoundRows, Tidy

-------------------------------------------------------------------------------
(* The helpers that rewrite an instance keep its rows sound.               *)

\* The fields of an instance row have their types.
LEMMA InstanceFields ==
  ASSUME NEW s \in Instance
  PROVE  /\ s.status \in Status /\ s.current \in SUBSET Nodes
         /\ s.tokens \in [JoinEdges -> Nat] /\ s.rounds \in Nat
         /\ s.tasks \in SUBSET Task /\ s.notes \in SUBSET Note
         /\ s = [status |-> s.status, current |-> s.current, tokens |-> s.tokens,
                 rounds |-> s.rounds, tasks |-> s.tasks, notes |-> s.notes]
BY DEF Instance

\* The fields of a task row have their types.
LEMMA TaskFields ==
  ASSUME NEW t \in Task
  PROVE  /\ t.node \in Approvals /\ t.round \in Nat /\ t.who \in Users
         /\ t.nth \in Nat /\ t.st \in TaskState
BY DEF Task

\* Changing the status of a task changes nothing else of it.
LEMMA SetStateFields ==
  ASSUME NEW t \in Task, NEW st \in TaskState
  PROVE  /\ SetState(t, st) \in Task
         /\ SetState(t, st).node = t.node /\ SetState(t, st).round = t.round
         /\ SetState(t, st).who = t.who /\ SetState(t, st).nth = t.nth
         /\ SetState(t, st).st = st
BY DEF SetState, Task

\* Changing the status of finitely many rows leaves finitely many.
LEMMA MarkedFinite ==
  ASSUME NEW T, IsFiniteSet(T), NEW st
  PROVE  IsFiniteSet({SetState(t, st) : t \in T})
<1> DEFINE S == {SetState(t, st) : t \in T}
           f == [t \in T |-> SetState(t, st)]
<1>1. f \in Surjection(T, S)  BY DEF Surjection
<1> QED  BY <1>1, FS_Surjection

(* Closing rows of one instance: nothing else of it changes, and no closed   *)
(* row is left open.                                                         *)
LEMMA CloseIsSound ==
  ASSUME NEW s, Sound(s), NEW T, T \subseteq s.tasks,
         NEW st, st \in TaskState, st # "pending", NEW c, c = Close(s, T, st)
  PROVE  /\ Sound(c) /\ Pending(c) = Pending(s) \ T
         /\ c.status = s.status /\ c.current = s.current /\ c.tokens = s.tokens
         /\ c.rounds = s.rounds /\ c.notes = s.notes
<1> DEFINE M == {SetState(t, st) : t \in T}
<1>1. s \in Instance /\ s.tasks \in SUBSET Task  BY InstanceFields DEF Sound
<1>2. \A t \in T : /\ SetState(t, st) \in Task /\ SetState(t, st).st # "pending"
                   /\ SetState(t, st).node = t.node /\ SetState(t, st).round = t.round
  BY <1>1, SetStateFields
<1>3. /\ c.status = s.status /\ c.current = s.current /\ c.tokens = s.tokens
      /\ c.rounds = s.rounds /\ c.notes = s.notes /\ c.tasks = (s.tasks \ T) \cup M
  BY <1>1, InstanceFields DEF Close
<1>4. c \in Instance
  <2>1. (s.tasks \ T) \cup M \in SUBSET Task  BY <1>1, <1>2
  <2> QED  BY <1>1, <2>1 DEF Close, Instance
<1>5. Pending(c) = Pending(s) \ T  BY <1>2, <1>3 DEF Pending
<1>6. IsFiniteSet(c.tasks)
  <2>1. IsFiniteSet(s.tasks)  BY DEF Sound, SoundRows
  <2>2. IsFiniteSet(T) /\ IsFiniteSet(s.tasks \ T)  BY <2>1, FS_Subset
  <2>3. IsFiniteSet(M)  BY <2>2, MarkedFinite
  <2>4. IsFiniteSet((s.tasks \ T) \cup M)  BY <2>2, <2>3, FS_Union
  <2> QED  BY <1>3, <2>4
<1>7. \A u \in c.tasks : \E t \in s.tasks : u.node = t.node /\ u.round = t.round
  BY <1>2, <1>3
<1>8. SoundRows(c)
  <2>1. \A u \in c.tasks : u.round \in 1..c.rounds
    BY <1>3, <1>7 DEF Sound, SoundRows
  <2>2. \A t, u \in c.tasks : t.round = u.round => t.node = u.node
    BY <1>7 DEF Sound, SoundRows
  <2>3. \A t \in Pending(c) : c.status \in Live /\ t.node \in c.current
    BY <1>3, <1>5 DEF Sound, SoundRows
  <2>4. \A t \in Pending(c), u \in c.tasks : u.node = t.node => u.round <= t.round
    BY <1>5, <1>7 DEF Sound, SoundRows
  <2> QED  BY <1>6, <2>1, <2>2, <2>3, <2>4 DEF SoundRows
<1> QED  BY <1>3, <1>4, <1>5, <1>8 DEF Sound

(* A closed row is still in its round.                                       *)
LEMMA ClosedRowStays ==
  ASSUME NEW s, s \in Instance, NEW t \in s.tasks, NEW st \in TaskState,
         NEW c, c = Close(s, {t}, st)
  PROVE  /\ SetState(t, st) \in c.tasks
         /\ SetState(t, st).node = t.node /\ SetState(t, st).round = t.round
         /\ \A u \in c.tasks : \E v \in s.tasks : u.node = v.node /\ u.round = v.round
<1>1. t \in Task  BY InstanceFields
<1>2. c.tasks = (s.tasks \ {t}) \cup {SetState(t, st)}  BY InstanceFields DEF Close
<1>3. SetState(t, st).node = t.node /\ SetState(t, st).round = t.round
  BY <1>1, SetStateFields
<1> QED  BY <1>2, <1>3

\* cancelPendingTasks leaves sound rows and no open task.
LEMMA CancelAllIsSound ==
  ASSUME NEW s, Sound(s), NEW c, c = CancelAll(s)
  PROVE  /\ Sound(c) /\ Pending(c) = {} /\ c.status = s.status /\ c.current = s.current
         /\ c.tokens = s.tokens /\ c.rounds = s.rounds /\ c.notes = s.notes
<1>1. Pending(s) \subseteq s.tasks  BY DEF Pending
<1>2. "cancelled" \in TaskState /\ "cancelled" # "pending"  BY DEF TaskState
<1>3. c = Close(s, Pending(s), "cancelled")  BY DEF CancelAll
<1> QED  BY <1>1, <1>2, <1>3, CloseIsSound

\* cancelNodePendingTasks leaves sound rows and only the open tasks of other nodes.
LEMMA CancelAtIsSound ==
  ASSUME NEW s, Sound(s), NEW n, NEW c, c = CancelAt(s, n)
  PROVE  /\ Sound(c) /\ Pending(c) = Pending(s) \ PendingAt(s, n) /\ c.status = s.status
         /\ c.current = s.current /\ c.tokens = s.tokens /\ c.rounds = s.rounds
         /\ c.notes = s.notes
<1>1. PendingAt(s, n) \subseteq s.tasks  BY DEF PendingAt, Pending
<1>2. "cancelled" \in TaskState /\ "cancelled" # "pending"  BY DEF TaskState
<1>3. c = Close(s, PendingAt(s, n), "cancelled")  BY DEF CancelAt
<1>4. Sound(c)  BY <1>1, <1>2, <1>3, CloseIsSound
<1>5. Pending(c) = Pending(s) \ PendingAt(s, n)  BY <1>1, <1>2, <1>3, CloseIsSound
<1>6. /\ c.status = s.status /\ c.current = s.current /\ c.tokens = s.tokens
      /\ c.rounds = s.rounds /\ c.notes = s.notes
  BY <1>3, InstanceFields DEF Sound, Close
<1> QED  BY <1>4, <1>5, <1>6

(* A new set of active nodes that still holds every node with an open task.  *)
LEMMA CurrentIsSound ==
  ASSUME NEW s, Sound(s), NEW C \in SUBSET Nodes, \A t \in Pending(s) : t.node \in C,
         NEW c, c = [s EXCEPT !.current = C]
  PROVE  /\ Sound(c) /\ Pending(c) = Pending(s) /\ c.current = C /\ c.status = s.status
         /\ c.rounds = s.rounds /\ c.tasks = s.tasks /\ c.tokens = s.tokens /\ c.notes = s.notes
<1>1. s \in Instance  BY DEF Sound
<1>2. /\ c \in Instance /\ c.current = C /\ c.status = s.status /\ c.rounds = s.rounds
      /\ c.tasks = s.tasks /\ c.tokens = s.tokens /\ c.notes = s.notes
  BY <1>1 DEF Instance
<1>3. Pending(c) = Pending(s)  BY <1>2 DEF Pending
<1>4. SoundRows(c)  BY <1>2, <1>3 DEF Sound, SoundRows
<1> QED  BY <1>2, <1>3, <1>4 DEF Sound

(* A new status, which is a live one if a task is open.                      *)
LEMMA StatusIsSound ==
  ASSUME NEW s, Sound(s), NEW st \in Status, Pending(s) = {} \/ st \in Live,
         NEW c, c = [s EXCEPT !.status = st]
  PROVE  /\ Sound(c) /\ Pending(c) = Pending(s) /\ c.status = st /\ c.rounds = s.rounds
         /\ c.tasks = s.tasks
<1>1. s \in Instance  BY DEF Sound
<1>2. /\ c \in Instance /\ c.current = s.current /\ c.status = st /\ c.rounds = s.rounds
      /\ c.tasks = s.tasks
  BY <1>1 DEF Instance
<1>3. Pending(c) = Pending(s)  BY <1>2 DEF Pending
<1>4. SoundRows(c)  BY <1>2, <1>3 DEF Sound, SoundRows
<1> QED  BY <1>2, <1>3, <1>4 DEF Sound

\* terminateInstance leaves sound rows, no open task and the status terminated.
LEMMA TerminatedIsSound ==
  ASSUME NEW s, Sound(s), NEW c, c = Terminated(s)
  PROVE  /\ Sound(c) /\ Pending(c) = {} /\ c.status = "terminated" /\ c.rounds = s.rounds
<1> DEFINE a == CancelAll(s)
           b == [a EXCEPT !.status = "terminated"]
           d == [b EXCEPT !.current = {}]
<1>1. Sound(a) /\ Pending(a) = {} /\ a.rounds = s.rounds  BY CancelAllIsSound
<1> HIDE DEF a
<1>2. "terminated" \in Status  BY DEF Status
<1>3. Sound(b) /\ Pending(b) = {} /\ b.status = "terminated" /\ b.rounds = s.rounds
  BY <1>1, <1>2, StatusIsSound
<1>4. Sound(d) /\ Pending(d) = {} /\ d.status = "terminated" /\ d.rounds = s.rounds
  <2> HIDE DEF b
  <2>1. {} \in SUBSET Nodes /\ \A t \in Pending(b) : t.node \in {}  BY <1>3
  <2> QED  BY <1>3, <2>1, CurrentIsSound
<1>5. c = d  BY DEF Terminated, a
<1> QED  BY <1>4, <1>5

\* Join tokens may change without touching what makes the rows sound.
LEMMA TokensIsSound ==
  ASSUME NEW s, Sound(s), NEW k \in [JoinEdges -> Nat], NEW c, c = [s EXCEPT !.tokens = k]
  PROVE  /\ Sound(c) /\ Pending(c) = Pending(s) /\ c.status = s.status /\ c.rounds = s.rounds
         /\ c.current = s.current
<1>1. s \in Instance  BY DEF Sound
<1>2. /\ c \in Instance /\ c.current = s.current /\ c.status = s.status /\ c.rounds = s.rounds
      /\ c.tasks = s.tasks
  BY <1>1 DEF Instance
<1>3. Pending(c) = Pending(s)  BY <1>2 DEF Pending
<1>4. SoundRows(c)  BY <1>2, <1>3 DEF Sound, SoundRows
<1> QED  BY <1>2, <1>3, <1>4 DEF Sound

\* History may be written without touching what makes the rows sound.
LEMMA NotesIsSound ==
  ASSUME NEW s, Sound(s), NEW k \in SUBSET Note, NEW c, c = [s EXCEPT !.notes = k]
  PROVE  /\ Sound(c) /\ Pending(c) = Pending(s) /\ c.status = s.status /\ c.rounds = s.rounds
         /\ c.current = s.current
<1>1. s \in Instance  BY DEF Sound
<1>2. /\ c \in Instance /\ c.current = s.current /\ c.status = s.status /\ c.rounds = s.rounds
      /\ c.tasks = s.tasks
  BY <1>1 DEF Instance
<1>3. Pending(c) = Pending(s)  BY <1>2 DEF Pending
<1>4. SoundRows(c)  BY <1>2, <1>3 DEF Sound, SoundRows
<1> QED  BY <1>2, <1>3, <1>4 DEF Sound

(* A further row in the round of t, the newest of its node.                  *)
LEMMA AddRowIsSound ==
  ASSUME NEW s, Sound(s), NEW t \in s.tasks, NEW x \in Task,
         x.node = t.node, x.round = t.round,
         \A u \in s.tasks : u.node = t.node => u.round <= t.round,
         x.st = "pending" => s.status \in Live /\ t.node \in s.current,
         NEW c, c = [s EXCEPT !.tasks = @ \cup {x}]
  PROVE  /\ Sound(c) /\ c.status = s.status /\ c.rounds = s.rounds /\ c.current = s.current
         /\ Pending(c) = IF x.st = "pending" THEN Pending(s) \cup {x} ELSE Pending(s)
<1>1. s \in Instance /\ s.tasks \in SUBSET Task  BY InstanceFields DEF Sound
<1>2. /\ c.current = s.current /\ c.status = s.status /\ c.rounds = s.rounds
      /\ c.tasks = s.tasks \cup {x}
  BY <1>1, InstanceFields
<1>3. c \in Instance
  <2>1. s.tasks \cup {x} \in SUBSET Task  BY <1>1
  <2> QED  BY <1>1, <2>1 DEF Instance
<1>4. Pending(c) = IF x.st = "pending" THEN Pending(s) \cup {x} ELSE Pending(s)
  BY <1>2 DEF Pending
<1>5. IsFiniteSet(c.tasks)
  <2>1. IsFiniteSet(s.tasks)  BY DEF Sound, SoundRows
  <2>2. IsFiniteSet(s.tasks \cup {x})  BY <2>1, FS_AddElement
  <2> QED  BY <1>2, <2>2
<1>6. \A u \in c.tasks : \E v \in s.tasks : u.node = v.node /\ u.round = v.round
  BY <1>2
<1>7. SoundRows(c)
  <2>1. \A u \in c.tasks : u.round \in 1..c.rounds  BY <1>2, <1>6 DEF Sound, SoundRows
  <2>2. \A u, v \in c.tasks : u.round = v.round => u.node = v.node
    BY <1>6 DEF Sound, SoundRows
  <2>3. \A u \in Pending(c) : c.status \in Live /\ u.node \in c.current
    BY <1>2, <1>4 DEF Sound, SoundRows
  <2>4. \A u \in Pending(c), v \in c.tasks : v.node = u.node => v.round <= u.round
    BY <1>4, <1>6 DEF Sound, SoundRows
  <2> QED  BY <1>5, <2>1, <2>2, <2>3, <2>4 DEF SoundRows
<1> QED  BY <1>2, <1>3, <1>4, <1>7 DEF Sound

(* A new round at a node without open tasks, which becomes active.           *)
LEMMA OpenRoundIsSound ==
  ASSUME NEW s, Sound(s), NEW n \in Approvals, n \notin s.current, s.status \in Live,
         NEW A \in SUBSET Users,
         NEW b, b = OpenRound(s, n, A), NEW c, c = [b EXCEPT !.current = b.current \cup {n}]
  PROVE  /\ Sound(c) /\ c.status = s.status /\ c.rounds = s.rounds + 1
         /\ Pending(s) \subseteq Pending(c)
         /\ \A t \in Pending(c) \ Pending(s) : t.round = s.rounds + 1
<1> DEFINE row(u) == [node |-> n, round |-> s.rounds + 1, who |-> u, nth |-> 0, st |-> "pending"]
           N == {row(u) : u \in A}
<1>1. s \in Instance /\ s.tasks \in SUBSET Task /\ s.rounds \in Nat  BY InstanceFields DEF Sound
<1>2. /\ c.current = s.current \cup {n} /\ c.status = s.status /\ c.rounds = s.rounds + 1
      /\ c.tasks = s.tasks \cup N
  BY <1>1, InstanceFields DEF OpenRound
<1>3. \A x \in N : x \in Task /\ x.node = n /\ x.round = s.rounds + 1 /\ x.st = "pending"
  BY <1>1 DEF Task, TaskState
<1>4. c \in Instance
  <2>1. s.tasks \cup N \in SUBSET Task  BY <1>1, <1>3
  <2>2. s.current \cup {n} \in SUBSET Nodes  BY <1>1, InstanceFields DEF Approvals
  <2>3. b = [s EXCEPT !.rounds = s.rounds + 1, !.tasks = s.tasks \cup N]
    BY DEF OpenRound
  <2> HIDE DEF N
  <2>4. s.rounds + 1 \in Nat  BY <1>1
  <2>5. b.current = s.current  BY <1>1, <2>3, InstanceFields
  <2>6. c = [[s EXCEPT !.rounds = s.rounds + 1, !.tasks = s.tasks \cup N]
               EXCEPT !.current = s.current \cup {n}]
    BY <2>3, <2>5, Zenon
  <2>7. [[s EXCEPT !.rounds = s.rounds + 1, !.tasks = s.tasks \cup N]
           EXCEPT !.current = s.current \cup {n}] \in Instance
    BY <1>1, <2>1, <2>2, <2>4 DEF Instance
  <2> QED  BY <2>6, <2>7, Zenon
<1>5. IsFiniteSet(c.tasks)
  <2>1. IsFiniteSet(s.tasks) /\ IsFiniteSet(A)
    BY GraphAssumption, FS_Subset DEF Sound, SoundRows
  <2>2. IsFiniteSet(N)
    <3> DEFINE f == [u \in A |-> row(u)]
    <3>1. f \in Surjection(A, N)  BY DEF Surjection
    <3> QED  BY <2>1, <3>1, FS_Surjection
  <2>3. IsFiniteSet(s.tasks \cup N)  BY <2>1, <2>2, FS_Union
  <2> QED  BY <1>2, <2>3
<1> HIDE DEF N
<1>6. Pending(c) = Pending(s) \cup N  BY <1>2, <1>3 DEF Pending
<1>7. \A t \in s.tasks : t.round <= s.rounds  BY <1>1 DEF Sound, SoundRows
<1>8. \A t \in Pending(s) : t.node # n  BY DEF Sound, SoundRows
<1>9. SoundRows(c)
  <2>1. \A u \in c.tasks : u.round \in 1..c.rounds
    BY <1>1, <1>2, <1>3 DEF Sound, SoundRows
  <2>2. \A u, v \in c.tasks : u.round = v.round => u.node = v.node
    BY <1>1, <1>2, <1>3, <1>7 DEF Sound, SoundRows
  <2>3. \A u \in Pending(c) : c.status \in Live /\ u.node \in c.current
    BY <1>2, <1>3, <1>6 DEF Sound, SoundRows
  <2>4. \A u \in Pending(c), v \in c.tasks : v.node = u.node => v.round <= u.round
    BY <1>1, <1>2, <1>3, <1>6, <1>7, <1>8 DEF Sound, SoundRows
  <2> QED  BY <1>5, <2>1, <2>2, <2>3, <2>4 DEF SoundRows
<1> QED  BY <1>2, <1>3, <1>4, <1>6, <1>9 DEF Sound

-------------------------------------------------------------------------------
(* Which rounds an operation settles.                                        *)

\* A round is open exactly if one of its tasks is pending.
LEMMA OpenRoundsOf ==
  ASSUME NEW s, NEW r
  PROVE  r \in OpenRounds(s) <=> \E t \in Pending(s) : t.round = r
BY DEF OpenRounds

\* The open rounds depend on the pending tasks alone.
LEMMA SamePending ==
  ASSUME NEW s, NEW c, Pending(c) = Pending(s)
  PROVE  OpenRounds(c) = OpenRounds(s)
BY DEF OpenRounds

\* Open rounds have numbers that were given out.
LEMMA RoundsInRange ==
  ASSUME NEW s, Sound(s)
  PROVE  s.rounds \in Nat /\ \A r \in OpenRounds(s) : r \in 1..s.rounds
<1>1. s.rounds \in Nat  BY InstanceFields DEF Sound
<1>2. \A t \in Pending(s) : t.round \in 1..s.rounds  BY DEF Sound, SoundRows, Pending
<1> QED  BY <1>1, <1>2, OpenRoundsOf

(* Open rows of one round are closed and nothing else is opened or closed.   *)
LEMMA ClosingSettlesOne ==
  ASSUME NEW s, Sound(s), NEW c, c.rounds = s.rounds, Pending(c) \subseteq Pending(s),
         NEW p \in Pending(s), \A t \in Pending(s) \ Pending(c) : t.round = p.round
  PROVE  SettlesOne(s, c)
<1>1. s.rounds \in Nat /\ \A r \in OpenRounds(s) : r \in 1..s.rounds  BY RoundsInRange
<1>2. p.round \in OpenRounds(s)  BY OpenRoundsOf
<1>3. \A r \in OpenRounds(c) : r \in OpenRounds(s)  BY OpenRoundsOf
<1>4. \A r \in OpenRounds(s) : r # p.round => r \in OpenRounds(c)  BY OpenRoundsOf
<1>5. CASE p.round \in OpenRounds(c)
  <2>1. OpenRounds(c) = OpenRounds(s)  BY <1>3, <1>4, <1>5
  <2>2. 0 \notin OpenRounds(s)  BY <1>1
  <2> QED  BY <1>1, <2>1, <2>2 DEF SettlesOne
<1>6. CASE p.round \notin OpenRounds(c)
  <2>1. OpenRounds(c) = OpenRounds(s) \ {p.round}  BY <1>3, <1>4, <1>6
  <2> QED  BY <1>1, <1>2, <2>1 DEF SettlesOne
<1> QED  BY <1>5, <1>6

\* Rows with the same open rounds and the same counter settle nothing.
LEMMA NothingSettled ==
  ASSUME NEW s, Sound(s), NEW c, c.rounds = s.rounds, OpenRounds(c) = OpenRounds(s)
  PROVE  SettlesOne(s, c)
<1>1. s.rounds \in Nat /\ \A r \in OpenRounds(s) : r \in 1..s.rounds  BY RoundsInRange
<1>2. 0 \notin OpenRounds(s)  BY <1>1
<1> QED  BY <1>1, <1>2 DEF SettlesOne

(* A turn of the walk that opens no round, and one that opens the next.      *)
LEMMA StillSettlesOne ==
  ASSUME NEW s, NEW c, SettlesOne(s, c), NEW d, d.rounds = c.rounds, Pending(d) = Pending(c)
  PROVE  SettlesOne(s, d)
BY SamePending DEF SettlesOne

\* Opening the next round keeps what the operation has settled so far.
LEMMA OpeningSettlesOne ==
  ASSUME NEW s, s.rounds \in Nat, NEW c, Sound(c), SettlesOne(s, c),
         NEW d, d.rounds = c.rounds + 1, Pending(c) \subseteq Pending(d),
         \A t \in Pending(d) \ Pending(c) : t.round = c.rounds + 1
  PROVE  SettlesOne(s, d)
<1>1. c.rounds \in Nat  BY RoundsInRange
<1>2. s.rounds <= c.rounds  BY DEF SettlesOne
<1>3. PICK r \in OpenRounds(s) \cup {0} :
        /\ OpenRounds(s) \ {r} \subseteq OpenRounds(c)
        /\ OpenRounds(c) \subseteq (OpenRounds(s) \ {r}) \cup (s.rounds + 1 .. c.rounds)
  BY DEF SettlesOne
<1>4. OpenRounds(c) \subseteq OpenRounds(d)  BY OpenRoundsOf
<1>5. \A q \in OpenRounds(d) : q \in OpenRounds(c) \/ q = c.rounds + 1  BY OpenRoundsOf
<1>6. OpenRounds(s) \ {r} \subseteq OpenRounds(d)  BY <1>3, <1>4
<1>7. OpenRounds(d) \subseteq (OpenRounds(s) \ {r}) \cup (s.rounds + 1 .. c.rounds + 1)
  BY <1>1, <1>2, <1>3, <1>5
<1> QED  BY <1>1, <1>2, <1>6, <1>7 DEF SettlesOne

-------------------------------------------------------------------------------
(* Shapes of what the actions build.                                         *)

\* The successors of a node make a queue of arrivals.
LEMMA ArrivalsAreTyped ==
  ASSUME NEW n \in Nodes
  PROVE  Arrivals(n) \in Seq(Arrival)
<1>1. Out[n] \in Seq(Nodes)  BY GraphAssumption
<1>2. Len(Out[n]) \in Nat /\ \A i \in 1..Len(Out[n]) : Out[n][i] \in Nodes
  BY <1>1, LenProperties, ElementOfSeq
<1>3. \A i \in 1..Len(Out[n]) : [node |-> Out[n][i], from |-> n] \in Arrival
  BY <1>2 DEF Arrival
<1>4. Arrivals(n) \in [1..Len(Out[n]) -> Arrival]  BY <1>3 DEF Arrivals
<1> QED  BY <1>2, <1>4, SeqDef

\* Taking the head of the queue and appending to it leaves a queue of arrivals.
LEMMA QueueIsTyped ==
  ASSUME NEW q \in Seq(Arrival), q # <<>>, NEW next \in Seq(Arrival)
  PROVE  Tail(q) \o next \in Seq(Arrival) /\ Head(q) \in Arrival
BY HeadTailProperties, ConcatProperties

\* A further row for a person belongs to the round of the row it stands for.
LEMMA NextTaskIsTyped ==
  ASSUME NEW s, Tidy(s), NEW t \in s.tasks, NEW v \in Users, NEW x, x = NextTask(s, t, v)
  PROVE  x \in Task /\ x.node = t.node /\ x.round = t.round /\ x.st = "pending"
<1> DEFINE C == {u \in Round(s, t) : u.who = v}
<1>1. C \subseteq s.tasks /\ IsFiniteSet(s.tasks)  BY DEF Round, Tidy
<1>2. Cardinality(C) \in Nat  BY <1>1, FS_Subset, FS_CardinalityType
<1>3. t \in Task  BY InstanceFields DEF Tidy
<1>4. x = [node |-> t.node, round |-> t.round, who |-> v, st |-> "pending",
           nth |-> Cardinality(C)]
  BY DEF NextTask
<1> HIDE DEF C
<1> QED  BY <1>2, <1>3, <1>4, TaskFields DEF Task, TaskState

\* A token more is a count of tokens.
LEMMA TokensAreTyped ==
  ASSUME NEW s \in Instance, NEW e \in JoinEdges
  PROVE  Arrived(s, e) \in [JoinEdges -> Nat]
<1>1. s.tokens \in [JoinEdges -> Nat]  BY InstanceFields
<1> QED  BY <1>1 DEF Arrived

\* A join that fires has a token of every branch to give back.
LEMMA ReleasedIsTyped ==
  ASSUME NEW k \in [JoinEdges -> Nat], NEW n \in Joins, AllIn(k, n)
  PROVE  Released(k, n) \in [JoinEdges -> Nat]
<1>1. \A e \in JoinEdges : e[2] = n => k[e] >= 1
  BY DEF AllIn, JoinEdges
<1> QED  BY <1>1 DEF Released

-------------------------------------------------------------------------------
(* How operations end.                                                       *)

Keeps == IndInv' /\ [Contract!Next]_<<db.status, OpenRounds(db), db.rounds>>

\* Between transactions the committed rows are sound and nothing is under way.
LEMMA IdleIsSound ==
  ASSUME IndInv, ~held
  PROVE  Sound(db) /\ work = db /\ queue = <<>> /\ turns = 0
BY DEF IndInv, TypeOK, Sound

\* No turn taken is a number of turns the loop allows.
LEMMA MaxTurnsIsNat == 0 \in 0..MaxTurns
BY GraphAssumption

\* An operation that saves sound rows and ends keeps the invariant.
LEMMA SaveKeepsIndInv ==
  ASSUME IndInv, ~held, NEW s, Sound(s), Save(s)
  PROVE  IndInv'
<1>1. queue = <<>> /\ turns = 0  BY IdleIsSound
<1>2. db' = s /\ work' = s /\ held' = FALSE /\ queue' = <<>> /\ turns' = 0
  BY <1>1 DEF Save, IndInv, TypeOK
<1>3. s \in Instance /\ SoundRows(s)  BY DEF Sound
<1>4. TypeOK'
  BY <1>2, <1>3, MaxTurnsIsNat, EmptySeq DEF TypeOK
<1> QED  BY <1>2, <1>3, <1>4 DEF IndInv

(* One round at most is settled and the instance still runs.                 *)
LEMMA SaveSettles ==
  ASSUME IndInv, ~held, NEW s, Sound(s), Save(s), db.status = "running", s.status = "running",
         SettlesOne(db, s)
  PROVE  Keeps
<1>1. IndInv'  BY SaveKeepsIndInv
<1>2. db' = s  BY DEF Save
<1>3. Sound(db)  BY IdleIsSound
<1>4. PICK r \in OpenRounds(db) \cup {0} :
        /\ OpenRounds(db) \ {r} \subseteq OpenRounds(s)
        /\ OpenRounds(s) \subseteq (OpenRounds(db) \ {r}) \cup (db.rounds + 1 .. s.rounds)
  BY DEF SettlesOne
<1>5. db.rounds \in Nat /\ s.rounds \in Nat /\ db.rounds <= s.rounds
  BY <1>3, RoundsInRange DEF SettlesOne
<1>6. Contract!Advance(r)  BY <1>2, <1>4, <1>5 DEF Contract!Advance
<1>7. Contract!Next
  BY <1>4, <1>6 DEF Contract!Next, Contract!Settle, Contract!NoRound
<1> QED  BY <1>1, <1>7 DEF Keeps

\* An operation that ends the instance keeps the invariant and is a Stop of the contract.
LEMMA SaveTerminatesKeeps ==
  ASSUME IndInv, ~held, db.status \in Live, NEW s, Sound(s), s.rounds = db.rounds,
         Save(Terminated(s))
  PROVE  Keeps
<1> DEFINE c == Terminated(s)
<1>1. Sound(c) /\ Pending(c) = {} /\ c.status = "terminated" /\ c.rounds = db.rounds
  BY TerminatedIsSound
<1>2. db' = c  BY DEF Save
<1>3. IndInv'  BY <1>1, SaveKeepsIndInv
<1> HIDE DEF c
<1>4. OpenRounds(c) = {}  BY <1>1 DEF OpenRounds
<1>5. Contract!Next  BY <1>1, <1>2, <1>4 DEF Contract!Next, Contract!Stop, Live
<1> QED  BY <1>3, <1>5 DEF Keeps

\* An operation that hands arrivals to the loop keeps the invariant and does not show yet.
LEMMA RunKeeps ==
  ASSUME IndInv, ~held, NEW s, Sound(s), NEW q \in Seq(Arrival), Run(s, q),
         db.status \in {"absent", "running"}, s.status = "running", SettlesOne(db, s)
  PROVE  Keeps
<1>1. db' = db /\ held' = TRUE /\ work' = s /\ queue' = q /\ turns' = 0  BY DEF Run
<1>2. Sound(db)  BY IdleIsSound
<1>3. TypeOK'  BY <1>1, <1>2, MaxTurnsIsNat DEF TypeOK, Sound
<1>4. SettlesOne(db', work')  BY <1>1
<1>5. IndInv'  BY <1>1, <1>2, <1>3, <1>4 DEF IndInv, Sound
<1> QED  BY <1>1, <1>5 DEF Keeps

\* A turn of the loop keeps the invariant if what it leaves settles one round at most.
LEMMA PassOnKeeps ==
  ASSUME IndInv, NEW n \in Nodes, Moving(n), NEW s, Sound(s), NEW next \in Seq(Arrival),
         PassOn(s, next), s.status = "running", SettlesOne(db, s)
  PROVE  Keeps
<1>1. /\ db' = db /\ held' = held /\ work' = s /\ queue' = Tail(queue) \o next
      /\ turns' = turns + 1
  BY DEF PassOn
<1>2. held /\ queue # <<>> /\ turns < MaxTurns  BY DEF Moving
<1>3. queue \in Seq(Arrival) /\ turns \in 0..MaxTurns  BY DEF IndInv, TypeOK
<1>4. queue' \in Seq(Arrival)  BY <1>1, <1>2, <1>3, QueueIsTyped
<1>5. turns' \in 0..MaxTurns  BY <1>1, <1>2, <1>3, GraphAssumption
<1>6. TypeOK'  BY <1>1, <1>2, <1>4, <1>5 DEF TypeOK, Sound, IndInv
<1>7. SettlesOne(db', work')  BY <1>1
<1>8. IndInv'  BY <1>1, <1>6, <1>7 DEF IndInv, Sound
<1> QED  BY <1>1, <1>8 DEF Keeps

-------------------------------------------------------------------------------
(* One lemma per action.                                                     *)

\* No instance yet: the invariant and the contract's initial state.
LEMMA InitIsSound ==
  ASSUME Init
  PROVE  IndInv /\ Contract!Init
<1>1. Empty \in Instance  BY DEF Empty, Instance, Status
<1>2. Empty.tasks = {} /\ Empty.status = "absent" /\ Empty.rounds = 0  BY DEF Empty
<1>3. Pending(Empty) = {} /\ OpenRounds(Empty) = {}  BY <1>2 DEF Pending, OpenRounds
<1>4. SoundRows(Empty)  BY <1>2, <1>3, FS_EmptySet DEF SoundRows
<1>5. db = Empty /\ work = Empty /\ held = FALSE /\ queue = <<>> /\ turns = 0  BY DEF Init
<1>6. TypeOK  BY <1>1, <1>5, MaxTurnsIsNat, EmptySeq DEF TypeOK
<1>7. IndInv  BY <1>4, <1>5, <1>6 DEF IndInv
<1> QED  BY <1>2, <1>3, <1>5, <1>7 DEF Contract!Init

\* The published graph has a start node.
LEMMA StartNodeIsNode == StartNode \in Nodes
BY GraphAssumption DEF StartNode

\* Starting an instance keeps the invariant (engine.go, start).
LEMMA StartKeeps ==
  ASSUME IndInv, Start
  PROVE  Keeps
<1> DEFINE s == [db EXCEPT !.status = "running"]
           q == <<[node |-> StartNode, from |-> NoNode]>>
<1>1. ~held /\ db.status = "absent" /\ Run(s, q)  BY DEF Start, Locked
<1>2. Sound(db)  BY <1>1, IdleIsSound
<1>3. /\ Sound(s) /\ Pending(s) = Pending(db) /\ s.status = "running"
      /\ s.rounds = db.rounds
  BY <1>2, StatusIsSound DEF Status, Live
<1>4. SettlesOne(db, s)  BY <1>2, <1>3, SamePending, NothingSettled
<1>5. q \in Seq(Arrival)
  <2>1. [node |-> StartNode, from |-> NoNode] \in Arrival  BY StartNodeIsNode DEF Arrival
  <2> QED  BY <2>1
<1> HIDE DEF s, q
<1> QED  BY <1>1, <1>3, <1>4, <1>5, RunKeeps

\* During a walk the uncommitted rows are sound, running, and settle one round at most.
LEMMA WalkIsSound ==
  ASSUME IndInv, held
  PROVE  Sound(work) /\ work.status = "running" /\ SettlesOne(db, work) /\ db.rounds \in Nat
BY InstanceFields DEF IndInv, TypeOK, Sound

\* A node that is not an approval leaves the active set without an open task.
LEMMA DeletedIsSound ==
  ASSUME NEW s, Sound(s), NEW n \in Nodes, n \notin Approvals, NEW c, c = Deleted(s, n)
  PROVE  Sound(c) /\ Pending(c) = Pending(s) /\ c.status = s.status /\ c.rounds = s.rounds
<1>1. s.current \in SUBSET Nodes /\ s.tasks \in SUBSET Task  BY InstanceFields DEF Sound
<1>2. \A t \in Pending(s) : t.node \in s.current \ {n}
  BY <1>1, TaskFields DEF Sound, SoundRows, Pending
<1>3. s.current \ {n} \in SUBSET Nodes  BY <1>1
<1> QED  BY <1>2, <1>3, CurrentIsSound DEF Deleted

\* A start, service or end node keeps the invariant.
LEMMA PassNodeKeeps ==
  ASSUME IndInv, NEW n \in Nodes, PassNode(n)
  PROVE  Keeps
<1>1. Moving(n) /\ n \notin Approvals /\ PassOn(Deleted(work, n), Arrivals(n))
  BY DEF PassNode, Approvals
<1>2. Sound(work) /\ work.status = "running" /\ SettlesOne(db, work)
  BY <1>1, WalkIsSound DEF Moving
<1>3. PICK c : c = Deleted(work, n)  OBVIOUS
<1>4. Sound(c) /\ Pending(c) = Pending(work) /\ c.status = "running" /\ c.rounds = work.rounds
  BY <1>1, <1>2, <1>3, DeletedIsSound
<1>5. SettlesOne(db, c)  BY <1>2, <1>4, StillSettlesOne
<1> QED  BY <1>1, <1>3, <1>4, <1>5, ArrivalsAreTyped, PassOnKeeps

\* A fork keeps the invariant.
LEMMA ForkKeeps ==
  ASSUME IndInv, NEW n \in Nodes, Fork(n)
  PROVE  Keeps
<1>1. Moving(n) /\ n \notin Approvals /\ PassOn(Deleted(work, n), Arrivals(n))
  BY DEF Fork, Approvals
<1>2. Sound(work) /\ work.status = "running" /\ SettlesOne(db, work)
  BY <1>1, WalkIsSound DEF Moving
<1>3. PICK c : c = Deleted(work, n)  OBVIOUS
<1>4. Sound(c) /\ Pending(c) = Pending(work) /\ c.status = "running" /\ c.rounds = work.rounds
  BY <1>1, <1>2, <1>3, DeletedIsSound
<1>5. SettlesOne(db, c)  BY <1>2, <1>4, StillSettlesOne
<1> QED  BY <1>1, <1>3, <1>4, <1>5, ArrivalsAreTyped, PassOnKeeps

\* An exclusive gateway keeps the invariant.
LEMMA BranchKeeps ==
  ASSUME IndInv, NEW n \in Nodes, Branch(n)
  PROVE  Keeps
<1>1. /\ Moving(n) /\ n \notin Approvals
      /\ \E i \in DOMAIN Out[n] : PassOn(Deleted(work, n), <<[node |-> Out[n][i], from |-> n]>>)
  BY DEF Branch, Approvals
<1>2. PICK i \in DOMAIN Out[n] : PassOn(Deleted(work, n), <<[node |-> Out[n][i], from |-> n]>>)
  BY <1>1
<1>3. Sound(work) /\ work.status = "running" /\ SettlesOne(db, work)
  BY <1>1, WalkIsSound DEF Moving
<1>4. PICK c : c = Deleted(work, n)  OBVIOUS
<1>5. Sound(c) /\ Pending(c) = Pending(work) /\ c.status = "running" /\ c.rounds = work.rounds
  BY <1>1, <1>3, <1>4, DeletedIsSound
<1>6. SettlesOne(db, c)  BY <1>3, <1>5, StillSettlesOne
<1>7. <<[node |-> Out[n][i], from |-> n]>> \in Seq(Arrival)
  <2>1. Out[n] \in Seq(Nodes)  BY GraphAssumption
  <2>2. Out[n][i] \in Nodes  BY <2>1, LenProperties, ElementOfSeq
  <2>3. [node |-> Out[n][i], from |-> n] \in Arrival  BY <2>2 DEF Arrival
  <2> QED  BY <2>3
<1> QED  BY <1>1, <1>2, <1>4, <1>5, <1>6, <1>7, PassOnKeeps

\* A node that becomes active keeps the invariant.
LEMMA WaitKeeps ==
  ASSUME IndInv, NEW n \in Nodes, Moving(n), NEW s, Sound(s), s.status = "running",
         SettlesOne(db, s), Wait(s, n)
  PROVE  Keeps
<1> DEFINE c == [s EXCEPT !.current = s.current \cup {n}]
<1>1. s.current \in SUBSET Nodes  BY InstanceFields DEF Sound
<1>2. s.current \cup {n} \in SUBSET Nodes
  BY <1>1
<1>3. \A t \in Pending(s) : t.node \in s.current \cup {n}  BY DEF Sound, SoundRows
<1>4. Sound(c) /\ Pending(c) = Pending(s) /\ c.status = s.status /\ c.rounds = s.rounds
  BY <1>2, <1>3, CurrentIsSound
<1>5. PassOn(c, <<>>)  BY DEF Wait
<1> HIDE DEF c
<1>6. SettlesOne(db, c)  BY <1>4, StillSettlesOne
<1>7. <<>> \in Seq(Arrival)  BY EmptySeq
<1> QED  BY <1>4, <1>5, <1>6, <1>7, PassOnKeeps

\* An arrival at a join keeps the invariant, whether the join fires or waits.
LEMMA ArriveAtJoinKeeps ==
  ASSUME IndInv, NEW n \in Nodes, ArriveAtJoin(n)
  PROVE  Keeps
<1> DEFINE from == Head(queue).from
           tokens == Arrived(work, <<from, n>>)
           c == Deleted(work, n)
           s == [c EXCEPT !.tokens = tokens]
           u == [s EXCEPT !.tokens = Released(tokens, n)]
<1>1. /\ Moving(n) /\ n \in Joins /\ n \notin Approvals /\ from \in Preds(n)
      /\ \/ ~AllIn(tokens, n) /\ Wait(s, n)
         \/ AllIn(tokens, n) /\ PassOn(u, Arrivals(n))
  BY DEF ArriveAtJoin, Joins, Approvals
<1>2. Sound(work) /\ work.status = "running" /\ SettlesOne(db, work)
  BY <1>1, WalkIsSound DEF Moving
<1>3. tokens \in [JoinEdges -> Nat]
  <2>1. <<from, n>> \in JoinEdges  BY <1>1 DEF JoinEdges, Preds
  <2> QED  BY <1>2, <2>1, TokensAreTyped DEF Sound
<1>4. Sound(c) /\ Pending(c) = Pending(work) /\ c.status = "running" /\ c.rounds = work.rounds
  BY <1>1, <1>2, DeletedIsSound
<1> HIDE DEF c, tokens
<1>5. Sound(s) /\ Pending(s) = Pending(c) /\ s.status = c.status /\ s.rounds = c.rounds
  BY <1>3, <1>4, TokensIsSound
<1> HIDE DEF s
<1>6. SettlesOne(db, s)  BY <1>2, <1>4, <1>5, StillSettlesOne
<1>7. CASE Wait(s, n)  BY <1>1, <1>4, <1>5, <1>6, <1>7, WaitKeeps
<1>8. CASE AllIn(tokens, n) /\ PassOn(u, Arrivals(n))
  <2>1. Released(tokens, n) \in [JoinEdges -> Nat]  BY <1>1, <1>3, <1>8, ReleasedIsTyped
  <2>2. Sound(u) /\ Pending(u) = Pending(s) /\ u.status = s.status /\ u.rounds = s.rounds
    BY <1>5, <2>1, TokensIsSound
  <2> HIDE DEF u
  <2>3. SettlesOne(db, u)  BY <1>6, <2>2, StillSettlesOne
  <2> QED  BY <1>1, <1>4, <1>5, <1>8, <2>2, <2>3, ArrivalsAreTyped, PassOnKeeps
<1> QED  BY <1>1, <1>7, <1>8

\* Opening a round at a node that is not active keeps the invariant.
LEMMA StaffedByKeeps ==
  ASSUME IndInv, NEW n \in Approvals, Moving(n), n \notin work.current,
         NEW A \in SUBSET Users, StaffedBy(n, A)
  PROVE  Keeps
<1>1. PICK b : b = OpenRound(work, n, A)  OBVIOUS
<1> DEFINE c == [b EXCEPT !.current = b.current \cup {n}]
<1>2. PassOn(c, <<>>)  BY <1>1 DEF StaffedBy, Wait
<1>3. /\ Sound(work) /\ work.status = "running" /\ SettlesOne(db, work) /\ db.rounds \in Nat
  BY WalkIsSound DEF Moving
<1>4. work.status \in Live /\ work.rounds \in Nat  BY <1>3, RoundsInRange DEF Live
<1>5. c = [b EXCEPT !.current = b.current \cup {n}] OBVIOUS
<1> HIDE DEF c
<1>6. /\ Sound(c) /\ Pending(work) \subseteq Pending(c)
      /\ \A t \in Pending(c) \ Pending(work) : t.round = work.rounds + 1
  BY <1>1, <1>3, <1>4, <1>5, OpenRoundIsSound
<1>7. c.status = work.status /\ c.rounds = work.rounds + 1
  BY <1>1, <1>3, <1>5, InstanceFields DEF OpenRound, Sound
<1>8. SettlesOne(db, c)  BY <1>3, <1>6, <1>7, OpeningSettlesOne
<1>9. <<>> \in Seq(Arrival) /\ n \in Nodes  BY EmptySeq DEF Approvals
<1> QED  BY <1>2, <1>3, <1>6, <1>8, <1>9, <1>7, PassOnKeeps

\* An approval that is passed through keeps the invariant.
LEMMA PassThroughKeeps ==
  ASSUME IndInv, NEW n \in Nodes, Moving(n), PassOn(work, Arrivals(n))
  PROVE  Keeps
<1>1. Sound(work) /\ work.status = "running" /\ SettlesOne(db, work)
  BY WalkIsSound DEF Moving
<1> QED  BY <1>1, ArrivalsAreTyped, PassOnKeeps

\* Entering an approval keeps the invariant (ApprovalNode.OnEnter).
LEMMA EnterApprovalKeeps ==
  ASSUME IndInv, NEW n \in Nodes, EnterApproval(n)
  PROVE  Keeps
<1>1. n \in Approvals /\ Moving(n) /\ n \notin work.current  BY DEF EnterApproval, Approvals
<1>2. PICK S \in Staffing[n], F \in Fallback[n] :
        \/ StaffedBy(n, Eligible(S)) \/ StaffedBy(n, Eligible(F))
        \/ PassOn(work, Arrivals(n))
  BY DEF EnterApproval
<1>3. S \in SUBSET Users /\ F \in SUBSET Users
  <2>1. Staffing[n] \in SUBSET SUBSET Users /\ Fallback[n] \in SUBSET SUBSET Users
    BY <1>1, GraphAssumption
  <2> QED  BY <2>1
<1>4. Eligible(S) \in SUBSET Users /\ Eligible(F) \in SUBSET Users  BY <1>3 DEF Eligible
<1> QED  BY <1>1, <1>2, <1>4, StaffedByKeeps, PassThroughKeeps

\* A skip variable keeps the invariant.
LEMMA PassApprovalKeeps ==
  ASSUME IndInv, NEW n \in Nodes, PassApproval(n)
  PROVE  Keeps
BY PassThroughKeeps DEF PassApproval

\* The commit keeps the invariant and is a step of the contract (completeInstance).
LEMMA CommitKeeps ==
  ASSUME IndInv, Commit
  PROVE  Keeps
<1>1. /\ held /\ queue = <<>> /\ held' = FALSE /\ turns' = 0 /\ queue' = queue /\ db' = work'
      /\ \/ work' = work
         \/ Pending(work) = {} /\ work' = [work EXCEPT !.status = "completed"]
  BY DEF Commit
<1>2. /\ Sound(work) /\ work.status = "running" /\ SettlesOne(db, work) /\ db.rounds \in Nat
      /\ db.status \in {"absent", "running"} /\ Sound(db)
  BY <1>1, WalkIsSound DEF IndInv, TypeOK, Sound
<1>3. PICK c : c = work'  OBVIOUS
<1>4. /\ Sound(c) /\ Pending(c) = Pending(work) /\ c.rounds = work.rounds
      /\ c.status \in {"running", "completed"} /\ (c.status = "completed" => Pending(c) = {})
  <2>1. CASE work' = work  BY <1>2, <1>3, <2>1
  <2>2. CASE Pending(work) = {} /\ work' = [work EXCEPT !.status = "completed"]
    <3>1. "completed" \in Status  BY DEF Status
    <3> QED  BY <1>2, <1>3, <2>2, <3>1, StatusIsSound
  <2> QED  BY <1>1, <2>1, <2>2
<1>5. SettlesOne(db, c)  BY <1>2, <1>4, StillSettlesOne
<1>6. IndInv'
  <2>1. TypeOK'  BY <1>1, <1>3, <1>4, MaxTurnsIsNat, EmptySeq DEF TypeOK, Sound
  <2> QED  BY <1>1, <1>3, <1>4, <2>1 DEF IndInv, Sound
<1>7. PICK r \in OpenRounds(db) \cup {0} :
        /\ OpenRounds(db) \ {r} \subseteq OpenRounds(c)
        /\ OpenRounds(c) \subseteq (OpenRounds(db) \ {r}) \cup (db.rounds + 1 .. c.rounds)
  BY <1>5 DEF SettlesOne
<1>8. Contract!Advance(r)
  <2>1. c.status = "completed" => OpenRounds(c) = {}  BY <1>4 DEF OpenRounds
  <2>2. db.rounds <= c.rounds /\ c.rounds \in Nat
    BY <1>4, <1>5, RoundsInRange DEF SettlesOne
  <2> QED  BY <1>1, <1>2, <1>3, <1>4, <1>7, <2>1, <2>2 DEF Contract!Advance
<1>9. Contract!Next
  <2>1. CASE db.status = "running"
    BY <1>7, <1>8, <2>1 DEF Contract!Next, Contract!Settle, Contract!NoRound
  <2>2. CASE db.status = "absent"
    <3>1. Pending(db) = {}  BY <1>2, <2>2 DEF Sound, SoundRows, Live
    <3>2. r = 0  BY <1>7, <3>1 DEF OpenRounds
    <3> QED  BY <1>8, <2>2, <3>2 DEF Contract!Next, Contract!Begin, Contract!NoRound
  <2> QED  BY <1>2, <2>1, <2>2
<1> QED  BY <1>6, <1>9 DEF Keeps

\* A rollback keeps the invariant and does not show.
LEMMA AbortKeeps ==
  ASSUME IndInv, Abort
  PROVE  Keeps
<1>1. held' = FALSE /\ work' = db /\ queue' = <<>> /\ turns' = 0 /\ db' = db  BY DEF Abort
<1>2. TypeOK'  BY <1>1, MaxTurnsIsNat, EmptySeq DEF IndInv, TypeOK
<1> QED  BY <1>1, <1>2 DEF IndInv, Keeps

(* The open tasks of a node share their round.                               *)
LEMMA OneRoundPerNode ==
  ASSUME NEW s, Sound(s), NEW t \in Pending(s), NEW u \in Pending(s), t.node = u.node
  PROVE  t.round = u.round
<1>1. t \in s.tasks /\ u \in s.tasks /\ s.rounds \in Nat  BY InstanceFields DEF Pending, Sound
<1>2. t.round \in 1..s.rounds /\ u.round \in 1..s.rounds  BY <1>1 DEF Sound, SoundRows
<1>3. t.round <= u.round /\ u.round <= t.round  BY <1>1 DEF Sound, SoundRows
<1> QED  BY <1>1, <1>2, <1>3

\* Closing the open tasks of one node settles one round at most.
LEMMA ClosingANodeSettlesOne ==
  ASSUME NEW s, Sound(s), NEW c, c.rounds = s.rounds, Pending(c) \subseteq Pending(s),
         NEW n, \A t \in Pending(s) \ Pending(c) : t.node = n
  PROVE  SettlesOne(s, c)
<1>1. CASE Pending(c) = Pending(s)  BY <1>1, SamePending, NothingSettled
<1>2. CASE Pending(c) # Pending(s)
  <2>1. PICK p \in Pending(s) : p \notin Pending(c)  BY <1>2
  <2>2. \A t \in Pending(s) \ Pending(c) : t.round = p.round  BY <2>1, OneRoundPerNode
  <2> QED  BY <2>1, <2>2, ClosingSettlesOne
<1> QED  BY <1>1, <1>2

\* Leaving a node whose open tasks are closed keeps the invariant.
LEMMA LeaveNodeKeeps ==
  ASSUME IndInv, ~held, db.status = "running", NEW n \in Approvals, NEW s, Sound(s),
         s.status = "running", s.rounds = db.rounds, Pending(s) \subseteq Pending(db),
         \A t \in Pending(db) \ Pending(s) : t.node = n, \A t \in Pending(s) : t.node # n,
         LeaveNode(s, n)
  PROVE  Keeps
<1> DEFINE c == [s EXCEPT !.current = s.current \ {n}]
<1>1. Run(c, Arrivals(n))  BY DEF LeaveNode
<1>2. s.current \ {n} \in SUBSET Nodes /\ \A t \in Pending(s) : t.node \in s.current \ {n}
  <2>1. s.current \in SUBSET Nodes  BY InstanceFields DEF Sound
  <2> QED  BY <2>1 DEF Sound, SoundRows
<1>3. Sound(c) /\ Pending(c) = Pending(s) /\ c.status = s.status /\ c.rounds = s.rounds
  BY <1>2, CurrentIsSound
<1> HIDE DEF c
<1>4. SettlesOne(db, c)  BY <1>3, IdleIsSound, ClosingANodeSettlesOne
<1>5. Arrivals(n) \in Seq(Arrival)  BY ArrivalsAreTyped DEF Approvals
<1> QED  BY <1>1, <1>3, <1>4, <1>5, RunKeeps

(* The round that p is open in takes the vote of t, and s is the instance    *)
(* with that vote.                                                           *)
LEMMA ResolveKeeps ==
  ASSUME IndInv, ~held, db.status = "running", NEW s, Sound(s), s.status = "running",
         s.rounds = db.rounds, Pending(s) \subseteq Pending(db), NEW p \in Pending(db), NEW t,
         t.node = p.node, t.round = p.round,
         \A q \in Pending(db) \ Pending(s) : q.node = p.node,
         NEW forced, Resolve(s, t, forced)
  PROVE  Keeps
<1> DEFINE R == Round(s, t)
           T == R \cap Pending(s)
<1>1. \/ LeaveNode(Close(s, T, "cancelled"), t.node) \/ Save(Terminated(s)) \/ Save(s)
  BY DEF Resolve
<1>2. Sound(db)  BY IdleIsSound
<1>3. p \in Task /\ p.node \in Approvals
  BY <1>2, InstanceFields, TaskFields DEF Sound, Pending
<1>4. CASE LeaveNode(Close(s, T, "cancelled"), t.node)
  <2>1. T \subseteq s.tasks /\ "cancelled" \in TaskState /\ "cancelled" # "pending"
    BY DEF Pending, TaskState
  <2>2. PICK c : c = Close(s, T, "cancelled")  OBVIOUS
  <2>3. /\ Sound(c) /\ Pending(c) = Pending(s) \ T /\ c.status = s.status
        /\ c.rounds = s.rounds
    BY <2>1, <2>2, CloseIsSound
  <2>4. \A q \in Pending(c) : q.node # p.node
    <3>1. \A q \in Pending(s) : q.node = p.node => q.round = p.round
      BY <1>2, OneRoundPerNode
    <3>2. \A q \in Pending(s) : q.node = p.node => q \in T  BY <3>1 DEF Round, Pending
    <3> QED  BY <2>3, <3>2
  <2>5. \A q \in Pending(db) \ Pending(c) : q.node = p.node
    BY <2>3 DEF Round
  <2>6. Pending(c) \subseteq Pending(db)  BY <2>3
  <2>7. LeaveNode(c, p.node)  BY <1>4, <2>2
  <2> HIDE DEF T, R
  <2> QED  BY <1>3, <2>3, <2>4, <2>5, <2>6, <2>7, LeaveNodeKeeps
<1>5. CASE Save(Terminated(s))  BY <1>5, SaveTerminatesKeeps DEF Live
<1>6. CASE Save(s)
  <2>1. SettlesOne(db, s)  BY <1>2, ClosingANodeSettlesOne
  <2> QED  BY <1>6, <2>1, SaveSettles
<1> QED  BY <1>1, <1>4, <1>5, <1>6

(* A vote on an open task.                                                   *)
LEMMA VotedIsSound ==
  ASSUME NEW s, Sound(s), NEW t \in Pending(s), NEW st \in TaskState, st # "pending",
         NEW c, c = Close(s, {t}, st)
  PROVE  /\ Sound(c) /\ c.status = s.status /\ c.rounds = s.rounds /\ c.current = s.current
         /\ \A q : q \in Pending(c) <=> q \in Pending(s) /\ q # t
<1>1. PICK T : T = {t}  OBVIOUS
<1>2. T \subseteq s.tasks /\ c = Close(s, T, st)  BY <1>1 DEF Pending
<1>3. Sound(c)  BY <1>2, CloseIsSound
<1>4. c.status = s.status /\ c.rounds = s.rounds /\ c.current = s.current
  BY InstanceFields DEF Sound, Close
<1>5. Pending(c) = Pending(s) \ T  BY <1>2, CloseIsSound
<1> QED  BY <1>1, <1>3, <1>4, <1>5

\* A vote on an open task keeps the invariant.
LEMMA BallotKeeps ==
  ASSUME IndInv, ~held, db.status = "running", NEW t \in Pending(db),
         NEW verdict \in {"approved", "rejected"}, NEW forced,
         Resolve(Close(db, {t}, verdict), t, forced)
  PROVE  Keeps
<1>1. Sound(db)  BY IdleIsSound
<1>2. verdict \in TaskState /\ verdict # "pending"  BY DEF TaskState
<1>3. PICK s : s = Close(db, {t}, verdict)  OBVIOUS
<1>4. /\ Sound(s) /\ s.status = db.status /\ s.rounds = db.rounds
      /\ \A q : q \in Pending(s) <=> q \in Pending(db) /\ q # t
  BY <1>1, <1>2, <1>3, VotedIsSound
<1>5. \A q \in Pending(db) \ Pending(s) : q.node = t.node  BY <1>4
<1>6. Pending(s) \subseteq Pending(db) /\ Resolve(s, t, forced)  BY <1>3, <1>4
<1> QED  BY <1>4, <1>5, <1>6, ResolveKeeps

\* CompleteTask with a vote keeps the invariant.
LEMMA VoteKeeps ==
  ASSUME IndInv, NEW t \in db.tasks, NEW verdict \in {"approved", "rejected"}, Vote(t, verdict)
  PROVE  Keeps
BY BallotKeeps DEF Vote, Locked

\* CompleteTask with a withdrawal keeps the invariant.
LEMMA WithdrawKeeps ==
  ASSUME IndInv, NEW t \in db.tasks, Withdraw(t)
  PROVE  Keeps
<1>1. ~held /\ db.status = "running" /\ t \in Pending(db)  BY DEF Withdraw, Locked
<1>2. Sound(db)  BY <1>1, IdleIsSound
<1>3. PICK s : s = Close(db, {t}, "withdrawn")  OBVIOUS
<1>4. Sound(s) /\ s.rounds = db.rounds
  <2>1. "withdrawn" \in TaskState /\ "withdrawn" # "pending"  BY DEF TaskState
  <2>2. Sound(s)  BY <1>1, <1>2, <1>3, <2>1, VotedIsSound
  <2>3. s.rounds = db.rounds  BY <1>1, <1>2, <1>3, <2>1, VotedIsSound
  <2> QED  BY <2>2, <2>3
<1>5. Save(Terminated(s))  BY <1>3 DEF Withdraw
<1> QED  BY <1>1, <1>4, <1>5, SaveTerminatesKeeps DEF Live

(* A row in the round of an open task that is not open itself.               *)
LEMMA MintedIsSound ==
  ASSUME NEW s, Sound(s), NEW p \in Pending(s), NEW v \in Users,
         NEW st \in TaskState, st # "pending",
         NEW x, x = SetState(NextTask(s, p, v), st),
         NEW c, c = [s EXCEPT !.tasks = @ \cup {x}]
  PROVE  Sound(c) /\ Pending(c) = Pending(s) /\ c.status = s.status /\ c.rounds = s.rounds
<1>1. p \in s.tasks  BY DEF Pending
<1>2. PICK t : t = NextTask(s, p, v)  OBVIOUS
<1>3. t \in Task /\ t.node = p.node /\ t.round = p.round  BY <1>1, <1>2, SoundIsTidy, NextTaskIsTyped
<1>4. x \in Task /\ x.node = p.node /\ x.round = p.round /\ x.st = st
  BY <1>2, <1>3, SetStateFields
<1>5. \A u \in s.tasks : u.node = p.node => u.round <= p.round  BY DEF Sound, SoundRows
<1> QED  BY <1>1, <1>4, <1>5, AddRowIsSound

\* CompleteApplicationApproval keeps the invariant, also with a minted task.
LEMMA ReviewKeeps ==
  ASSUME IndInv, NEW n \in Approvals, NEW u \in Users, NEW verdict \in {"approved", "rejected"},
         Review(n, u, verdict)
  PROVE  Keeps
<1>1. ~held /\ db.status = "running" /\ PendingAt(db, n) \subseteq Pending(db)
  BY DEF Review, Locked, PendingAt
<1>2. CASE \E t \in PendingAt(db, n) :
             t.who = u /\ Resolve(Close(db, {t}, verdict), t, verdict = "rejected")
  BY <1>1, <1>2, BallotKeeps
<1>3. CASE \E ref \in PendingAt(db, n) :
             LET t == NextTask(db, ref, u)
                 minted == [db EXCEPT !.tasks = @ \cup {SetState(t, verdict)}]
             IN  t.nth < MaxHops /\ Resolve(minted, t, verdict = "rejected")
  <2>1. PICK p \in PendingAt(db, n) :
          Resolve([db EXCEPT !.tasks = @ \cup {SetState(NextTask(db, p, u), verdict)}],
                  NextTask(db, p, u), verdict = "rejected")
    BY <1>3
  <2>2. Sound(db) /\ p \in Pending(db) /\ p \in db.tasks
    BY <1>1, IdleIsSound DEF Pending
  <2>3. PICK t : t = NextTask(db, p, u)  OBVIOUS
  <2>4. t.node = p.node /\ t.round = p.round  BY <2>2, <2>3, SoundIsTidy, NextTaskIsTyped
  <2>5. PICK x : x = SetState(t, verdict)  OBVIOUS
  <2>6. PICK s : s = [db EXCEPT !.tasks = @ \cup {x}]  OBVIOUS
  <2>7. verdict \in TaskState /\ verdict # "pending"  BY DEF TaskState
  <2>8. /\ Sound(s) /\ Pending(s) = Pending(db) /\ s.status = db.status
        /\ s.rounds = db.rounds
    BY <2>2, <2>3, <2>5, <2>6, <2>7, MintedIsSound
  <2>9. Resolve(s, t, verdict = "rejected")  BY <2>1, <2>3, <2>5, <2>6
  <2>10. PICK forced : forced = (verdict = "rejected")  OBVIOUS
  <2> QED  BY <1>1, <2>2, <2>4, <2>8, <2>9, <2>10, ResolveKeeps
<1> QED  BY <1>2, <1>3 DEF Review

\* Handing a task over keeps the invariant (transferPendingTask).
LEMMA TransferKeeps ==
  ASSUME IndInv, ~held, db.status = "running", NEW t \in Pending(db), NEW v \in Users,
         Transfer(t, v)
  PROVE  Keeps
<1>1. PICK s : s = Close(db, {t}, "transferred")  OBVIOUS
<1>2. PICK x : x = NextTask(db, t, v)  OBVIOUS
<1>3. PICK c : c = [s EXCEPT !.tasks = s.tasks \cup {x}]  OBVIOUS
<1>4. Save(c)  BY <1>1, <1>2, <1>3 DEF Transfer
<1>5. Sound(db) /\ t \in db.tasks /\ db \in Instance  BY IdleIsSound DEF Pending, Sound
<1>6. "transferred" \in TaskState /\ "transferred" # "pending"  BY DEF TaskState
<1>7. /\ Sound(s) /\ s.status = db.status /\ s.rounds = db.rounds /\ s.current = db.current
      /\ \A q : q \in Pending(s) <=> q \in Pending(db) /\ q # t
  BY <1>1, <1>5, <1>6, VotedIsSound
<1>8. x \in Task /\ x.node = t.node /\ x.round = t.round /\ x.st = "pending"
  BY <1>2, <1>5, SoundIsTidy, NextTaskIsTyped
<1>9. PICK w : w = SetState(t, "transferred")  OBVIOUS
<1>10. /\ w \in s.tasks /\ w.node = t.node /\ w.round = t.round
       /\ \A u \in s.tasks : \E q \in db.tasks : u.node = q.node /\ u.round = q.round
  BY <1>1, <1>5, <1>6, <1>9, ClosedRowStays
<1>11. \A u \in s.tasks : u.node = w.node => u.round <= w.round
  BY <1>5, <1>10 DEF Sound, SoundRows
<1>12. s.status \in Live /\ w.node \in s.current
  BY <1>5, <1>7, <1>10 DEF Sound, SoundRows
<1>13. /\ Sound(c) /\ c.status = s.status /\ c.rounds = s.rounds
       /\ Pending(c) = Pending(s) \cup {x}
  BY <1>3, <1>7, <1>8, <1>10, <1>11, <1>12, AddRowIsSound
<1>14. OpenRounds(c) = OpenRounds(db)
  <2>1. \A q : q \in Pending(c) <=> q = x \/ (q \in Pending(db) /\ q # t)  BY <1>7, <1>13
  <2>2. \A r \in OpenRounds(c) : r \in OpenRounds(db)  BY <1>8, <2>1, OpenRoundsOf
  <2>3. \A r \in OpenRounds(db) : r \in OpenRounds(c)  BY <1>8, <2>1, OpenRoundsOf
  <2> QED  BY <2>2, <2>3
<1>15. SettlesOne(db, c)  BY <1>5, <1>7, <1>13, <1>14, NothingSettled
<1> QED  BY <1>4, <1>7, <1>13, <1>15, SaveSettles

\* TransferTask keeps the invariant.
LEMMA TransferTaskKeeps ==
  ASSUME IndInv, NEW t \in db.tasks, NEW v \in Users, TransferTask(t, v)
  PROVE  Keeps
BY TransferKeeps DEF TransferTask, Locked

\* TransferApplicationApproval keeps the invariant.
LEMMA TransferApplicationKeeps ==
  ASSUME IndInv, NEW n \in Approvals, NEW u \in Users, NEW v \in Users,
         TransferApplication(n, u, v)
  PROVE  Keeps
<1>1. ~held /\ db.status = "running"  BY DEF TransferApplication, Locked
<1>2. PICK t \in PendingAt(db, n) : Transfer(t, v)  BY DEF TransferApplication
<1> QED  BY <1>1, <1>2, TransferKeeps DEF PendingAt

\* RollbackTask keeps the invariant.
LEMMA RollbackTaskKeeps ==
  ASSUME IndInv, NEW t \in db.tasks, NEW target \in Approvals, RollbackTask(t, target)
  PROVE  Keeps
<1> DEFINE k == db.notes \cup {[action |-> "rollback", node |-> t.node, round |-> t.round]}
           a == CancelAll(db)
           b == [a EXCEPT !.current = {}]
           c == [b EXCEPT !.notes = k]
           q == <<[node |-> target, from |-> NoNode]>>
<1>1. ~held /\ db.status = "running" /\ t \in Pending(db) /\ db.current = {t.node}
  BY DEF RollbackTask, Locked
<1>2. Sound(db) /\ db \in Instance  BY <1>1, IdleIsSound DEF Sound
<1>3. /\ Sound(a) /\ Pending(a) = {} /\ a.status = db.status /\ a.rounds = db.rounds
      /\ a.notes = db.notes
  BY <1>2, CancelAllIsSound
<1>4. Run(c, q)  BY <1>3 DEF RollbackTask
<1> HIDE DEF a
<1>5. /\ Sound(b) /\ Pending(b) = {} /\ b.status = db.status /\ b.rounds = db.rounds
  <2>1. {} \in SUBSET Nodes /\ \A u \in Pending(a) : u.node \in {}  BY <1>3
  <2> QED  BY <1>3, <2>1, CurrentIsSound
<1>6. k \in SUBSET Note
  <2>1. t \in Task  BY <1>2, InstanceFields
  <2>2. [action |-> "rollback", node |-> t.node, round |-> t.round] \in Note
    BY <2>1, TaskFields DEF Note
  <2> QED  BY <1>2, <2>2, InstanceFields
<1> HIDE DEF b, k
<1>7. Sound(c) /\ Pending(c) = {} /\ c.status = "running" /\ c.rounds = db.rounds
  BY <1>1, <1>5, <1>6, NotesIsSound
<1> HIDE DEF c
<1>8. \A u \in Pending(db) : u.node = t.node  BY <1>1, <1>2 DEF Sound, SoundRows
<1>9. SettlesOne(db, c)  BY <1>2, <1>7, <1>8, ClosingANodeSettlesOne
<1>10. q \in Seq(Arrival)
  <2>1. [node |-> target, from |-> NoNode] \in Arrival  BY DEF Arrival, Approvals
  <2> QED  BY <2>1
<1> QED  BY <1>1, <1>4, <1>7, <1>9, <1>10, RunKeeps

\* SkipApplicationApproval keeps the invariant.
LEMMA SkipApplicationKeeps ==
  ASSUME IndInv, NEW n \in Approvals, SkipApplication(n)
  PROVE  Keeps
<1> DEFINE skipped == {[action |-> "skip", node |-> n, round |-> t.round] : t \in PendingAt(db, n)}
           s == CancelAt(db, n)
           k == s.notes \cup skipped
           c == [s EXCEPT !.notes = k]
<1>1. ~held /\ db.status = "running"  BY DEF SkipApplication, Locked
<1>2. Sound(db) /\ db.tasks \in SUBSET Task  BY <1>1, IdleIsSound, InstanceFields DEF Sound
<1>3. LeaveNode(c, n)  BY DEF SkipApplication
<1>4. /\ Sound(s) /\ Pending(s) = Pending(db) \ PendingAt(db, n) /\ s.status = db.status
      /\ s.rounds = db.rounds
  BY <1>2, CancelAtIsSound
<1>5. \A x \in skipped : x \in Note
  BY <1>2, TaskFields DEF Note, PendingAt, Pending
<1> HIDE DEF s, skipped
<1>6. k \in SUBSET Note
  <2>1. s.notes \in SUBSET Note  BY <1>4, InstanceFields DEF Sound
  <2> QED  BY <1>5, <2>1
<1> HIDE DEF k
<1>7. Sound(c) /\ Pending(c) = Pending(s) /\ c.status = s.status /\ c.rounds = s.rounds
  BY <1>4, <1>6, NotesIsSound
<1> HIDE DEF c
<1>8. \A t \in Pending(db) \ Pending(c) : t.node = n  BY <1>4, <1>7 DEF PendingAt
<1>9. \A t \in Pending(c) : t.node # n  BY <1>4, <1>7 DEF PendingAt
<1>10. Pending(c) \subseteq Pending(db)  BY <1>4, <1>7
<1> QED  BY <1>1, <1>3, <1>4, <1>7, <1>8, <1>9, <1>10, LeaveNodeKeeps

\* Terminate keeps the invariant.
LEMMA TerminateKeeps ==
  ASSUME IndInv, Terminate
  PROVE  Keeps
BY IdleIsSound, SaveTerminatesKeeps DEF Terminate, Locked

\* Suspend keeps the invariant.
LEMMA SuspendKeeps ==
  ASSUME IndInv, Suspend
  PROVE  Keeps
<1> DEFINE s == [db EXCEPT !.status = "suspended"]
<1>1. ~held /\ db.status = "running" /\ Save(s)  BY DEF Suspend, Locked
<1>2. Sound(db)  BY <1>1, IdleIsSound
<1>3. /\ Sound(s) /\ Pending(s) = Pending(db) /\ s.status = "suspended"
      /\ s.rounds = db.rounds
  BY <1>2, StatusIsSound DEF Status, Live
<1> HIDE DEF s
<1>4. OpenRounds(s) = OpenRounds(db)  BY <1>3, SamePending
<1>5. Contract!Next
  BY <1>1, <1>3, <1>4 DEF Save, Contract!Next, Contract!Pause
<1> QED  BY <1>1, <1>3, <1>5, SaveKeepsIndInv DEF Keeps

\* Resume keeps the invariant.
LEMMA ResumeKeeps ==
  ASSUME IndInv, Resume
  PROVE  Keeps
<1> DEFINE s == [db EXCEPT !.status = "running"]
<1>1. ~held /\ db.status = "suspended" /\ Save(s)  BY DEF Resume, Locked
<1>2. Sound(db)  BY <1>1, IdleIsSound
<1>3. /\ Sound(s) /\ Pending(s) = Pending(db) /\ s.status = "running"
      /\ s.rounds = db.rounds
  BY <1>2, StatusIsSound DEF Status, Live
<1> HIDE DEF s
<1>4. OpenRounds(s) = OpenRounds(db)  BY <1>3, SamePending
<1>5. Contract!Next
  BY <1>1, <1>3, <1>4 DEF Save, Contract!Next, Contract!Continue
<1> QED  BY <1>1, <1>3, <1>5, SaveKeepsIndInv DEF Keeps

\* A step that changes nothing keeps the invariant.
LEMMA StutterKeeps ==
  ASSUME IndInv, UNCHANGED vars
  PROVE  Keeps
<1>1. db' = db /\ work' = work /\ held' = held /\ queue' = queue /\ turns' = turns
  BY DEF vars
<1>2. TypeOK'  BY <1>1 DEF IndInv, TypeOK
<1> QED  BY <1>1, <1>2 DEF IndInv, Keeps

\* Every step keeps the invariant and is a step of the contract or does not show.
LEMMA NextKeeps ==
  ASSUME IndInv, [Next]_vars
  PROVE  Keeps
<1>1. CASE Start  BY <1>1, StartKeeps
<1>2. CASE Walk
  BY <1>2, PassNodeKeeps, BranchKeeps, ForkKeeps, ArriveAtJoinKeeps, EnterApprovalKeeps,
     PassApprovalKeeps DEF Walk
<1>3. CASE Commit  BY <1>3, CommitKeeps
<1>4. CASE Abort  BY <1>4, AbortKeeps
<1>5. CASE GenericTask
  BY <1>5, VoteKeeps, WithdrawKeeps, TransferTaskKeeps, RollbackTaskKeeps DEF GenericTask
<1>6. CASE Application
  BY <1>6, SkipApplicationKeeps, ReviewKeeps, TransferApplicationKeeps DEF Application
<1>7. CASE Terminate  BY <1>7, TerminateKeeps
<1>8. CASE Suspend  BY <1>8, SuspendKeeps
<1>9. CASE Resume  BY <1>9, ResumeKeeps
<1>10. CASE UNCHANGED vars  BY <1>10, StutterKeeps
<1> QED
  BY <1>1, <1>2, <1>3, <1>4, <1>5, <1>6, <1>7, <1>8, <1>9, <1>10 DEF Next

-------------------------------------------------------------------------------
(* The theorems.                                                             *)

\* The inductive invariant holds: whatever the graph, the staffing and the
\* bounds, rows are sound before, during and after every transaction, and a
\* running one has settled at most one round (execution.go, task.go).
THEOREM EngineIsSound == Spec => []IndInv
<1>1. Init => IndInv  BY InitIsSound
<1>2. IndInv /\ [Next]_vars => IndInv'  BY NextKeeps DEF Keeps
<1> QED  BY <1>1, <1>2, PTL DEF Spec

\* The variables always hold rows of their declared shapes, and outside a
\* transaction the working copy is the committed instance.
THEOREM EngineIsTyped == Spec => []TypeOK
<1>1. IndInv => TypeOK  BY DEF IndInv
<1> QED  BY <1>1, EngineIsSound, PTL

\* An open task always belongs to a live instance that is at its node: no walk,
\* rollback or end leaves a task behind (lifecycle.go, cancelPendingTasks).
THEOREM OpenWorkIsActive == Spec => []WorkIsActive
<1>1. IndInv => WorkIsActive  BY DEF IndInv, SoundRows, WorkIsActive
<1> QED  BY <1>1, EngineIsSound, PTL

\* The open tasks of a node are all of its newest round: re-entering a node
\* never leaves an older round collecting votes (approval.go, resolveApproval).
THEOREM OnlyTheNewestRoundIsOpen == Spec => []OneOpenRound
<1>1. IndInv => OneOpenRound  BY DEF IndInv, SoundRows, OneOpenRound
<1> QED  BY <1>1, EngineIsSound, PTL

\* Every behaviour of the engine is one of FlowContract: each step is a whole
\* contract operation or invisible (transaction.go).
THEOREM EngineImplementsContract == Spec => ImplementsContract
<1>1. Init => IndInv /\ Contract!Init  BY InitIsSound
<1>2. IndInv /\ [Next]_vars
        => IndInv' /\ [Contract!Next]_<<db.status, OpenRounds(db), db.rounds>>
  BY NextKeeps DEF Keeps
<1> QED  BY <1>1, <1>2, PTL DEF Spec, ImplementsContract, Contract!Spec
===============================================================================
