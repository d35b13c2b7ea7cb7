---------------------------- MODULE QueueProofs -----------------------------
(***************************************************************************)
(* Three lines that somebody stands in: the waiters of the Redis lock, the *)
(* mails in the channel of the worker and the audit entries in the buffer, *)
(* for any number of those who wait and any size of the buffers.           *)
(***************************************************************************)
EXTENDS FairLock, EmailWorker, AuditWriter, FiniteSetTheorems, SequenceTheorems, TLAPS

USE AuditAssumption DEF AuditAssumption

(***************************************************************************)
(* The waiters of the lock.                                                *)
(***************************************************************************)

BeforeIn(a, v, w) == \E i, j \in 1 .. Len(a) : i < j /\ a[i] = v /\ a[j] = w
Before(v, w) == BeforeIn(arrived, v, w)

\* p is what is left of the line q when w has gone: the others are in it, in the same order.
IsThinned(p, q, w) ==
  /\ p \in Seq(Waiters)
  /\ \A v \in Waiters : Contains(p, v) => Contains(q, v) /\ v # w
  /\ \A v \in Waiters : Contains(q, v) /\ v # w => Contains(p, v)
  /\ \A i, j \in 1 .. Len(p) : i < j =>
       \E k, l \in 1 .. Len(q) : k < l /\ p[i] = q[k] /\ p[j] = q[l]

\* Where the waiters are and what they know of the head.
LockTyped ==
  /\ queue \in Seq(Waiters) /\ arrived \in Seq(Waiters)
  /\ lease \subseteq Waiters /\ owner \in Waiters \cup {Unheld}
  /\ waiter \in [Waiters -> [at: Stages, head: Waiters \cup {Unheld}]]
  /\ expiring \in BOOLEAN /\ failed \subseteq Waiters /\ troubles \in 0 .. MaxTroubles

\* The list is in the order of the pushes, each ticket pushed once.
LineInOrder ==
  /\ \A i, j \in 1 .. Len(arrived) : arrived[i] = arrived[j] => i = j
  /\ \A i, j \in 1 .. Len(queue) : i < j => Before(queue[i], queue[j])
  /\ \A w \in Waiters : Contains(queue, w) => Contains(arrived, w)
  /\ \A w \in Waiters : Contains(arrived, w) => waiter[w].at \notin {"start", "push"}

\* A head that is asked for was pushed once, and one that is popped has no lease any more.
HeadsAreKnown ==
  \A w \in Waiters :
    /\ waiter[w].at \in {"check", "reclaim", "relook"} =>
         waiter[w].head \in Waiters /\ waiter[waiter[w].head].at # "start"
    /\ waiter[w].at = "reclaim" => waiter[w].head \notin lease

LeasedAreInLine == \A w \in Waiters : Alive(w) => Contains(queue, w)

OwnerIsServed ==
  owner \in Waiters => waiter[owner].at \in Served \cup {"dead"} \/ owner \in failed

\* A waiter with no failing call has left the list and then its lease when it goes on.
Tidy(w) ==
  w \notin failed =>
    /\ waiter[w].at \in {"taken", "unlease", "holding", "end"} => ~Contains(queue, w)
    /\ waiter[w].at \in {"holding", "end"} => w \notin lease
LeaversAreTidy == \A w \in Waiters : Tidy(w)

\* Whoever may take the lock has nobody alive before it.
Foremost(w) == \A v \in Waiters : Alive(v) => ~Before(v, w)
TriersAreForemost == \A w \in Waiters : waiter[w].at = "try" => Foremost(w)

LockInv ==
  /\ LockTyped /\ LineInOrder /\ HeadsAreKnown /\ LeasedAreInLine /\ OwnerIsServed
  /\ LeaversAreTidy /\ TriersAreForemost

\* What a step does to the counts and the marks.
Marked ==
  /\ expiring' \in BOOLEAN /\ troubles' \in 0 .. MaxTroubles
  /\ failed \subseteq failed' /\ failed' \subseteq Waiters
NothingMarked == UNCHANGED <<expiring, troubles, failed>>

LEMMA TailThins ==
  ASSUME NEW q \in Seq(Waiters), q # <<>>,
         \A i, j \in 1 .. Len(q) : q[i] = q[j] => i = j
  PROVE  IsThinned(Tail(q), q, Head(q))
<1>1. /\ Tail(q) \in Seq(Waiters) /\ Len(Tail(q)) = Len(q) - 1 /\ Len(q) \in Nat
      /\ \A i \in 1 .. Len(Tail(q)) : Tail(q)[i] = q[i + 1]
  BY HeadTailProperties, LenProperties
<1>2. Head(q) = q[1] /\ 1 \in 1 .. Len(q)
  BY <1>1, LenProperties, EmptySeq
<1>3. ASSUME NEW v \in Waiters, Contains(Tail(q), v) PROVE Contains(q, v) /\ v # Head(q)
  <2>1. PICK i \in 1 .. Len(Tail(q)) : Tail(q)[i] = v  BY <1>3 DEF Contains
  <2>2. i + 1 \in 1 .. Len(q) /\ q[i + 1] = v /\ i + 1 # 1  BY <1>1, <2>1
  <2> QED  BY <1>2, <2>2 DEF Contains
<1>4. ASSUME NEW v \in Waiters, Contains(q, v), v # Head(q) PROVE Contains(Tail(q), v)
  <2>1. PICK i \in 1 .. Len(q) : q[i] = v  BY <1>4 DEF Contains
  <2>2. i - 1 \in 1 .. Len(Tail(q)) /\ (i - 1) + 1 = i  BY <1>1, <1>2, <1>4, <2>1
  <2>3. Tail(q)[i - 1] = v  BY <1>1, <2>1, <2>2
  <2> QED  BY <2>2, <2>3 DEF Contains
<1>5. ASSUME NEW i \in 1 .. Len(Tail(q)), NEW j \in 1 .. Len(Tail(q)), i < j
      PROVE  \E k, l \in 1 .. Len(q) : k < l /\ Tail(q)[i] = q[k] /\ Tail(q)[j] = q[l]
  <2>1. i + 1 \in 1 .. Len(q) /\ j + 1 \in 1 .. Len(q) /\ i + 1 < j + 1  BY <1>1, <1>5
  <2> QED  BY <1>1, <2>1
<1> QED  BY <1>1, <1>3, <1>4, <1>5 DEF IsThinned

LEMMA NothingThins == ASSUME NEW q \in Seq(Waiters) PROVE IsThinned(q, q, Unheld)
BY FairLockAssumption DEF FairLockAssumption, IsThinned

LEMMA RemovalThins ==
  ASSUME NEW q \in Seq(Waiters), NEW w \in Waiters,
         \A i, j \in 1 .. Len(q) : q[i] = q[j] => i = j
  PROVE  IsThinned(Without(q, w), q, w)
<1>1. CASE ~Contains(q, w)
  <2>1. Without(q, w) = q  BY <1>1 DEF Without
  <2> QED  BY <1>1, <2>1 DEF IsThinned
<1>2. CASE Contains(q, w)
  <2>1. PICK n \in 1 .. Len(q) : q[n] = w  BY <1>2 DEF Contains
  <2>2. Len(q) \in Nat /\ \A i \in 1 .. Len(q) : q[i] \in Waiters  BY LenProperties, ElementOfSeq
  <2>3. Min({i \in 1 .. Len(q) : q[i] = w}) = n
    <3>1. {i \in 1 .. Len(q) : q[i] = w} = {n}  BY <2>1
    <3>2. n \in {n} /\ \A y \in {n} : n =< y  BY <2>1, <2>2
    <3>3. \A x \in {n} : x = n  OBVIOUS
    <3> QED  BY <3>1, <3>2, <3>3 DEF Min
  <2>4. PICK a : a = SubSeq(q, 1, n - 1)  OBVIOUS
  <2>5. PICK b : b = SubSeq(q, n + 1, Len(q))  OBVIOUS
  <2>6. PICK p : p = a \o b  OBVIOUS
  <2>7. Without(q, w) = p  BY <1>2, <2>3, <2>4, <2>5, <2>6 DEF Without, RemoveAt
  <2>8. a \in Seq(Waiters) /\ Len(a) = n - 1 /\ \A i \in 1 .. n - 1 : a[i] = q[i]
    <3>1. 1 \in Int /\ n - 1 \in Int /\ \A i \in 1 .. n - 1 : q[i] \in Waiters  BY <2>1, <2>2
    <3>2. /\ a \in Seq(Waiters) /\ Len(a) = IF 1 <= n - 1 THEN (n - 1) - 1 + 1 ELSE 0
          /\ \A i \in 1 .. (n - 1) - 1 + 1 : a[i] = q[1 + i - 1]
      BY <2>4, <3>1, SubSeqProperties
    <3> QED  BY <2>1, <2>2, <3>2
  <2>9. /\ b \in Seq(Waiters) /\ Len(b) = Len(q) - n
        /\ \A i \in 1 .. Len(q) - n : b[i] = q[n + i]
    <3>1. n + 1 \in Int /\ Len(q) \in Int /\ \A i \in n + 1 .. Len(q) : q[i] \in Waiters
      BY <2>1, <2>2
    <3>2. /\ b \in Seq(Waiters) /\ Len(b) = IF n + 1 <= Len(q) THEN Len(q) - (n + 1) + 1 ELSE 0
          /\ \A i \in 1 .. Len(q) - (n + 1) + 1 : b[i] = q[n + 1 + i - 1]
      BY <2>5, <3>1, SubSeqProperties
    <3> QED  BY <2>1, <2>2, <3>2
  <2>10. /\ p \in Seq(Waiters) /\ Len(p) = Len(q) - 1
         /\ \A i \in 1 .. Len(p) : p[i] = IF i < n THEN q[i] ELSE q[i + 1]
    <3>0. a \in Seq(Waiters) /\ b \in Seq(Waiters)  BY <2>8, <2>9
    <3>1. /\ p \in Seq(Waiters) /\ Len(p) = Len(a) + Len(b)
          /\ \A i \in 1 .. Len(a) + Len(b) : p[i] = IF i <= Len(a) THEN a[i] ELSE b[i - Len(a)]
      BY ONLY <2>6, <3>0, ConcatProperties
    <3>2. Len(p) = Len(q) - 1  BY <2>1, <2>2, <2>8, <2>9, <3>1
    <3>3. ASSUME NEW i \in 1 .. Len(p), i < n PROVE p[i] = q[i]
      BY <2>1, <2>2, <2>8, <2>9, <3>1, <3>2, <3>3
    <3>4. ASSUME NEW i \in 1 .. Len(p), ~(i < n) PROVE p[i] = q[i + 1]
      <4>1. p[i] = b[i - (n - 1)]  BY <2>1, <2>2, <2>8, <2>9, <3>1, <3>2, <3>4
      <4>2. i - (n - 1) \in 1 .. Len(q) - n  BY <2>1, <2>2, <3>2, <3>4
      <4>3. b[i - (n - 1)] = q[n + (i - (n - 1))]  BY <2>9, <4>2
      <4>4. n + (i - (n - 1)) = i + 1  BY <2>1, <2>2, <3>2
      <4> QED  BY <4>1, <4>3, <4>4
    <3> QED  BY <3>1, <3>2, <3>3, <3>4
  <2>11. ASSUME NEW v \in Waiters, Contains(p, v) PROVE Contains(q, v) /\ v # w
    <3>1. PICK i \in 1 .. Len(p) : p[i] = v  BY <2>11 DEF Contains
    <3>2. PICK k \in 1 .. Len(q) : q[k] = v /\ k # n
      <4>1. CASE i < n  BY <2>2, <2>10, <3>1, <4>1
      <4>2. CASE ~(i < n)
        <5>1. i + 1 \in 1 .. Len(q) /\ q[i + 1] = v /\ i + 1 # n  BY <2>1, <2>2, <2>10, <3>1, <4>2
        <5> QED  BY <5>1
      <4> QED  BY <4>1, <4>2
    <3> QED  BY <2>1, <3>2 DEF Contains
  <2>12. ASSUME NEW v \in Waiters, Contains(q, v), v # w PROVE Contains(p, v)
    <3>1. PICK k \in 1 .. Len(q) : q[k] = v  BY <2>12 DEF Contains
    <3>2. CASE k < n
      <4>1. k \in 1 .. Len(p) /\ p[k] = v  BY <2>1, <2>2, <2>10, <3>1, <3>2
      <4> QED  BY <4>1 DEF Contains
    <3>3. CASE ~(k < n)
      <4>1. k # n  BY <2>1, <2>12, <3>1
      <4>2. k - 1 \in 1 .. Len(p) /\ ~(k - 1 < n) /\ (k - 1) + 1 = k
        BY <2>1, <2>2, <2>10, <3>1, <3>3, <4>1
      <4>3. p[k - 1] = v  BY <2>10, <3>1, <4>2
      <4> QED  BY <4>2, <4>3 DEF Contains
    <3> QED  BY <3>2, <3>3
  <2>13. ASSUME NEW i \in 1 .. Len(p), NEW j \in 1 .. Len(p), i < j
         PROVE  \E k, l \in 1 .. Len(q) : k < l /\ p[i] = q[k] /\ p[j] = q[l]
    <3>1. PICK k : k = IF i < n THEN i ELSE i + 1  OBVIOUS
    <3>2. PICK l : l = IF j < n THEN j ELSE j + 1  OBVIOUS
    <3>3. k \in 1 .. Len(q) /\ l \in 1 .. Len(q) /\ k < l  BY <2>1, <2>2, <2>10, <2>13, <3>1, <3>2
    <3>4. p[i] = q[k] /\ p[j] = q[l]  BY <2>10, <3>1, <3>2
    <3> QED  BY <3>3, <3>4
  <2> QED  BY <2>7, <2>10, <2>11, <2>12, <2>13 DEF IsThinned
<1> QED  BY <1>1, <1>2

\* In a line in order no ticket stands twice.
LEMMA LineHasNoTwins ==
  ASSUME LockTyped, LineInOrder
  PROVE  \A i, j \in 1 .. Len(queue) : queue[i] = queue[j] => i = j
<1>1. SUFFICES ASSUME NEW i \in 1 .. Len(queue), NEW j \in 1 .. Len(queue),
                      queue[i] = queue[j], i < j
               PROVE  FALSE
  BY LenProperties DEF LockTyped
<1>2. Before(queue[i], queue[i])  BY <1>1 DEF LineInOrder
<1>3. PICK k \in 1 .. Len(arrived), l \in 1 .. Len(arrived) :
        k < l /\ arrived[k] = queue[i] /\ arrived[l] = queue[i]
  BY <1>2 DEF Before, BeforeIn
<1> QED  BY <1>3, LenProperties DEF LineInOrder, LockTyped

\* A line that is thinned stays in order.
LEMMA ThinnedInOrder ==
  ASSUME LockTyped, LineInOrder, NEW g, IsThinned(queue', queue, g), arrived' = arrived,
         \A v \in Waiters : waiter[v].at \notin {"start", "push"} => waiter'[v].at \notin {"start", "push"}
  PROVE  LineInOrder'
<1>1. ASSUME NEW i \in 1 .. Len(queue'), NEW j \in 1 .. Len(queue'), i < j
      PROVE  Before(queue'[i], queue'[j])
  <2>1. PICK k \in 1 .. Len(queue), l \in 1 .. Len(queue) :
          k < l /\ queue'[i] = queue[k] /\ queue'[j] = queue[l]
    BY <1>1 DEF IsThinned
  <2> QED  BY <2>1 DEF LineInOrder
<1>2. \A v \in Waiters : Contains(queue', v) => Contains(arrived', v)
  BY DEF IsThinned, LineInOrder
<1>3. \A v \in Waiters : Contains(arrived', v) => waiter'[v].at \notin {"start", "push"}
  BY DEF LineInOrder
<1>4. \A i, j \in 1 .. Len(arrived') : arrived'[i] = arrived'[j] => i = j  BY DEF LineInOrder
<1> QED  BY <1>1, <1>2, <1>3, <1>4 DEF LineInOrder, Before, BeforeIn

LEMMA NoMark == ASSUME LockInv, NothingMarked PROVE Marked
BY DEF LockInv, LockTyped, Marked, NothingMarked

LEMMA TroubleMarks == ASSUME LockInv, Trouble, UNCHANGED <<expiring, failed>> PROVE Marked
BY FairLockAssumption DEF LockInv, LockTyped, Marked, Trouble, FairLockAssumption

LEMMA FailureMarks ==
  ASSUME LockInv, NEW w \in Waiters, FailsOf(w), expiring' \in BOOLEAN
  PROVE  Marked /\ w \in failed'
BY FairLockAssumption DEF LockInv, LockTyped, Marked, Trouble, FailsOf, FairLockAssumption

\* A step of a waiter that has set its lease, whatever it does to the line.
LEMMA LockMove ==
  ASSUME LockInv, NEW w \in Waiters, waiter[w].at # "start",
         NEW st \in Stages \ {"start", "push"}, NEW h \in Waiters \cup {Unheld}, Step(w, st, h),
         NEW g, IsThinned(queue', queue, g), ~Alive(g), arrived' = arrived, lease' \subseteq lease,
         st \in Waiting => InLine(w),
         st \in {"check", "reclaim", "relook"} => h \in Waiters /\ waiter[h].at # "start",
         st = "reclaim" => h \notin lease', st = "try" => Foremost(w),
         owner' \in Waiters \cup {Unheld}, OwnerIsServed', Tidy(w)', Marked
  PROVE  LockInv'
<1>1. /\ LockTyped /\ LineInOrder /\ HeadsAreKnown /\ LeasedAreInLine /\ LeaversAreTidy
      /\ TriersAreForemost
  BY DEF LockInv
<1>2. /\ waiter' \in [Waiters -> [at: Stages, head: Waiters \cup {Unheld}]]
      /\ waiter'[w].at = st /\ waiter'[w].head = h
      /\ \A v \in Waiters : v # w => waiter'[v] = waiter[v]
  BY <1>1 DEF Step, LockTyped
<1>3. LockTyped'  BY <1>1, <1>2 DEF LockTyped, IsThinned, Marked
<1>4. LineInOrder'
  <2>1. \A v \in Waiters : waiter[v].at \notin {"start", "push"} => waiter'[v].at \notin {"start", "push"}
    BY <1>2
  <2> QED  BY <1>1, <2>1, ThinnedInOrder
<1>5. HeadsAreKnown'
  <2>1. \A v \in Waiters : waiter[v].at # "start" => waiter'[v].at # "start"  BY <1>2
  <2> QED  BY <1>1, <1>2, <2>1 DEF HeadsAreKnown
<1>6. \A v \in Waiters : Alive(v)' => Alive(v)  BY <1>2 DEF Alive, InLine, Marked
<1>7. LeasedAreInLine'
  <2>1. SUFFICES ASSUME NEW v \in Waiters, Alive(v)' PROVE Contains(queue', v)
    BY DEF LeasedAreInLine
  <2>2. Contains(queue, v) /\ v # g  BY <1>1, <1>6, <2>1 DEF LeasedAreInLine
  <2> QED  BY <2>2 DEF IsThinned
<1>8. LeaversAreTidy'
  <2>1. \A v \in Waiters : Contains(queue', v) => Contains(queue, v)  BY DEF IsThinned
  <2>2. ASSUME NEW v \in Waiters, v # w PROVE Tidy(v)'
    BY <1>1, <1>2, <2>1, <2>2 DEF LeaversAreTidy, Tidy, Marked
  <2> QED  BY <2>2 DEF LeaversAreTidy
<1>9. TriersAreForemost'
  <2>1. \A v \in Waiters : waiter'[v].at = "try" => Foremost(v)  BY <1>1, <1>2 DEF TriersAreForemost
  <2> QED  BY <1>6, <2>1 DEF TriersAreForemost, Foremost, Before
<1> QED  BY <1>3, <1>4, <1>5, <1>7, <1>8, <1>9 DEF LockInv

\* A step that only shortens leases or frees the lock.
LEMMA LockWaits ==
  ASSUME LockInv, UNCHANGED <<queue, waiter, arrived, failed>>, lease' \subseteq lease,
         owner' \in {owner, Unheld}, Marked
  PROVE  LockInv'
<1>1. LockTyped' /\ LineInOrder' /\ HeadsAreKnown' /\ LeasedAreInLine'
  BY DEF LockInv, LockTyped, LineInOrder, Before, BeforeIn, HeadsAreKnown, LeasedAreInLine, Alive,
     InLine, Marked
<1>2. OwnerIsServed' /\ LeaversAreTidy'
  BY FairLockAssumption DEF LockInv, OwnerIsServed, LeaversAreTidy, Tidy, FairLockAssumption
<1>3. TriersAreForemost'
  BY DEF LockInv, TriersAreForemost, Foremost, Before, Alive, InLine
<1> QED  BY <1>1, <1>2, <1>3 DEF LockInv

\* The line as it is.
LEMMA SameLine ==
  ASSUME LockInv, queue' = queue
  PROVE  IsThinned(queue', queue, Unheld) /\ ~Alive(Unheld)
BY NothingThins, FairLockAssumption DEF LockInv, LockTyped, FairLockAssumption, Alive

\* A step of a waiter on its way that leaves the line, the leases and the lock alone.
LEMMA LockLooks ==
  ASSUME LockInv, NEW w \in Waiters, InLine(w),
         NEW st \in Waiting \cup {"quit", "dead"}, NEW h \in Waiters \cup {Unheld}, Step(w, st, h),
         UNCHANGED <<queue, lease, owner, arrived>>, Marked,
         st \in {"check", "reclaim", "relook"} => h \in Waiters /\ waiter[h].at # "start",
         st = "reclaim" => h \notin lease, st = "try" => Foremost(w)
  PROVE  LockInv'
<1>1. IsThinned(queue', queue, Unheld) /\ ~Alive(Unheld)  BY SameLine
<1>2. LockTyped /\ OwnerIsServed /\ waiter[w].at # "start"
  BY DEF LockInv, InLine, Waiting
<1>3. waiter'[w].at = st /\ \A v \in Waiters : v # w => waiter'[v] = waiter[v]
  BY <1>2 DEF Step, LockTyped
<1>4. OwnerIsServed'
  BY <1>2, <1>3 DEF OwnerIsServed, InLine, Waiting, Served, Marked
<1>5. st \in Stages \ {"start", "push"} /\ Tidy(w)'
  BY <1>3 DEF Stages, Waiting, Tidy
<1> QED  BY <1>1, <1>2, <1>4, <1>5, LockMove DEF LockTyped

\* The lease is the first thing a waiter has, whether or not it is told.
LEMMA OwnLease ==
  ASSUME LockInv, NEW w \in Waiters, SetLease(w) \/ SetLeaseFails(w)
  PROVE  LockInv'
<1>1. /\ LockTyped /\ LineInOrder /\ HeadsAreKnown /\ LeasedAreInLine /\ OwnerIsServed
      /\ LeaversAreTidy /\ TriersAreForemost
  BY DEF LockInv
<1>2. PICK st \in {"push", "end"} : To(w, st) /\ (st = "end" => FailsOf(w))
  BY DEF SetLease, SetLeaseFails
<1>3. /\ waiter' \in [Waiters -> [at: Stages, head: Waiters \cup {Unheld}]]
      /\ waiter[w].at = "start" /\ waiter'[w].at = st
      /\ \A v \in Waiters : v # w => waiter'[v] = waiter[v]
  BY <1>1, <1>2 DEF SetLease, SetLeaseFails, To, Step, LockTyped, Stages
<1>4. lease \subseteq lease' /\ lease' \subseteq lease \cup {w} /\ UNCHANGED <<queue, owner, arrived>>
  BY DEF SetLease, SetLeaseFails
<1>5. Marked /\ (st = "end" => w \in failed')
  <2>1. CASE SetLease(w)
    <3>1. NothingMarked /\ st = "push"  BY <1>1, <1>3, <2>1 DEF SetLease, NothingMarked, To, Step, LockTyped
    <3> QED  BY <3>1, NoMark
  <2>2. CASE SetLeaseFails(w)
    <3>1. FailsOf(w) /\ expiring' \in BOOLEAN  BY <1>1, <2>2 DEF SetLeaseFails, LockTyped
    <3> QED  BY <3>1, FailureMarks
  <2> QED  BY <2>1, <2>2
<1>6. LockTyped'  BY <1>1, <1>3, <1>4, <1>5 DEF LockTyped, Marked
<1>7. LineInOrder'
  <2>1. \A v \in Waiters : Contains(arrived, v) => waiter[v].at \notin {"start", "push"} /\ v # w
    BY <1>1, <1>3 DEF LineInOrder
  <2>2. \A v \in Waiters : Contains(arrived, v) => waiter'[v].at \notin {"start", "push"}
    BY <1>3, <2>1
  <2> QED  BY <1>1, <1>4, <2>2 DEF LineInOrder, Before, BeforeIn
<1>8. HeadsAreKnown'  BY <1>1, <1>3, <1>4 DEF HeadsAreKnown
<1>9. \A v \in Waiters : Alive(v)' => Alive(v) /\ v # w
  BY <1>3, <1>4, <1>5 DEF Alive, InLine, Waiting, Marked
<1>10. LeasedAreInLine'  BY <1>1, <1>4, <1>9 DEF LeasedAreInLine
<1>11. OwnerIsServed'
  BY <1>1, <1>3, <1>4, <1>5 DEF OwnerIsServed, Served, Marked
<1>12. LeaversAreTidy'
  <2>1. Tidy(w)'  BY <1>3, <1>5 DEF Tidy
  <2>2. ASSUME NEW v \in Waiters, v # w PROVE Tidy(v)'
    BY <1>1, <1>3, <1>4, <1>5, <2>2 DEF LeaversAreTidy, Tidy, Marked
  <2> QED  BY <2>1, <2>2 DEF LeaversAreTidy
<1>13. TriersAreForemost'
  <2>1. \A v \in Waiters : waiter'[v].at = "try" => Foremost(v)  BY <1>1, <1>3 DEF TriersAreForemost
  <2> QED  BY <1>4, <1>9, <2>1 DEF TriersAreForemost, Foremost, Before
<1> QED  BY <1>6, <1>7, <1>8, <1>10, <1>11, <1>12, <1>13 DEF LockInv

LEMMA AppendedStands ==
  ASSUME NEW q \in Seq(Waiters), NEW w \in Waiters
  PROVE  /\ Append(q, w) \in Seq(Waiters) /\ Len(q) \in Nat /\ Len(Append(q, w)) = Len(q) + 1
         /\ \A i \in 1 .. Len(q) : Append(q, w)[i] = q[i]
         /\ Append(q, w)[Len(q) + 1] = w
BY AppendProperties, LenProperties

\* Whoever joins the line stands behind all others.
LEMMA Enqueued ==
  ASSUME LockInv, NEW w \in Waiters, waiter[w].at = "push",
         NEW st \in {"look", "unlease"}, To(w, st), JoinLine(w), UNCHANGED <<lease, owner>>,
         Marked, st = "unlease" => w \in failed'
  PROVE  LockInv'
<1>1. /\ LockTyped /\ LineInOrder /\ HeadsAreKnown /\ LeasedAreInLine /\ OwnerIsServed
      /\ LeaversAreTidy /\ TriersAreForemost
  BY DEF LockInv
<1>2. /\ waiter' \in [Waiters -> [at: Stages, head: Waiters \cup {Unheld}]]
      /\ waiter'[w].at = st
      /\ \A v \in Waiters : v # w => waiter'[v] = waiter[v]
  BY <1>1 DEF To, Step, LockTyped, Stages, Waiting
<1>3. queue' = Append(queue, w) /\ arrived' = Append(arrived, w) /\ UNCHANGED <<lease, owner>>
  BY DEF JoinLine
<1>4. /\ queue' \in Seq(Waiters) /\ Len(queue) \in Nat /\ Len(queue') = Len(queue) + 1
      /\ \A i \in 1 .. Len(queue) : queue'[i] = queue[i]
      /\ queue'[Len(queue) + 1] = w
  BY <1>1, <1>3, AppendedStands DEF LockTyped
<1>5. /\ arrived' \in Seq(Waiters) /\ Len(arrived) \in Nat /\ Len(arrived') = Len(arrived) + 1
      /\ \A i \in 1 .. Len(arrived) : arrived'[i] = arrived[i]
      /\ arrived'[Len(arrived) + 1] = w
  BY <1>1, <1>3, AppendedStands DEF LockTyped
<1>6. \A i \in 1 .. Len(arrived) : arrived[i] # w  BY <1>1, <1>2 DEF LineInOrder, Contains
<1>7. \A i \in 1 .. Len(queue) : queue[i] \in Waiters  BY <1>1, ElementOfSeq DEF LockTyped
<1>8. LockTyped'  BY <1>1, <1>2, <1>3, <1>4, <1>5 DEF LockTyped, Marked
<1>9. LineInOrder'
  <2>1. ASSUME NEW i \in 1 .. Len(arrived'), NEW j \in 1 .. Len(arrived'), arrived'[i] = arrived'[j]
        PROVE  i = j
    <3>1. CASE i <= Len(arrived) /\ j <= Len(arrived)
      <4>1. arrived[i] = arrived[j]  BY <1>5, <2>1, <3>1
      <4> QED  BY <1>1, <1>5, <3>1, <4>1 DEF LineInOrder
    <3>2. CASE i = Len(arrived) + 1 \/ j = Len(arrived) + 1
      BY <1>5, <1>6, <2>1, <3>2
    <3> QED  BY <1>5, <3>1, <3>2
  <2>2. ASSUME NEW i \in 1 .. Len(queue'), NEW j \in 1 .. Len(queue'), i < j
        PROVE  BeforeIn(arrived', queue'[i], queue'[j])
    <3>1. i \in 1 .. Len(queue) /\ queue'[i] = queue[i]  BY <1>4, <2>2
    <3>2. CASE j \in 1 .. Len(queue)
      <4>1. Before(queue[i], queue[j]) /\ queue'[j] = queue[j]
        BY <1>1, <1>4, <2>2, <3>1, <3>2 DEF LineInOrder
      <4>2. PICK k \in 1 .. Len(arrived), l \in 1 .. Len(arrived) :
              k < l /\ arrived[k] = queue[i] /\ arrived[l] = queue[j]
        BY <4>1 DEF Before, BeforeIn
      <4>3. /\ k \in 1 .. Len(arrived') /\ l \in 1 .. Len(arrived')
            /\ arrived'[k] = queue'[i] /\ arrived'[l] = queue'[j]
        BY <1>5, <3>1, <4>1, <4>2
      <4> QED  BY <4>2, <4>3 DEF Before, BeforeIn
    <3>3. CASE j = Len(queue) + 1
      <4>1. Contains(arrived, queue[i])  BY <1>1, <1>7, <3>1 DEF LineInOrder, Contains
      <4>2. PICK k \in 1 .. Len(arrived) : arrived[k] = queue[i]  BY <4>1 DEF Contains
      <4>3. /\ k \in 1 .. Len(arrived') /\ Len(arrived) + 1 \in 1 .. Len(arrived')
            /\ k < Len(arrived) + 1 /\ arrived'[k] = queue'[i]
            /\ arrived'[Len(arrived) + 1] = queue'[j]
        BY <1>4, <1>5, <3>1, <3>3, <4>2
      <4> QED  BY <4>3 DEF Before, BeforeIn
    <3> QED  BY <1>4, <3>2, <3>3
  <2>3. ASSUME NEW v \in Waiters, Contains(queue', v) PROVE Contains(arrived', v)
    <3>1. PICK i \in 1 .. Len(queue') : queue'[i] = v  BY <2>3 DEF Contains
    <3>2. CASE i \in 1 .. Len(queue)
      <4>1. Contains(queue, v)  BY <1>4, <3>1, <3>2 DEF Contains
      <4>2. PICK k \in 1 .. Len(arrived) : arrived[k] = v  BY <1>1, <4>1 DEF LineInOrder, Contains
      <4>3. k \in 1 .. Len(arrived') /\ arrived'[k] = v  BY <1>5, <4>2
      <4> QED  BY <4>3 DEF Contains
    <3>3. CASE i = Len(queue) + 1
      <4>1. Len(arrived) + 1 \in 1 .. Len(arrived') /\ arrived'[Len(arrived) + 1] = v
        BY <1>4, <1>5, <3>1, <3>3
      <4> QED  BY <4>1 DEF Contains
    <3> QED  BY <1>4, <3>2, <3>3
  <2>4. ASSUME NEW v \in Waiters, Contains(arrived', v) PROVE waiter'[v].at \notin {"start", "push"}
    <3>1. PICK i \in 1 .. Len(arrived') : arrived'[i] = v  BY <2>4 DEF Contains
    <3>2. CASE v = w  BY <1>2, <3>2
    <3>3. CASE v # w
      <4>1. i \in 1 .. Len(arrived) /\ arrived[i] = v  BY <1>5, <3>1, <3>3
      <4>2. Contains(arrived, v)  BY <4>1 DEF Contains
      <4> QED  BY <1>1, <1>2, <3>3, <4>2 DEF LineInOrder
    <3> QED  BY <3>2, <3>3
  <2> QED  BY <2>1, <2>2, <2>3, <2>4 DEF LineInOrder, Before
<1>10. HeadsAreKnown'  BY <1>1, <1>2, <1>3 DEF HeadsAreKnown
<1>11. \A v \in Waiters : Alive(v)' /\ v # w => Alive(v)
  BY <1>2, <1>3 DEF Alive, InLine, Marked
<1>12. LeasedAreInLine'
  <2>1. SUFFICES ASSUME NEW v \in Waiters, Alive(v)' PROVE Contains(queue', v)
    BY DEF LeasedAreInLine
  <2>2. CASE v = w
    <3>1. Len(queue) + 1 \in 1 .. Len(queue') /\ queue'[Len(queue) + 1] = v  BY <1>4, <2>2
    <3> QED  BY <3>1 DEF Contains
  <2>3. CASE v # w
    <3>1. Contains(queue, v)  BY <1>1, <1>11, <2>1, <2>3 DEF LeasedAreInLine
    <3>2. PICK k \in 1 .. Len(queue) : queue[k] = v  BY <3>1 DEF Contains
    <3>3. k \in 1 .. Len(queue') /\ queue'[k] = v  BY <1>4, <3>2
    <3> QED  BY <3>3 DEF Contains
  <2> QED  BY <2>2, <2>3
<1>13. OwnerIsServed'
  BY <1>1, <1>2, <1>3 DEF OwnerIsServed, Served, Marked
<1>14. LeaversAreTidy'
  <2>1. Tidy(w)'  BY <1>2 DEF Tidy
  <2>2. ASSUME NEW v \in Waiters, v # w, Contains(queue', v) PROVE Contains(queue, v)
    <3>1. PICK i \in 1 .. Len(queue') : queue'[i] = v  BY <2>2 DEF Contains
    <3>2. i \in 1 .. Len(queue) /\ queue[i] = v  BY <1>4, <2>2, <3>1
    <3> QED  BY <3>2 DEF Contains
  <2>3. ASSUME NEW v \in Waiters, v # w PROVE Tidy(v)'
    BY <1>1, <1>2, <1>3, <2>2, <2>3 DEF LeaversAreTidy, Tidy, Marked
  <2> QED  BY <2>1, <2>3 DEF LeaversAreTidy
<1>15. TriersAreForemost'
  <2>1. SUFFICES ASSUME NEW u \in Waiters, waiter'[u].at = "try",
                        NEW v \in Waiters, Alive(v)', Before(v, u)'
                 PROVE  FALSE
    BY DEF TriersAreForemost, Foremost
  <2>2. PICK k \in 1 .. Len(arrived'), l \in 1 .. Len(arrived') :
          k < l /\ arrived'[k] = v /\ arrived'[l] = u
    BY <2>1 DEF Before, BeforeIn
  <2>3. u # w /\ waiter[u].at = "try"  BY <1>2, <2>1
  <2>4. l \in 1 .. Len(arrived)  BY <1>5, <2>2, <2>3
  <2>5. k \in 1 .. Len(arrived) /\ arrived[k] = v /\ arrived[l] = u  BY <1>5, <2>2, <2>4
  <2>6. Before(v, u) /\ v # w  BY <1>6, <2>2, <2>4, <2>5 DEF Before, BeforeIn
  <2>7. Alive(v)  BY <1>11, <2>1, <2>6
  <2> QED  BY <1>1, <2>3, <2>6, <2>7 DEF TriersAreForemost, Foremost
<1> QED  BY <1>8, <1>9, <1>10, <1>12, <1>13, <1>14, <1>15 DEF LockInv

LEMMA Pushed ==
  ASSUME LockInv, NEW w \in Waiters, Push(w) \/ ExpireFails(w)
  PROVE  LockInv'
<1>1. waiter[w].at = "push" /\ To(w, "look") /\ JoinLine(w) /\ UNCHANGED <<lease, owner>>
  BY DEF Push, ExpireFails
<1>2. Marked
  <2>1. CASE Push(w)  BY <2>1 DEF Push, Marked, LockInv, LockTyped
  <2>2. CASE ExpireFails(w)
    <3>1. FailsOf(w) /\ expiring' \in BOOLEAN  BY <2>2 DEF ExpireFails
    <3> QED  BY <3>1, FailureMarks
  <2> QED  BY <2>1, <2>2
<1> QED  BY <1>1, <1>2, Enqueued

LEMMA PushFailed ==
  ASSUME LockInv, NEW w \in Waiters, PushFails(w)
  PROVE  LockInv'
<1>1. /\ waiter[w].at = "push" /\ To(w, "unlease") /\ UNCHANGED <<lease, owner, expiring>> /\ FailsOf(w)
      /\ LockTyped /\ OwnerIsServed
  BY DEF PushFails, LockInv
<1>2. Marked /\ w \in failed'  BY <1>1, FailureMarks DEF LockTyped
<1>3. CASE JoinLine(w)  BY <1>1, <1>2, <1>3, Enqueued
<1>4. CASE UNCHANGED <<queue, arrived>>
  <2>1. IsThinned(queue', queue, Unheld) /\ ~Alive(Unheld)  BY <1>4, SameLine
  <2>2. "unlease" \in Stages \ {"start", "push"} /\ "unlease" \notin Waiting  BY DEF Stages, Waiting
  <2>3. OwnerIsServed' /\ Tidy(w)'
    BY <1>1, <1>2 DEF OwnerIsServed, Tidy, To, Step, LockTyped, Served, Marked
  <2> QED  BY <1>1, <1>2, <1>4, <2>1, <2>2, <2>3, LockMove DEF To, LockTyped
<1> QED  BY <1>3, <1>4 DEF PushFails

\* Whoever finds its ticket at the head has nobody before it that waits on a lease.
LEMMA HeadIsForemost ==
  ASSUME LockInv, NEW w \in Waiters, HeadOf(queue) = w
  PROVE  Foremost(w)
<1>1. LockTyped /\ LineInOrder /\ LeasedAreInLine /\ queue \in Seq(Waiters)
  BY DEF LockInv, LockTyped
<1>2. 1 \in 1 .. Len(queue) /\ queue[1] = w
  BY <1>1, FairLockAssumption, LenProperties, EmptySeq DEF HeadOf, FairLockAssumption
<1>3. SUFFICES ASSUME NEW v \in Waiters, Alive(v), Before(v, w) PROVE FALSE
  BY DEF Foremost
<1>5. PICK i \in 1 .. Len(queue) : queue[i] = v  BY <1>1, <1>3 DEF LeasedAreInLine, Contains
<1>6. PICK k \in 1 .. Len(arrived), l \in 1 .. Len(arrived) :
        k < l /\ arrived[k] = v /\ arrived[l] = w
  BY <1>3 DEF Before, BeforeIn
<1>7. Len(arrived) \in Nat /\ Len(queue) \in Nat  BY <1>1, LenProperties DEF LockTyped
<1>8. CASE i = 1  BY <1>1, <1>2, <1>5, <1>6, <1>7, <1>8 DEF LineInOrder
<1>9. CASE i # 1
  <2>1. Before(w, v)  BY <1>1, <1>2, <1>5, <1>7, <1>9 DEF LineInOrder
  <2>2. PICK m \in 1 .. Len(arrived), n \in 1 .. Len(arrived) :
          m < n /\ arrived[m] = w /\ arrived[n] = v
    BY <2>1 DEF Before, BeforeIn
  <2>3. m = l /\ n = k  BY <1>1, <1>6, <2>2 DEF LineInOrder
  <2> QED  BY <1>6, <1>7, <2>2, <2>3
<1> QED  BY <1>8, <1>9

LEMMA HeadIsKnown ==
  ASSUME LockInv, HeadOf(queue) # Unheld
  PROVE  HeadOf(queue) \in Waiters /\ waiter[HeadOf(queue)].at # "start"
<1>1. LockTyped /\ LineInOrder /\ queue \in Seq(Waiters)  BY DEF LockInv, LockTyped
<1>2. queue # <<>> /\ HeadOf(queue) = queue[1] /\ 1 \in 1 .. Len(queue)
  BY <1>1, LenProperties, EmptySeq DEF HeadOf
<1>3. queue[1] \in Waiters  BY <1>1, <1>2, ElementOfSeq
<1>4. Contains(queue, queue[1])  BY <1>2 DEF Contains
<1> QED  BY <1>1, <1>2, <1>3, <1>4 DEF LineInOrder

LEMMA Looked ==
  ASSUME LockInv, NEW w \in Waiters, waiter[w].at \in {"look", "relook"},
         Facing(w, HeadOf(queue)), UNCHANGED <<queue, lease, owner, arrived>>, NothingMarked
  PROVE  LockInv'
<1>1. Marked /\ InLine(w)  BY NoMark DEF InLine, Waiting
<1>2. {"look", "try", "check"} \subseteq Waiting  BY DEF Waiting
<1>3. CASE HeadOf(queue) = Unheld
  <2>1. Step(w, "look", Unheld)  BY <1>3 DEF Facing, To
  <2> QED  BY <1>1, <1>2, <2>1, LockLooks
<1>4. CASE HeadOf(queue) # Unheld /\ HeadOf(queue) = w
  <2>1. Step(w, "try", Unheld)  BY <1>4 DEF Facing, To
  <2>2. Foremost(w)  BY <1>4, HeadIsForemost
  <2> QED  BY <1>1, <1>2, <2>1, <2>2, LockLooks
<1>5. CASE HeadOf(queue) # Unheld /\ HeadOf(queue) # w
  <2>1. Step(w, "check", HeadOf(queue))  BY <1>5 DEF Facing
  <2>2. HeadOf(queue) \in Waiters /\ waiter[HeadOf(queue)].at # "start"  BY <1>5, HeadIsKnown
  <2> QED  BY <1>1, <1>2, <2>1, <2>2, LockLooks
<1> QED  BY <1>3, <1>4, <1>5

LEMMA LookedAgain ==
  ASSUME LockInv, NEW w \in Waiters, Relook(w)
  PROVE  LockInv'
<1>1. waiter[w].at = "relook" /\ UNCHANGED <<queue, lease, owner, arrived>> /\ NothingMarked
  BY DEF Relook, NothingMarked
<1>2. CASE To(w, "look")
  <2>1. Step(w, "look", Unheld) /\ "look" \in Waiting /\ InLine(w) /\ Marked
    BY <1>1, <1>2, NoMark DEF To, InLine, Waiting
  <2> QED  BY <1>1, <2>1, LockLooks
<1>3. CASE Facing(w, HeadOf(queue))  BY <1>1, <1>3, Looked
<1> QED  BY <1>2, <1>3 DEF Relook

LEMMA LeaseChecked ==
  ASSUME LockInv, NEW w \in Waiters, CheckLease(w)
  PROVE  LockInv'
<1>1. /\ waiter[w].at = "check" /\ UNCHANGED <<queue, lease, owner, arrived>> /\ NothingMarked
      /\ waiter[w].head \in Waiters /\ waiter[waiter[w].head].at # "start"
  BY DEF CheckLease, LockInv, HeadsAreKnown, NothingMarked
<1>2. PICK st : st = IF waiter[w].head \in lease THEN "relook" ELSE "reclaim"  OBVIOUS
<1>3. /\ Step(w, st, waiter[w].head) /\ st \in {"relook", "reclaim"}
      /\ st = "reclaim" => waiter[w].head \notin lease
  BY <1>2 DEF CheckLease
<1>4. st \in Waiting /\ InLine(w) /\ st # "try" /\ Marked
  BY <1>1, <1>3, NoMark DEF InLine, Waiting
<1> QED  BY <1>1, <1>3, <1>4, LockLooks

\* Whoever pops the head it asked for pops a ticket whose lease is gone, or nothing.
LEMMA HeadPopped ==
  ASSUME LockInv, NEW w \in Waiters, waiter[w].at = "reclaim",
         Step(w, "relook", waiter[w].head), queue' = Popped(queue, waiter[w].head),
         UNCHANGED <<lease, owner, arrived>>, Marked
  PROVE  LockInv'
<1>1. /\ waiter[w].head \in Waiters /\ waiter[waiter[w].head].at # "start" /\ ~Alive(waiter[w].head)
      /\ LockTyped /\ OwnerIsServed /\ LineInOrder
  BY DEF LockInv, HeadsAreKnown, Alive
<1>2. "relook" \in Stages \ {"start", "push"} /\ InLine(w)  BY DEF Stages, InLine, Waiting
<1>3. OwnerIsServed' /\ Tidy(w)'
  BY <1>1 DEF OwnerIsServed, Tidy, Step, LockTyped, Served, Marked
<1>4. CASE HeadOf(queue) = waiter[w].head
  <2>1. queue \in Seq(Waiters) /\ queue # <<>> /\ Head(queue) = waiter[w].head
    BY <1>1, <1>4, FairLockAssumption DEF HeadOf, FairLockAssumption, LockTyped
  <2>2. queue' = Tail(queue)  BY <1>4 DEF Popped
  <2>3. IsThinned(queue', queue, waiter[w].head)  BY <1>1, <2>1, <2>2, LineHasNoTwins, TailThins
  <2> QED  BY <1>1, <1>2, <1>3, <2>3, LockMove DEF LockTyped
<1>5. CASE HeadOf(queue) # waiter[w].head
  <2>1. queue' = queue  BY <1>5 DEF Popped
  <2>2. IsThinned(queue', queue, Unheld) /\ ~Alive(Unheld)  BY <2>1, SameLine
  <2> QED  BY <1>1, <1>2, <1>3, <2>2, LockMove DEF LockTyped
<1> QED  BY <1>4, <1>5

LEMMA Reclaimed ==
  ASSUME LockInv, NEW w \in Waiters, Reclaim(w) \/ ReclaimFails(w)
  PROVE  LockInv'
<1>1. /\ Step(w, "relook", waiter[w].head) /\ UNCHANGED <<lease, owner, arrived>>
      /\ waiter[w].at \in {"check", "reclaim"}
  BY DEF Reclaim, ReclaimFails
<1>2. Marked
  <2>1. CASE Reclaim(w)  BY <2>1, NoMark DEF Reclaim, NothingMarked
  <2>2. CASE ReclaimFails(w)  BY <2>2, TroubleMarks DEF ReclaimFails
  <2> QED  BY <2>1, <2>2
<1>3. CASE waiter[w].at = "reclaim" /\ queue' = Popped(queue, waiter[w].head)
  BY <1>1, <1>2, <1>3, HeadPopped
<1>4. CASE queue' = queue
  <2>1. /\ InLine(w) /\ "relook" \in Waiting
        /\ waiter[w].head \in Waiters /\ waiter[waiter[w].head].at # "start"
    BY <1>1 DEF InLine, Waiting, LockInv, HeadsAreKnown
  <2> QED  BY <1>1, <1>2, <1>4, <2>1, LockLooks
<1> QED  BY <1>3, <1>4 DEF Reclaim, ReclaimFails

\* The lock goes to the head, which may not be told.
LEMMA Locked ==
  ASSUME LockInv, NEW w \in Waiters, waiter[w].at = "try", NEW st \in {"got", "quit"}, To(w, st),
         owner' = w, UNCHANGED <<queue, lease, arrived>>, Marked, st = "quit" => w \in failed'
  PROVE  LockInv'
<1>1. LockTyped /\ st \in Stages \ {"start", "push"} /\ st \notin Waiting /\ Step(w, st, Unheld)
  BY DEF LockInv, Stages, Waiting, Served, To
<1>2. IsThinned(queue', queue, Unheld) /\ ~Alive(Unheld)  BY SameLine
<1>3. OwnerIsServed' /\ Tidy(w)'  BY <1>1 DEF OwnerIsServed, Tidy, Step, LockTyped, Served
<1>4. st \notin {"check", "reclaim", "relook", "try"}  OBVIOUS
<1> QED  BY <1>1, <1>2, <1>3, <1>4, LockMove DEF LockTyped

LEMMA Tried ==
  ASSUME LockInv, NEW w \in Waiters, TryLock(w) \/ TryFails(w)
  PROVE  LockInv'
<1>1. waiter[w].at = "try" /\ UNCHANGED <<queue, lease, expiring, arrived>> /\ expiring \in BOOLEAN
  BY DEF TryLock, TryFails, LockInv, LockTyped
<1>2. CASE TryLock(w) /\ owner = Unheld
  <2>1. owner' = w /\ To(w, "got") /\ Marked  BY <1>2, NoMark DEF TryLock, NothingMarked
  <2> QED  BY <1>1, <2>1, Locked
<1>3. CASE TryLock(w) /\ owner # Unheld
  <2>1. owner' = owner /\ Step(w, "look", Unheld) /\ Marked /\ InLine(w) /\ "look" \in Waiting
    BY <1>1, <1>3, NoMark DEF TryLock, To, NothingMarked, InLine, Waiting
  <2> QED  BY <1>1, <2>1, LockLooks
<1>4. CASE TryFails(w)
  <2>1. owner' = w /\ To(w, "quit") /\ Marked /\ w \in failed'
    BY <1>1, <1>4, FailureMarks DEF TryFails
  <2> QED  BY <1>1, <2>1, Locked
<1> QED  BY <1>2, <1>3, <1>4

LEMMA GaveUp ==
  ASSUME LockInv, NEW w \in Waiters, GiveUp(w)
  PROVE  LockInv'
<1>1. UNCHANGED <<queue, lease, owner, arrived>> /\ Marked /\ InLine(w)
  BY NoMark DEF GiveUp, NothingMarked, InLine, Waiting
<1>2. Step(w, "quit", Unheld)  BY DEF GiveUp, To
<1> QED  BY <1>1, <1>2, LockLooks

\* A step of a waiter on its way out, which may have taken its ticket off.
LEMMA WayOut ==
  ASSUME LockInv, NEW w \in Waiters, waiter[w].at \notin Waiting \cup {"start"},
         NEW st \in Served \cup {"unlease", "end", "dead"}, Step(w, st, Unheld),
         IsThinned(queue', queue, w) \/ queue' = queue,
         lease' \subseteq lease, UNCHANGED arrived, Marked,
         owner' = owner \/ (owner = w /\ owner' = Unheld),
         owner' = w => waiter[w].at \notin Served \/ st \in Served \cup {"dead"} \/ w \in failed',
         owner' = w => waiter[w].at # "dead" \/ st = "dead",
         Tidy(w)'
  PROVE  LockInv'
<1>1. LockTyped /\ OwnerIsServed /\ ~Alive(w)  BY DEF LockInv, Alive, InLine
<1>2. st \in Stages \ {"start", "push"} /\ st \notin Waiting  BY DEF Stages, Waiting, Served
<1>3. waiter'[w].at = st /\ \A v \in Waiters : v # w => waiter'[v] = waiter[v]
  BY <1>1 DEF Step, LockTyped
<1>4. OwnerIsServed' /\ owner' \in Waiters \cup {Unheld}
  BY <1>1, <1>3, FairLockAssumption DEF OwnerIsServed, LockTyped, Marked, FairLockAssumption
<1>5. st \notin {"check", "reclaim", "relook", "try"}  BY <1>2 DEF Waiting
<1>6. CASE IsThinned(queue', queue, w)  BY <1>1, <1>2, <1>4, <1>5, <1>6, LockMove
<1>7. CASE queue' = queue
  <2>1. IsThinned(queue', queue, Unheld) /\ ~Alive(Unheld)  BY <1>7, SameLine
  <2> QED  BY <1>2, <1>4, <1>5, <2>1, LockMove
<1> QED  BY <1>6, <1>7

LEMMA TicketTaken ==
  ASSUME LockInv, NEW w \in Waiters, TakeTicketOff(w)
  PROVE  LockInv'
<1>1. PICK st : st = IF waiter[w].at = "got" THEN "taken" ELSE "unlease"  OBVIOUS
<1>2. /\ waiter[w].at \in {"quit", "got"} /\ Step(w, st, Unheld) /\ queue' = Without(queue, w)
      /\ UNCHANGED <<lease, owner, arrived>> /\ Marked /\ LockTyped /\ LineInOrder
  BY <1>1, NoMark DEF TakeTicketOff, To, NothingMarked, LockInv
<1>3. IsThinned(queue', queue, w)  BY <1>2, LineHasNoTwins, RemovalThins DEF LockTyped
<1>4. Tidy(w)'
  BY <1>1, <1>2, <1>3 DEF Tidy, IsThinned, Step, LockTyped
<1>5. /\ waiter[w].at \notin Waiting \cup {"start", "dead"} /\ st \in Served \cup {"unlease", "end", "dead"}
      /\ waiter[w].at \notin Served \/ st \in Served
  BY <1>1, <1>2 DEF Waiting, Served
<1> QED  BY <1>2, <1>3, <1>4, <1>5, WayOut

LEMMA TicketStays ==
  ASSUME LockInv, NEW w \in Waiters, TakeOffFails(w)
  PROVE  LockInv'
<1>1. PICK st : st = IF waiter[w].at = "got" THEN "holding" ELSE "end"  OBVIOUS
<1>2. /\ waiter[w].at \in {"quit", "got"} /\ Step(w, st, Unheld) /\ LockTyped /\ LineInOrder
      /\ queue' \in {queue, Without(queue, w)}
      /\ UNCHANGED <<lease, owner, expiring, arrived>> /\ FailsOf(w)
  BY <1>1 DEF TakeOffFails, To, LockInv
<1>3. IsThinned(queue', queue, w) \/ queue' = queue
  BY <1>2, LineHasNoTwins, RemovalThins DEF LockTyped
<1>4. Marked /\ w \in failed'  BY <1>2, FailureMarks DEF LockTyped
<1>5. /\ waiter[w].at \notin Waiting \cup {"start", "dead"} /\ st \in Served \cup {"unlease", "end", "dead"}
      /\ Tidy(w)'
  BY <1>1, <1>2, <1>4 DEF Waiting, Served, Tidy
<1> QED  BY <1>2, <1>3, <1>4, <1>5, WayOut

LEMMA LeaseDropped ==
  ASSUME LockInv, NEW w \in Waiters, DropLease(w) \/ DropLeaseFails(w)
  PROVE  LockInv'
<1>1. PICK st \in {"holding", "end"} :
        Step(w, st, Unheld) /\ (waiter[w].at = "taken" => st # "end")
  BY DEF DropLease, DropLeaseFails, AfterDrop, To
<1>2. /\ waiter[w].at \in {"taken", "unlease"} /\ UNCHANGED <<queue, owner, expiring, arrived>>
      /\ lease' \subseteq lease /\ LockTyped /\ Tidy(w)
  BY DEF DropLease, DropLeaseFails, LockInv, LeaversAreTidy
<1>3. Marked /\ (w \in lease' => w \in failed')
  <2>1. CASE DropLease(w)  BY <2>1, NoMark DEF DropLease, NothingMarked
  <2>2. CASE DropLeaseFails(w)
    <3>1. FailsOf(w)  BY <2>2 DEF DropLeaseFails
    <3> QED  BY <1>2, <3>1, FailureMarks DEF LockTyped
  <2> QED  BY <2>1, <2>2
<1>4. Tidy(w)'  BY <1>1, <1>2, <1>3 DEF Tidy, Step, LockTyped, Marked
<1>5. waiter[w].at \notin Waiting \cup {"start", "dead"} /\ st \in Served \cup {"unlease", "end", "dead"}
  BY <1>1, <1>2 DEF Waiting, Served
<1>6. waiter[w].at \notin Served \/ st \in Served  BY <1>1, <1>2 DEF Served
<1> QED  BY <1>1, <1>2, <1>3, <1>4, <1>5, <1>6, WayOut

LEMMA Unlocked ==
  ASSUME LockInv, NEW w \in Waiters, Unlock(w) \/ UnlockFails(w)
  PROVE  LockInv'
<1>1. /\ waiter[w].at = "holding" /\ Step(w, "end", Unheld)
      /\ UNCHANGED <<queue, lease, expiring, arrived>> /\ owner' \in {owner, GivenBack(w)}
      /\ LockTyped /\ Tidy(w)
  BY DEF Unlock, UnlockFails, To, LockInv, LeaversAreTidy
<1>2. Marked /\ (owner' = w => w \in failed')
  <2>1. CASE Unlock(w)
    <3>1. owner' # w  BY <2>1, FairLockAssumption DEF Unlock, GivenBack, FairLockAssumption
    <3> QED  BY <2>1, <3>1, NoMark DEF Unlock, NothingMarked
  <2>2. CASE UnlockFails(w)
    <3>1. FailsOf(w)  BY <2>2 DEF UnlockFails
    <3> QED  BY <1>1, <3>1, FailureMarks DEF LockTyped
  <2> QED  BY <2>1, <2>2
<1>3. Tidy(w)'  BY <1>1, <1>2 DEF Tidy, Step, LockTyped, Marked
<1>4. owner' = owner \/ (owner = w /\ owner' = Unheld)  BY <1>1 DEF GivenBack
<1>5. waiter[w].at \notin Waiting \cup {"start", "dead"}  BY <1>1 DEF Waiting
<1> QED  BY <1>1, <1>2, <1>3, <1>4, <1>5, WayOut

LEMMA Died ==
  ASSUME LockInv, NEW w \in Waiters, Dies(w)
  PROVE  LockInv'
<1>1. /\ waiter[w].at # "start" /\ UNCHANGED <<queue, lease, owner, arrived>> /\ Step(w, "dead", Unheld)
      /\ LockTyped
  BY DEF Dies, To, LockInv
<1>2. Marked  BY TroubleMarks DEF Dies
<1>3. Tidy(w)'  BY <1>1 DEF Tidy, Step, LockTyped
<1>4. CASE InLine(w)  BY <1>1, <1>2, <1>4, LockLooks
<1>5. CASE ~InLine(w)  BY <1>1, <1>2, <1>3, <1>5, WayOut DEF InLine
<1> QED  BY <1>4, <1>5

\* A list that runs out had no ticket of anybody alive.
LEMMA ListEnded ==
  ASSUME LockInv, ListEnds
  PROVE  LockInv'
<1>1. /\ LockTyped /\ LineInOrder /\ HeadsAreKnown /\ LeasedAreInLine /\ OwnerIsServed
      /\ LeaversAreTidy /\ TriersAreForemost
  BY DEF LockInv
<1>2. queue' = <<>> /\ UNCHANGED <<lease, owner, waiter, expiring, troubles, arrived, failed>>
  BY DEF ListEnds
<1>3. <<>> \in Seq(Waiters) /\ Len(<<>>) = 0 /\ \A v : ~Contains(<<>>, v)  BY EmptySeq DEF Contains
<1>4. \A v \in Waiters : ~Alive(v)
  BY <1>1 DEF ListEnds, LeasedAreInLine, Alive
<1>5. LockTyped' /\ HeadsAreKnown' /\ OwnerIsServed'
  BY <1>1, <1>2, <1>3 DEF LockTyped, HeadsAreKnown, OwnerIsServed
<1>6. LineInOrder'
  BY <1>1, <1>2, <1>3 DEF LineInOrder
<1>7. LeasedAreInLine' /\ TriersAreForemost'
  BY <1>2, <1>4 DEF LeasedAreInLine, TriersAreForemost, Foremost, Alive, InLine
<1>8. LeaversAreTidy'  BY <1>1, <1>2, <1>3 DEF LeaversAreTidy, Tidy
<1> QED  BY <1>5, <1>6, <1>7, <1>8 DEF LockInv

LEMMA TimePasses ==
  ASSUME LockInv,
         (\E w \in Waiters : LeaseEnds(w) \/ LeaseEndsEarly(w)) \/ LockEnds \/ LockEndsEarly
  PROVE  LockInv'
<1>1. CASE \E w \in Waiters : LeaseEnds(w)
  BY <1>1, NoMark, LockWaits DEF LeaseEnds, NothingMarked
<1>2. CASE \E w \in Waiters : LeaseEndsEarly(w)
  BY <1>2, TroubleMarks, LockWaits DEF LeaseEndsEarly
<1>3. CASE LockEnds  BY <1>3, NoMark, LockWaits DEF LockEnds, NothingMarked
<1>4. CASE LockEndsEarly  BY <1>4, TroubleMarks, LockWaits DEF LockEndsEarly
<1> QED  BY <1>1, <1>2, <1>3, <1>4

LEMMA LockStarts == FairInit => LockInv
<1> SUFFICES ASSUME FairInit PROVE LockInv  OBVIOUS
<1>1. queue = <<>> /\ arrived = <<>> /\ <<>> \in Seq(Waiters) /\ Len(<<>>) = 0
  BY EmptySeq DEF FairInit
<1>2. LockTyped
  <2>1. waiter = [w \in Waiters |-> [at |-> "start", head |-> Unheld]] /\ "start" \in Stages
    BY DEF FairInit, Stages
  <2>2. waiter \in [Waiters -> [at: Stages, head: Waiters \cup {Unheld}]]  BY <2>1
  <2>3. lease = {} /\ owner = Unheld /\ expiring = FALSE /\ failed = {} /\ troubles = 0
    BY DEF FairInit
  <2>4. expiring \in BOOLEAN  BY <2>3
  <2>5. lease \subseteq Waiters /\ failed \subseteq Waiters /\ owner \in Waiters \cup {Unheld}
    BY <2>3
  <2>6. troubles \in 0 .. MaxTroubles  BY <2>3, FairLockAssumption DEF FairLockAssumption
  <2> QED  BY <1>1, <2>2, <2>4, <2>5, <2>6 DEF LockTyped
<1>3. LineInOrder  BY <1>1 DEF LineInOrder, Contains
<1>4. HeadsAreKnown /\ LeasedAreInLine /\ OwnerIsServed /\ LeaversAreTidy /\ TriersAreForemost
  BY FairLockAssumption DEF FairInit, HeadsAreKnown, LeasedAreInLine, OwnerIsServed, Alive,
     LeaversAreTidy, Tidy, TriersAreForemost, FairLockAssumption
<1> QED  BY <1>2, <1>3, <1>4 DEF LockInv

LEMMA LockSteps == LockInv /\ [FairNext]_fairVars => LockInv'
<1> SUFFICES ASSUME LockInv, [FairNext]_fairVars PROVE LockInv'  OBVIOUS
<1>1. CASE UNCHANGED fairVars
  BY <1>1, NoMark, LockWaits DEF fairVars, NothingMarked
<1>2. ASSUME NEW w \in Waiters, Look(w) PROVE LockInv'  BY <1>2, Looked DEF Look, NothingMarked
<1>3. ASSUME NEW w \in Waiters, Moves(w) PROVE LockInv'
  BY <1>2, <1>3, OwnLease, Pushed, LeaseChecked, Reclaimed, LookedAgain, Tried,
     TicketTaken, LeaseDropped, Unlocked DEF Moves
<1>4. ASSUME NEW w \in Waiters, CallFails(w) PROVE LockInv'
  BY <1>4, OwnLease, Pushed, PushFailed, Reclaimed, Tried, TicketStays, LeaseDropped, Unlocked
     DEF CallFails
<1> QED
  BY <1>1, <1>3, <1>4, GaveUp, Died, TimePasses, ListEnded DEF FairNext

\* Nobody takes the lock but the foremost.
LEMMA LockIsTakenInTurn ==
  ASSUME LockInv, [FairNext]_fairVars, NEW w \in Waiters, owner' = w, owner # w
  PROVE  Foremost(w)
<1>1. ASSUME NEW v \in Waiters, TryLock(v) \/ TryFails(v), owner' # owner PROVE Foremost(w)
  BY <1>1 DEF TryLock, TryFails, LockInv, TriersAreForemost
<1>2. ASSUME NEW v \in Waiters, Moves(v), ~TryLock(v) PROVE owner' \in {owner, Unheld}
  BY <1>2 DEF Moves, SetLease, Push, Look, CheckLease, Reclaim, Relook, TakeTicketOff,
     DropLease, Unlock, GivenBack
<1>3. ASSUME NEW v \in Waiters, CallFails(v), ~TryFails(v) PROVE owner' \in {owner, Unheld}
  BY <1>3 DEF CallFails, SetLeaseFails, ExpireFails, PushFails, ReclaimFails, TakeOffFails,
     DropLeaseFails, UnlockFails, GivenBack
<1>4. ASSUME NEW v \in Waiters, GiveUp(v) \/ Dies(v) \/ LeaseEnds(v) \/ LeaseEndsEarly(v)
      PROVE  owner' = owner
  BY <1>4 DEF GiveUp, Dies, LeaseEnds, LeaseEndsEarly
<1>5. w # Unheld  BY FairLockAssumption DEF FairLockAssumption
<1> QED
  BY <1>1, <1>2, <1>3, <1>4, <1>5 DEF FairNext, ListEnds, LockEnds, LockEndsEarly, fairVars

\* Whatever the number of waiters, deaths, failing calls and leases that run out: a
\* waiter on a lease keeps its place, and whoever is done and met no failing call holds
\* neither the lock nor a lease nor a place (pkg/cache/lock_fair.go: AcquireFair,
\* reclaimStaleHead, dropWaitTicket).
THEOREM LiveWaitersKeepTheirPlace == FairLockSpec => []QueueIsSound
<1>1. LockInv => QueueIsSound
  <2> SUFFICES ASSUME LockInv PROVE QueueIsSound  OBVIOUS
  <2>1. LockTyped /\ LineInOrder /\ LeasedAreInLine /\ OwnerIsServed /\ LeaversAreTidy
    BY DEF LockInv
  <2>2. IsInjective(queue)
    <3>1. DOMAIN queue = 1 .. Len(queue)  BY <2>1, LenProperties DEF LockTyped
    <3> QED  BY <2>1, <3>1, LineHasNoTwins DEF IsInjective
  <2>3. FairLockTypeOK  BY <2>1, <2>2 DEF FairLockTypeOK, LockTyped
  <2>4. LiveTicketKeepsPlace  BY <2>1 DEF LiveTicketKeepsPlace, LeasedAreInLine
  <2>5. NothingIsLeftBehind
    BY <2>1 DEF NothingIsLeftBehind, LeaversAreTidy, Tidy, OwnerIsServed, Served
  <2> QED  BY <2>3, <2>4, <2>5 DEF QueueIsSound
<1> QED  BY <1>1, LockStarts, LockSteps, PTL DEF FairLockSpec

\* The lock goes round in the order of the pushes, but for those whose lease ran out or
\* whose queueing met a failing call, for any number of waiters and failures
\* (pkg/cache/lock_fair.go: the loop of AcquireFair).
THEOREM FirstComeIsFirstServed == FairLockSpec => FirstComeFirstServed
<1>1. LockInv /\ [FairNext]_fairVars =>
        (\A w \in Waiters : owner' = w /\ owner # w =>
           \A v \in Waiters : Alive(v) =>
             ~ \E i, j \in 1 .. Len(arrived) : i < j /\ arrived[i] = v /\ arrived[j] = w)
  BY LockIsTakenInTurn DEF Foremost, Before, BeforeIn
<1> QED  BY <1>1, LockStarts, LockSteps, PTL DEF FairLockSpec, FirstComeFirstServed

-----------------------------------------------------------------------------
(***************************************************************************)
(* The mails in the worker.                                                *)
(***************************************************************************)

Reserved == {m \in Mails : request[m] = "reserved"}
Holds(q, m) == \E i \in 1 .. Len(q) : q[i] = m
LateOf(D) == {d.mail : d \in D}
Delays == [mail : Mails, due : BOOLEAN]

\* The books: each reservation is of one mail in the channel, delayed, taken out by
\* flushDue, being sent or about to be offered.
Books(n, q, L, F, s, R) ==
  /\ IsFiniteSet(L) /\ IsFiniteSet(F) /\ IsFiniteSet(s) /\ IsFiniteSet(R)
  /\ n = Len(q) + Cardinality(L) + Cardinality(F) + Cardinality(s) + Cardinality(R)

\* The places are apart, and none has a mail twice.
Apart(q, D, F, s) ==
  /\ \A i, k \in 1 .. Len(q) : q[i] = q[k] => i = k
  /\ \A d, e \in D : d.mail = e.mail => d = e
  /\ \A m : /\ Holds(q, m) => m \notin LateOf(D) \cup F \cup s
            /\ m \in LateOf(D) => m \notin F \cup s
            /\ m \in F => m \notin s

InHand(q, D, F, s, m) == Holds(q, m) \/ m \in LateOf(D) \cup F \cup s

MailShape ==
  /\ mailLog \in [Mails -> {"none", "queued", "retrying", "sent", "failed"}]
  /\ request \in [Mails -> {"new", "logged", "reserved", "accepted", "refused", "over"}]
  /\ queued \in 0 .. QueueSize /\ jobs \in Seq(Mails) /\ Len(jobs) <= QueueSize
  /\ delayed \subseteq Delays /\ flushing \subseteq Mails
  /\ sending = {} \/ \E m \in Mails : sending = {m}
  /\ attempts \in [Mails -> 0 .. MaxAttempts] /\ allowed \in 0 .. PerWindow
  /\ windows \in 0 .. MaxWindows /\ losses \in 0 .. MaxLosses /\ forgotten \subseteq Mails

\* What a mail in hand, and one on its way in, is like.
MailFits(m) ==
  /\ InHand(jobs, delayed, flushing, sending, m) =>
       request[m] = "accepted" /\ mailLog[m] \in {"queued", "retrying"} /\ attempts[m] < MaxAttempts
  /\ request[m] \in {"new", "logged", "reserved"} => attempts[m] = 0
  /\ request[m] \in {"logged", "reserved"} => mailLog[m] = "queued"

MailInv ==
  /\ MailShape /\ Books(queued, jobs, LateOf(delayed), flushing, sending, Reserved)
  /\ Apart(jobs, delayed, flushing, sending) /\ \A m \in Mails : MailFits(m)

LEMMA OneMore ==
  ASSUME NEW S, NEW x, IsFiniteSet(S), x \notin S
  PROVE  IsFiniteSet(S \cup {x}) /\ Cardinality(S \cup {x}) = Cardinality(S) + 1
BY FS_AddElement

LEMMA OneLess ==
  ASSUME NEW S, NEW x, IsFiniteSet(S), x \in S
  PROVE  /\ IsFiniteSet(S \ {x}) /\ Cardinality(S \ {x}) \in Nat
         /\ Cardinality(S) = Cardinality(S \ {x}) + 1
<1>1. IsFiniteSet(S \ {x}) /\ Cardinality(S \ {x}) = Cardinality(S) - 1
  BY FS_RemoveElement
<1>2. Cardinality(S \ {x}) \in Nat /\ Cardinality(S) \in Nat
  BY <1>1, FS_CardinalityType
<1> QED
  BY <1>1, <1>2

LEMMA NoneAndOne ==
  ASSUME NEW x
  PROVE  /\ IsFiniteSet({}) /\ Cardinality({}) = 0
         /\ IsFiniteSet({x}) /\ Cardinality({x}) = 1
BY FS_EmptySet, FS_Singleton

LEMMA BooksAreNumbers ==
  ASSUME NEW n, NEW q \in Seq(Mails), NEW L, NEW F, NEW s, NEW R, Books(n, q, L, F, s, R)
  PROVE  /\ n \in Nat /\ Len(q) \in Nat /\ Cardinality(L) \in Nat /\ Cardinality(F) \in Nat
         /\ Cardinality(s) \in Nat /\ Cardinality(R) \in Nat
<1>1. /\ Len(q) \in Nat /\ Cardinality(L) \in Nat /\ Cardinality(F) \in Nat
      /\ Cardinality(s) \in Nat /\ Cardinality(R) \in Nat
  BY FS_CardinalityType, LenProperties DEF Books
<1> QED
  BY <1>1 DEF Books

LEMMA BooksReserve ==
  ASSUME NEW n, NEW q \in Seq(Mails), NEW L, NEW F, NEW s, NEW R, NEW m,
         Books(n, q, L, F, s, R), m \notin R
  PROVE  Books(n + 1, q, L, F, s, R \cup {m})
<1>0. /\ n \in Nat /\ Len(q) \in Nat /\ Cardinality(L) \in Nat /\ Cardinality(F) \in Nat
      /\ Cardinality(s) \in Nat /\ Cardinality(R) \in Nat
  BY BooksAreNumbers
<1>1. IsFiniteSet(R \cup {m}) /\ Cardinality(R \cup {m}) = Cardinality(R) + 1
  BY OneMore DEF Books
<1> QED
  BY <1>0, <1>1 DEF Books

\* The offer: into the channel, or refused.
LEMMA BooksOffer ==
  ASSUME NEW n, NEW q \in Seq(Mails), NEW L, NEW F, NEW s, NEW R, NEW m \in Mails,
         Books(n, q, L, F, s, R), m \in R
  PROVE  /\ Books(n, Append(q, m), L, F, s, R \ {m})
         /\ n > 0 /\ Books(n - 1, q, L, F, s, R \ {m})
<1>0. /\ n \in Nat /\ Len(q) \in Nat /\ Cardinality(L) \in Nat /\ Cardinality(F) \in Nat
      /\ Cardinality(s) \in Nat /\ Cardinality(R) \in Nat
  BY BooksAreNumbers
<1>1. IsFiniteSet(R \ {m}) /\ Cardinality(R \ {m}) \in Nat /\ Cardinality(R) = Cardinality(R \ {m}) + 1
  BY OneLess DEF Books
<1>2. Len(Append(q, m)) = Len(q) + 1
  OBVIOUS
<1> QED
  BY <1>0, <1>1, <1>2 DEF Books

LEMMA BooksTake ==
  ASSUME NEW n, NEW q \in Seq(Mails), NEW L, NEW F, NEW R, Books(n, q, L, F, {}, R), q # <<>>
  PROVE  Books(n, Tail(q), L, F, {Head(q)}, R)
<1>0. /\ n \in Nat /\ Len(q) \in Nat /\ Cardinality(L) \in Nat /\ Cardinality(F) \in Nat
      /\ Cardinality({}) \in Nat /\ Cardinality(R) \in Nat
  BY BooksAreNumbers
<1>1. Len(Tail(q)) = Len(q) - 1
  OBVIOUS
<1>2. /\ IsFiniteSet({}) /\ Cardinality({}) = 0
      /\ IsFiniteSet({Head(q)}) /\ Cardinality({Head(q)}) = 1
  BY NoneAndOne
<1> QED
  BY <1>0, <1>1, <1>2 DEF Books

LEMMA BooksDelay ==
  ASSUME NEW n, NEW q \in Seq(Mails), NEW L, NEW F, NEW R, NEW m,
         Books(n, q, L, F, {m}, R), m \notin L
  PROVE  Books(n, q, L \cup {m}, F, {}, R)
<1>0. /\ n \in Nat /\ Len(q) \in Nat /\ Cardinality(L) \in Nat /\ Cardinality(F) \in Nat
      /\ Cardinality({m}) \in Nat /\ Cardinality(R) \in Nat
  BY BooksAreNumbers
<1>1. IsFiniteSet(L \cup {m}) /\ Cardinality(L \cup {m}) = Cardinality(L) + 1
  BY OneMore DEF Books
<1>2. /\ IsFiniteSet({}) /\ Cardinality({}) = 0
      /\ IsFiniteSet({m}) /\ Cardinality({m}) = 1
  BY NoneAndOne
<1> QED
  BY <1>0, <1>1, <1>2 DEF Books

LEMMA BooksFinish ==
  ASSUME NEW n, NEW q \in Seq(Mails), NEW L, NEW F, NEW R, NEW m, Books(n, q, L, F, {m}, R)
  PROVE  n > 0 /\ Books(n - 1, q, L, F, {}, R)
<1>0. /\ n \in Nat /\ Len(q) \in Nat /\ Cardinality(L) \in Nat /\ Cardinality(F) \in Nat
      /\ Cardinality({m}) \in Nat /\ Cardinality(R) \in Nat
  BY BooksAreNumbers
<1>2. /\ IsFiniteSet({}) /\ Cardinality({}) = 0
      /\ IsFiniteSet({m}) /\ Cardinality({m}) = 1
  BY NoneAndOne
<1> QED
  BY <1>0, <1>2 DEF Books

LEMMA BooksFlush ==
  ASSUME NEW n, NEW q \in Seq(Mails), NEW L, NEW s, NEW R, NEW X, NEW Y,
         Books(n, q, L, {}, s, R), L = X \cup Y, X \cap Y = {}
  PROVE  Books(n, q, Y, X, s, R)
<1>0. /\ n \in Nat /\ Len(q) \in Nat /\ Cardinality(L) \in Nat /\ Cardinality({}) \in Nat
      /\ Cardinality(s) \in Nat /\ Cardinality(R) \in Nat
  BY BooksAreNumbers
<1>1. IsFiniteSet(X) /\ IsFiniteSet(Y)
  BY FS_Subset DEF Books
<1>2. Cardinality(X) \in Nat /\ Cardinality(Y) \in Nat
  BY <1>1, FS_CardinalityType
<1>3. Cardinality(L) = Cardinality(X) + Cardinality(Y) - Cardinality(X \cap Y)
  BY <1>1, FS_Union
<1>4. Cardinality(X \cap Y) = 0 /\ Cardinality({}) = 0
  BY NoneAndOne
<1> QED
  BY <1>0, <1>1, <1>2, <1>3, <1>4 DEF Books

LEMMA BooksFlushOffer ==
  ASSUME NEW n, NEW q \in Seq(Mails), NEW L, NEW F, NEW s, NEW R, NEW m \in Mails,
         Books(n, q, L, F, s, R), m \in F, m \notin L
  PROVE  /\ Books(n, Append(q, m), L, F \ {m}, s, R)
         /\ Books(n, q, L \cup {m}, F \ {m}, s, R)
<1>0. /\ n \in Nat /\ Len(q) \in Nat /\ Cardinality(L) \in Nat /\ Cardinality(F) \in Nat
      /\ Cardinality(s) \in Nat /\ Cardinality(R) \in Nat
  BY BooksAreNumbers
<1>1. IsFiniteSet(F \ {m}) /\ Cardinality(F \ {m}) \in Nat /\ Cardinality(F) = Cardinality(F \ {m}) + 1
  BY OneLess DEF Books
<1>2. Len(Append(q, m)) = Len(q) + 1
  OBVIOUS
<1>3. IsFiniteSet(L \cup {m}) /\ Cardinality(L \cup {m}) = Cardinality(L) + 1
  BY OneMore DEF Books
<1> QED
  <2>1. Books(n, Append(q, m), L, F \ {m}, s, R)
    BY <1>0, <1>1, <1>2 DEF Books
  <2>2. Books(n, q, L \cup {m}, F \ {m}, s, R)
    BY <1>0, <1>1, <1>3 DEF Books
  <2> QED
    BY <2>1, <2>2

(* The places *)
LEMMA HoldsAppended ==
  ASSUME NEW q \in Seq(Mails), NEW m \in Mails, NEW x
  PROVE  Holds(Append(q, m), x) <=> Holds(q, x) \/ x = m
<1>1. /\ Len(Append(q, m)) = Len(q) + 1 /\ Len(q) \in Nat
      /\ \A i \in 1 .. Len(q) : Append(q, m)[i] = q[i]
      /\ Append(q, m)[Len(q) + 1] = m
  OBVIOUS
<1>2. 1 .. Len(Append(q, m)) = 1 .. Len(q) \cup {Len(q) + 1}
  BY <1>1
<1> HIDE <1>1
<1> QED
  BY <1>1, <1>2 DEF Holds

LEMMA HoldsTaken ==
  ASSUME NEW q \in Seq(Mails), q # <<>>, \A i, k \in 1 .. Len(q) : q[i] = q[k] => i = k
  PROVE  /\ \A i, k \in 1 .. Len(Tail(q)) : Tail(q)[i] = Tail(q)[k] => i = k
         /\ \A x : Holds(q, x) <=> Holds(Tail(q), x) \/ x = Head(q)
         /\ ~Holds(Tail(q), Head(q))
<1>1. /\ Len(Tail(q)) = Len(q) - 1 /\ Len(q) \in Nat \ {0} /\ Head(q) = q[1]
      /\ \A i \in 1 .. Len(q) - 1 : Tail(q)[i] = q[i + 1]
  OBVIOUS
<1>2. \A i, k \in 1 .. Len(Tail(q)) : Tail(q)[i] = Tail(q)[k] => i = k
  BY <1>1
<1>3. ~Holds(Tail(q), Head(q))
  BY <1>1 DEF Holds
<1>4. ASSUME NEW x, Holds(q, x) PROVE Holds(Tail(q), x) \/ x = Head(q)
  <2>1. PICK i \in 1 .. Len(q) : q[i] = x
    BY <1>4 DEF Holds
  <2>2. CASE i = 1
    BY <1>1, <2>1, <2>2
  <2>3. CASE i # 1
    <3>1. i - 1 \in 1 .. Len(q) - 1 /\ Tail(q)[i - 1] = q[(i - 1) + 1] /\ (i - 1) + 1 = i
      BY <1>1, <2>3
    <3> QED
      BY <1>1, <2>1, <3>1 DEF Holds
  <2> QED
    BY <2>2, <2>3
<1>5. ASSUME NEW x, Holds(Tail(q), x) \/ x = Head(q) PROVE Holds(q, x)
  <2>1. CASE x = Head(q)
    BY <1>1, <2>1 DEF Holds
  <2>2. CASE Holds(Tail(q), x)
    <3>1. PICK i \in 1 .. Len(Tail(q)) : Tail(q)[i] = x
      BY <2>2 DEF Holds
    <3>2. i + 1 \in 1 .. Len(q) /\ q[i + 1] = x
      BY <1>1, <3>1
    <3> QED
      BY <3>2 DEF Holds
  <2> QED
    BY <1>5, <2>1, <2>2
<1> QED
  BY <1>2, <1>3, <1>4, <1>5

LEMMA WaitsIsDelay == \A m \in Mails : Waits(m) \in Delays
BY DEF Waits, Delays

LEMMA LateAdded ==
  ASSUME NEW D, NEW m
  PROVE  LateOf(D \cup {Waits(m)}) = LateOf(D) \cup {m}
<1>1. Waits(m).mail = m
  BY DEF Waits
<1> HIDE DEF Waits
<1> QED
  BY <1>1 DEF LateOf

LEMMA ApartFewer ==
  ASSUME NEW q, NEW D, NEW F, NEW s, Apart(q, D, F, s),
         NEW E \in SUBSET D, NEW G \in SUBSET F, NEW t \in SUBSET s
  PROVE  Apart(q, E, G, t)
<1>1. LateOf(E) \subseteq LateOf(D)
  BY DEF LateOf
<1> QED
  BY <1>1 DEF Apart

LEMMA ApartAppended ==
  ASSUME NEW q \in Seq(Mails), NEW D, NEW F, NEW s, Apart(q, D, F, s),
         NEW m \in Mails, ~InHand(q, D, F, s, m)
  PROVE  Apart(Append(q, m), D, F, s)
<1>1. \A i, k \in 1 .. Len(Append(q, m)) : Append(q, m)[i] = Append(q, m)[k] => i = k
  <2>1. /\ Len(Append(q, m)) = Len(q) + 1 /\ Len(q) \in Nat
        /\ \A i \in 1 .. Len(q) : Append(q, m)[i] = q[i] /\ q[i] # m
        /\ Append(q, m)[Len(q) + 1] = m
    BY DEF InHand, Holds
  <2>2. 1 .. Len(Append(q, m)) = 1 .. Len(q) \cup {Len(q) + 1}
    BY <2>1
  <2> QED
    BY <2>1, <2>2 DEF Apart
<1> QED
  BY <1>1, HoldsAppended DEF Apart, InHand

LEMMA ApartDelayed ==
  ASSUME NEW q, NEW D, NEW F, NEW s, Apart(q, D, F, s), NEW m, ~InHand(q, D, F, s, m)
  PROVE  Apart(q, D \cup {Waits(m)}, F, s)
<1>1. \A d, e \in D \cup {Waits(m)} : d.mail = e.mail => d = e
  <2>1. Waits(m).mail = m /\ \A d \in D : d.mail # m
    BY DEF Waits, InHand, LateOf
  <2> QED
    BY <2>1 DEF Apart
<1> QED
  BY <1>1, LateAdded DEF Apart, InHand

LEMMA ApartTaken ==
  ASSUME NEW q \in Seq(Mails), NEW D, NEW F, Apart(q, D, F, {}), q # <<>>
  PROVE  Apart(Tail(q), D, F, {Head(q)})
BY HoldsTaken DEF Apart

(* The steps *)
MailKept(m) == MailFits(m)'

LEMMA MarkKeeps ==
  ASSUME MailShape, NEW m \in Mails, NEW s \in {"queued", "retrying", "sent", "failed"}, Mark(m, s)
  PROVE  /\ mailLog' \in [Mails -> {"none", "queued", "retrying", "sent", "failed"}]
         /\ losses' \in 0 .. MaxLosses /\ forgotten' \subseteq Mails
         /\ \A n \in Mails \ {m} : mailLog'[n] = mailLog[n]
         /\ mailLog'[m] \in {s, mailLog[m]}
<1>1. CASE mailLog' = [mailLog EXCEPT ![m] = s] /\ UNCHANGED <<losses, forgotten>>
  BY <1>1 DEF MailShape
<1>2. CASE /\ losses < MaxLosses /\ losses' = losses + 1 /\ forgotten' = forgotten \cup {m}
           /\ UNCHANGED mailLog
  BY <1>2, MailAssumption DEF MailAssumption, MailShape
<1> QED
  BY <1>1, <1>2 DEF Mark

LEMMA MailInvMeans == MailInv => MailIsAccountedFor
<1> SUFFICES ASSUME MailInv PROVE MailIsAccountedFor
  OBVIOUS
<1>1. MailTypeOK
  <2>1. Cardinality(sending) <= 1
    <3>1. Cardinality({}) = 0 /\ \A m : Cardinality({m}) = 1
      BY NoneAndOne
    <3>2. sending = {} \/ \E m \in Mails : sending = {m}
      BY DEF MailInv, MailShape
    <3>3. CASE sending = {}
      BY <3>1, <3>3
    <3>4. CASE \E m \in Mails : sending = {m}
      <4>1. PICK m \in Mails : sending = {m}
        BY <3>4
      <4>2. Cardinality(sending) = 1
        BY <3>1, <4>1
      <4> QED
        BY <4>2
    <3> QED
      BY <3>2, <3>3, <3>4
  <2>2. sending \subseteq Mails
    BY DEF MailInv, MailShape
  <2> QED
    BY <2>1, <2>2 DEF MailInv, MailShape, MailTypeOK, Delays
<1>2. ReservationsAreExact
  BY DEF MailInv, Books, ReservationsAreExact, Reserved, Late, LateOf
<1>3. MailIsInOnePlace
  <2> SUFFICES ASSUME NEW m \in Mails
               PROVE  Cardinality({i \in DOMAIN jobs : jobs[i] = m})
                      + Cardinality({d \in delayed : d.mail = m})
                      + Cardinality(flushing \cap {m}) + Cardinality(sending \cap {m})
                        <= (IF mailLog[m] \in {"queued", "retrying"} THEN 1 ELSE 0)
    BY DEF MailIsInOnePlace
  <2> DEFINE J == {i \in DOMAIN jobs : jobs[i] = m}
             D == {d \in delayed : d.mail = m}
             F == flushing \cap {m}
             S == sending \cap {m}
  <2>0. /\ Apart(jobs, delayed, flushing, sending) /\ MailFits(m)
        /\ DOMAIN jobs = 1 .. Len(jobs)
    BY DEF MailInv, MailShape
  <2>1. J = {} \/ \E x : J = {x}
    <3>1. \A x, y \in J : x = y
      BY <2>0 DEF Apart
    <3> QED
      BY <3>1
  <2>1a. J # {} <=> Holds(jobs, m)
    BY <2>0 DEF Holds
  <2>2. (D = {} \/ \E x : D = {x}) /\ (D # {} <=> m \in LateOf(delayed))
    BY <2>0 DEF Apart, LateOf
  <2>3. (F = {} \/ F = {m}) /\ (F # {} <=> m \in flushing) /\ (S = {} \/ S = {m}) /\ (S # {} <=> m \in sending)
    OBVIOUS
  <2>4. \A T : (T = {} => Cardinality(T) = 0) /\ ((\E x : T = {x}) => Cardinality(T) = 1)
    BY NoneAndOne
  <2>5. /\ Cardinality(J) = IF Holds(jobs, m) THEN 1 ELSE 0
        /\ Cardinality(D) = IF m \in LateOf(delayed) THEN 1 ELSE 0
        /\ Cardinality(F) = IF m \in flushing THEN 1 ELSE 0
        /\ Cardinality(S) = IF m \in sending THEN 1 ELSE 0
    BY <2>1, <2>1a, <2>2, <2>3, <2>4
  <2> HIDE DEF J, D, F, S
  <2>6. Cardinality(J) + Cardinality(D) + Cardinality(F) + Cardinality(S)
          <= (IF mailLog[m] \in {"queued", "retrying"} THEN 1 ELSE 0)
    BY <2>0, <2>5 DEF Apart, MailFits, InHand
  <2> QED
    BY <2>6 DEF J, D, F, S
<1> QED
  BY <1>1, <1>2, <1>3 DEF MailIsAccountedFor

\* What the lemmas above say, for the state after a step.
LEMMA MailInvNext ==
  ASSUME MailShape', Books(queued', jobs', LateOf(delayed'), flushing', sending', Reserved'),
         Apart(jobs', delayed', flushing', sending'),
         \A n \in Mails : MailKept(n)
  PROVE  MailInv'
BY DEF MailInv, MailKept

\* A mail whose place, request and row stay as they are.
LEMMA MailUntouched ==
  ASSUME NEW n \in Mails, MailFits(n), request'[n] = request[n], mailLog'[n] = mailLog[n],
         attempts'[n] = attempts[n],
         InHand(jobs', delayed', flushing', sending', n) => InHand(jobs, delayed, flushing, sending, n)
  PROVE  MailKept(n)
<1> DEFINE hand == InHand(jobs', delayed', flushing', sending', n)
<1>1. hand => request'[n] = "accepted" /\ mailLog'[n] \in {"queued", "retrying"}
              /\ attempts'[n] < MaxAttempts
  BY DEF MailFits
<1>2. /\ request'[n] \in {"new", "logged", "reserved"} => attempts'[n] = 0
      /\ request'[n] \in {"logged", "reserved"} => mailLog'[n] = "queued"
  BY DEF MailFits
<1> HIDE DEF hand
<1> QED
  BY <1>1, <1>2 DEF MailKept, MailFits, hand

LEMMA CreateLogKeeps == ASSUME MailInv, NEW m \in Mails, CreateLog(m) PROVE MailInv'
<1>1. /\ request[m] = "new" /\ request' = [request EXCEPT ![m] = "logged"]
      /\ mailLog' = [mailLog EXCEPT ![m] = "queued"]
      /\ UNCHANGED <<queued, jobs, delayed, flushing, sending, attempts, allowed, windows, losses, forgotten>>
  BY DEF CreateLog, Asks
<1>2. MailShape' /\ Reserved' = Reserved
  BY <1>1 DEF MailInv, MailShape, Reserved
<1>3. Books(queued', jobs', LateOf(delayed'), flushing', sending', Reserved')
  BY <1>1, <1>2 DEF MailInv
<1>4. Apart(jobs', delayed', flushing', sending')
  BY <1>1 DEF MailInv
<1>5. ASSUME NEW n \in Mails PROVE MailKept(n)
  <2>1. CASE n # m
    BY <1>1, <2>1, MailUntouched DEF MailInv, MailShape
  <2>2. CASE n = m
    <3>1. ~InHand(jobs', delayed', flushing', sending', m) /\ attempts'[m] = 0
      BY <1>1 DEF MailInv, MailFits
    <3>2. request'[m] = "logged" /\ mailLog'[m] = "queued"
      BY <1>1 DEF MailInv, MailShape
    <3> QED
      BY <2>2, <3>1, <3>2 DEF MailKept, MailFits
  <2> QED
    BY <2>1, <2>2
<1> QED
  BY <1>2, <1>3, <1>4, <1>5, MailInvNext

\* A request that is refused leaves no mail in hand.
LEMMA RefusedFits ==
  ASSUME MailInv, NEW m \in Mails, request[m] \in {"logged", "reserved"},
         request'[m] = "refused", UNCHANGED <<jobs, delayed, flushing, sending, attempts>>
  PROVE  MailKept(m)
<1>1. ~InHand(jobs', delayed', flushing', sending', m)
  BY DEF MailInv, MailFits
<1> QED
  BY <1>1 DEF MailKept, MailFits

LEMMA ReserveKeeps == ASSUME MailInv, NEW m \in Mails, Reserve(m) PROVE MailInv'
<1>1. /\ request[m] = "logged" /\ MailShape
      /\ UNCHANGED <<jobs, delayed, flushing, sending, attempts, allowed, windows>>
  BY DEF Reserve, MailInv
<1>2. Apart(jobs', delayed', flushing', sending')
  BY <1>1 DEF MailInv
<1>3. CASE queued < QueueSize
  <2>1. /\ request' = [request EXCEPT ![m] = "reserved"] /\ queued' = queued + 1
        /\ UNCHANGED <<mailLog, losses, forgotten>>
    BY <1>3 DEF Reserve, Asks, Unmarked
  <2>2. MailShape'
    BY <1>1, <1>3, <2>1, MailAssumption DEF MailAssumption, MailShape
  <2>3. Reserved' = Reserved \cup {m} /\ m \notin Reserved
    BY <1>1, <2>1 DEF MailShape, Reserved
  <2>4. Books(queued', jobs', LateOf(delayed'), flushing', sending', Reserved')
    BY <1>1, <2>1, <2>3, BooksReserve DEF MailInv, MailShape
  <2>5. ASSUME NEW n \in Mails PROVE MailKept(n)
    <3>1. CASE n # m
      BY <1>1, <2>1, <3>1, MailUntouched DEF MailInv, MailShape
    <3>2. CASE n = m
      <4>1. /\ ~InHand(jobs', delayed', flushing', sending', m)
            /\ attempts'[m] = 0 /\ mailLog'[m] = "queued"
        BY <1>1, <2>1 DEF MailInv, MailFits
      <4> QED
        BY <3>2, <4>1 DEF MailKept, MailFits
    <3> QED
      BY <3>1, <3>2
  <2> QED
    BY <1>2, <2>2, <2>4, <2>5, MailInvNext
<1>4. CASE ~(queued < QueueSize)
  <2>1. request' = [request EXCEPT ![m] = "refused"] /\ Mark(m, "failed") /\ queued' = queued
    BY <1>4 DEF Reserve, Asks
  <2>2. /\ mailLog' \in [Mails -> {"none", "queued", "retrying", "sent", "failed"}]
        /\ losses' \in 0 .. MaxLosses /\ forgotten' \subseteq Mails
        /\ \A n \in Mails \ {m} : mailLog'[n] = mailLog[n]
    BY <1>1, <2>1, MarkKeeps
  <2>3. MailShape'
    BY <1>1, <2>1, <2>2 DEF MailShape
  <2>4. Reserved' = Reserved
    BY <1>1, <2>1 DEF MailShape, Reserved
  <2>5. Books(queued', jobs', LateOf(delayed'), flushing', sending', Reserved')
    BY <1>1, <2>1, <2>4 DEF MailInv
  <2>6. ASSUME NEW n \in Mails PROVE MailKept(n)
    <3>1. CASE n # m
      BY <1>1, <2>1, <2>2, <3>1, MailUntouched DEF MailInv, MailShape
    <3>2. CASE n = m
      BY <1>1, <2>1, <3>2, RefusedFits DEF MailShape
    <3> QED
      BY <3>1, <3>2
  <2> QED
    BY <1>2, <2>3, <2>5, <2>6, MailInvNext
<1> QED
  BY <1>3, <1>4

LEMMA OfferKeeps == ASSUME MailInv, NEW m \in Mails, Offer(m) PROVE MailInv'
<1>1. /\ request[m] = "reserved" /\ MailShape
      /\ UNCHANGED <<delayed, flushing, sending, attempts, allowed, windows>>
  BY DEF Offer, MailInv
<1>2. m \in Reserved /\ jobs \in Seq(Mails) /\ queued \in Nat
  BY <1>1 DEF Reserved, MailShape
<1>3. CASE Len(jobs) < QueueSize
  <2>1. /\ request' = [request EXCEPT ![m] = "accepted"] /\ jobs' = Append(jobs, m)
        /\ UNCHANGED <<mailLog, losses, forgotten, queued>>
    BY <1>3 DEF Offer, Asks, Unmarked
  <2>2. MailShape'
    <3>1. jobs' \in Seq(Mails) /\ Len(jobs') = Len(jobs) + 1
      BY <1>2, <2>1
    <3>2. Len(jobs') <= QueueSize
      BY <1>2, <1>3, <3>1, MailAssumption DEF MailAssumption
    <3> QED
      BY <1>1, <2>1, <3>1, <3>2 DEF MailShape
  <2>3. Reserved' = Reserved \ {m}
    BY <1>1, <2>1 DEF MailShape, Reserved
  <2>4. Books(queued', jobs', LateOf(delayed'), flushing', sending', Reserved')
    BY <1>1, <1>2, <2>1, <2>3, BooksOffer DEF MailInv
  <2>5. ~InHand(jobs, delayed, flushing, sending, m) /\ mailLog[m] = "queued" /\ attempts[m] = 0
    BY <1>1 DEF MailInv, MailFits
  <2>6. Apart(jobs', delayed', flushing', sending')
    BY <1>1, <1>2, <2>1, <2>5, ApartAppended DEF MailInv
  <2>7. ASSUME NEW n \in Mails PROVE MailKept(n)
    <3>1. CASE n # m
      <4>1. InHand(jobs', delayed', flushing', sending', n) =>
              InHand(jobs, delayed, flushing, sending, n)
        BY <1>1, <1>2, <2>1, <3>1, HoldsAppended DEF InHand
      <4> QED
        BY <1>1, <2>1, <3>1, <4>1, MailUntouched DEF MailInv, MailShape
    <3>2. CASE n = m
      <4>1. request'[m] = "accepted" /\ mailLog'[m] = "queued" /\ attempts'[m] < MaxAttempts
        BY <1>1, <2>1, <2>5, MailAssumption DEF MailAssumption, MailShape
      <4> QED
        BY <3>2, <4>1 DEF MailKept, MailFits
    <3> QED
      BY <3>1, <3>2
  <2> QED
    BY <2>2, <2>4, <2>6, <2>7, MailInvNext
<1>4. CASE ~(Len(jobs) < QueueSize)
  <2>1. /\ request' = [request EXCEPT ![m] = "refused"] /\ Mark(m, "failed") /\ Release
        /\ jobs' = jobs
    BY <1>4 DEF Offer, Asks
  <2>2. /\ mailLog' \in [Mails -> {"none", "queued", "retrying", "sent", "failed"}]
        /\ losses' \in 0 .. MaxLosses /\ forgotten' \subseteq Mails
        /\ \A n \in Mails \ {m} : mailLog'[n] = mailLog[n]
    BY <1>1, <2>1, MarkKeeps
  <2>3. /\ queued > 0
        /\ Books(queued - 1, jobs, LateOf(delayed), flushing, sending, Reserved \ {m})
    BY <1>2, BooksOffer DEF MailInv
  <2>4. Reserved' = Reserved \ {m} /\ queued' = queued - 1
    BY <1>1, <2>1, <2>3 DEF MailShape, Reserved, Release
  <2>5. MailShape'
    <3>1. queued' \in 0 .. QueueSize
      BY <1>1, <2>3, <2>4, MailAssumption DEF MailAssumption, MailShape
    <3> QED
      BY <1>1, <2>1, <2>2, <3>1 DEF MailShape
  <2>6. Books(queued', jobs', LateOf(delayed'), flushing', sending', Reserved')
    BY <1>1, <2>1, <2>3, <2>4
  <2>7. Apart(jobs', delayed', flushing', sending')
    BY <1>1, <2>1 DEF MailInv
  <2>8. ASSUME NEW n \in Mails PROVE MailKept(n)
    <3>1. CASE n # m
      BY <1>1, <2>1, <2>2, <3>1, MailUntouched DEF MailInv, MailShape
    <3>2. CASE n = m
      BY <1>1, <2>1, <3>2, RefusedFits DEF MailShape
    <3> QED
      BY <3>1, <3>2
  <2> QED
    BY <2>5, <2>6, <2>7, <2>8, MailInvNext
<1> QED
  BY <1>3, <1>4

\* Steps that move mails from place to place and write nothing.
LEMMA MovedKeeps ==
  ASSUME MailInv, UNCHANGED <<mailLog, request, queued, attempts, losses, forgotten>>,
         allowed' \in 0 .. PerWindow, windows' \in 0 .. MaxWindows,
         jobs' \in Seq(Mails), Len(jobs') <= QueueSize, delayed' \subseteq Delays,
         flushing' \subseteq Mails, sending' = {} \/ \E m \in Mails : sending' = {m},
         Books(queued, jobs', LateOf(delayed'), flushing', sending', Reserved),
         Apart(jobs', delayed', flushing', sending'),
         \A n \in Mails : InHand(jobs', delayed', flushing', sending', n) =>
                            InHand(jobs, delayed, flushing, sending, n)
  PROVE  MailInv'
<1>1. MailShape'
  BY DEF MailInv, MailShape
<1>2. Reserved' = Reserved
  BY DEF Reserved
<1>3. \A n \in Mails : MailKept(n)
  BY MailUntouched DEF MailInv
<1> QED
  BY <1>1, <1>2, <1>3, MailInvNext

LEMMA TakeKeeps == ASSUME MailInv, Take PROVE MailInv'
<1>1. /\ sending = {} /\ jobs # <<>> /\ sending' = {Head(jobs)} /\ jobs' = Tail(jobs)
      /\ UNCHANGED <<mailLog, request, queued, delayed, flushing, attempts, allowed, windows, losses, forgotten>>
  BY DEF Take, Idle
<1>2. MailShape /\ jobs \in Seq(Mails) /\ Apart(jobs, delayed, flushing, {})
  BY <1>1 DEF MailInv, MailShape
<1>3. /\ jobs' \in Seq(Mails) /\ Len(jobs') = Len(jobs) - 1 /\ Head(jobs) \in Mails
      /\ Len(jobs) \in Nat
  BY <1>1, <1>2
<1>4. Len(jobs') <= QueueSize
  BY <1>2, <1>3, MailAssumption DEF MailAssumption, MailShape
<1>5. Books(queued, jobs', LateOf(delayed'), flushing', sending', Reserved)
  BY <1>1, <1>2, BooksTake DEF MailInv
<1>6. Apart(jobs', delayed', flushing', sending')
  BY <1>1, <1>2, ApartTaken
<1>7. \A n \in Mails : InHand(jobs', delayed', flushing', sending', n) =>
                         InHand(jobs, delayed, flushing, sending, n)
  <2>1. \A x : Holds(jobs, x) <=> Holds(Tail(jobs), x) \/ x = Head(jobs)
    BY <1>1, <1>2, HoldsTaken DEF Apart
  <2> QED
    BY <1>1, <2>1 DEF InHand
<1> QED
  BY <1>1, <1>2, <1>3, <1>4, <1>5, <1>6, <1>7, MovedKeeps DEF MailShape

\* The mail that is being sent is the only one and is nowhere else.
LEMMA SendingAlone ==
  ASSUME MailInv, NEW m \in Mails, m \in sending
  PROVE  /\ sending = {m} /\ ~InHand(jobs, delayed, flushing, {}, m)
         /\ m \notin LateOf(delayed) /\ request[m] = "accepted"
         /\ mailLog[m] \in {"queued", "retrying"} /\ attempts[m] < MaxAttempts
         /\ Books(queued, jobs, LateOf(delayed), flushing, {m}, Reserved)
         /\ Apart(jobs, delayed, flushing, {})
<1>1. sending = {m}
  BY DEF MailInv, MailShape
<1>2. Apart(jobs, delayed, flushing, {})
  BY ApartFewer DEF MailInv
<1>3. ~InHand(jobs, delayed, flushing, {}, m) /\ m \notin LateOf(delayed)
  BY DEF MailInv, Apart, InHand
<1>4. InHand(jobs, delayed, flushing, sending, m) /\ MailFits(m)
  BY DEF InHand, MailInv
<1> QED
  BY <1>1, <1>2, <1>3, <1>4 DEF MailInv, MailFits

LEMMA DelayedAgain ==
  ASSUME MailInv, NEW m \in Mails, m \in sending, delayed' = delayed \cup {Waits(m)}, sending' = {}
  PROVE  /\ delayed' \subseteq Delays
         /\ Books(queued, jobs, LateOf(delayed'), flushing, sending', Reserved)
         /\ Apart(jobs, delayed', flushing, sending')
         /\ \A n \in Mails : InHand(jobs, delayed', flushing, sending', n) =>
                               InHand(jobs, delayed, flushing, sending, n)
<1>1. /\ sending = {m} /\ ~InHand(jobs, delayed, flushing, {}, m) /\ m \notin LateOf(delayed)
      /\ Books(queued, jobs, LateOf(delayed), flushing, {m}, Reserved)
      /\ Apart(jobs, delayed, flushing, {}) /\ jobs \in Seq(Mails) /\ delayed \subseteq Delays
  BY SendingAlone DEF MailInv, MailShape
<1>2. LateOf(delayed') = LateOf(delayed) \cup {m}
  BY LateAdded
<1>3. delayed' \subseteq Delays
  BY <1>1, WaitsIsDelay
<1>4. Books(queued, jobs, LateOf(delayed'), flushing, sending', Reserved)
  <2>1. Books(queued, jobs, LateOf(delayed) \cup {m}, flushing, {}, Reserved)
    BY <1>1, BooksDelay
  <2> QED
    BY <1>2, <2>1
<1>5. Apart(jobs, delayed', flushing, sending')
  BY <1>1, ApartDelayed
<1> QED
  BY <1>1, <1>2, <1>3, <1>4, <1>5 DEF InHand

LEMMA RateLimitedKeeps == ASSUME MailInv, NEW m \in Mails, RateLimited(m) PROVE MailInv'
<1>1. /\ m \in sending /\ delayed' = delayed \cup {Waits(m)} /\ sending' = {}
      /\ UNCHANGED <<mailLog, request, queued, jobs, flushing, attempts, allowed, windows, losses, forgotten>>
  BY DEF RateLimited, Idle
<1>2. MailShape
  BY DEF MailInv
<1> QED
  BY <1>1, <1>2, DelayedAgain, MovedKeeps DEF MailShape

\* The mail is done with: its reservation is given back, whatever happens to the mark.
LEMMA FinishKeeps ==
  ASSUME MailInv, NEW m \in Mails, NEW s \in {"sent", "failed"}, m \in sending, Finish(m, s),
         allowed' \in 0 .. PerWindow, attempts' \in [Mails -> 0 .. MaxAttempts],
         \A n \in Mails \ {m} : attempts'[n] = attempts[n]
  PROVE  MailInv'
<1>1. /\ sending' = {} /\ Release /\ Mark(m, s) /\ MailShape
      /\ UNCHANGED <<request, jobs, delayed, flushing, windows>>
  BY DEF Finish, Idle, MailInv
<1>2. /\ mailLog' \in [Mails -> {"none", "queued", "retrying", "sent", "failed"}]
      /\ losses' \in 0 .. MaxLosses /\ forgotten' \subseteq Mails
      /\ \A n \in Mails \ {m} : mailLog'[n] = mailLog[n]
  BY <1>1, MarkKeeps
<1>3. /\ sending = {m} /\ ~InHand(jobs, delayed, flushing, {}, m) /\ request[m] = "accepted"
      /\ Books(queued, jobs, LateOf(delayed), flushing, {m}, Reserved)
      /\ Apart(jobs, delayed, flushing, {})
  BY SendingAlone
<1>4. queued > 0 /\ Books(queued - 1, jobs, LateOf(delayed), flushing, {}, Reserved)
  BY <1>1, <1>3, BooksFinish DEF MailShape
<1>5. queued' = queued - 1 /\ queued' \in 0 .. QueueSize /\ Reserved' = Reserved
  BY <1>1, <1>4, MailAssumption DEF MailAssumption, MailShape, Release, Reserved
<1>6. MailShape'
  BY <1>1, <1>2, <1>5 DEF MailShape
<1>7. Books(queued', jobs', LateOf(delayed'), flushing', sending', Reserved')
  BY <1>1, <1>4, <1>5
<1>8. Apart(jobs', delayed', flushing', sending')
  BY <1>1, <1>3
<1>9. ASSUME NEW n \in Mails PROVE MailKept(n)
  <2>1. CASE n # m
    <3>1. InHand(jobs', delayed', flushing', sending', n) => InHand(jobs, delayed, flushing, sending, n)
      BY <1>1 DEF InHand
    <3> QED
      BY <1>1, <1>2, <2>1, <3>1, MailUntouched DEF MailInv
  <2>2. CASE n = m
    <3>1. ~InHand(jobs', delayed', flushing', sending', m) /\ request'[m] = "accepted"
      BY <1>1, <1>3
    <3> QED
      BY <2>2, <3>1 DEF MailKept, MailFits
  <2> QED
    BY <2>1, <2>2
<1> QED
  BY <1>6, <1>7, <1>8, <1>9, MailInvNext

LEMMA AllowedSpent ==
  ASSUME MailInv, allowed > 0, allowed' = allowed - 1
  PROVE  allowed' \in 0 .. PerWindow
BY MailAssumption DEF MailAssumption, MailInv, MailShape

LEMMA SentKeeps == ASSUME MailInv, NEW m \in Mails, Sent(m) \/ NotSendable(m) PROVE MailInv'
<1>1. /\ m \in sending /\ (Finish(m, "sent") \/ Finish(m, "failed")) /\ attempts' = attempts
      /\ allowed > 0 /\ allowed' = allowed - 1
  BY DEF Sent, NotSendable
<1>2. attempts' \in [Mails -> 0 .. MaxAttempts]
  BY <1>1 DEF MailInv, MailShape
<1> QED
  BY <1>1, <1>2, AllowedSpent, FinishKeeps

LEMMA SendFailsKeeps == ASSUME MailInv, NEW m \in Mails, SendFails(m) PROVE MailInv'
<1>1. /\ m \in sending /\ allowed' \in 0 .. PerWindow /\ MailShape
      /\ attempts' = [attempts EXCEPT ![m] = attempts[m] + 1]
  BY AllowedSpent DEF SendFails, MailInv
<1>2. /\ sending = {m} /\ request[m] = "accepted" /\ mailLog[m] \in {"queued", "retrying"}
      /\ attempts[m] < MaxAttempts /\ attempts[m] \in Nat
  <2>1. attempts[m] \in 0 .. MaxAttempts /\ MaxAttempts \in Nat
    BY <1>1, MailAssumption DEF MailAssumption, MailShape
  <2>2. m \in sending /\ MailInv
    BY <1>1
  <2>3. /\ sending = {m} /\ request[m] = "accepted" /\ mailLog[m] \in {"queued", "retrying"}
        /\ attempts[m] < MaxAttempts
    BY <2>2, SendingAlone
  <2> QED
    BY <2>1, <2>3
<1>3. /\ attempts' \in [Mails -> 0 .. MaxAttempts] /\ attempts'[m] = attempts[m] + 1
      /\ \A n \in Mails \ {m} : attempts'[n] = attempts[n]
  BY <1>1, <1>2, MailAssumption DEF MailAssumption, MailShape
<1>4. CASE attempts[m] + 1 >= MaxAttempts
  <2>1. Finish(m, "failed")
    BY <1>4 DEF SendFails
  <2> QED
    BY <1>1, <1>3, <2>1, FinishKeeps
<1>5. CASE ~(attempts[m] + 1 >= MaxAttempts)
  <2>1. /\ Mark(m, "retrying") /\ sending' = {} /\ delayed' = delayed \cup {Waits(m)}
        /\ UNCHANGED <<request, queued, jobs, flushing, windows>>
    BY <1>5 DEF SendFails, Idle
  <2>2. /\ mailLog' \in [Mails -> {"none", "queued", "retrying", "sent", "failed"}]
        /\ losses' \in 0 .. MaxLosses /\ forgotten' \subseteq Mails
        /\ \A n \in Mails \ {m} : mailLog'[n] = mailLog[n]
        /\ mailLog'[m] \in {"retrying", mailLog[m]}
    BY <1>1, <2>1, MarkKeeps
  <2>3. /\ delayed' \subseteq Delays
        /\ Books(queued, jobs, LateOf(delayed'), flushing, sending', Reserved)
        /\ Apart(jobs, delayed', flushing, sending')
        /\ \A n \in Mails : InHand(jobs, delayed', flushing, sending', n) =>
                              InHand(jobs, delayed, flushing, sending, n)
    BY <1>1, <2>1, DelayedAgain
  <2>4. MailShape'
    BY <1>1, <1>3, <2>1, <2>2, <2>3 DEF MailShape
  <2>5. Reserved' = Reserved
    BY <2>1 DEF Reserved
  <2>6. ASSUME NEW n \in Mails PROVE MailKept(n)
    <3>1. CASE n # m
      BY <1>3, <2>1, <2>2, <2>3, <3>1, MailUntouched DEF MailInv
    <3>2. CASE n = m
      <4>1. /\ request'[m] = "accepted" /\ mailLog'[m] \in {"queued", "retrying"}
            /\ attempts'[m] < MaxAttempts
        BY <1>2, <1>3, <1>5, <2>1, <2>2, MailAssumption DEF MailAssumption
      <4> QED
        BY <3>2, <4>1 DEF MailKept, MailFits
    <3> QED
      BY <3>1, <3>2
  <2> QED
    BY <2>1, <2>3, <2>4, <2>5, <2>6, MailInvNext
<1> QED
  BY <1>4, <1>5

LEMMA RipenKeeps == ASSUME MailInv, Ripen PROVE MailInv'
<1>1. PICK d \in delayed : delayed' = (delayed \ {d}) \cup {[d EXCEPT !.due = TRUE]}
  BY DEF Ripen
<1>2. /\ UNCHANGED <<mailLog, request, queued, jobs, flushing, sending, attempts, allowed, windows, losses, forgotten>>
      /\ MailShape /\ Apart(jobs, delayed, flushing, sending)
  BY DEF Ripen, MailInv
<1>3. PICK e : e = [d EXCEPT !.due = TRUE]
  OBVIOUS
<1>4. e \in Delays /\ e.mail = d.mail /\ delayed' = (delayed \ {d}) \cup {e}
  BY <1>1, <1>2, <1>3 DEF MailShape, Delays
<1>5. LateOf(delayed') = LateOf(delayed) /\ delayed' \subseteq Delays
  BY <1>2, <1>4 DEF LateOf, MailShape
<1>6. \A x, y \in delayed' : x.mail = y.mail => x = y
  BY <1>2, <1>4 DEF Apart
<1>7. Apart(jobs', delayed', flushing', sending')
  BY <1>2, <1>5, <1>6 DEF Apart
<1>8. \A n \in Mails : InHand(jobs', delayed', flushing', sending', n) =>
                         InHand(jobs, delayed, flushing, sending, n)
  BY <1>2, <1>5 DEF InHand
<1>9. Books(queued, jobs', LateOf(delayed'), flushing', sending', Reserved)
  BY <1>2, <1>5 DEF MailInv
<1> QED
  BY <1>2, <1>5, <1>7, <1>8, <1>9, MovedKeeps DEF MailShape

LEMMA FlushTakeKeeps == ASSUME MailInv, FlushTake PROVE MailInv'
<1>1. /\ flushing = {} /\ flushing' = Ripe /\ delayed' = {d \in delayed : ~d.due}
      /\ UNCHANGED <<mailLog, request, queued, jobs, sending, attempts, allowed, windows, losses, forgotten>>
      /\ MailShape /\ Apart(jobs, delayed, flushing, sending)
  BY DEF FlushTake, MailInv
<1>2. /\ LateOf(delayed) = Ripe \cup LateOf(delayed') /\ Ripe \cap LateOf(delayed') = {}
      /\ delayed' \subseteq delayed
  BY <1>1 DEF Ripe, LateOf, Apart
<1>3. Ripe \subseteq Mails
  BY <1>1 DEF Ripe, MailShape, Delays
<1>4. Books(queued, jobs', LateOf(delayed'), flushing', sending', Reserved)
  <2>1. Books(queued, jobs, LateOf(delayed), {}, sending, Reserved)
    BY <1>1 DEF MailInv
  <2> QED
    BY <1>1, <1>2, <2>1, BooksFlush DEF MailShape
<1>5. Apart(jobs', delayed', flushing', sending')
  BY <1>1, <1>2 DEF Apart
<1>6. \A n \in Mails : InHand(jobs', delayed', flushing', sending', n) =>
                         InHand(jobs, delayed, flushing, sending, n)
  BY <1>1, <1>2 DEF InHand
<1> QED
  BY <1>1, <1>2, <1>3, <1>4, <1>5, <1>6, MovedKeeps DEF MailShape

LEMMA FlushOfferKeeps == ASSUME MailInv, NEW m \in Mails, FlushOffer(m) PROVE MailInv'
<1>1. /\ m \in flushing /\ flushing' = flushing \ {m}
      /\ UNCHANGED <<mailLog, request, queued, sending, attempts, allowed, windows, losses, forgotten>>
      /\ MailShape /\ Apart(jobs, delayed, flushing, sending)
      /\ Books(queued, jobs, LateOf(delayed), flushing, sending, Reserved)
      /\ jobs \in Seq(Mails) /\ delayed \subseteq Delays
  BY DEF FlushOffer, MailInv, MailShape
<1>2. m \notin LateOf(delayed) /\ ~InHand(jobs, delayed, flushing', sending, m)
  BY <1>1 DEF Apart, InHand
<1>3. Apart(jobs, delayed, flushing', sending)
  BY <1>1, ApartFewer
<1>4. CASE Len(jobs) < QueueSize
  <2>1. jobs' = Append(jobs, m) /\ delayed' = delayed
    BY <1>4 DEF FlushOffer
  <2>2. jobs' \in Seq(Mails) /\ Len(jobs') = Len(jobs) + 1
    BY <1>1, <2>1
  <2>3. Len(jobs') <= QueueSize
    BY <1>1, <1>4, <2>2, MailAssumption DEF MailAssumption
  <2>4. Books(queued, jobs', LateOf(delayed'), flushing', sending', Reserved)
    BY <1>1, <1>2, <2>1, BooksFlushOffer
  <2>5. Apart(jobs', delayed', flushing', sending')
    BY <1>1, <1>2, <1>3, <2>1, ApartAppended
  <2>6. \A n \in Mails : InHand(jobs', delayed', flushing', sending', n) =>
                           InHand(jobs, delayed, flushing, sending, n)
    BY <1>1, <2>1, HoldsAppended DEF InHand
  <2> QED
    BY <1>1, <2>1, <2>2, <2>3, <2>4, <2>5, <2>6, MovedKeeps DEF MailShape
<1>5. CASE ~(Len(jobs) < QueueSize)
  <2>1. delayed' = delayed \cup {Waits(m)} /\ jobs' = jobs
    BY <1>5 DEF FlushOffer
  <2>2. delayed' \subseteq Delays /\ LateOf(delayed') = LateOf(delayed) \cup {m}
    BY <1>1, <2>1, LateAdded, WaitsIsDelay
  <2>3. Books(queued, jobs', LateOf(delayed'), flushing', sending', Reserved)
    <3>1. Books(queued, jobs, LateOf(delayed) \cup {m}, flushing \ {m}, sending, Reserved)
      BY <1>1, <1>2, BooksFlushOffer
    <3> QED
      BY <1>1, <2>1, <2>2, <3>1
  <2>4. Apart(jobs', delayed', flushing', sending')
    BY <1>1, <1>2, <1>3, <2>1, ApartDelayed
  <2>5. \A n \in Mails : InHand(jobs', delayed', flushing', sending', n) =>
                           InHand(jobs, delayed, flushing, sending, n)
    BY <1>1, <2>1, <2>2 DEF InHand
  <2> QED
    BY <1>1, <2>1, <2>2, <2>3, <2>4, <2>5, MovedKeeps DEF MailShape
<1> QED
  BY <1>4, <1>5

LEMMA WindowMovesKeeps == ASSUME MailInv, WindowMoves \/ UNCHANGED mailVars PROVE MailInv'
<1>1. /\ UNCHANGED <<mailLog, request, queued, jobs, delayed, flushing, sending, attempts, losses, forgotten>>
      /\ allowed' \in 0 .. PerWindow /\ windows' \in 0 .. MaxWindows
  BY MailAssumption DEF MailAssumption, WindowMoves, mailVars, MailInv, MailShape
<1> QED
  BY <1>1, MovedKeeps DEF MailInv, MailShape

LEMMA NothingInHand ==
  ASSUME NEW m
  PROVE  ~InHand(<<>>, {}, {}, {}, m) /\ Apart(<<>>, {}, {}, {}) /\ LateOf({}) = {}
<1>1. LateOf({}) = {} /\ Len(<<>>) = 0
  BY DEF LateOf
<1>2. ~Holds(<<>>, m) /\ \A i \in 1 .. Len(<<>>) : FALSE
  BY <1>1 DEF Holds
<1> QED
  BY <1>1, <1>2 DEF InHand, Apart, Holds

LEMMA EmptyBooks == Books(0, <<>>, {}, {}, {}, {})
<1>1. IsFiniteSet({}) /\ Cardinality({}) = 0 /\ Len(<<>>) = 0
  BY NoneAndOne
<1> QED
  BY <1>1 DEF Books

LEMMA MailCrashKeeps == ASSUME MailInv, MailCrash PROVE MailInv'
<1>1. /\ losses < MaxLosses /\ losses' = losses + 1 /\ forgotten' \subseteq forgotten \cup Mails
      /\ request' = [m \in Mails |-> IF request[m] = "new" THEN "new" ELSE "over"]
      /\ queued' = 0 /\ jobs' = <<>> /\ delayed' = {} /\ flushing' = {} /\ sending' = {}
      /\ allowed' = PerWindow /\ UNCHANGED <<mailLog, attempts, windows>> /\ MailShape
  BY DEF MailCrash, Idle, MailInv
<1>2. <<>> \in Seq(Mails) /\ Len(<<>>) = 0
  OBVIOUS
<1>3. MailShape'
  BY <1>1, <1>2, MailAssumption DEF MailAssumption, MailShape
<1>4. Reserved' = {}
  BY <1>1 DEF Reserved
<1>5. Books(queued', jobs', LateOf(delayed'), flushing', sending', Reserved')
  BY <1>1, <1>4, EmptyBooks, NothingInHand
<1>6. Apart(jobs', delayed', flushing', sending')
  BY <1>1, NothingInHand
<1>7. ASSUME NEW n \in Mails PROVE MailKept(n)
  <2>1. ~InHand(jobs', delayed', flushing', sending', n)
    BY <1>1, NothingInHand
  <2>2. request'[n] \in {"new", "over"} /\ (request'[n] = "new" => attempts'[n] = 0)
    BY <1>1 DEF MailInv, MailFits
  <2> QED
    BY <2>1, <2>2 DEF MailKept, MailFits
<1> QED
  BY <1>3, <1>5, <1>6, <1>7, MailInvNext

LEMMA MailStarts == MailInit => MailInv
<1> SUFFICES ASSUME MailInit PROVE MailInv
  OBVIOUS
<1>1. /\ jobs = <<>> /\ delayed = {} /\ flushing = {} /\ sending = {} /\ queued = 0
      /\ <<>> \in Seq(Mails) /\ Len(<<>>) = 0
  BY DEF MailInit, Idle
<1>2. MailShape
  BY <1>1, MailAssumption DEF MailAssumption, MailInit, MailShape
<1>3. Reserved = {}
  BY DEF MailInit, Reserved
<1>4. \A m \in Mails : MailFits(m)
  BY <1>1, NothingInHand DEF MailInit, MailFits
<1> QED
  BY <1>1, <1>2, <1>3, <1>4, NothingInHand, EmptyBooks DEF MailInv

LEMMA MailSteps == MailInv /\ [MailNext]_mailVars => MailInv'
BY CreateLogKeeps, ReserveKeeps, OfferKeeps, FlushOfferKeeps, TakeKeeps, RateLimitedKeeps,
   SentKeeps, SendFailsKeeps, RipenKeeps, FlushTakeKeeps, WindowMovesKeeps, MailCrashKeeps
DEF MailNext, Enqueue, Process

\* The counter of reservations counts the mails in hand exactly, and no mail is in two
\* places or in hand once its row says sent or failed, through refusals, retries, lost
\* marks and crashes (email_worker.go: Enqueue, process, flushDue, release).
THEOREM MailBooksBalance == MailSpec => []MailIsAccountedFor
BY MailStarts, MailSteps, MailInvMeans, PTL DEF MailSpec

-----------------------------------------------------------------------------
(***************************************************************************)
(* The entries of the audit log.                                           *)
(***************************************************************************)

Occurs(r, c) == \E i \in 1..Len(c) : c[i] = r
InChannel(r) == Occurs(r, channel)

\* An entry that was accepted is somewhere on its way to the database.
BufferedIsOnItsWay == \A r \in Requests : entry[r] = "buffered" => r \in storing \/ InChannel(r)

\* Where main is says whether the channel is open, and after the exit nothing is
\* on its way any more.
StopStages ==
  /\ ~open <=> server \in {"closed", "exited"}
  /\ server = "exited" => WriterDone

\* Handlers that run once the drain is over have outlived it.
RunnersOverran == server \in {"closing", "closed", "exited"} /\ Running # {} => overrun

\* Nothing comes too late while the channel is open.
OpenTakesAll == open => \A r \in Requests : entry[r] # "too late"

\* FlushedBeforeExit and TooLateOnlyAfterDeadline speak of the end; this is what
\* leads up to it.
AInv ==
  /\ AuditTypeOK /\ BufferedIsOnItsWay /\ StopStages /\ RunnersOverran
  /\ TooLateOnlyAfterDeadline /\ OpenTakesAll
  /\ \A r, q \in storing : r = q

LEMMA NothingOccursInEmpty == \A r : ~Occurs(r, <<>>)
BY DEF Occurs

LEMMA OccursAfterAppend ==
  ASSUME NEW c \in Seq(Requests), NEW r \in Requests, NEW q, Occurs(q, c) \/ q = r
  PROVE  Occurs(q, Append(c, r))
<1>1. /\ Len(Append(c, r)) = Len(c) + 1 /\ Len(c) \in Nat
      /\ \A i \in 1..Len(c) : Append(c, r)[i] = c[i] /\ Append(c, r)[Len(c) + 1] = r
  BY AppendProperties, LenProperties
<1>2. Append(c, r)[Len(c) + 1] = r
  BY AppendProperties
<1>3. CASE q = r
  BY <1>1, <1>2, <1>3 DEF Occurs
<1>4. CASE Occurs(q, c)
  <2>1. PICK i \in 1..Len(c) : c[i] = q
    BY <1>4 DEF Occurs
  <2>2. i \in 1..Len(Append(c, r)) /\ Append(c, r)[i] = q
    BY <1>1, <2>1
  <2> QED
    BY <2>2 DEF Occurs
<1> QED
  BY <1>3, <1>4

LEMMA OccursBehindHead ==
  ASSUME NEW c \in Seq(Requests), c # <<>>, NEW q, Occurs(q, c)
  PROVE  q = Head(c) \/ Occurs(q, Tail(c))
<1>1. /\ Len(Tail(c)) = Len(c) - 1 /\ Len(c) \in Nat
      /\ \A i \in 1..Len(Tail(c)) : Tail(c)[i] = c[i + 1]
  BY HeadTailProperties, LenProperties
<1>2. Head(c) = c[1]
  BY DEF Head
<1>3. PICK i \in 1..Len(c) : c[i] = q
  BY DEF Occurs
<1>4. CASE i = 1
  BY <1>2, <1>3, <1>4
<1>5. CASE i # 1
  <2>1. i - 1 \in 1..Len(Tail(c)) /\ (i - 1) + 1 = i
    BY <1>1, <1>3, <1>5
  <2>2. Tail(c)[i - 1] = q
    BY <1>1, <1>3, <2>1
  <2> QED
    BY <2>1, <2>2 DEF Occurs
<1> QED
  BY <1>4, <1>5

LEMMA AuditStarts == AuditInit => AInv
<1> SUFFICES ASSUME AuditInit PROVE AInv
  OBVIOUS
<1>1. channel \in Seq(Requests) /\ Len(channel) <= BufferSize
  BY EmptySeq DEF AuditInit
<1>2. AuditTypeOK
  BY <1>1 DEF AuditInit, AuditTypeOK
<1>3. /\ BufferedIsOnItsWay /\ StopStages /\ RunnersOverran
      /\ TooLateOnlyAfterDeadline /\ OpenTakesAll
  BY DEF AuditInit, BufferedIsOnItsWay, StopStages, RunnersOverran, TooLateOnlyAfterDeadline,
         OpenTakesAll
<1> QED
  BY <1>2, <1>3 DEF AuditInit, AInv

\* What a request, the channel and the goroutine do leaves main where it is.
LEMMA ServingKeeps ==
  ASSUME AInv, UNCHANGED <<server, overrun, open>>, Running' \subseteq Running,
         AuditTypeOK', BufferedIsOnItsWay', \A r, q \in storing' : r = q,
         server # "exited",
         \A r \in Requests : entry'[r] = "too late" => entry[r] = "too late" \/ (overrun /\ ~open)
  PROVE  AInv'
<1>1. StopStages' /\ RunnersOverran' /\ TooLateOnlyAfterDeadline' /\ OpenTakesAll'
  BY DEF AInv, StopStages, RunnersOverran, TooLateOnlyAfterDeadline, OpenTakesAll
<1> QED
  BY <1>1 DEF AInv

LEMMA WriteKeeps == ASSUME AInv, NEW r \in Requests, server # "exited", Write(r) PROVE AInv'
<1>1. /\ served[r] = "running" /\ served' = [served EXCEPT ![r] = "answered"]
      /\ UNCHANGED <<server, overrun, open, storing>>
  BY DEF Write, Running
<1>2. AuditTypeOK /\ BufferedIsOnItsWay /\ channel \in Seq(Requests)
  BY DEF AInv, AuditTypeOK
<1>3. Running' \subseteq Running /\ r \in Running
  BY <1>1, <1>2 DEF Running, AuditTypeOK
<1>4. CASE ~open
  <2>1. entry' = [entry EXCEPT ![r] = "too late"] /\ channel' = channel
    BY <1>4 DEF Write
  <2>2. overrun
    BY <1>3, <1>4 DEF AInv, StopStages, RunnersOverran
  <2>3. AuditTypeOK'
    BY <1>1, <1>2, <2>1 DEF AuditTypeOK
  <2>4. BufferedIsOnItsWay'
    BY <1>1, <1>2, <2>1 DEF BufferedIsOnItsWay, InChannel, AuditTypeOK
  <2> QED
    BY <1>1, <1>3, <1>4, <2>2, <2>3, <2>4, ServingKeeps DEF AInv
<1>5. CASE open /\ Len(channel) < BufferSize
  <2>1. entry' = [entry EXCEPT ![r] = "buffered"] /\ channel' = Append(channel, r)
    BY <1>5 DEF Write
  <2>2. channel' \in Seq(Requests) /\ Len(channel') <= BufferSize
    BY <1>2, <1>5, <2>1, AppendProperties, LenProperties
  <2>3. AuditTypeOK'
    BY <1>1, <1>2, <2>1, <2>2 DEF AuditTypeOK
  <2>4. ASSUME NEW q \in Requests, entry'[q] = "buffered", q \notin storing'
        PROVE  InChannel(q)'
    <3>1. q = r \/ Occurs(q, channel)
      BY <1>1, <1>2, <2>1, <2>4 DEF BufferedIsOnItsWay, InChannel, AuditTypeOK
    <3> QED
      BY <1>2, <2>1, <3>1, OccursAfterAppend DEF InChannel
  <2>5. BufferedIsOnItsWay'
    BY <2>4 DEF BufferedIsOnItsWay
  <2>6. \A q \in Requests : entry'[q] = "too late" => entry[q] = "too late"
    BY <1>2, <2>1 DEF AuditTypeOK
  <2> QED
    BY <1>1, <1>3, <2>3, <2>5, <2>6, ServingKeeps DEF AInv
<1>6. CASE open /\ ~(Len(channel) < BufferSize)
  <2>1. entry' = [entry EXCEPT ![r] = "dropped"] /\ channel' = channel
    BY <1>6 DEF Write
  <2>2. AuditTypeOK'
    BY <1>1, <1>2, <2>1 DEF AuditTypeOK
  <2>3. BufferedIsOnItsWay'
    BY <1>1, <1>2, <2>1 DEF BufferedIsOnItsWay, InChannel, AuditTypeOK
  <2>4. \A q \in Requests : entry'[q] = "too late" => entry[q] = "too late"
    BY <1>2, <2>1 DEF AuditTypeOK
  <2> QED
    BY <1>1, <1>3, <2>2, <2>3, <2>4, ServingKeeps DEF AInv
<1> QED
  BY <1>4, <1>5, <1>6

LEMMA ReceiveKeeps == ASSUME AInv, server # "exited", Receive PROVE AInv'
<1>1. /\ storing = {} /\ channel # <<>> /\ storing' = {Head(channel)} /\ channel' = Tail(channel)
      /\ UNCHANGED <<server, overrun, served, entry, open>>
  BY DEF Receive
<1>2. AuditTypeOK /\ BufferedIsOnItsWay /\ channel \in Seq(Requests) /\ Len(channel) <= BufferSize
  BY DEF AInv, AuditTypeOK
<1>3. channel' \in Seq(Requests) /\ Len(channel') <= BufferSize /\ Head(channel) \in Requests
  BY <1>1, <1>2, HeadTailProperties, LenProperties
<1>4. AuditTypeOK'
  BY <1>1, <1>2, <1>3 DEF AuditTypeOK
<1>5. ASSUME NEW q \in Requests, entry'[q] = "buffered" PROVE q \in storing' \/ InChannel(q)'
  <2>1. Occurs(q, channel)
    BY <1>1, <1>2, <1>5 DEF BufferedIsOnItsWay, InChannel
  <2> QED
    BY <1>1, <1>2, <2>1, OccursBehindHead DEF InChannel
<1>6. BufferedIsOnItsWay'
  BY <1>5 DEF BufferedIsOnItsWay
<1>7. Running' = Running
  BY <1>1 DEF Running
<1> QED
  BY <1>1, <1>4, <1>6, <1>7, ServingKeeps

LEMMA StoreKeeps == ASSUME AInv, NEW r \in Requests, server # "exited", Store(r) PROVE AInv'
<1>1. PICK s \in {"stored", "failed"} : entry' = [entry EXCEPT ![r] = s]
  BY DEF Store
<1>2. r \in storing /\ storing' = {} /\ UNCHANGED <<server, overrun, served, channel, open>>
  BY DEF Store
<1>3. AuditTypeOK /\ BufferedIsOnItsWay /\ \A q \in storing : q = r
  BY <1>2 DEF AInv
<1>4. AuditTypeOK'
  BY <1>1, <1>2, <1>3 DEF AuditTypeOK
<1>5. BufferedIsOnItsWay'
  BY <1>1, <1>2, <1>3 DEF BufferedIsOnItsWay, InChannel, AuditTypeOK
<1>6. \A q \in Requests : entry'[q] = "too late" => entry[q] = "too late"
  BY <1>1, <1>3 DEF AuditTypeOK
<1>7. Running' = Running
  BY <1>2 DEF Running
<1> QED
  BY <1>2, <1>4, <1>5, <1>6, <1>7, ServingKeeps

LEMMA AcceptKeeps == ASSUME AInv, NEW r \in Requests, Accept(r) PROVE AInv'
<1>1. /\ server = "up" /\ UNCHANGED <<server, overrun, entry, channel, open, storing>>
      /\ served' = [served EXCEPT ![r] = "running"]
  BY DEF Accept
<1>2. AuditTypeOK' /\ BufferedIsOnItsWay' /\ TooLateOnlyAfterDeadline' /\ OpenTakesAll'
  BY <1>1 DEF AInv, AuditTypeOK, BufferedIsOnItsWay, InChannel, TooLateOnlyAfterDeadline, OpenTakesAll
<1>3. StopStages' /\ RunnersOverran'
  BY <1>1 DEF AInv, StopStages, RunnersOverran
<1> QED
  BY <1>1, <1>2, <1>3 DEF AInv

\* The steps of main leave the entries alone.
LEMMA StopKeeps ==
  ASSUME AInv, Signal \/ Drained \/ CloseChannel \/ Exit
  PROVE  AInv'
<1>1. UNCHANGED <<served, entry, channel, storing>> /\ Running' = Running
  BY DEF Signal, Drained, CloseChannel, Exit, Running
<1>2. AuditTypeOK' /\ BufferedIsOnItsWay' /\ \A r, q \in storing' : r = q
  BY <1>1 DEF AInv, Signal, Drained, CloseChannel, Exit, AuditTypeOK, BufferedIsOnItsWay, InChannel
<1>3. CASE Signal
  <2>1. StopStages' /\ RunnersOverran' /\ TooLateOnlyAfterDeadline' /\ OpenTakesAll'
    BY <1>1, <1>3 DEF AInv, Signal, StopStages, RunnersOverran, TooLateOnlyAfterDeadline, OpenTakesAll
  <2> QED
    BY <1>2, <2>1 DEF AInv
<1>4. CASE Drained
  <2>1. open /\ open' = open /\ server' = "closing" /\ overrun' = (Running # {})
    BY <1>4 DEF AInv, Drained, StopStages
  <2>2. StopStages' /\ RunnersOverran' /\ TooLateOnlyAfterDeadline' /\ OpenTakesAll'
    BY <1>1, <2>1 DEF AInv, StopStages, RunnersOverran, TooLateOnlyAfterDeadline, OpenTakesAll
  <2> QED
    BY <1>2, <2>2 DEF AInv
<1>5. CASE CloseChannel
  <2>1. ~open' /\ server' = "closed" /\ server = "closing" /\ overrun' = overrun
    BY <1>5 DEF CloseChannel
  <2>2. StopStages' /\ RunnersOverran' /\ TooLateOnlyAfterDeadline' /\ OpenTakesAll'
    BY <1>1, <2>1 DEF AInv, StopStages, RunnersOverran, TooLateOnlyAfterDeadline, OpenTakesAll
  <2> QED
    BY <1>2, <2>2 DEF AInv
<1>6. CASE Exit
  <2>1. /\ WriterDone /\ open' = open /\ server = "closed" /\ server' = "exited"
        /\ overrun' = overrun
    BY <1>6 DEF Exit
  <2>2. WriterDone'
    BY <1>1, <2>1 DEF WriterDone
  <2>3. StopStages' /\ RunnersOverran' /\ TooLateOnlyAfterDeadline' /\ OpenTakesAll'
    BY <1>1, <2>1, <2>2 DEF AInv, StopStages, RunnersOverran, TooLateOnlyAfterDeadline, OpenTakesAll
  <2> QED
    BY <1>2, <2>3 DEF AInv
<1> QED
  BY <1>3, <1>4, <1>5, <1>6

LEMMA AuditSteps == AInv /\ [AuditNext]_auditVars => AInv'
<1> SUFFICES ASSUME AInv, [AuditNext]_auditVars PROVE AInv'
  OBVIOUS
<1>1. CASE UNCHANGED auditVars
  BY <1>1 DEF auditVars, AInv, AuditTypeOK, BufferedIsOnItsWay, InChannel, StopStages, WriterDone,
              RunnersOverran, Running, TooLateOnlyAfterDeadline, OpenTakesAll
<1> QED
  BY <1>1, AcceptKeeps, WriteKeeps, StoreKeeps, ReceiveKeeps, StopKeeps DEF AuditNext

\* Whatever the number of requests and the size of the buffer, the stop of the
\* server loses no entry that reached the channel, and an entry comes too late only
\* when its handler outlived the deadline (audit_log.go, cmd/server/main.go).
THEOREM StopLosesNothing == AuditSpec => []StopIsOrderly
<1>1. AInv => StopIsOrderly
  <2> SUFFICES ASSUME AInv PROVE StopIsOrderly
    OBVIOUS
  <2>1. ASSUME server = "exited", NEW r \in Requests PROVE entry[r] # "buffered"
    <3>1. storing = {} /\ channel = <<>>
      BY <2>1 DEF AInv, StopStages, WriterDone
    <3>2. ~InChannel(r)
      BY <3>1, NothingOccursInEmpty DEF InChannel
    <3> QED
      BY <3>1, <3>2 DEF AInv, BufferedIsOnItsWay
  <2> QED
    BY <2>1 DEF AInv, StopIsOrderly, FlushedBeforeExit
<1> QED
  BY <1>1, AuditStarts, AuditSteps, PTL DEF AuditSpec
=============================================================================
