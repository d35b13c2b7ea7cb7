------------------------------ MODULE FairLock ------------------------------
(* pkg/cache/lock_fair.go: AcquireFair queues for a Redis lock with a ticket   *)
(* in a list and a lease key per ticket.  Every Redis call is a step of its    *)
(* own, and may fail; whether a failed call had its effect is open.  The       *)
(* compare-and-pop script of lock_lua.go is one call.  A waiter makes one      *)
(* attempt, since every attempt has a ticket of its own.                       *)
EXTENDS Naturals, Sequences, SequencesExt

CONSTANTS
  Waiters,       \* callers of AcquireFair, and their tickets
  Unheld,        \* the lock's key, or the head of the list, is absent
  MaxTroubles    \* bound: processes that die while they wait or hold, leases and
                 \* locks that run out under a living owner, calls that fail

ASSUME FairLockAssumption ==
  Unheld \notin Waiters /\ MaxTroubles \in Nat

VARIABLES
  queue,         \* the list lock:<name>:wait
  lease,         \* tickets whose lease key exists
  owner,         \* who holds the lock
  waiter,        \* where each caller is, and the head it last saw
  expiring,      \* the list's TTL is older than its last ticket
  troubles,
  arrived,       \* tickets in the order of their RPUSH
  failed         \* waiters whose queueing, leaving or locking met a failed call

fairVars == <<queue, lease, owner, waiter, expiring, troubles, arrived, failed>>

\* Between RPUSH and the end of the waiting; the pause of 40 ms is part of "look".
Waiting == {"look", "check", "reclaim", "relook", "try"}
Served == {"got", "taken", "holding"}
Stages == Waiting \cup Served \cup {"start", "push", "quit", "unlease", "end", "dead"}
InLine(w) == waiter[w].at \in Waiting

HeadOf(q) == IF q = <<>> THEN Unheld ELSE Head(q)
Step(w, stage, h) == waiter' = [waiter EXCEPT ![w] = [at |-> stage, head |-> h]]
To(w, stage) == Step(w, stage, Unheld)
\* LREM of one occurrence.
Without(q, w) ==
  IF Contains(q, w) THEN RemoveAt(q, Min({i \in 1 .. Len(q) : q[i] = w})) ELSE q
Popped(q, h) == IF HeadOf(q) = h THEN Tail(q) ELSE q

Trouble == troubles < MaxTroubles /\ troubles' = troubles + 1
FailsOf(w) == Trouble /\ failed' = failed \cup {w}

FairInit ==
  /\ queue = <<>> /\ lease = {} /\ owner = Unheld /\ expiring = FALSE
  /\ waiter = [w \in Waiters |-> [at |-> "start", head |-> Unheld]]
  /\ troubles = 0 /\ arrived = <<>> /\ failed = {}

SetLease(w) ==
  /\ waiter[w].at = "start" /\ To(w, "push")
  /\ lease' = lease \cup {w}
  /\ UNCHANGED <<queue, owner, expiring, troubles, arrived, failed>>

SetLeaseFails(w) ==
  /\ waiter[w].at = "start" /\ To(w, "end") /\ FailsOf(w)
  /\ lease' \in {lease, lease \cup {w}}
  /\ UNCHANGED <<queue, owner, expiring, arrived>>

JoinLine(w) == queue' = Append(queue, w) /\ arrived' = Append(arrived, w)

\* RPUSH, and EXPIRE with a TTL that outlives the lease.
Push(w) ==
  /\ waiter[w].at = "push" /\ To(w, "look")
  /\ JoinLine(w) /\ expiring' = FALSE
  /\ UNCHANGED <<lease, owner, troubles, failed>>

\* The EXPIRE fails, which is ignored, or comes when the list just ran out: until
\* the next push the list has the TTL of an earlier one.
ExpireFails(w) ==
  /\ waiter[w].at = "push" /\ To(w, "look") /\ FailsOf(w)
  /\ JoinLine(w) /\ expiring' = (queue # <<>>)
  /\ UNCHANGED <<lease, owner>>

\* The RPUSH fails: only the lease is taken back.
PushFails(w) ==
  /\ waiter[w].at = "push" /\ To(w, "unlease") /\ FailsOf(w)
  /\ UNCHANGED <<queue, arrived>> \/ JoinLine(w)
  /\ UNCHANGED <<lease, owner, expiring>>

\* Faulty: whoever is in line tries the lock.
FacingAnyHead(w, h) == IF h = Unheld THEN To(w, "look") ELSE To(w, "try")

\* Where the loop goes on with head h.
Facing(w, h) ==
  IF h = Unheld THEN To(w, "look") ELSE IF h = w THEN To(w, "try") ELSE Step(w, "check", h)

Look(w) ==
  /\ waiter[w].at = "look" /\ Facing(w, HeadOf(queue))
  /\ UNCHANGED <<queue, lease, owner, expiring, troubles, arrived, failed>>

\* Faulty: the lease of the head is not asked for.
CheckLeaseNever(w) ==
  /\ waiter[w].at = "check" /\ Step(w, "relook", waiter[w].head)
  /\ UNCHANGED <<queue, lease, owner, expiring, troubles, arrived, failed>>

(* reclaimStaleHead: EXISTS on the lease of the head, then the script *)
CheckLease(w) ==
  /\ waiter[w].at = "check"
  /\ Step(w, IF waiter[w].head \in lease THEN "relook" ELSE "reclaim", waiter[w].head)
  /\ UNCHANGED <<queue, lease, owner, expiring, troubles, arrived, failed>>

\* Faulty: the head is popped without comparing it.
ReclaimAnyHead(w) ==
  /\ waiter[w].at = "reclaim" /\ Step(w, "relook", waiter[w].head)
  /\ queue' = IF queue = <<>> THEN queue ELSE Tail(queue)
  /\ UNCHANGED <<lease, owner, expiring, troubles, arrived, failed>>

Reclaim(w) ==
  /\ waiter[w].at = "reclaim" /\ Step(w, "relook", waiter[w].head)
  /\ queue' = Popped(queue, waiter[w].head)
  /\ UNCHANGED <<lease, owner, expiring, troubles, arrived, failed>>

\* Either call fails, which is ignored.
ReclaimFails(w) ==
  /\ waiter[w].at \in {"check", "reclaim"} /\ Step(w, "relook", waiter[w].head) /\ Trouble
  /\ \/ UNCHANGED queue
     \/ waiter[w].at = "reclaim" /\ queue' = Popped(queue, waiter[w].head)
  /\ UNCHANGED <<lease, owner, expiring, arrived, failed>>

Relook(w) ==
  /\ waiter[w].at = "relook"
  /\ IF HeadOf(queue) = waiter[w].head THEN To(w, "look") ELSE Facing(w, HeadOf(queue))
  /\ UNCHANGED <<queue, lease, owner, expiring, troubles, arrived, failed>>

TryLock(w) ==
  /\ waiter[w].at = "try"
  /\ IF owner = Unheld THEN owner' = w /\ To(w, "got") ELSE To(w, "look") /\ UNCHANGED owner
  /\ UNCHANGED <<queue, lease, expiring, troubles, arrived, failed>>

\* The script's answer is lost: the caller owns the lock and is not told.
TryFails(w) ==
  /\ waiter[w].at = "try" /\ owner = Unheld /\ To(w, "quit") /\ FailsOf(w)
  /\ owner' = w
  /\ UNCHANGED <<queue, lease, expiring, arrived>>

\* The deadline, the caller's cancellation, or an error of Redis.
GiveUp(w) ==
  /\ waiter[w].at \in {"look", "relook", "try"} /\ To(w, "quit")
  /\ UNCHANGED <<queue, lease, owner, expiring, troubles, arrived, failed>>

(* dropWaitTicket: LREM, then DEL; of a waiter that gives up or was served *)
TakeTicketOff(w) ==
  /\ waiter[w].at \in {"quit", "got"}
  /\ To(w, IF waiter[w].at = "got" THEN "taken" ELSE "unlease")
  /\ queue' = Without(queue, w)
  /\ UNCHANGED <<lease, owner, expiring, troubles, arrived, failed>>

\* Whoever was served gives the lock back; whoever gave up does no more.
TakeOffFails(w) ==
  /\ waiter[w].at \in {"quit", "got"} /\ FailsOf(w)
  /\ To(w, IF waiter[w].at = "got" THEN "holding" ELSE "end")
  /\ queue' \in {queue, Without(queue, w)}
  /\ UNCHANGED <<lease, owner, expiring, arrived>>

\* A caller that went away meanwhile gives the lock back at once, any other one later.
AfterDrop(w) == To(w, IF waiter[w].at = "taken" THEN "holding" ELSE "end")

DropLease(w) ==
  /\ waiter[w].at \in {"taken", "unlease"} /\ AfterDrop(w)
  /\ lease' = lease \ {w}
  /\ UNCHANGED <<queue, owner, expiring, troubles, arrived, failed>>

\* An error of DEL is ignored.
DropLeaseFails(w) ==
  /\ waiter[w].at \in {"taken", "unlease"} /\ AfterDrop(w) /\ FailsOf(w)
  /\ lease' \in {lease, lease \ {w}}
  /\ UNCHANGED <<queue, owner, expiring, arrived>>

GivenBack(w) == IF owner = w THEN Unheld ELSE owner

Unlock(w) ==
  /\ waiter[w].at = "holding" /\ To(w, "end")
  /\ owner' = GivenBack(w)
  /\ UNCHANGED <<queue, lease, expiring, troubles, arrived, failed>>

UnlockFails(w) ==
  /\ waiter[w].at = "holding" /\ To(w, "end") /\ FailsOf(w)
  /\ owner' \in {owner, GivenBack(w)}
  /\ UNCHANGED <<queue, lease, expiring, arrived>>

Dies(w) ==
  /\ waiter[w].at \notin {"start", "end", "dead"} /\ Trouble
  /\ To(w, "dead")
  /\ UNCHANGED <<queue, lease, owner, expiring, arrived, failed>>

\* The lease outlives the deadline by a second: it ends under a waiter only when
\* the waiter is that slow, and otherwise behind one that is gone.
LeaseEnds(w) ==
  /\ w \in lease /\ ~InLine(w) /\ waiter[w].at # "push"
  /\ lease' = lease \ {w}
  /\ UNCHANGED <<queue, owner, waiter, expiring, troubles, arrived, failed>>

LeaseEndsEarly(w) ==
  /\ w \in lease /\ InLine(w) /\ Trouble
  /\ lease' = lease \ {w}
  /\ UNCHANGED <<queue, owner, waiter, expiring, arrived, failed>>

\* The list's TTL was set when its last ticket came and outlives every lease in
\* it, since the callers of one lock wait equally long; but see ExpireFails.
ListEnds ==
  /\ queue # <<>> /\ queue' = <<>>
  /\ \A w \in lease : Contains(queue, w) => expiring /\ w \in failed
  /\ UNCHANGED <<lease, owner, waiter, expiring, troubles, arrived, failed>>

\* The TTL of a lock that nobody will give back.
LockEnds ==
  /\ owner # Unheld /\ waiter[owner].at \notin Served
  /\ owner' = Unheld
  /\ UNCHANGED <<queue, lease, waiter, expiring, troubles, arrived, failed>>

\* AcquireFair starts no watchdog: the TTL may end under a slow holder.
LockEndsEarly ==
  /\ owner # Unheld /\ waiter[owner].at \in Served /\ Trouble
  /\ owner' = Unheld
  /\ UNCHANGED <<queue, lease, waiter, expiring, arrived, failed>>

Moves(w) ==
  \/ SetLease(w) \/ Push(w) \/ Look(w) \/ CheckLease(w) \/ Reclaim(w) \/ Relook(w)
  \/ TryLock(w) \/ TakeTicketOff(w) \/ DropLease(w) \/ Unlock(w)

CallFails(w) ==
  \/ SetLeaseFails(w) \/ ExpireFails(w) \/ PushFails(w) \/ ReclaimFails(w) \/ TryFails(w)
  \/ TakeOffFails(w) \/ DropLeaseFails(w) \/ UnlockFails(w)

FairNext ==
  \/ \E w \in Waiters :
       \/ Moves(w) \/ CallFails(w) \/ GiveUp(w)
       \/ Dies(w) \/ LeaseEnds(w) \/ LeaseEndsEarly(w)
  \/ ListEnds \/ LockEnds \/ LockEndsEarly

FairLockSpec == FairInit /\ [][FairNext]_fairVars

-----------------------------------------------------------------------------
\* Every variable keeps its shape; a ticket is in the list at most once.
FairLockTypeOK ==
  /\ queue \in Seq(Waiters) /\ IsInjective(queue)
  /\ lease \subseteq Waiters /\ owner \in Waiters \cup {Unheld}
  /\ waiter \in [Waiters -> [at: Stages, head: Waiters \cup {Unheld}]]
  /\ expiring \in BOOLEAN /\ failed \subseteq Waiters
  /\ troubles \in 0 .. MaxTroubles

\* A waiter whose lease runs and whose ticket was pushed with a TTL.
Alive(w) == InLine(w) /\ w \in lease /\ w \notin failed

\* Such a waiter keeps its place: two waiters that find the same dead ticket at the
\* head together cannot pop the live one behind it, whichever of their calls fail.
LiveTicketKeepsPlace == \A w \in Waiters : Alive(w) => Contains(queue, w)

\* First come, first served: whoever takes the lock has nobody alive before it.
FirstComeFirstServed ==
  [][\A w \in Waiters : owner' = w /\ owner # w =>
       \A v \in Waiters : Alive(v) =>
         ~ \E i, j \in 1 .. Len(arrived) : i < j /\ arrived[i] = v /\ arrived[j] = w]_fairVars

\* Whoever is done, served or not, and met no failing call holds neither the lock
\* nor a lease nor a place, also when its caller went away in the moment it got the
\* lock; what a failing call left behind is for the TTLs and the other waiters.
NothingIsLeftBehind ==
  \A w \in Waiters : waiter[w].at = "end" =>
    w \in failed \/ (owner # w /\ w \notin lease /\ ~Contains(queue, w))

\* The list holds whoever waits on a lease and nobody who left it in order.
QueueIsSound == FairLockTypeOK /\ LiveTicketKeepsPlace /\ NothingIsLeftBehind

\* Neither a dead waiter nor what a failed call left behind wedges the queue: whoever
\* keeps waiting is served, unless its own lease or the list ran out under it; then
\* it has lost its place and only the deadline is left.
WaitersAreServed ==
  \A w \in Waiters : InLine(w) ~> ~Alive(w)
==============================================================================
