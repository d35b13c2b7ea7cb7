--------------------------- MODULE CircuitBreaker ---------------------------
(***************************************************************************)
(* The circuit breaker of one route (pkg/middleware/circuitbreaker) under  *)
(* concurrent requests.  Allow, Record and Skip each run under the mutex   *)
(* and are one step; between its Allow and its Record or Skip a request is *)
(* in flight, while the breaker may change its state any number of times.  *)
(***************************************************************************)
EXTENDS Integers, Sequences, FiniteSets

CONSTANTS
  Calls,        \* requests that may be in flight at the same time
  Probes,       \* settings.HalfOpenProbes
  MinRequests, Window,
  ErrorRate     \* in percent

\* breaker.go New replaces what is not positive by a default.
ASSUME SettingsAssumption ==
  /\ Probes \in Nat \ {0} /\ MinRequests \in Nat \ {0} /\ Window \in Nat \ {0}
  /\ ErrorRate \in Nat /\ IsFiniteSet(Calls)

VARIABLES
  state,     \* probe.state
  elapsed,   \* OpenFor has passed since openedAt
  halfLeft, halfOK,
  samples,   \* probe.samples: did it fail, was it slower than the P99 limit
  inflight   \* requests between Allow and Record or Skip
vars == <<state, elapsed, halfLeft, halfOK, samples, inflight>>

Sample == [err : BOOLEAN, slow : BOOLEAN]

Init == /\ state = "closed" /\ elapsed = FALSE /\ halfLeft = 0 /\ halfOK = 0
        /\ samples = <<>> /\ inflight = {}

\* The ceil(99%)-th of the sorted latencies is above the limit.
P99Exceeded(ss) ==
  LET n == Len(ss)
      slow == Len(SelectSeq(ss, LAMBDA s : s.slow))
  IN  slow > n - (99 * n + 99) \div 100

ShouldTrip(ss) ==
  /\ Len(ss) >= MinRequests
  /\ \/ 100 * Len(SelectSeq(ss, LAMBDA s : s.err)) >= ErrorRate * Len(ss)
     \/ Len(ss) >= Window /\ P99Exceeded(ss)

\* The last Window samples.
Trimmed(ss) == IF Len(ss) > Window THEN Tail(ss) ELSE ss

OpenForPasses ==
  /\ state = "open" /\ ~elapsed /\ elapsed' = TRUE
  /\ UNCHANGED <<state, halfLeft, halfOK, samples, inflight>>

Admit(c) == c \notin inflight /\ inflight' = inflight \cup {c}

AllowClosed(c) ==
  /\ state = "closed" /\ Admit(c)
  /\ UNCHANGED <<state, elapsed, halfLeft, halfOK, samples>>

\* The first call after OpenFor is a probe and opens the trial.
AllowHalfOpen(c) ==
  /\ state = "open" /\ elapsed /\ Admit(c)
  /\ state' = "half_open" /\ halfLeft' = Probes - 1 /\ halfOK' = 0
  /\ UNCHANGED <<samples, elapsed>>

AllowProbe(c) ==
  /\ state = "half_open" /\ halfLeft > 0 /\ Admit(c)
  /\ halfLeft' = halfLeft - 1
  /\ UNCHANGED <<state, elapsed, halfOK, samples>>

Trip == state' = "open" /\ elapsed' = FALSE /\ halfLeft' = 0
Leave(c) == c \in inflight /\ inflight' = inflight \ {c}

\* Faulty: a success gives its slot back and is not counted.
SucceedUncounted(c, x) ==
  /\ Leave(c) /\ state = "half_open" /\ ~x.err
  /\ halfLeft' = IF halfLeft < Probes THEN halfLeft + 1 ELSE halfLeft
  /\ samples' = Trimmed(Append(samples, x)) /\ UNCHANGED <<state, elapsed, halfOK>>

\* A success in the trial; enough of them close the breaker, with an empty window.
RecordSuccess(c, x) ==
  /\ Leave(c) /\ state = "half_open" /\ ~x.err /\ halfOK' = halfOK + 1
  /\ IF halfOK + 1 >= Probes
     THEN state' = "closed" /\ samples' = <<>>
     ELSE state' = state /\ samples' = Trimmed(Append(samples, x))
  /\ UNCHANGED <<elapsed, halfLeft>>

RecordFailure(c, x) ==
  /\ Leave(c) /\ state = "half_open" /\ x.err /\ Trip
  /\ samples' = Trimmed(Append(samples, x)) /\ UNCHANGED halfOK

RecordClosed(c, x) ==
  /\ Leave(c) /\ state = "closed" /\ samples' = Trimmed(Append(samples, x))
  /\ IF ShouldTrip(Trimmed(Append(samples, x)))
     THEN Trip ELSE UNCHANGED <<state, elapsed, halfLeft>>
  /\ UNCHANGED halfOK

\* A call of before the trip comes back while the breaker is open.
RecordOpen(c, x) ==
  /\ Leave(c) /\ state = "open" /\ samples' = Trimmed(Append(samples, x))
  /\ UNCHANGED <<state, elapsed, halfLeft, halfOK>>

Record(c, x) == RecordSuccess(c, x) \/ RecordFailure(c, x) \/ RecordClosed(c, x) \/ RecordOpen(c, x)

\* Faulty: a skipped probe is not given back.
SkipWithoutRefund(c) ==
  Leave(c) /\ UNCHANGED <<state, elapsed, halfLeft, halfOK, samples>>

\* A 4xx answer says nothing about the backend: the slot is given back.
Skip(c) ==
  /\ Leave(c)
  /\ halfLeft' = IF state = "half_open" /\ halfLeft < Probes THEN halfLeft + 1 ELSE halfLeft
  /\ UNCHANGED <<state, elapsed, halfOK, samples>>

Allow(c) == AllowClosed(c) \/ AllowHalfOpen(c) \/ AllowProbe(c)
Next == \/ OpenForPasses
        \/ \E c \in Calls : Allow(c) \/ Skip(c) \/ \E x \in Sample : Record(c, x)

Spec == Init /\ [][Next]_vars

-----------------------------------------------------------------------------
(* Properties.                                                             *)

\* The counters keep their ranges: a trial hands out at most Probes slots at a
\* time and ends with the success that completes it.
TypeOK ==
  /\ state \in {"closed", "open", "half_open"} /\ elapsed \in BOOLEAN
  /\ halfLeft \in 0..Probes /\ halfOK \in 0..Probes
  /\ samples \in Seq(Sample) /\ Len(samples) <= Window
  /\ inflight \subseteq Calls

\* A trial can always be won: the successes so far, the slots left and the
\* requests still out add up to the successes it needs.  Without it the breaker
\* would stay half-open and refuse every request (Skip's refund).
TrialCanBeWon ==
  state = "half_open" =>
    halfOK < Probes /\ halfOK + halfLeft + Cardinality(inflight) >= Probes

\* A closed breaker has no reason to be open: its window would not trip it, also
\* right after a trial, whatever the outage had left in it.
ClosedWindowIsHealthy == state = "closed" => ~ShouldTrip(samples)

\* Open, half-open and closed: the breaker is where its samples put it, and never
\* stuck there.
BreakerIsSound == TypeOK /\ TrialCanBeWon /\ ClosedWindowIsHealthy

\* The trial ends: the breaker closes or opens again (the slots handed out are
\* recorded or given back).
TrialEnds == state = "half_open" ~> state # "half_open"
=============================================================================
