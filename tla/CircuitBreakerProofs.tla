------------------------ MODULE CircuitBreakerProofs ------------------------
(***************************************************************************)
(* The circuit breaker for any number of requests, probes and samples.     *)
(***************************************************************************)
EXTENDS CircuitBreaker, FiniteSetTheorems, TLAPS

USE SettingsAssumption DEF SettingsAssumption

\* The window never holds more than Window samples.
LEMMA TrimmedType ==
  ASSUME NEW ss \in Seq(Sample), Len(ss) <= Window, NEW x \in Sample
  PROVE  /\ Trimmed(Append(ss, x)) \in Seq(Sample)
         /\ Len(Trimmed(Append(ss, x))) <= Window
<1> DEFINE tt == Append(ss, x)
<1>1. tt \in Seq(Sample) /\ Len(tt) = Len(ss) + 1
  OBVIOUS
<1>2. CASE Len(tt) > Window
  <2>1. tt # <<>>
    BY <1>1
  <2>2. Tail(tt) \in Seq(Sample) /\ Len(Tail(tt)) = Len(tt) - 1
    BY <1>1, <2>1
  <2> QED
    BY <1>1, <1>2, <2>2 DEF Trimmed
<1>3. CASE Len(tt) <= Window
  BY <1>1, <1>3 DEF Trimmed
<1> QED
  BY <1>1, <1>2, <1>3

\* An empty window does not trip.
LEMMA EmptyWindow == ~ShouldTrip(<<>>)
  BY DEF ShouldTrip

\* A request that ends leaves one fewer out.
LEMMA OneLess ==
  ASSUME TypeOK, NEW c, Leave(c)
  PROVE  /\ Cardinality(inflight) \in Nat /\ Cardinality(inflight') \in Nat
         /\ Cardinality(inflight') = Cardinality(inflight) - 1
<1>1. IsFiniteSet(inflight)
  BY FS_Subset DEF TypeOK
<1>2. IsFiniteSet(inflight')
  BY <1>1, FS_RemoveElement DEF Leave
<1> QED
  BY <1>1, <1>2, FS_RemoveElement, FS_CardinalityType DEF Leave

\* A request that is let in makes one more.
LEMMA OneMore ==
  ASSUME TypeOK, NEW c, Admit(c)
  PROVE  /\ Cardinality(inflight) \in Nat
         /\ Cardinality(inflight') = Cardinality(inflight) + 1
<1>1. IsFiniteSet(inflight)
  BY FS_Subset DEF TypeOK
<1> QED
  BY <1>1, FS_AddElement, FS_CardinalityType DEF Admit

\* The counters keep their ranges and a trial can always be won.  The two need
\* each other: a success counts up to Probes only because the trial it belongs to
\* was not won yet.
LEMMA TrialStep ==
  TypeOK /\ TrialCanBeWon /\ [Next]_vars => TypeOK' /\ TrialCanBeWon'
<1> SUFFICES ASSUME TypeOK, TrialCanBeWon, [Next]_vars PROVE TypeOK' /\ TrialCanBeWon'
  OBVIOUS
<1> USE DEF TypeOK, TrialCanBeWon
<1>1. CASE OpenForPasses
  BY <1>1 DEF OpenForPasses
<1>2. ASSUME NEW c \in Calls, Allow(c) PROVE TypeOK' /\ TrialCanBeWon'
  <2>0. Admit(c)
    BY <1>2 DEF Allow, AllowClosed, AllowHalfOpen, AllowProbe
  <2>1. /\ Cardinality(inflight) \in Nat
        /\ Cardinality(inflight') = Cardinality(inflight) + 1
    BY <2>0, OneMore
  <2>2. CASE AllowClosed(c)
    BY <2>2 DEF AllowClosed, Admit
  <2>3. CASE AllowHalfOpen(c)
    BY <2>1, <2>3 DEF AllowHalfOpen, Admit
  <2>4. CASE AllowProbe(c)
    BY <2>1, <2>4 DEF AllowProbe, Admit
  <2> QED
    BY <1>2, <2>2, <2>3, <2>4 DEF Allow
<1>3. ASSUME NEW c \in Calls, Skip(c) PROVE TypeOK' /\ TrialCanBeWon'
  <2>1. /\ Cardinality(inflight) \in Nat /\ Cardinality(inflight') \in Nat
        /\ Cardinality(inflight') = Cardinality(inflight) - 1
    BY <1>3, OneLess DEF Skip
  <2>2. CASE state = "half_open" /\ halfLeft < Probes
    BY <1>3, <2>1, <2>2 DEF Skip, Leave
  <2>3. CASE ~(state = "half_open" /\ halfLeft < Probes)
    <3>1. state' = state /\ elapsed' = elapsed /\ halfLeft' = halfLeft /\ halfOK' = halfOK
      BY <1>3, <2>3 DEF Skip
    <3>2. samples' = samples /\ inflight' = inflight \ {c}
      BY <1>3 DEF Skip, Leave
    <3>3. state = "half_open" => halfLeft = Probes
      BY <2>3
    <3>4. TypeOK'
      BY <3>1, <3>2
    <3>5. TrialCanBeWon'
      BY <2>1, <3>1, <3>2, <3>3
    <3> QED
      BY <3>4, <3>5
  <2> QED
    BY <2>2, <2>3
<1>4. ASSUME NEW c \in Calls, NEW x \in Sample, Record(c, x) PROVE TypeOK' /\ TrialCanBeWon'
  <2>1. /\ Trimmed(Append(samples, x)) \in Seq(Sample)
        /\ Len(Trimmed(Append(samples, x))) <= Window
    BY TrimmedType
  <2>2. CASE RecordSuccess(c, x)
    <3>1. /\ Cardinality(inflight) \in Nat
          /\ Cardinality(inflight') = Cardinality(inflight) - 1
      BY <2>2, OneLess DEF RecordSuccess
    <3>2. CASE halfOK + 1 >= Probes
      <4>1. <<>> \in Seq(Sample) /\ Len(<<>>) <= Window
        OBVIOUS
      <4> QED
        BY <2>2, <3>2, <4>1 DEF RecordSuccess, Leave
    <3>3. CASE ~(halfOK + 1 >= Probes)
      BY <2>1, <2>2, <3>1, <3>3 DEF RecordSuccess, Leave
    <3> QED
      BY <3>2, <3>3
  <2>3. CASE RecordFailure(c, x)
    <3>1. samples' \in Seq(Sample) /\ Len(samples') <= Window
      BY <2>1, <2>3 DEF RecordFailure
    <3>2. state' = "open" /\ elapsed' = FALSE /\ halfLeft' = 0 /\ halfOK' = halfOK
      BY <2>3 DEF RecordFailure, Trip
    <3>3. inflight' = inflight \ {c}
      BY <2>3 DEF RecordFailure, Leave
    <3>4. TypeOK'
      <4>1. halfLeft' \in 0..Probes /\ halfOK' \in 0..Probes
        BY <3>2
      <4> QED
        BY <3>1, <3>2, <3>3, <4>1
    <3>5. TrialCanBeWon'
      BY <3>2
    <3> QED
      BY <3>4, <3>5
  <2>4. CASE RecordClosed(c, x)
    <3>1. samples' \in Seq(Sample) /\ Len(samples') <= Window
      BY <2>1, <2>4 DEF RecordClosed
    <3>2. /\ state' \in {"closed", "open"} /\ elapsed' \in BOOLEAN
          /\ halfLeft' \in {0, halfLeft} /\ halfOK' = halfOK
      BY <2>4 DEF RecordClosed, Trip
    <3>3. inflight' = inflight \ {c}
      BY <2>4 DEF RecordClosed, Leave
    <3>4. TypeOK'
      <4>1. halfLeft' \in 0..Probes /\ halfOK' \in 0..Probes
        BY <3>2
      <4>2. state' \in {"closed", "open", "half_open"}
        BY <3>2
      <4> QED
        BY <3>1, <3>2, <3>3, <4>1, <4>2
    <3>5. TrialCanBeWon'
      BY <3>2
    <3> QED
      BY <3>4, <3>5
  <2>5. CASE RecordOpen(c, x)
    BY <2>1, <2>5 DEF RecordOpen, Leave
  <2> QED
    BY <1>4, <2>2, <2>3, <2>4, <2>5 DEF Record
<1>5. CASE UNCHANGED vars
  BY <1>5 DEF vars
<1> QED
  BY <1>1, <1>2, <1>3, <1>4, <1>5 DEF Next

\* Whatever the number of requests and probes, and in whatever order requests of
\* before the trial come back, a half-open breaker is never left without the slots
\* and requests it needs to close (breaker.go, Allow, Record and Skip).
THEOREM NeverStuckHalfOpen == Spec => [](TypeOK /\ TrialCanBeWon)
<1>1. Init => TypeOK /\ TrialCanBeWon
  <2>1. <<>> \in Seq(Sample) /\ Len(<<>>) <= Window
    OBVIOUS
  <2>2. 0 \in 0..Probes
    OBVIOUS
  <2>3. ASSUME Init PROVE TypeOK
    BY <2>1, <2>2, <2>3 DEF Init, TypeOK
  <2>4. ASSUME Init PROVE TrialCanBeWon
    BY <2>4 DEF Init, TrialCanBeWon
  <2> QED
    BY <2>3, <2>4
<1> QED
  BY <1>1, TrialStep, PTL DEF Spec

\* A step that leaves the breaker closed leaves it with a window that does not
\* trip.
LEMMA HealthyStep == ClosedWindowIsHealthy /\ [Next]_vars => ClosedWindowIsHealthy'
<1> SUFFICES ASSUME ClosedWindowIsHealthy, [Next]_vars PROVE ClosedWindowIsHealthy'
  OBVIOUS
<1> USE DEF ClosedWindowIsHealthy
<1>1. CASE OpenForPasses
  BY <1>1 DEF OpenForPasses
<1>2. ASSUME NEW c \in Calls, Allow(c) PROVE ClosedWindowIsHealthy'
  BY <1>2 DEF Allow, AllowClosed, AllowHalfOpen, AllowProbe
<1>3. ASSUME NEW c \in Calls, Skip(c) PROVE ClosedWindowIsHealthy'
  BY <1>3 DEF Skip
<1>4. ASSUME NEW c \in Calls, NEW x \in Sample, Record(c, x) PROVE ClosedWindowIsHealthy'
  <2>1. CASE RecordSuccess(c, x)
    BY <2>1, EmptyWindow DEF RecordSuccess
  <2>2. CASE RecordFailure(c, x)
    BY <2>2 DEF RecordFailure, Trip
  <2>3. CASE RecordClosed(c, x)
    BY <2>3 DEF RecordClosed, Trip
  <2>4. CASE RecordOpen(c, x)
    BY <2>4 DEF RecordOpen
  <2> QED
    BY <1>4, <2>1, <2>2, <2>3, <2>4 DEF Record
<1>5. CASE UNCHANGED vars
  BY <1>5 DEF vars
<1> QED
  BY <1>1, <1>2, <1>3, <1>4, <1>5 DEF Next

\* A closed breaker never holds a window that should have tripped it, for every
\* threshold: a won trial starts from an empty window (breaker.go, Record).
THEOREM ClosedIsHealthy == Spec => []ClosedWindowIsHealthy
<1>1. Init => ClosedWindowIsHealthy
  BY EmptyWindow DEF Init, ClosedWindowIsHealthy
<1> QED
  BY <1>1, HealthyStep, PTL DEF Spec

\* Both, and the types they rest on, in every state.
THEOREM BreakerSound == Spec => []BreakerIsSound
BY NeverStuckHalfOpen, ClosedIsHealthy, PTL DEF BreakerIsSound
=============================================================================
