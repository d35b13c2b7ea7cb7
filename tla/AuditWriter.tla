----------------------------- MODULE AuditWriter -----------------------------
(* pkg/middleware/audit_log.go and the orderly stop of cmd/server/main.go:     *)
(* handlers put audit entries into a bounded channel without waiting, one      *)
(* goroutine stores them, and the stop of the server closes the channel while  *)
(* handlers that outlived its deadline may still be running.                   *)
EXTENDS Naturals, Sequences

CONSTANTS
  Requests,       \* requests that change something and are audited
  BufferSize      \* auditLogWorkerBufferSize

ASSUME AuditAssumption == BufferSize \in Nat \ {0}

VARIABLES
  server,         \* where main is: up, draining, closing, closed, exited
  overrun,        \* srv.Shutdown returned at its deadline with handlers running
  served,         \* the requests: waiting for the server, running or answered
  entry,          \* what became of the entry of a request
  channel, open,  \* the channel and whether it is open
  storing         \* the entry the writer goroutine holds

auditVars == <<server, overrun, served, entry, channel, open, storing>>

AuditInit ==
  /\ server = "up" /\ overrun = FALSE
  /\ served = [r \in Requests |-> "coming"] /\ entry = [r \in Requests |-> "none"]
  /\ channel = <<>> /\ open = TRUE /\ storing = {}

Running == {r \in Requests : served[r] = "running"}

Accept(r) ==
  /\ server = "up" /\ served[r] = "coming"
  /\ served' = [served EXCEPT ![r] = "running"]
  /\ UNCHANGED <<server, overrun, entry, channel, open, storing>>

\* The handler is through: auditLogWriter.write, where a send on the closed
\* channel panics and is recovered.
Write(r) ==
  /\ r \in Running
  /\ served' = [served EXCEPT ![r] = "answered"]
  /\ IF ~open
     THEN entry' = [entry EXCEPT ![r] = "too late"] /\ UNCHANGED channel
     ELSE IF Len(channel) < BufferSize
     THEN entry' = [entry EXCEPT ![r] = "buffered"] /\ channel' = Append(channel, r)
     ELSE entry' = [entry EXCEPT ![r] = "dropped"] /\ UNCHANGED channel
  /\ UNCHANGED <<server, overrun, open, storing>>

\* auditLogWriter.run, which ranges over the channel until it is closed and empty.
Receive ==
  /\ storing = {} /\ channel # <<>>
  /\ storing' = {Head(channel)} /\ channel' = Tail(channel)
  /\ UNCHANGED <<server, overrun, served, entry, open>>

Store(r) ==
  /\ r \in storing /\ storing' = {}
  /\ \E s \in {"stored", "failed"} : entry' = [entry EXCEPT ![r] = s]
  /\ UNCHANGED <<server, overrun, served, channel, open>>

WriterDone == ~open /\ channel = <<>> /\ storing = {}

(* main after the signal: Shutdown waits for the handlers or for five seconds, *)
(* CloseAuditWriter closes the channel and waits for the goroutine.            *)
Signal ==
  /\ server = "up" /\ server' = "draining"
  /\ UNCHANGED <<overrun, served, entry, channel, open, storing>>

Drained ==
  /\ server = "draining" /\ server' = "closing"
  /\ overrun' = (Running # {})
  /\ UNCHANGED <<served, entry, channel, open, storing>>

CloseChannel ==
  /\ server = "closing" /\ server' = "closed" /\ open' = FALSE
  /\ UNCHANGED <<overrun, served, entry, channel, storing>>

\* Faulty: main does not wait for the goroutine.
ExitAtOnce ==
  /\ server = "closed" /\ server' = "exited"
  /\ UNCHANGED <<overrun, served, entry, channel, open, storing>>

\* Faulty: main waits for every handler, however long it takes.
ExitWaitingForHandlers ==
  /\ server = "closed" /\ WriterDone /\ Running = {} /\ server' = "exited"
  /\ UNCHANGED <<overrun, served, entry, channel, open, storing>>

Exit ==
  /\ server = "closed" /\ WriterDone /\ server' = "exited"
  /\ UNCHANGED <<overrun, served, entry, channel, open, storing>>

AuditNext ==
  \/ server # "exited" /\ \E r \in Requests : Accept(r) \/ Write(r) \/ Store(r)
  \/ server # "exited" /\ Receive
  \/ Signal \/ Drained \/ CloseChannel \/ Exit

AuditSpec == AuditInit /\ [][AuditNext]_auditVars

-----------------------------------------------------------------------------
\* Every variable keeps its shape.
AuditTypeOK ==
  /\ server \in {"up", "draining", "closing", "closed", "exited"}
  /\ overrun \in BOOLEAN /\ open \in BOOLEAN
  /\ served \in [Requests -> {"coming", "running", "answered"}]
  /\ entry \in [Requests -> {"none", "buffered", "dropped", "too late", "stored", "failed"}]
  /\ channel \in Seq(Requests) /\ Len(channel) <= BufferSize
  /\ storing \subseteq Requests

\* The orderly stop flushes: when main ends, every entry that was put into the
\* channel has been handed to the database.
FlushedBeforeExit ==
  server = "exited" => \A r \in Requests : entry[r] # "buffered"

\* An entry comes too late for the channel only if its handler outlived the five
\* seconds that Shutdown grants.
TooLateOnlyAfterDeadline ==
  \A r \in Requests : entry[r] = "too late" => overrun

\* The stop loses nothing that was written in time.
StopIsOrderly == AuditTypeOK /\ FlushedBeforeExit /\ TooLateOnlyAfterDeadline

\* The stop ends, also when handlers hang: main waits for the goroutine alone.
StopEnds == (server = "draining") ~> (server = "exited")
==============================================================================
