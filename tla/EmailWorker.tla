----------------------------- MODULE EmailWorker -----------------------------
(* internal/notification/service/email_worker.go: requests enqueue mails, one  *)
(* goroutine sends them, another moves the delayed ones back into the channel. *)
(* A counter of reservations bounds what is in memory, the mail log is in the  *)
(* database.                                                                   *)
EXTENDS Naturals, Sequences, FiniteSets

CONSTANTS
  Mails,
  QueueSize,      \* emailQueueSize, also the capacity of the channel
  MaxAttempts,    \* emailMaxAttempts
  PerWindow,      \* sends the limiter allows in a window
  MaxWindows,     \* bound: windows in which sends are refused
  MaxLosses       \* bound: crashes, and updates of the log that fail

ASSUME MailAssumption ==
  /\ QueueSize \in Nat \ {0} /\ MaxAttempts \in Nat \ {0} /\ PerWindow \in Nat \ {0}
  /\ MaxWindows \in Nat /\ MaxLosses \in Nat

VARIABLES
  mailLog,        \* the row of a mail
  request,        \* the request that enqueues a mail
  queued,         \* EmailWorker.queued
  jobs,           \* the channel
  delayed,        \* EmailWorker.delayed, with whether the delay is over
  flushing,       \* jobs flushDue took out and has not offered yet
  sending,        \* the job the send loop holds
  attempts,       \* MailJob.Attempts
  allowed,        \* sends left in the limiter's window
  windows, losses,
  forgotten       \* mails whose job or a mark of which was lost

mailVars == <<mailLog, request, queued, jobs, delayed, flushing, sending, attempts,
              allowed, windows, losses, forgotten>>

Idle == {}
MailInit ==
  /\ mailLog = [m \in Mails |-> "none"] /\ request = [m \in Mails |-> "new"]
  /\ queued = 0 /\ jobs = <<>> /\ delayed = {} /\ flushing = {} /\ sending = Idle
  /\ attempts = [m \in Mails |-> 0]
  /\ allowed = PerWindow /\ windows = 0 /\ losses = 0 /\ forgotten = {}

Late == {d.mail : d \in delayed}
Waits(m) == [mail |-> m, due |-> FALSE]
Release == queued' = IF queued > 0 THEN queued - 1 ELSE 0

\* mark, whose failure nobody looks at.
Mark(m, s) ==
  \/ mailLog' = [mailLog EXCEPT ![m] = s] /\ UNCHANGED <<losses, forgotten>>
  \/ /\ losses < MaxLosses /\ losses' = losses + 1 /\ forgotten' = forgotten \cup {m}
     /\ UNCHANGED mailLog
Unmarked == UNCHANGED <<mailLog, losses, forgotten>>
Asks(m, s) == request' = [request EXCEPT ![m] = s]

(* Enqueue: the row, the reservation, the offer *)
CreateLog(m) ==
  /\ request[m] = "new" /\ Asks(m, "logged")
  /\ mailLog' = [mailLog EXCEPT ![m] = "queued"]
  /\ UNCHANGED <<queued, jobs, delayed, flushing, sending, attempts, allowed, windows, losses, forgotten>>

Reserve(m) ==
  /\ request[m] = "logged"
  /\ IF queued < QueueSize
     THEN Asks(m, "reserved") /\ queued' = queued + 1 /\ Unmarked
     ELSE Asks(m, "refused") /\ Mark(m, "failed") /\ UNCHANGED queued
  /\ UNCHANGED <<jobs, delayed, flushing, sending, attempts, allowed, windows>>

Offer(m) ==
  /\ request[m] = "reserved"
  /\ IF Len(jobs) < QueueSize
     THEN Asks(m, "accepted") /\ jobs' = Append(jobs, m) /\ Unmarked /\ UNCHANGED queued
     ELSE Asks(m, "refused") /\ Mark(m, "failed") /\ Release /\ UNCHANGED jobs
  /\ UNCHANGED <<delayed, flushing, sending, attempts, allowed, windows>>

(* The send loop: process *)
Take ==
  /\ sending = Idle /\ jobs # <<>>
  /\ sending' = {Head(jobs)} /\ jobs' = Tail(jobs)
  /\ UNCHANGED <<mailLog, request, queued, delayed, flushing, attempts, allowed, windows, losses, forgotten>>

\* Faulty: a job that only waits for the limiter gives its reservation back.
RateLimitedReleasing(m) ==
  /\ m \in sending /\ allowed = 0 /\ sending' = Idle /\ Release
  /\ delayed' = delayed \cup {Waits(m)}
  /\ UNCHANGED <<mailLog, request, jobs, flushing, attempts, allowed, windows, losses, forgotten>>

RateLimited(m) ==
  /\ m \in sending /\ allowed = 0 /\ sending' = Idle
  /\ delayed' = delayed \cup {Waits(m)}
  /\ UNCHANGED <<mailLog, request, queued, jobs, flushing, attempts, allowed, windows, losses, forgotten>>

Finish(m, s) ==
  /\ sending' = Idle /\ Release /\ Mark(m, s)
  /\ UNCHANGED <<request, jobs, delayed, flushing, windows>>

Sent(m) ==
  /\ m \in sending /\ allowed > 0 /\ allowed' = allowed - 1
  /\ Finish(m, "sent") /\ UNCHANGED attempts

\* The attachments cannot be loaded: no attempt is made.
NotSendable(m) ==
  /\ m \in sending /\ allowed > 0 /\ allowed' = allowed - 1
  /\ Finish(m, "failed") /\ UNCHANGED attempts

\* Faulty: the retry is announced in the log and not scheduled.
SendFailsUnscheduled(m) ==
  /\ m \in sending /\ allowed > 0 /\ allowed' = allowed - 1
  /\ attempts' = [attempts EXCEPT ![m] = @ + 1]
  /\ IF attempts[m] + 1 >= MaxAttempts
     THEN Finish(m, "failed")
     ELSE /\ Mark(m, "retrying") /\ sending' = Idle
          /\ UNCHANGED <<request, queued, jobs, delayed, flushing, windows>>

SendFails(m) ==
  /\ m \in sending /\ allowed > 0 /\ allowed' = allowed - 1
  /\ attempts' = [attempts EXCEPT ![m] = @ + 1]
  /\ IF attempts[m] + 1 >= MaxAttempts
     THEN Finish(m, "failed")
     ELSE /\ Mark(m, "retrying") /\ sending' = Idle /\ delayed' = delayed \cup {Waits(m)}
          /\ UNCHANGED <<request, queued, jobs, flushing, windows>>

(* The delay loop: flushDue *)
Ripen ==
  /\ \E d \in delayed : ~d.due /\ delayed' = (delayed \ {d}) \cup {[d EXCEPT !.due = TRUE]}
  /\ UNCHANGED <<mailLog, request, queued, jobs, flushing, sending, attempts, allowed, windows, losses, forgotten>>

Ripe == {d.mail : d \in {x \in delayed : x.due}}

FlushTake ==
  /\ flushing = {} /\ Ripe # {} /\ flushing' = Ripe
  /\ delayed' = {d \in delayed : ~d.due}
  /\ UNCHANGED <<mailLog, request, queued, jobs, sending, attempts, allowed, windows, losses, forgotten>>

FlushOffer(m) ==
  /\ m \in flushing /\ flushing' = flushing \ {m}
  /\ IF Len(jobs) < QueueSize
     THEN jobs' = Append(jobs, m) /\ UNCHANGED delayed
     ELSE delayed' = delayed \cup {Waits(m)} /\ UNCHANGED jobs
  /\ UNCHANGED <<mailLog, request, queued, sending, attempts, allowed, windows, losses, forgotten>>

-----------------------------------------------------------------------------
\* The oldest sends leave the limiter's window.
WindowMoves ==
  /\ allowed = 0 /\ windows < MaxWindows
  /\ allowed' = PerWindow /\ windows' = windows + 1
  /\ UNCHANGED <<mailLog, request, queued, jobs, delayed, flushing, sending, attempts, losses, forgotten>>

\* The process stops: the jobs are gone, the rows are not, and nobody looks for them.
MailCrash ==
  LET inMemory == {m \in Mails : request[m] \in {"logged", "reserved", "accepted"}
                                   /\ mailLog[m] \in {"queued", "retrying"}}
  IN  /\ losses < MaxLosses /\ losses' = losses + 1
      /\ forgotten' = forgotten \cup inMemory
      /\ request' = [m \in Mails |-> IF request[m] = "new" THEN "new" ELSE "over"]
      /\ queued' = 0 /\ jobs' = <<>> /\ delayed' = {} /\ flushing' = {} /\ sending' = Idle
      /\ allowed' = PerWindow
      /\ UNCHANGED <<mailLog, attempts, windows>>

Enqueue(m) == CreateLog(m) \/ Reserve(m) \/ Offer(m)
Process == \E m \in Mails : RateLimited(m) \/ Sent(m) \/ NotSendable(m) \/ SendFails(m)

MailNext ==
  \/ \E m \in Mails : Enqueue(m) \/ FlushOffer(m)
  \/ Take \/ Process \/ Ripen \/ FlushTake \/ WindowMoves \/ MailCrash

MailSpec == MailInit /\ [][MailNext]_mailVars

-----------------------------------------------------------------------------
\* Every variable keeps its shape, the channel its capacity.
MailTypeOK ==
  /\ mailLog \in [Mails -> {"none", "queued", "retrying", "sent", "failed"}]
  /\ request \in [Mails -> {"new", "logged", "reserved", "accepted", "refused", "over"}]
  /\ queued \in 0 .. QueueSize /\ jobs \in Seq(Mails) /\ Len(jobs) <= QueueSize
  /\ delayed \subseteq [mail: Mails, due: BOOLEAN] /\ flushing \subseteq Mails
  /\ sending \subseteq Mails /\ Cardinality(sending) <= 1
  /\ attempts \in [Mails -> 0 .. MaxAttempts] /\ allowed \in 0 .. PerWindow
  /\ windows \in 0 .. MaxWindows /\ losses \in 0 .. MaxLosses /\ forgotten \subseteq Mails

\* The counter of reservations is exact: it counts the jobs in the channel, the
\* delayed ones, those flushDue holds, the one being sent and the requests between
\* reservation and offer.  Hence an offer after a reservation always finds room.
ReservationsAreExact ==
  queued = Len(jobs) + Cardinality(Late) + Cardinality(flushing) + Cardinality(sending)
             + Cardinality({m \in Mails : request[m] = "reserved"})

\* A mail is in one place: neither the channel nor the delayed list has it twice,
\* and one that was sent or given up is in none, so that it is not sent again.
MailIsInOnePlace ==
  \A m \in Mails :
    LET copies == Cardinality({i \in DOMAIN jobs : jobs[i] = m})
                  + Cardinality({d \in delayed : d.mail = m})
                  + Cardinality(flushing \cap {m}) + Cardinality(sending \cap {m})
    IN  copies <= (IF mailLog[m] \in {"queued", "retrying"} THEN 1 ELSE 0)

\* The worker's books: every reservation is of one mail, every mail in one place.
MailIsAccountedFor == MailTypeOK /\ ReservationsAreExact /\ MailIsInOnePlace

\* A mail that was accepted is sent or marked as failed, however often the limiter
\* or the mail server sends it round again; a crash of the process and a mark that
\* could not be stored are the exceptions.
MailIsSettled ==
  \A m \in Mails :
    (request[m] = "accepted") ~> (mailLog[m] \in {"sent", "failed"} \/ m \in forgotten)
==============================================================================
