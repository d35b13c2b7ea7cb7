----------------------------- MODULE MCPlatform -----------------------------
(***************************************************************************)
(* The services of pkg/, the mail worker and the deletion of files in one  *)
(* run.  They share no variable and call each other nowhere, so a          *)
(* behaviour of one of them at a time misses nothing: part says which one  *)
(* it is.                                                                  *)
(***************************************************************************)
EXTENDS CircuitBreaker, FairLock, EmailWorker, AuditWriter, AttachmentCleanup

VARIABLE part

platformVars == <<part, vars, fairVars, mailVars, auditVars, fileVars>>
Parts == {"breaker", "lock", "mail", "audit", "files"}
On(p) == part = p

PlatformInit ==
  part \in Parts /\ Init /\ FairInit /\ MailInit /\ AuditInit /\ FileInit

PlatformNext ==
  /\ UNCHANGED part
  /\ \/ On("breaker") /\ Next /\ UNCHANGED <<fairVars, mailVars, auditVars, fileVars>>
     \/ On("lock") /\ FairNext /\ UNCHANGED <<vars, mailVars, auditVars, fileVars>>
     \/ On("mail") /\ MailNext /\ UNCHANGED <<vars, fairVars, auditVars, fileVars>>
     \/ On("audit") /\ AuditNext /\ UNCHANGED <<vars, fairVars, mailVars, fileVars>>
     \/ On("files") /\ FileNext /\ UNCHANGED <<vars, fairVars, mailVars, auditVars>>

\* Time passes, requests keep coming, every admitted one ends (the middleware's
\* deferred call), and not every one of them with a 4xx.
BreakerFairness ==
  /\ WF_vars(On("breaker") /\ OpenForPasses)
  /\ WF_vars(On("breaker") /\ \E c \in Calls : Allow(c))
  /\ \A c \in Calls : SF_vars(On("breaker") /\ \E x \in Sample : Record(c, x))

\* Callers run and keys expire; nobody is made to give up.
LockFairness ==
  /\ \A w \in Waiters : WF_fairVars(On("lock") /\ Moves(w)) /\ WF_fairVars(On("lock") /\ LeaseEnds(w))
  /\ WF_fairVars(On("lock") /\ LockEnds)

\* Requests and both loops run, delays end, the limiter's window moves on.
MailFairness ==
  /\ \A m \in Mails : WF_mailVars(On("mail") /\ (Reserve(m) \/ Offer(m)))
  /\ WF_mailVars(On("mail") /\ Take) /\ WF_mailVars(On("mail") /\ Process)
  /\ WF_mailVars(On("mail") /\ Ripen) /\ WF_mailVars(On("mail") /\ FlushTake)
  /\ WF_mailVars(On("mail") /\ \E m \in Mails : FlushOffer(m))
  /\ WF_mailVars(On("mail") /\ WindowMoves)

\* The goroutine and main run; a handler may take for ever.
AuditFairness ==
  /\ WF_auditVars(On("audit") /\ Receive)
  /\ WF_auditVars(On("audit") /\ \E r \in Requests : Store(r))
  /\ WF_auditVars(On("audit") /\ Drained) /\ WF_auditVars(On("audit") /\ CloseChannel)
  /\ WF_auditVars(On("audit") /\ Exit)

\* cleanupFiles starts every 30 seconds, lists what is due, handles the whole
\* list, and whoever has locked a request goes on.
CleanupFairness ==
  /\ \A x \in Cleaners : WF_fileVars(On("files") /\ Cleans(x))
  /\ \A k \in Files : WF_fileVars(On("files") /\ \E x \in Cleaners : ListPending(x, k))

PlatformSpec ==
  /\ PlatformInit /\ [][PlatformNext]_platformVars
  /\ BreakerFairness /\ LockFairness /\ MailFairness /\ AuditFairness
  /\ CleanupFairness
=============================================================================
