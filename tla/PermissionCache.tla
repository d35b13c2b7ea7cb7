--------------------------- MODULE PermissionCache ---------------------------
(***************************************************************************)
(* The cache of permissions in Redis (internal/rbac/service) and those who *)
(* must keep it true: requests that load it, administrators that change    *)
(* one role and invalidate afterwards, and the membership code, which      *)
(* queues the invalidation in the transaction of the change and lets       *)
(* several workers carry it out (internal/member).  Values are numbers of  *)
(* changes: a key holds the state of the database after change n.          *)
(***************************************************************************)
EXTENDS Naturals, SequencesExt

CONSTANTS
  Accounts, Readers, Editors, Workers,
  Absent,                    \* no value
  MaxChanges, MaxFaults      \* bounds

ASSUME CacheAssumption ==
  /\ IsFiniteSet(Accounts) /\ Absent \notin Nat \cup Accounts \cup {"perms", "super"}
  /\ MaxChanges \in Nat /\ MaxFaults \in Nat

Keys == {"perms", "super"}   \* rbac:perms:<user>, rbac:superadmin:<user>
Entries == Accounts \X Keys
Quiet == "idle"

VARIABLES
  changes,        \* changes committed so far
  truth,          \* the last of them that touched an account
  role, members,  \* the role exists; who has it
  cached,         \* the value of each key
  reader,         \* keys a request still has to load, and what it loaded
  editor,         \* where an administrator's request is, and whom it owes a DEL
  outbox,         \* admission_permission_refreshes: the revision, 0 for no row
  worker,         \* rows a run of refreshPermissions has listed
  faults,
  queuedAt, sweptAt,  \* last change queued for an account, last one before a DEL
  failed,         \* outdated keys whose invalidation failed or never came
  overtaken       \* outdated keys loaded before the change, stored after it

cacheVars == <<changes, truth, role, members, cached, reader, editor, outbox,
               worker, faults, queuedAt, sweptAt, failed, overtaken>>
database == <<changes, truth, role, members>>
store == <<cached, failed, overtaken>>
refresh == <<outbox, worker, queuedAt, sweptAt>>

NoLoad == [user |-> Absent, todo |-> {}, key |-> Absent, got |-> Absent]
AtRest == [at |-> Quiet, owed |-> {}]
NoRows == [at |-> Quiet, rows |-> <<>>]

CacheInit ==
  /\ changes = 0 /\ truth = [u \in Accounts |-> 0] /\ role = TRUE
  /\ members \in SUBSET Accounts
  /\ cached = [x \in Entries |-> Absent]
  /\ reader = [r \in Readers |-> NoLoad] /\ editor = [e \in Editors |-> AtRest]
  /\ outbox = [u \in Accounts |-> 0] /\ worker = [w \in Workers |-> NoRows]
  /\ faults = 0 /\ queuedAt = [u \in Accounts |-> 0] /\ sweptAt = [u \in Accounts |-> 0]
  /\ failed = {} /\ overtaken = {}

Stale(x) == cached[x] # Absent /\ cached[x] < truth[x[1]]

Fault == faults < MaxFaults /\ faults' = faults + 1
Removed(X) == /\ cached' = [x \in Entries |-> IF x \in X THEN Absent ELSE cached[x]]
              /\ failed' = failed \ X /\ overtaken' = overtaken \ X
Lost(X) == /\ failed' = failed \cup {x \in X : Stale(x)}
           /\ UNCHANGED <<cached, overtaken>>

(* Requests: GetUserPermissions, IsSuperAdmin or both at once *)
Missing(u, K) == {k \in K : cached[<<u, k>>] = Absent}

LookUp(r, u, K) ==
  /\ reader[r] = NoLoad /\ Missing(u, K) # {}
  /\ reader' = [reader EXCEPT ![r] =
       [user |-> u, todo |-> Missing(u, K), key |-> Absent, got |-> Absent]]
  /\ UNCHANGED <<database, store, editor, refresh, faults>>

Query(r) ==
  /\ reader[r].todo # {} /\ reader[r].key = Absent
  /\ LET k == IF "perms" \in reader[r].todo THEN "perms" ELSE "super" IN
       \/ /\ reader' = [reader EXCEPT ![r].key = k, ![r].got = truth[reader[r].user]]
          /\ UNCHANGED faults
       \/ Fault /\ reader' = [reader EXCEPT ![r] = NoLoad]
  /\ UNCHANGED <<database, store, editor, refresh>>

Loaded(load) ==
  IF load.todo = {load.key} THEN NoLoad
  ELSE [load EXCEPT !.todo = load.todo \ {load.key}, !.key = Absent, !.got = Absent]

\* The value is stored whatever happened since it was read; a failure is logged.
Fill(r) ==
  /\ reader[r].key # Absent
  /\ LET x == <<reader[r].user, reader[r].key>> IN
       \/ /\ cached' = [cached EXCEPT ![x] = reader[r].got]
          /\ failed' = failed \ {x} /\ UNCHANGED faults
          /\ overtaken' = IF reader[r].got < truth[x[1]] THEN overtaken \cup {x} ELSE overtaken \ {x}
       \/ Fault /\ UNCHANGED store
  /\ reader' = [reader EXCEPT ![r] = Loaded(reader[r])]
  /\ UNCHANGED <<database, editor, refresh>>

\* The time to live of a key runs out, or Redis drops it.
Expire(x) == /\ cached[x] # Absent /\ Removed({x})
             /\ UNCHANGED <<database, reader, editor, refresh, faults>>

(* Administrators *)
Touch(U) == /\ changes < MaxChanges /\ changes' = changes + 1
            /\ truth' = [u \in Accounts |-> IF u \in U THEN changes + 1 ELSE truth[u]]
Goes(e, at, U) == editor' = [editor EXCEPT ![e] = [at |-> at, owed |-> U]]

SetMembership(e, u) ==
  /\ editor[e] = AtRest /\ role /\ Touch({u}) /\ Goes(e, "perms", {u})
  /\ members' = IF u \in members THEN members \ {u} ELSE members \cup {u}
  /\ UNCHANGED <<role, store, reader, refresh, faults>>

\* InvalidateUserPermissions: the first failure is returned, the second logged.
DelPerms(e) ==
  /\ editor[e].at = "perms"
  /\ \/ Removed(editor[e].owed \X {"perms"}) /\ Goes(e, "super", editor[e].owed) /\ UNCHANGED faults
     \/ Fault /\ Lost(editor[e].owed \X Keys) /\ Goes(e, Quiet, {})
  /\ UNCHANGED <<database, reader, refresh>>

DelSuper(e) ==
  /\ editor[e].at = "super" /\ Goes(e, Quiet, {})
  /\ \/ Removed(editor[e].owed \X {"super"}) /\ UNCHANGED faults
     \/ Fault /\ Lost(editor[e].owed \X {"super"})
  /\ UNCHANGED <<database, reader, refresh>>

\* AssignPermissions, Update of the status
ChangeRole(e) ==
  /\ editor[e] = AtRest /\ role /\ Touch(members) /\ Goes(e, "list", members)
  /\ UNCHANGED <<role, members, store, reader, refresh, faults>>

\* The users are counted before the transaction that deletes the role.
CountUsers(e) ==
  /\ editor[e] = AtRest /\ role /\ members = {} /\ Goes(e, "count", {})
  /\ UNCHANGED <<database, store, reader, refresh, faults>>

\* Who got the role since then loses it; the invalidation that follows asks the
\* emptied table whom to invalidate.
DeleteRole(e) ==
  /\ editor[e].at = "count" /\ role /\ Touch(members) /\ Goes(e, "list", {})
  /\ role' = FALSE /\ members' = {}
  /\ failed' = failed \cup {x \in members \X Keys : cached[x] # Absent}
  /\ UNCHANGED <<cached, overtaken, reader, refresh, faults>>

\* InvalidateRolePermissions
ListMembers(e) ==
  /\ editor[e].at = "list" /\ IF members = {} THEN Goes(e, Quiet, {}) ELSE Goes(e, "pipe", members)
  /\ UNCHANGED <<database, store, reader, refresh, faults>>

\* A pipeline that fails half-way is only logged.
DelPipeline(e) ==
  /\ editor[e].at = "pipe" /\ Goes(e, Quiet, {})
  /\ \/ Removed(editor[e].owed \X Keys) /\ UNCHANGED faults
     \/ Fault /\ \E X \in SUBSET (editor[e].owed \X Keys) :
          /\ cached' = [x \in Entries |-> IF x \in X THEN Absent ELSE cached[x]]
          /\ overtaken' = overtaken \ X
          /\ failed' = (failed \cup {x \in editor[e].owed \X Keys : Stale(x)}) \ X
  /\ UNCHANGED <<database, reader, refresh>>

\* The process dies between the commit and the DEL; nobody takes it up.
EditorDies(e) ==
  /\ editor[e].at \notin {Quiet, "count"} /\ Fault /\ Goes(e, Quiet, {}) /\ Lost(editor[e].owed \X Keys)
  /\ UNCHANGED <<database, reader, refresh>>

(* The queue of the membership code *)
QueuePermissionRefresh(u) ==
  /\ Touch({u})
  /\ outbox' = [outbox EXCEPT ![u] = changes + 1] /\ queuedAt' = [queuedAt EXCEPT ![u] = changes + 1]
  /\ UNCHANGED <<role, members, store, reader, editor, worker, sweptAt, faults>>

Rows == {u \in Accounts : outbox[u] # 0}
Works(w, at, rows) == worker' = [worker EXCEPT ![w] = [at |-> at, rows |-> rows]]
Item(w) == Head(worker[w].rows)

PermissionRefreshes(w) ==
  /\ worker[w] = NoRows /\ Rows # {}
  /\ \E rows \in SetToSeqs({[user |-> u, revision |-> outbox[u]] : u \in Rows}) :
       /\ \A i, j \in DOMAIN rows : i < j => rows[i].revision <= rows[j].revision
       /\ Works(w, "perms", rows)
  /\ UNCHANGED <<database, store, reader, editor, outbox, queuedAt, sweptAt, faults>>

SweepPerms(w) ==
  /\ worker[w].at = "perms"
  /\ Removed({<<Item(w).user, "perms">>}) /\ Works(w, "super", worker[w].rows)
  /\ sweptAt' = [sweptAt EXCEPT ![Item(w).user] = truth[Item(w).user]]
  /\ UNCHANGED <<database, reader, editor, outbox, queuedAt, faults>>

SweepSuper(w) ==
  /\ worker[w].at = "super" /\ Works(w, "complete", worker[w].rows)
  /\ \/ Removed({<<Item(w).user, "super">>}) /\ UNCHANGED faults
     \/ Fault /\ Lost({<<Item(w).user, "super">>})
  /\ UNCHANGED <<database, reader, editor, outbox, queuedAt, sweptAt>>

NextRow(w) == IF Len(worker[w].rows) = 1 THEN Works(w, Quiet, <<>>)
              ELSE Works(w, "perms", Tail(worker[w].rows))

\* Faulty: the row of the account is deleted whatever its revision.
CompleteAnyRevision(w) ==
  /\ worker[w].at = "complete" /\ NextRow(w)
  /\ outbox' = [outbox EXCEPT ![Item(w).user] = 0]
  /\ UNCHANGED <<database, store, reader, editor, queuedAt, sweptAt, faults>>

\* Faulty: the row is only deleted when nothing changed since.
CompleteIfUnchanged(w) ==
  /\ worker[w].at = "complete" /\ NextRow(w)
  /\ outbox' = [outbox EXCEPT ![Item(w).user] = IF @ = changes THEN 0 ELSE @]
  /\ UNCHANGED <<database, store, reader, editor, queuedAt, sweptAt, faults>>

CompletePermissionRefresh(w) ==
  /\ worker[w].at = "complete" /\ NextRow(w)
  /\ outbox' = [outbox EXCEPT ![Item(w).user] = IF @ = Item(w).revision THEN 0 ELSE @]
  /\ UNCHANGED <<database, store, reader, editor, queuedAt, sweptAt, faults>>

\* Redis or the database fails, or the process dies: the rows stay.
WorkerStops(w) ==
  /\ worker[w] # NoRows /\ Fault /\ Works(w, Quiet, <<>>)
  /\ UNCHANGED <<database, store, reader, editor, outbox, queuedAt, sweptAt>>

WorkerMoves(w) == \/ PermissionRefreshes(w) \/ SweepPerms(w) \/ SweepSuper(w)
                  \/ CompletePermissionRefresh(w)

CacheNext ==
  \/ \E r \in Readers :
       \/ Query(r) \/ Fill(r)
       \/ \E u \in Accounts, K \in (SUBSET Keys) \ {{}} : LookUp(r, u, K)
  \/ \E x \in Entries : Expire(x)
  \/ \E e \in Editors :
       \/ DelPerms(e) \/ DelSuper(e) \/ ChangeRole(e) \/ CountUsers(e) \/ DeleteRole(e)
       \/ ListMembers(e) \/ DelPipeline(e) \/ EditorDies(e)
       \/ \E u \in Accounts : SetMembership(e, u)
  \/ \E u \in Accounts : QueuePermissionRefresh(u)
  \/ \E w \in Workers : WorkerMoves(w) \/ WorkerStops(w)

CacheSpec == CacheInit /\ [][CacheNext]_cacheVars

-----------------------------------------------------------------------------
\* Every variable keeps its shape, and no key holds what is not yet true.
CacheTypeOK ==
  /\ \A x \in Entries : cached[x] # Absent => cached[x] \in 0..truth[x[1]]
  /\ failed \cup overtaken \subseteq {x \in Entries : Stale(x)}
  /\ members \subseteq Accounts /\ (members # {} => role)
  /\ \A u \in Accounts : outbox[u] \in {0, queuedAt[u]}
  /\ \A w \in Workers : (worker[w].at = Quiet) <=> (worker[w].rows = <<>>)

\* A queued change is never completed without a DEL that came after it: an older
\* worker does not delete the row of a newer change.
QueuedChangeIsSwept == \A u \in Accounts : outbox[u] = 0 => sweptAt[u] >= queuedAt[u]

\* An outdated key has a reason: its DEL is still to come, or it failed, or a
\* load that had read the database before the change overtook it.
StaleHasAReason ==
  \A x \in Entries :
    Stale(x) => x \in failed \cup overtaken \/ outbox[x[1]] # 0 \/ \E e \in Editors : x[1] \in editor[e].owed

\* A cached set that is out of date is on its way out, or known to be lost.
StaleIsOnItsWayOut == CacheTypeOK /\ QueuedChangeIsSwept /\ StaleHasAReason

\* A queued invalidation is carried out, however often Redis fails or a worker
\* dies on the way (the comment of refreshPermissions).
QueuedRefreshIsDone == \A u \in Accounts : (outbox[u] # 0) ~> (outbox[u] = 0)

\* When it is done no key is left that a failure of Redis kept ("Durable
\* invalidations survive Redis failures", the comment of refreshPermissions).
DurableRefresh ==
  [][\A u \in Accounts, k \in Keys :
       outbox[u] # 0 /\ outbox'[u] = 0 => <<u, k>> \notin failed]_cacheVars
=============================================================================
