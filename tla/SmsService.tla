----------------------------- MODULE SmsService -----------------------------
(***************************************************************************)
(* SMSService.send (services/sms_service.py): the chain one API request    *)
(* runs, cut at every await, so that concurrent requests interleave and a  *)
(* request can stop between any two steps.                                 *)
(*                                                                         *)
(*   received -> metering -> writing -> caching -> committing              *)
(*                                   -> enqueuing | resolving -> replied   *)
(*                           writing -> refunding -> replied               *)
(*   every step may also end the request: rejected (an error response),    *)
(*   conflict (an IntegrityError nobody handles) or crashed.               *)
(***************************************************************************)
EXTENDS SmsState

VARIABLES
  pc,    \* where each request is
  reply  \* the message named by the response of each request

serviceVars == <<pc, reply>>

Active == {"metering", "writing", "refunding", "caching", "committing",
           "enqueuing", "resolving"}
Over == {"replied", "rejected", "conflict", "crashed"}

ServiceTypeOK ==
  /\ pc \in [Requests -> {"received"} \cup Active \cup Over]
  /\ reply \in [Requests -> Requests \cup {Nobody}]

ServiceInit ==
  /\ pc = [r \in Requests |-> "received"]
  /\ reply = [r \in Requests |-> Nobody]

Goto(r, from, to) ==
  /\ pc[r] = from
  /\ pc' = [pc EXCEPT ![r] = to]

Answer(r, m) == reply' = [reply EXCEPT ![r] = m]

(***************************************************************************)
(* Variants with a plausible mistake, used to show that the properties     *)
(* notice it; no specification contains them.                              *)
(***************************************************************************)
\* A replayed request gives back a unit it never took.
CacheHitRefunds(r) ==
  /\ r.key # NoKey
  /\ cache[<<r.app, r.key>>] # Nobody
  /\ Goto(r, "received", "replied")
  /\ Answer(r, cache[<<r.app, r.key>>])
  /\ quota' = [quota EXCEPT ![r.app][today] = @ - 1]
  /\ UNCHANGED <<row, cache, today, queue>>

\* The response is cached before the INSERT has won the key.
ReserveInCache(r) ==
  /\ r.key # NoKey => cache[<<r.app, r.key>>] = Nobody
  /\ Goto(r, "received", "metering")
  /\ cache' = IF r.key = NoKey THEN cache
              ELSE [cache EXCEPT ![<<r.app, r.key>>] = r]
  /\ UNCHANGED <<reply, row, quota, today, queue>>

\* A SELECT before the INSERT in the place of the unique index.
CommittedRivals(r) ==
  {m \in Requests \ {r} : r.key # NoKey /\ m.key = r.key /\ Durable(m)}

\* The message is queued once by the service and once more by the route.
EnqueueTwice(r) ==
  /\ Goto(r, "enqueuing", "replied")
  /\ queue' = [queue EXCEPT ![[msg |-> r, retries |-> 0]] = @ + 2]
  /\ Answer(r, r)
  /\ UNCHANGED <<row, cache, quota, today>>

\* The session of a failed request is never rolled back.
CrashKeepsTransaction(r) ==
  /\ pc[r] \in Active
  /\ pc' = [pc EXCEPT ![r] = "crashed"]
  /\ reply' = [reply EXCEPT ![r] = Nobody]
  /\ UNCHANGED sharedVars

(***************************************************************************)
(* Step 1: the idempotency cache, before any quota is spent.               *)
(***************************************************************************)
CacheHit(r) ==
  /\ r.key # NoKey
  /\ cache[<<r.app, r.key>>] # Nobody
  /\ Goto(r, "received", "replied")
  /\ Answer(r, cache[<<r.app, r.key>>])
  /\ UNCHANGED sharedVars

CacheMiss(r) ==
  /\ r.key # NoKey => cache[<<r.app, r.key>>] = Nobody
  /\ Goto(r, "received", "metering")
  /\ UNCHANGED <<reply, sharedVars>>

(***************************************************************************)
(* Steps 2 and 3: QuotaService.check_and_consume, then the validation of   *)
(* the input, with no await between them.  The burst window may refuse any *)
(* call; the daily Lua script is one atomic step; sandbox keys never touch *)
(* the daily counter.  Input that is refused has spent its unit.           *)
(***************************************************************************)
Validated(r) == \E outcome \in {"writing", "rejected"} : Goto(r, "metering", outcome)

BurstExceeded(r) ==
  /\ Goto(r, "metering", "rejected")
  /\ UNCHANGED <<reply, sharedVars>>

Consume(r) ==
  /\ r.live
  /\ quota[r.app][today] < DailyLimit
  /\ quota' = [quota EXCEPT ![r.app][today] = @ + 1]
  /\ Validated(r)
  /\ UNCHANGED <<reply, row, cache, today, queue>>

QuotaExceeded(r) ==
  /\ r.live
  /\ quota[r.app][today] >= DailyLimit
  /\ Goto(r, "metering", "rejected")
  /\ UNCHANGED <<reply, sharedVars>>

SandboxExempt(r) ==
  /\ ~r.live
  /\ Validated(r)
  /\ UNCHANGED <<reply, sharedVars>>

(***************************************************************************)
(* Step 4: the INSERT.  The unique index on idempotency_key is not scoped  *)
(* by application.  PostgreSQL makes an INSERT wait while another open     *)
(* transaction holds the same key, so only a committed rival raises        *)
(* IntegrityError.                                                         *)
(***************************************************************************)
Rivals(r) ==
  {m \in Requests \ {r} : r.key # NoKey /\ m.key = r.key /\ row[m] # "none"}

Insert(r) ==
  /\ Rivals(r) = {}
  /\ Goto(r, "writing", "caching")
  /\ row' = [row EXCEPT ![r] = "flushed"]
  /\ UNCHANGED <<reply, cache, quota, today, queue>>

\* IntegrityError: roll back and fetch the record of this application and key.
DuplicateFound(r) ==
  /\ \E m \in Rivals(r) :
       /\ Durable(m)
       /\ m.app = r.app
       /\ Answer(r, m)
  /\ Goto(r, "writing", "refunding")
  /\ UNCHANGED sharedVars

\* IntegrityError, but the key belongs to another application: re-raised.
ForeignConflict(r) ==
  /\ \E m \in Rivals(r) : Durable(m) /\ m.app # r.app
  /\ Goto(r, "writing", "conflict")
  /\ UNCHANGED <<reply, sharedVars>>

\* _quota_rollback: a plain DECR of today's counter, whoever incremented which day.
QuotaRollback(r) ==
  /\ Goto(r, "refunding", "replied")
  /\ quota' = [quota EXCEPT ![r.app][today] = @ - 1]
  /\ UNCHANGED <<reply, row, cache, today, queue>>

(***************************************************************************)
(* Steps 5 to 7: cache the response, commit, then enqueue the delivery     *)
(* task (live) or settle the message at once (sandbox).                    *)
(***************************************************************************)
CacheResponse(r) ==
  /\ Goto(r, "caching", "committing")
  /\ cache' = IF r.key = NoKey THEN cache
              ELSE [cache EXCEPT ![<<r.app, r.key>>] = r]
  /\ UNCHANGED <<reply, row, quota, today, queue>>

Commit(r) ==
  /\ Goto(r, "committing", IF r.live THEN "enqueuing" ELSE "resolving")
  /\ row' = [row EXCEPT ![r] = "PENDING"]
  /\ UNCHANGED <<reply, cache, quota, today, queue>>

Enqueue(r) ==
  /\ Goto(r, "enqueuing", "replied")
  /\ queue' = Enqueued([msg |-> r, retries |-> 0])
  /\ Answer(r, r)
  /\ UNCHANGED <<row, cache, quota, today>>

ResolveSandbox(r) ==
  /\ Goto(r, "resolving", "replied")
  /\ \E status \in {"DELIVERED", "FAILED"} : row' = [row EXCEPT ![r] = status]
  /\ Answer(r, r)
  /\ UNCHANGED <<cache, quota, today, queue>>

(***************************************************************************)
(* The environment: a request stops before its next step (an exception     *)
(* from Redis, the database or the broker, a cancelled handler, a dead     *)
(* process) and its open transaction is rolled back; a cache entry reaches *)
(* its TTL; the date changes.                                              *)
(***************************************************************************)
Crash(r) ==
  /\ pc[r] \in Active
  /\ pc' = [pc EXCEPT ![r] = "crashed"]
  /\ row' = IF row[r] = "flushed" THEN [row EXCEPT ![r] = "none"] ELSE row
  /\ reply' = [reply EXCEPT ![r] = Nobody]
  /\ UNCHANGED <<cache, quota, today, queue>>

Expire(s) ==
  /\ cache[s] # Nobody
  /\ cache' = [cache EXCEPT ![s] = Nobody]
  /\ UNCHANGED <<serviceVars, row, quota, today, queue>>

NextDay ==
  /\ today < LastDay
  /\ today' = today + 1
  /\ UNCHANGED <<serviceVars, row, cache, quota, queue>>

\* The steps of a request that has been received and is being served.
Serve(r) ==
  \/ CacheHit(r) \/ CacheMiss(r)
  \/ BurstExceeded(r) \/ Consume(r) \/ QuotaExceeded(r) \/ SandboxExempt(r)
  \/ Insert(r) \/ DuplicateFound(r) \/ ForeignConflict(r)
  \/ QuotaRollback(r)
  \/ CacheResponse(r) \/ Commit(r) \/ Enqueue(r) \/ ResolveSandbox(r)

ServiceNext ==
  \/ \E r \in Requests : Serve(r) \/ Crash(r)
  \/ \E s \in CacheSlot : Expire(s)
  \/ NextDay
=============================================================================
