------------------------ MODULE NotificationService -------------------------
(***************************************************************************)
(* NotificationService.dispatch (services/notification_service.py) behind  *)
(* POST /notifications/send: the order is cache, quota, INSERT, provider,  *)
(* status, cache, commit, all in one request and one transaction.  No      *)
(* worker and no handler of a duplicate key is behind it.                  *)
(*                                                                         *)
(*   received -> metering -> writing -> sending -> caching -> committing   *)
(*            -> returning -> replied                                      *)
(*   every step may also end the request: errored or crashed.              *)
(***************************************************************************)
EXTENDS Integers, FiniteSets

CONSTANTS
  Apps, Keys,
  NoKey,     \* the call carries no idempotency key
  Requests,  \* the calls: [id, app, key, channel, live]
  Nobody,    \* no record
  DailyLimit

NotificationChannel == {"SMS", "EMAIL", "PUSH"}

ASSUME NotificationAssumption ==
  /\ Requests \subseteq [id : Nat, app : Apps, key : Keys \cup {NoKey},
                        channel : NotificationChannel, live : BOOLEAN]
  /\ NoKey \notin Keys /\ Nobody \notin Requests
  /\ DailyLimit \in Nat

VARIABLES
  row,        \* notification_records: "none" or the status in the table or in a transaction
  committed,  \* the records other transactions see
  cache,      \* idempotency:{app}:notifications:{key} -> the record of the cached response
  quota,      \* quota:{app}:notifications:{day}
  pc,         \* where each request is
  returned,   \* the record dispatch has returned for each request
  sent        \* the records handed to a provider

vars == <<row, committed, cache, quota, pc, returned, sent>>

Active == {"metering", "writing", "sending", "caching", "committing", "returning"}

Init ==
  /\ row = [r \in Requests |-> "none"]
  /\ committed = {}
  /\ cache = [s \in Apps \X Keys |-> Nobody]
  /\ quota = [a \in Apps |-> 0]
  /\ pc = [r \in Requests |-> "received"]
  /\ returned = [r \in Requests |-> Nobody]
  /\ sent = {}

Goto(r, from, to) ==
  /\ pc[r] = from
  /\ pc' = [pc EXCEPT ![r] = to]

SlotOf(r) == <<r.app, r.key>>

(***************************************************************************)
(* Variants with a plausible mistake, used to show that the properties     *)
(* notice it; no specification contains them.                              *)
(***************************************************************************)
\* A SELECT among the committed records in the place of the unique index.
CommittedRivals(r) == {m \in committed \ {r} : r.key # NoKey /\ m.key = r.key}

\* The cache key leaves the application out.
CachedForAnyone(r) ==
  LET hits == {cache[<<app, r.key>>] : app \in Apps} \ {Nobody} IN
  IF r.key = NoKey \/ hits = {} THEN Nobody ELSE CHOOSE m \in hits : TRUE

-----------------------------------------------------------------------------
\* get_cached_response.
Cached(r) == IF r.key = NoKey THEN Nobody ELSE cache[SlotOf(r)]

\* dispatch returns the cached dict, and the route reads it like a record: the
\* AttributeError is answered with 500.
Replay(r) ==
  /\ Goto(r, "received", "errored")
  /\ Cached(r) # Nobody
  /\ returned' = [returned EXCEPT ![r] = Cached(r)]
  /\ UNCHANGED <<row, committed, cache, quota, sent>>

CacheMiss(r) ==
  /\ Goto(r, "received", "metering")
  /\ Cached(r) = Nobody
  /\ UNCHANGED <<row, committed, cache, quota, returned, sent>>

\* An SMS is an internal cost; sandbox keys have no daily limit.
Billed(r) == r.channel # "SMS" /\ r.live

Consume(r) ==
  /\ Goto(r, "metering", "writing")
  /\ Billed(r) => quota[r.app] < DailyLimit
  /\ quota' = IF Billed(r) THEN [quota EXCEPT ![r.app] = @ + 1] ELSE quota
  /\ UNCHANGED <<row, committed, cache, returned, sent>>

\* The burst window, which sandbox keys have too, or the daily limit.
QuotaRefused(r) ==
  /\ Goto(r, "metering", "errored")
  /\ r.channel # "SMS"
  /\ UNCHANGED <<row, committed, cache, quota, returned, sent>>

\* idempotency_key is unique over the table; an INSERT waits for an open transaction
\* that holds the key.
Rivals(r) == {m \in Requests \ {r} : r.key # NoKey /\ m.key = r.key /\ row[m] # "none"}

Create(r) ==
  /\ Goto(r, "writing", "sending")
  /\ Rivals(r) = {}
  /\ row' = [row EXCEPT ![r] = "PENDING"]
  /\ UNCHANGED <<committed, cache, quota, returned, sent>>

\* The IntegrityError is not handled: 500, and the unit is gone.
Duplicate(r) ==
  /\ Goto(r, "writing", "errored")
  /\ Rivals(r) \cap committed # {}
  /\ UNCHANGED <<row, committed, cache, quota, returned, sent>>

\* Sandbox notifications are SENT, live PUSH is FAILED, both without a provider.
SettleUnsent(r) ==
  /\ Goto(r, "sending", "caching")
  /\ ~r.live \/ r.channel = "PUSH"
  /\ row' = [row EXCEPT ![r] = IF r.live THEN "FAILED" ELSE "SENT"]
  /\ UNCHANGED <<committed, cache, quota, returned, sent>>

\* The provider accepts, or raises, perhaps after it has accepted.
Send(r) ==
  /\ Goto(r, "sending", "caching")
  /\ r.live /\ r.channel \in {"SMS", "EMAIL"}
  /\ \E status \in {"SENT", "FAILED"} : row' = [row EXCEPT ![r] = status]
  /\ sent' = sent \cup {r}
  /\ UNCHANGED <<committed, cache, quota, returned>>

CacheResponse(r) ==
  /\ Goto(r, "caching", "committing")
  /\ cache' = IF r.key = NoKey THEN cache ELSE [cache EXCEPT ![SlotOf(r)] = r]
  /\ UNCHANGED <<row, committed, quota, returned, sent>>

Commit(r) ==
  /\ Goto(r, "committing", "returning")
  /\ committed' = committed \cup {r}
  /\ UNCHANGED <<row, cache, quota, returned, sent>>

Return(r) ==
  /\ Goto(r, "returning", "replied")
  /\ returned' = [returned EXCEPT ![r] = r]
  /\ UNCHANGED <<row, committed, cache, quota, sent>>

\* An error or a dead process: the transaction is rolled back, what was sent was sent.
Crash(r) ==
  /\ pc[r] \in Active
  /\ pc' = [pc EXCEPT ![r] = "crashed"]
  /\ row' = IF r \in committed THEN row ELSE [row EXCEPT ![r] = "none"]
  /\ UNCHANGED <<committed, cache, quota, returned, sent>>

\* A request dies between the call of the provider and its answer.
CrashSending(r) ==
  /\ Goto(r, "sending", "crashed")
  /\ r.live /\ r.channel \in {"SMS", "EMAIL"}
  /\ row' = [row EXCEPT ![r] = "none"]
  /\ sent' = sent \cup {r}
  /\ UNCHANGED <<committed, cache, quota, returned>>

Expire(s) ==
  /\ cache[s] # Nobody
  /\ cache' = [cache EXCEPT ![s] = Nobody]
  /\ UNCHANGED <<row, committed, quota, pc, returned, sent>>

Dispatch(r) ==
  \/ Replay(r) \/ CacheMiss(r)
  \/ Consume(r) \/ QuotaRefused(r)
  \/ Create(r) \/ Duplicate(r)
  \/ SettleUnsent(r) \/ Send(r)
  \/ CacheResponse(r) \/ Commit(r) \/ Return(r)

Next ==
  \/ \E r \in Requests : Dispatch(r) \/ Crash(r) \/ CrashSending(r)
  \/ \E s \in Apps \X Keys : Expire(s)

Spec == Init /\ [][Next]_vars

-----------------------------------------------------------------------------
(***************************************************************************)
(* dispatch calls the provider before it commits.  The open INSERT holds   *)
(* the key meanwhile, so a key is handed to a provider twice only if the   *)
(* request of one of the two times died.                                   *)
(***************************************************************************)
SentAgainOnlyAfterDeath ==
  \A r, m \in sent :
    r # m /\ r.key # NoKey /\ r.key = m.key => "crashed" \in {pc[r], pc[m]}

(***************************************************************************)
(* dispatch implements the abstract idempotent create: one record per key, *)
(* and what it returns for a key is that record.  The key is never given   *)
(* back, although utils/idempotency.py:10-12 and :101 say that it is after *)
(* 24 hours: a new request under an old key is answered with 500.          *)
(***************************************************************************)
Idempotent == INSTANCE IdempotentCreate WITH
  durable <- committed,
  answer <- returned

ImplementsIdempotentCreate == Idempotent!Spec

-----------------------------------------------------------------------------
(***************************************************************************)
(* The inductive invariant behind both.                                    *)
(***************************************************************************)
\* The domains of the variables.
TypeOK ==
  /\ row \in [Requests -> {"none", "PENDING", "SENT", "FAILED"}]
  /\ committed \subseteq Requests
  /\ cache \in [Apps \X Keys -> Requests \cup {Nobody}]
  /\ quota \in [Apps -> Nat]
  /\ pc \in [Requests -> {"received"} \cup Active \cup {"replied", "errored", "crashed"}]
  /\ returned \in [Requests -> Requests \cup {Nobody}]
  /\ sent \subseteq Requests

\* The record of a request exists from its INSERT on, and is committed by it alone.
RowsFollowRequests ==
  \A r \in Requests :
    /\ pc[r] \in {"received", "metering", "writing", "errored"} => row[r] = "none"
    /\ pc[r] \in {"sending", "caching", "committing"} => row[r] # "none" /\ r \notin committed
    /\ pc[r] \in {"returning", "replied"} => r \in committed
    /\ r \in committed <=> row[r] # "none" /\ pc[r] \notin {"sending", "caching", "committing"}

\* The unique index: one record per key, open ones included, whatever the application.
KeyHeldOnce ==
  \A r, m \in Requests :
    r # m /\ r.key # NoKey /\ r.key = m.key /\ row[r] # "none" => row[m] = "none"

\* A request about to commit is the only one that may be cached for its key.
CommitterIsCached ==
  \A r \in Requests :
    pc[r] = "committing" /\ r.key # NoKey => cache[SlotOf(r)] \in {Nobody, r}

\* A cached response belongs to its slot, is not of a request that has not begun, and is
\* the committed record of the slot if there is one.
CacheHoldsSlot ==
  \A s \in Apps \X Keys :
    cache[s] # Nobody =>
      /\ SlotOf(cache[s]) = s
      /\ pc[cache[s]] # "received"
      /\ \A d \in committed : SlotOf(d) = s => d = cache[s]

\* dispatch returns once, at its end.
ReturnsAtEnd ==
  \A r \in Requests : pc[r] \notin {"replied", "errored"} => returned[r] = Nobody

\* What a provider was handed has a record, unless its request has died.
SentHasRecord ==
  \A r \in sent : row[r] # "none" \/ pc[r] = "crashed"

IInv ==
  /\ TypeOK
  /\ RowsFollowRequests
  /\ KeyHeldOnce
  /\ CommitterIsCached
  /\ CacheHoldsSlot
  /\ ReturnsAtEnd
  /\ SentHasRecord
=============================================================================
