------------------------------ MODULE SmsState ------------------------------
(***************************************************************************)
(* What the API processes and the Celery workers share when an SMS is      *)
(* sent: the sms_messages table, the idempotency cache and the daily       *)
(* quota counters in Redis, and the Celery queue of send_sms_task.         *)
(*                                                                         *)
(* A call of POST /sms/send is a record of Requests; it carries what the   *)
(* program tells calls apart by.  The row a call inserts is named by the   *)
(* call itself, which stands for the uuid4 the row gets.                   *)
(***************************************************************************)
EXTENDS Integers, FiniteSets

CONSTANTS
  Apps,        \* client applications
  Keys,        \* idempotency keys a client may send
  NoKey,       \* the call carries no idempotency key
  Requests,    \* the calls: [id, app, key, live]
  Nobody,      \* no message, no task
  DailyLimit,  \* settings.quota_<plan>_sms
  LastDay,     \* bound: the clock stops at this day
  MaxRetries   \* max_retries of send_sms_task

Days == 0 .. LastDay
SMSStatus == {"PENDING", "SENT", "DELIVERED", "FAILED"}
Task == [msg : Requests, retries : 0 .. MaxRetries]

ASSUME RequestsAssumption ==
  /\ Requests \subseteq [id : Nat, app : Apps, key : Keys \cup {NoKey}, live : BOOLEAN]
  /\ NoKey \notin Keys
  /\ Nobody \notin Requests
  /\ Nobody \notin Task

ASSUME BoundsAssumption ==
  /\ DailyLimit \in Nat
  /\ LastDay \in Nat
  /\ MaxRetries \in Nat

VARIABLES
  row,    \* sms_messages: "none", "flushed" (inserted, not committed) or a status
  cache,  \* idempotency:{app}:sms:{key} -> the message of the cached response
  quota,  \* quota:{app}:sms:{day}
  today,  \* the UTC date
  queue   \* number of copies of each task in the broker

sharedVars == <<row, cache, quota, today, queue>>

CacheSlot == Apps \X Keys

SharedTypeOK ==
  /\ row \in [Requests -> {"none", "flushed"} \cup SMSStatus]
  /\ cache \in [CacheSlot -> Requests \cup {Nobody}]
  /\ quota \in [Apps -> [Days -> Int]]
  /\ today \in Days
  /\ queue \in [Task -> Nat]

SharedInit ==
  /\ row = [r \in Requests |-> "none"]
  /\ cache = [s \in CacheSlot |-> Nobody]
  /\ quota = [a \in Apps |-> [d \in Days |-> 0]]
  /\ today = 0
  /\ queue = [t \in Task |-> 0]

\* A committed row: other transactions, the workers and later requests see it.
Durable(r) == row[r] \in SMSStatus

\* The two calls name the same idempotent operation.
SameSlot(r, m) == m = r \/ (r.key # NoKey /\ m.key = r.key /\ m.app = r.app)

Enqueued(t) == [queue EXCEPT ![t] = @ + 1]
Dequeued(t) == [queue EXCEPT ![t] = @ - 1]
=============================================================================
