----------------------------- MODULE SmsPlatform -----------------------------
(***************************************************************************)
(* The SMS path end to end: any number of API requests and Celery workers  *)
(* over one database, one Redis and one broker, and what must hold of it.  *)
(***************************************************************************)
EXTENDS SmsService, SmsWorker

vars == <<sharedVars, serviceVars, workerVars>>

Init == SharedInit /\ ServiceInit /\ WorkerInit

Next ==
  \/ ServiceNext /\ UNCHANGED workerVars
  \/ WorkerNext /\ UNCHANGED serviceVars

Spec == Init /\ [][Next]_vars

(***************************************************************************)
(* The event loop keeps running the requests it has started, and every     *)
(* worker that is up keeps taking and finishing tasks.  Nothing makes a    *)
(* client call, a cache entry expire, a process crash or a day pass.       *)
(***************************************************************************)
ServeStarted(r) == pc[r] # "received" /\ Serve(r) /\ UNCHANGED workerVars
WorkOn(w) == Work(w) /\ UNCHANGED serviceVars

Fairness ==
  /\ \A r \in Requests : WF_vars(ServeStarted(r))
  /\ \A w \in Workers : WF_vars(WorkOn(w))

FairSpec == Spec /\ Fairness

-----------------------------------------------------------------------------
TypeOK == SharedTypeOK /\ ServiceTypeOK /\ WorkerTypeOK

(***************************************************************************)
(* The cache and the table never disagree: once a message is committed     *)
(* under a key, the cached response of that key, if there is one, is that  *)
(* message's - although the response is written before the commit, by      *)
(* several requests, and survives a rollback.                              *)
(***************************************************************************)
CacheAgreesWithTable ==
  \A r \in Requests :
    r.key # NoKey /\ Durable(r) => cache[<<r.app, r.key>>] \in {Nobody, r}

(***************************************************************************)
(* SMSService.send implements the abstract idempotent create: across cache *)
(* expiry, crashes and races on the INSERT, one record per key, and every  *)
(* answer given after it exists names it.  The expiry does not give the    *)
(* key back, although utils/idempotency.py:10-12 and :101 say so: a new    *)
(* request under an old key is answered with the old message.              *)
(***************************************************************************)
Create == INSTANCE IdempotentCreate WITH
  durable <- {r \in Requests : Durable(r)},
  answer <- [r \in Requests |-> IF pc[r] = "replied" THEN reply[r] ELSE Nobody]

ImplementsIdempotentCreate == Create!Spec

(***************************************************************************)
(* A request that was told its live message is accepted left a task that   *)
(* will deliver it: a copy in the broker, a copy some worker holds, or a   *)
(* task that ended with an exception.                                      *)
(***************************************************************************)
TaskExists(r) ==
  \/ \E t \in Task : t.msg = r /\ queue[t] > 0
  \/ \E w \in Workers : job[w] # Nobody /\ job[w].msg = r
  \/ r \in dead

NoMessageStranded ==
  \A r \in Requests :
    r.live /\ pc[r] = "replied" /\ reply[r] = r /\ row[r] = "PENDING" => TaskExists(r)

(***************************************************************************)
(* A message is handed to the provider once, and once more for each thing  *)
(* that no code can prevent: an accepted send whose answer was lost, and a *)
(* copy of its task that a lost worker left behind before the status was   *)
(* written.  A copy that comes back later must be stopped by the status.   *)
(***************************************************************************)
SendsAccounted == \A r \in Requests : sends[r] <= 1 + unheard[r] + redelivered[r]

(***************************************************************************)
(* Every live message that is not FAILED is paid for by a unit of its      *)
(* application's daily counters, up to one unit per lost worker and one    *)
(* per sandbox call that another message answers (an upper bound: those    *)
(* that the cache answers return nothing): what the refunds of duplicates  *)
(* and of failures return, whatever day they run on, was consumed.         *)
(***************************************************************************)
\* The sum of the counters of the days, unit by unit: a counter may be negative.
Consumed(a) == UNION {{d} \X (1 .. quota[a][d]) : d \in Days}
Overdrawn(a) == UNION {{d} \X ((quota[a][d] + 1) .. 0) : d \in Days}
QuotaTotal(a) == Cardinality(Consumed(a)) - Cardinality(Overdrawn(a))

Billable(a) ==
  {r \in Requests : r.live /\ r.app = a /\ Durable(r) /\ row[r] # "FAILED"}

SandboxDuplicates(a) ==
  {r \in Requests : ~r.live /\ r.app = a /\ reply[r] \notin {Nobody, r}}

LiveMessagesPaid ==
  \A a \in Apps :
    Cardinality(Billable(a))
      <= QuotaTotal(a) + wcrashes + Cardinality(SandboxDuplicates(a))

(***************************************************************************)
(* A message is settled once: SENT, DELIVERED and FAILED are final (the    *)
(* status transitions of tasks/sms_tasks.py:27-30), although the status is *)
(* read before the network call and written after it.  Only a message      *)
(* whose task was doubled by a loss may be settled twice.                  *)
(***************************************************************************)
SettledOnce ==
  [][\A r \in Requests : redelivered[r] = 0 /\ Settled(r) => row'[r] = row[r]]_vars

(***************************************************************************)
(* An accepted call ends, even when its INSERT waits for another           *)
(* transaction that holds its key.                                         *)
(***************************************************************************)
RequestsEnd == \A r \in Requests : pc[r] \in Active ~> pc[r] \in Over

(***************************************************************************)
(* A message whose caller was told it is accepted leaves PENDING, unless   *)
(* its task ended with an exception: that of the provider on the last      *)
(* retry, or one of the database.  No lost worker, no lost answer and no   *)
(* duplicate leaves it behind.                                             *)
(***************************************************************************)
AcceptedIsResolved ==
  \A r \in Requests :
    r.live /\ pc[r] = "replied" /\ reply[r] = r ~> row[r] # "PENDING" \/ r \in dead

-----------------------------------------------------------------------------
(***************************************************************************)
(* The inductive invariant behind CacheAgreesWithTable and the refinement. *)
(***************************************************************************)

\* A request's row is open exactly while its transaction is, and committed after.
RowsFollowRequests ==
  \A r \in Requests :
    /\ pc[r] \in {"received", "metering", "writing", "refunding", "rejected", "conflict"}
         => row[r] = "none"
    /\ pc[r] \in {"caching", "committing"} <=> row[r] = "flushed"
    /\ pc[r] \in {"enqueuing", "resolving"} => Durable(r)

\* The unique index: one open or committed row per key, whatever the application.
KeyHeldOnce ==
  \A r, m \in Requests :
    r # m /\ r.key # NoKey /\ r.key = m.key /\ row[r] # "none" => row[m] = "none"

\* A request about to commit is the only one that may be cached for its key.
CommitterIsCached ==
  \A r \in Requests :
    pc[r] = "committing" /\ r.key # NoKey => cache[<<r.app, r.key>>] \in {Nobody, r}

\* A cached response belongs to its slot and to a request past its INSERT.
CacheHoldsOwnSlot ==
  \A a \in Apps, k \in Keys :
    LET m == cache[<<a, k>>] IN
      m # Nobody => /\ m.app = a /\ m.key = k
                    /\ pc[m] \notin {"received", "metering", "writing", "refunding"}

\* A duplicate is about to be answered with the committed record of its slot.
DuplicateNamesRecord ==
  \A r \in Requests :
    pc[r] = "refunding" =>
      /\ reply[r] \in Requests \ {r}
      /\ SameSlot(r, reply[r])
      /\ Durable(reply[r])

\* Workers write the status of committed messages only.
WorkersHoldRecords ==
  \A w \in Workers :
    wpc[w] \in {"sending", "accepted", "refused", "raised"} => Durable(job[w].msg)

IInv ==
  /\ TypeOK
  /\ RowsFollowRequests
  /\ KeyHeldOnce
  /\ CommitterIsCached
  /\ CacheAgreesWithTable
  /\ CacheHoldsOwnSlot
  /\ DuplicateNamesRecord
  /\ WorkersHoldRecords

-----------------------------------------------------------------------------
(***************************************************************************)
(* The inductive invariant behind NoMessageStranded, SettledOnce and       *)
(* SendsAccounted.  A task that has a copy in the broker or is at one of   *)
(* these places of a worker may still settle its message.                  *)
(***************************************************************************)
Carrying == Trying \cup {"accepted"}

\* The copies of the tasks of a message, told apart by numbers, and its workers.
Copies(r) == UNION {{t} \X (1 .. queue[t]) : t \in {t \in Task : t.msg = r}}

Triers(r) == {w \in Workers : wpc[w] \in Trying /\ job[w].msg = r}
Carriers(r) == {w \in Workers : wpc[w] \in Carrying /\ job[w].msg = r}

Carried(r) == Copies(r) # {} \/ Carriers(r) # {}

\* Until it is enqueued, a message is PENDING at best and nobody delivers it.
NotYetEnqueued ==
  \A r \in Requests :
    /\ pc[r] \notin Over => /\ sends[r] = 0 /\ Copies(r) = {}
                            /\ \A w \in Workers : wpc[w] # "idle" => job[w].msg # r
    /\ pc[r] \in {"enqueuing", "resolving"} => row[r] = "PENDING"
    /\ pc[r] = "resolving" => ~r.live

PendingIsCarried ==
  \A r \in Requests :
    r.live /\ pc[r] = "replied" /\ reply[r] = r /\ row[r] = "PENDING" => Carried(r) \/ r \in dead

\* The workers that may still have the provider accept a message.
Senders(r) == {w \in Workers : wpc[w] = "sending" /\ job[w].msg = r}

\* An attempt uses up a copy, and a retry makes one of it; until the message is settled
\* only what is observed adds to the sends, and to the copies and carriers only a redelivery.
CopiesBounded ==
  \A r \in Requests :
    /\ IsFiniteSet(Copies(r)) /\ IsFiniteSet(Carriers(r))
    /\ ~Settled(r) =>
         /\ sends[r] + Cardinality(Copies(r)) + Cardinality(Triers(r))
              <= 1 + unheard[r] + redelivered[r]
         /\ Cardinality(Copies(r)) + Cardinality(Carriers(r)) <= 1 + redelivered[r]

\* A copy of a settled message does nothing: what counts are the workers that have begun.
SettledBounded ==
  \A r \in Requests :
    /\ sends[r] + Cardinality(Senders(r)) <= 1 + unheard[r] + redelivered[r]
    /\ Settled(r) => Cardinality(Carriers(r)) <= redelivered[r]

DeliveryInv ==
  /\ NotYetEnqueued
  /\ PendingIsCarried
  /\ CopiesBounded
  /\ SettledBounded

-----------------------------------------------------------------------------
(***************************************************************************)
(* The inductive invariant behind LiveMessagesPaid.  Every request, task   *)
(* and worker that may still return a unit to an application claims one,   *)
(* and so does every message that nobody delivers any more and that did    *)
(* not fail: a unit is returned by whoever gives up a claim.               *)
(***************************************************************************)
Begun == {r \in Requests : pc[r] # "received"}

\* Requests that have taken a unit, or whose message is not handed over yet.
Charged(a) ==
  {r \in Requests : /\ r.live /\ r.app = a
                    /\ pc[r] \in {"writing", "refunding", "caching", "committing", "enqueuing"}}

\* Copies of the tasks of an application, and the workers that may still refund one.
TaskCopies(a) == UNION {{t} \X (1 .. queue[t]) : t \in {t \in Task : t.msg.app = a}}
Handlers(a) ==
  {w \in Workers : wpc[w] \in Carrying \cup {"refunding"} /\ job[w].msg.app = a}

\* Messages that stay billable: nobody carries them any more.
Kept(a) == {r \in Billable(a) \ Charged(a) : ~Carried(r)}

\* The units that duplicates of sandbox calls have returned without taking one.
Returned(a) == {r \in SandboxDuplicates(a) : pc[r] = "replied"}

Claims(a) ==
  Cardinality(Charged(a)) + Cardinality(TaskCopies(a)) + Cardinality(Handlers(a))
    + Cardinality(Kept(a))

ClaimsPaid ==
  \A a \in Apps :
    /\ IsFiniteSet(TaskCopies(a)) /\ IsFiniteSet(Handlers(a))
    /\ IsFiniteSet(Consumed(a)) /\ IsFiniteSet(Overdrawn(a))
    /\ Claims(a) <= QuotaTotal(a) + wcrashes + Cardinality(Returned(a))

BooksInv ==
  /\ IsFiniteSet(Begun)
  /\ \A r \in Requests : /\ pc[r] = "received" => reply[r] = Nobody
                         /\ pc[r] = "enqueuing" => r.live
  /\ ClaimsPaid
=============================================================================
