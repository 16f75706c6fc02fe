------------------------------ MODULE SmsWorker ------------------------------
(***************************************************************************)
(* The Celery side (tasks/sms_tasks.py): workers that take copies of       *)
(* send_sms_task from the broker.  With task_acks_late the broker keeps a  *)
(* copy until the task has returned or raised, so a worker lost before the *)
(* acknowledgement puts its copy back in the queue.  Only live messages    *)
(* are ever enqueued, so the is_sandbox branch of the task has no caller.  *)
(*                                                                         *)
(*   idle -> sending -> accepted -> acking -> idle                         *)
(*                   -> refused | raised -> acking (a retry is queued)     *)
(*                   -> refused -> refunding -> acking (after max_retries) *)
(***************************************************************************)
EXTENDS SmsState

CONSTANTS
  Workers,     \* worker processes
  MaxCrashes   \* bound: worker losses in one behaviour

ASSUME MaxCrashesAssumption == MaxCrashes \in Nat

VARIABLES
  wpc,       \* where each worker is in _execute_sms_delivery
  job,       \* the task copy each worker holds
  sends,     \* how often the provider accepted each message
  dead,      \* messages whose task ended with an exception (Celery FAILURE)
  wcrashes   \* worker losses so far

\* What is only observed: no action looks at these.
VARIABLES
  unheard,     \* sends of each message that were accepted and whose answer was lost
  redelivered  \* copies that came back after their attempt, the message not settled

observed == <<unheard, redelivered>>
workerVars == <<wpc, job, sends, dead, wcrashes, observed>>

\* Places of a worker whose attempt may end in another copy.
Trying == {"sending", "refused", "raised"}

Settled(m) == row[m] \in {"SENT", "DELIVERED", "FAILED"}

WorkerTypeOK ==
  /\ wpc \in [Workers -> {"idle", "sending", "accepted", "refused", "raised",
                          "refunding", "acking"}]
  /\ job \in [Workers -> Task \cup {Nobody}]
  /\ \A w \in Workers : wpc[w] # "idle" => job[w] \in Task
  /\ sends \in [Requests -> Nat]
  /\ dead \subseteq Requests
  /\ wcrashes \in 0 .. MaxCrashes
  /\ unheard \in [Requests -> Nat]
  /\ redelivered \in [Requests -> Nat]

WorkerInit ==
  /\ wpc = [w \in Workers |-> "idle"]
  /\ job = [w \in Workers |-> Nobody]
  /\ sends = [r \in Requests |-> 0]
  /\ dead = {}
  /\ wcrashes = 0
  /\ unheard = [r \in Requests |-> 0]
  /\ redelivered = [r \in Requests |-> 0]

Step(w, from, to) ==
  /\ wpc[w] = from
  /\ wpc' = [wpc EXCEPT ![w] = to]

SetStatus(m, status) == row' = [row EXCEPT ![m] = status]

Again(t) == [msg |-> t.msg, retries |-> t.retries + 1]

(***************************************************************************)
(* Variants with a plausible mistake, used to show that the properties     *)
(* notice it; no specification contains them.                              *)
(***************************************************************************)
\* The status of the row is not looked at.
BeginUnchecked(w, t) ==
  /\ queue[t] > 0
  /\ Step(w, "idle", "sending")
  /\ queue' = Dequeued(t)
  /\ job' = [job EXCEPT ![w] = t]
  /\ UNCHANGED <<row, cache, quota, today, sends, dead, wcrashes, observed>>

\* The task returns instead of raising self.retry.
RetryNotPublished(w) ==
  /\ wpc[w] \in {"refused", "raised"}
  /\ job[w].retries < MaxRetries
  /\ Step(w, wpc[w], "acking")
  /\ UNCHANGED <<job, sends, dead, wcrashes, observed, sharedVars>>

\* Every failed attempt returns a unit, not only the last one.
RetryRefunds(w) ==
  /\ wpc[w] \in {"refused", "raised"}
  /\ job[w].retries < MaxRetries
  /\ Step(w, wpc[w], "acking")
  /\ queue' = Enqueued(Again(job[w]))
  /\ quota' = [quota EXCEPT ![job[w].msg.app][today] = IF @ > 0 THEN @ - 1 ELSE @]
  /\ UNCHANGED <<job, sends, dead, wcrashes, observed, row, cache, today>>

\* A status the enumeration of the column does not have.
FailUnknownStatus(w) ==
  /\ job[w] # Nobody
  /\ Step(w, "refused", "refunding")
  /\ job[w].retries = MaxRetries
  /\ SetStatus(job[w].msg, "REJECTED")
  /\ UNCHANGED <<job, sends, dead, wcrashes, observed, cache, quota, today, queue>>

\* task_acks_late = False: the copy of a lost worker is gone.
CrashLosesTask(w) ==
  /\ wcrashes < MaxCrashes
  /\ wpc[w] # "idle"
  /\ wpc' = [wpc EXCEPT ![w] = "idle"]
  /\ job' = [job EXCEPT ![w] = Nobody]
  /\ wcrashes' = wcrashes + 1
  /\ UNCHANGED <<sends, dead, observed, sharedVars>>

\* Take a copy and read the row: only a PENDING message is sent.
Begin(w, t) ==
  /\ queue[t] > 0
  /\ Step(w, "idle", IF row[t.msg] = "PENDING" THEN "sending" ELSE "acking")
  /\ queue' = Dequeued(t)
  /\ job' = [job EXCEPT ![w] = t]
  /\ UNCHANGED <<row, cache, quota, today, sends, dead, wcrashes, observed>>

\* provider.send: the network call, on the status read by Begin.
Accepted(w) ==
  /\ Step(w, "sending", "accepted")
  /\ sends' = [sends EXCEPT ![job[w].msg] = @ + 1]
  /\ UNCHANGED <<job, dead, wcrashes, observed, sharedVars>>

\* The provider answers that it failed, or raises before it has accepted.
Refused(w) ==
  /\ \/ Step(w, "sending", "refused")
     \/ Step(w, "sending", "raised")
  /\ UNCHANGED <<job, sends, dead, wcrashes, observed, sharedVars>>

\* The provider raises after it has accepted: a timeout, a connection that breaks.
AnswerLost(w) ==
  /\ Step(w, "sending", "raised")
  /\ sends' = [sends EXCEPT ![job[w].msg] = @ + 1]
  /\ unheard' = [unheard EXCEPT ![job[w].msg] = @ + 1]
  /\ UNCHANGED <<job, dead, wcrashes, redelivered, sharedVars>>

\* The status is written without reading it again.
RecordSent(w) ==
  /\ Step(w, "accepted", "acking")
  /\ SetStatus(job[w].msg, "SENT")
  /\ UNCHANGED <<job, sends, dead, wcrashes, observed, cache, quota, today, queue>>

\* self.retry: a new copy with one more retry is published, then this one acked.
Retry(w) ==
  /\ wpc[w] \in {"refused", "raised"}
  /\ job[w].retries < MaxRetries
  /\ Step(w, wpc[w], "acking")
  /\ queue' = Enqueued(Again(job[w]))
  /\ UNCHANGED <<job, sends, dead, wcrashes, observed, row, cache, quota, today>>

\* self.retry with no retry left re-raises the provider's exception.
GiveUp(w) ==
  /\ job[w] # Nobody
  /\ Step(w, "raised", "acking")
  /\ job[w].retries = MaxRetries
  /\ dead' = dead \cup {job[w].msg}
  /\ UNCHANGED <<job, sends, wcrashes, observed, sharedVars>>

\* session.get or session.commit raises: the task fails, its copy is acknowledged.
DatabaseFails(w) ==
  /\ job[w] # Nobody
  /\ \/ Step(w, "sending", "acking")
     \/ Step(w, "accepted", "acking")
     \/ job[w].retries = MaxRetries /\ Step(w, "refused", "acking")
  /\ dead' = dead \cup {job[w].msg}
  /\ UNCHANGED <<job, sends, wcrashes, observed, sharedVars>>

\* _handle_permanent_sms_failure: FAILED is committed, then the quota is returned.
FailPermanently(w) ==
  /\ job[w] # Nobody
  /\ Step(w, "refused", "refunding")
  /\ job[w].retries = MaxRetries
  /\ SetStatus(job[w].msg, "FAILED")
  /\ UNCHANGED <<job, sends, dead, wcrashes, observed, cache, quota, today, queue>>

\* _rollback_sms_quota: DECR with a floor at zero, on the counter of today.
Refund(w) ==
  /\ Step(w, "refunding", "acking")
  /\ quota' = [quota EXCEPT ![job[w].msg.app][today] = IF @ > 0 THEN @ - 1 ELSE @]
  /\ UNCHANGED <<job, sends, dead, wcrashes, observed, row, cache, today, queue>>

\* The exception of a failed rollback is logged and swallowed.
RefundLost(w) ==
  /\ Step(w, "refunding", "acking")
  /\ UNCHANGED <<job, sends, dead, wcrashes, observed, sharedVars>>

Ack(w) ==
  /\ Step(w, "acking", "idle")
  /\ job' = [job EXCEPT ![w] = Nobody]
  /\ UNCHANGED <<sends, dead, wcrashes, observed, sharedVars>>

\* The worker dies: its transaction is rolled back and its copy redelivered.
WorkerCrash(w) ==
  /\ wcrashes < MaxCrashes
  /\ wpc[w] # "idle"
  /\ wpc' = [wpc EXCEPT ![w] = "idle"]
  /\ job' = [job EXCEPT ![w] = Nobody]
  /\ queue' = Enqueued(job[w])
  /\ wcrashes' = wcrashes + 1
  /\ redelivered' = IF wpc[w] \in Trying \/ Settled(job[w].msg) THEN redelivered
                    ELSE [redelivered EXCEPT ![job[w].msg] = @ + 1]
  /\ UNCHANGED <<sends, dead, unheard, row, cache, quota, today>>

\* The steps of a worker that is up.
Work(w) ==
  \/ \E t \in Task : Begin(w, t)
  \/ Accepted(w) \/ Refused(w) \/ AnswerLost(w) \/ RecordSent(w)
  \/ Retry(w) \/ GiveUp(w) \/ DatabaseFails(w) \/ FailPermanently(w)
  \/ Refund(w) \/ RefundLost(w) \/ Ack(w)

WorkerNext == \E w \in Workers : Work(w) \/ WorkerCrash(w)
=============================================================================
