------------------------------ MODULE SmsProofs ------------------------------
(***************************************************************************)
(* Theorems about SmsPlatform, for every set of calls, applications, keys  *)
(* and workers, every daily limit and every number of retries.             *)
(***************************************************************************)
EXTENDS SmsPlatform, FiniteSetTheorems, TLAPS

(***************************************************************************)
(* What a call is made of: the projections the other proofs use.           *)
(***************************************************************************)
LEMMA RequestFields ==
  ASSUME NEW r \in Requests
  PROVE  /\ r.app \in Apps
         /\ r.key \in Keys \cup {NoKey}
         /\ r.live \in BOOLEAN
         /\ r # Nobody
BY RequestsAssumption

(***************************************************************************)
(* The cache slot of a call that carries a key.                            *)
(***************************************************************************)
LEMMA SlotOfRequest ==
  ASSUME NEW r \in Requests, r.key # NoKey
  PROVE  <<r.app, r.key>> \in CacheSlot
BY RequestFields DEF CacheSlot

(***************************************************************************)
(* Publishing and taking a copy keep the queue a bag of tasks.             *)
(***************************************************************************)
LEMMA QueueType ==
  ASSUME queue \in [Task -> Nat], NEW t \in Task
  PROVE  /\ Enqueued(t) \in [Task -> Nat]
         /\ queue[t] > 0 => Dequeued(t) \in [Task -> Nat]
BY DEF Enqueued, Dequeued

(***************************************************************************)
(* The message of a task and of its retry is a call.                       *)
(***************************************************************************)
LEMMA TaskFields ==
  ASSUME NEW t \in Task
  PROVE  /\ t.msg \in Requests
         /\ t.retries \in 0 .. MaxRetries
         /\ t.retries < MaxRetries => Again(t) \in Task
         /\ Again(t).msg = t.msg
BY BoundsAssumption DEF Task, Again

(***************************************************************************)
(* What SMSService.send enqueues is a task.                                *)
(***************************************************************************)
LEMMA FirstTask ==
  ASSUME NEW r \in Requests
  PROVE  [msg |-> r, retries |-> 0] \in Task
BY BoundsAssumption DEF Task

-----------------------------------------------------------------------------
(***************************************************************************)
(* Every step of a request keeps the types.                                *)
(***************************************************************************)
LEMMA ServiceKeepsTypes ==
  ASSUME TypeOK, ServiceNext, UNCHANGED workerVars
  PROVE  TypeOK'
<1> USE DEF TypeOK, SharedTypeOK, ServiceTypeOK, WorkerTypeOK, workerVars, observed
<1> DEFINE Typed == SharedTypeOK' /\ ServiceTypeOK'
<1>0. WorkerTypeOK'
  OBVIOUS
<1>1. ASSUME NEW r \in Requests, CacheHit(r) PROVE Typed
  BY <1>1, SlotOfRequest DEF CacheHit, Goto, Answer, sharedVars, Active, Over
<1>2. ASSUME NEW r \in Requests, CacheMiss(r) PROVE Typed
  BY <1>2 DEF CacheMiss, Goto, sharedVars, Active, Over
<1>3. ASSUME NEW r \in Requests, BurstExceeded(r) PROVE Typed
  BY <1>3 DEF BurstExceeded, Goto, sharedVars, Active, Over
<1>4. ASSUME NEW r \in Requests, Consume(r) PROVE Typed
  BY <1>4, RequestFields DEF Consume, Validated, Goto, Active, Over
<1>5. ASSUME NEW r \in Requests, QuotaExceeded(r) PROVE Typed
  BY <1>5 DEF QuotaExceeded, Goto, sharedVars, Active, Over
<1>6. ASSUME NEW r \in Requests, SandboxExempt(r) PROVE Typed
  BY <1>6 DEF SandboxExempt, Validated, Goto, sharedVars, Active, Over
<1>7. ASSUME NEW r \in Requests, Insert(r) PROVE Typed
  BY <1>7 DEF Insert, Goto, Active, Over
<1>8. ASSUME NEW r \in Requests, DuplicateFound(r) PROVE Typed
  BY <1>8 DEF DuplicateFound, Rivals, Answer, Goto, sharedVars, Active, Over
<1>9. ASSUME NEW r \in Requests, ForeignConflict(r) PROVE Typed
  BY <1>9 DEF ForeignConflict, Goto, sharedVars, Active, Over
<1>10. ASSUME NEW r \in Requests, QuotaRollback(r) PROVE Typed
  BY <1>10, RequestFields DEF QuotaRollback, Goto, Active, Over
<1>11. ASSUME NEW r \in Requests, CacheResponse(r) PROVE Typed
  BY <1>11, SlotOfRequest DEF CacheResponse, Goto, Active, Over
<1>12. ASSUME NEW r \in Requests, Commit(r) PROVE Typed
  BY <1>12 DEF Commit, Goto, Active, Over, SMSStatus
<1>13. ASSUME NEW r \in Requests, Enqueue(r) PROVE Typed
  <2>1. queue' \in [Task -> Nat]
    BY <1>13, FirstTask, QueueType DEF Enqueue
  <2> QED
    BY <1>13, <2>1 DEF Enqueue, Answer, Goto, Active, Over
<1>14. ASSUME NEW r \in Requests, ResolveSandbox(r) PROVE Typed
  BY <1>14 DEF ResolveSandbox, Answer, Goto, Active, Over, SMSStatus
<1>15. ASSUME NEW r \in Requests, Crash(r) PROVE Typed
  BY <1>15 DEF Crash, Active, Over
<1>16. ASSUME NEW s \in CacheSlot, Expire(s) PROVE Typed
  BY <1>16 DEF Expire, serviceVars
<1>17. ASSUME NextDay PROVE Typed
  BY <1>17, BoundsAssumption DEF NextDay, serviceVars, Days
<1> QED
  BY <1>0, <1>1, <1>2, <1>3, <1>4, <1>5, <1>6, <1>7, <1>8, <1>9, <1>10, <1>11,
     <1>12, <1>13, <1>14, <1>15, <1>16, <1>17 DEF ServiceNext, Serve

(***************************************************************************)
(* Every step of a worker keeps the types.                                 *)
(***************************************************************************)
LEMMA WorkerKeepsTypes ==
  ASSUME TypeOK, WorkerNext, UNCHANGED serviceVars
  PROVE  TypeOK'
<1> USE DEF TypeOK, SharedTypeOK, ServiceTypeOK, WorkerTypeOK, serviceVars, observed
<1>1. ASSUME NEW w \in Workers, NEW t \in Task, Begin(w, t) PROVE TypeOK'
  <2>1. queue' \in [Task -> Nat]
    BY <1>1, QueueType DEF Begin
  <2> QED
    BY <1>1, <2>1 DEF Begin, Step
<1>2. ASSUME NEW w \in Workers, Accepted(w) PROVE TypeOK'
  BY <1>2, TaskFields DEF Accepted, Step, sharedVars
<1>3. ASSUME NEW w \in Workers, Refused(w) PROVE TypeOK'
  BY <1>3 DEF Refused, Step, sharedVars
<1>4. ASSUME NEW w \in Workers, RecordSent(w) PROVE TypeOK'
  BY <1>4 DEF RecordSent, SetStatus, Step, SMSStatus
<1>5. ASSUME NEW w \in Workers, Retry(w) PROVE TypeOK'
  <2>1. job[w] \in Task /\ Again(job[w]) \in Task
    BY <1>5, TaskFields DEF Retry
  <2>2. queue' \in [Task -> Nat]
    BY <1>5, <2>1, QueueType DEF Retry
  <2> QED
    BY <1>5, <2>1, <2>2 DEF Retry, Step
<1>6. ASSUME NEW w \in Workers, GiveUp(w) PROVE TypeOK'
  BY <1>6, TaskFields DEF GiveUp, Step, sharedVars
<1>7. ASSUME NEW w \in Workers, FailPermanently(w) PROVE TypeOK'
  BY <1>7 DEF FailPermanently, SetStatus, Step, SMSStatus
<1>8. ASSUME NEW w \in Workers, Refund(w) PROVE TypeOK'
  <2>1. job[w].msg.app \in Apps
    BY <1>8, TaskFields, RequestFields DEF Refund, Step
  <2> QED
    BY <1>8, <2>1 DEF Refund, Step
<1>9. ASSUME NEW w \in Workers, RefundLost(w) PROVE TypeOK'
  BY <1>9 DEF RefundLost, Step, sharedVars
<1>10. ASSUME NEW w \in Workers, Ack(w) PROVE TypeOK'
  BY <1>10 DEF Ack, Step, sharedVars
<1>11. ASSUME NEW w \in Workers, WorkerCrash(w) PROVE TypeOK'
  <2>1. queue' \in [Task -> Nat]
    BY <1>11, QueueType DEF WorkerCrash
  <2>2. redelivered' \in [Requests -> Nat]
    BY <1>11, TaskFields DEF WorkerCrash
  <2> QED
    BY <1>11, <2>1, <2>2, MaxCrashesAssumption DEF WorkerCrash
<1>12. ASSUME NEW w \in Workers, DatabaseFails(w) PROVE TypeOK'
  BY <1>12, TaskFields DEF DatabaseFails, Step, sharedVars
<1>13. ASSUME NEW w \in Workers, AnswerLost(w) PROVE TypeOK'
  BY <1>13, TaskFields DEF AnswerLost, Step, sharedVars
<1> QED
  BY <1>1, <1>2, <1>3, <1>4, <1>5, <1>6, <1>7, <1>8, <1>9, <1>10, <1>11, <1>12, <1>13
     DEF WorkerNext, Work

(***************************************************************************)
(* The initial state is well typed.                                        *)
(***************************************************************************)
LEMMA InitTypes == Init => TypeOK
BY BoundsAssumption, MaxCrashesAssumption
   DEF Init, SharedInit, ServiceInit, WorkerInit, TypeOK, SharedTypeOK, ServiceTypeOK,
       WorkerTypeOK, Days

(***************************************************************************)
(* Type correctness of the whole platform.                                 *)
(***************************************************************************)
THEOREM TypeCorrect == Spec => []TypeOK
<1>1. TypeOK /\ UNCHANGED vars => TypeOK'
  BY DEF vars, sharedVars, serviceVars, workerVars, observed, TypeOK, SharedTypeOK,
         ServiceTypeOK, WorkerTypeOK
<1>2. TypeOK /\ [Next]_vars => TypeOK'
  BY <1>1, ServiceKeepsTypes, WorkerKeepsTypes DEF Next
<1> QED
  BY InitTypes, <1>2, PTL DEF Spec

-----------------------------------------------------------------------------
(***************************************************************************)
(* The steps of a request that has no row yet: they leave the table and    *)
(* the cache alone, so every part of the invariant about them survives.    *)
(***************************************************************************)
LEMMA EarlyStep ==
  ASSUME IInv, TypeOK', NEW r \in Requests,
         pc[r] \in {"received", "metering", "writing", "refunding"},
         NEW to \in {"metering", "writing", "replied", "rejected", "conflict"},
         to = "replied" \/ pc[r] # "refunding",
         pc' = [pc EXCEPT ![r] = to],
         \A m \in Requests \ {r} : reply'[m] = reply[m],
         UNCHANGED <<row, cache, workerVars>>
  PROVE  IInv'
<1> USE DEF IInv
<1>0. pc \in [Requests -> {"received"} \cup Active \cup Over]
  BY DEF TypeOK, ServiceTypeOK
<1>1. RowsFollowRequests'
  BY <1>0 DEF RowsFollowRequests, Durable
<1>2. KeyHeldOnce'
  BY DEF KeyHeldOnce
<1>3. CommitterIsCached'
  BY <1>0 DEF CommitterIsCached
<1>4. CacheAgreesWithTable'
  BY DEF CacheAgreesWithTable, Durable
<1>5. CacheHoldsOwnSlot'
  BY <1>0 DEF CacheHoldsOwnSlot
<1>6. DuplicateNamesRecord'
  BY <1>0 DEF DuplicateNamesRecord, Durable
<1>7. WorkersHoldRecords'
  BY DEF WorkersHoldRecords, Durable, workerVars
<1> QED
  BY <1>1, <1>2, <1>3, <1>4, <1>5, <1>6, <1>7

(***************************************************************************)
(* A status written over a committed row keeps the invariant: the row      *)
(* stays committed.                                                        *)
(***************************************************************************)
LEMMA StatusStep ==
  ASSUME IInv, TypeOK', NEW r \in Requests, Durable(r),
         NEW status \in SMSStatus,
         row' = [row EXCEPT ![r] = status],
         UNCHANGED <<pc, reply, cache>>,
         \A w \in Workers :
           wpc'[w] \in {"sending", "accepted", "refused", "raised"}
             => wpc'[w] = wpc[w] /\ job'[w] = job[w]
  PROVE  IInv'
<1> USE DEF IInv
<1>0. row \in [Requests -> {"none", "flushed"} \cup SMSStatus]
  BY DEF TypeOK, SharedTypeOK
<1>a. \A m \in Requests : Durable(m)' <=> Durable(m)
  BY <1>0 DEF Durable
<1>b. \A m \in Requests : /\ row'[m] = "none" <=> row[m] = "none"
                          /\ row'[m] = "flushed" <=> row[m] = "flushed"
  BY <1>0 DEF Durable, SMSStatus
<1>1. RowsFollowRequests'
  BY <1>a, <1>b DEF RowsFollowRequests
<1>2. KeyHeldOnce'
  BY <1>b DEF KeyHeldOnce
<1>3. CommitterIsCached'
  BY DEF CommitterIsCached
<1>4. CacheAgreesWithTable'
  BY <1>a DEF CacheAgreesWithTable
<1>5. CacheHoldsOwnSlot'
  BY DEF CacheHoldsOwnSlot
<1>6. DuplicateNamesRecord'
  BY <1>a DEF DuplicateNamesRecord
<1>7. WorkersHoldRecords'
  <2> SUFFICES ASSUME NEW w \in Workers,
                      wpc'[w] \in {"sending", "accepted", "refused", "raised"}
               PROVE  Durable(job[w].msg)' /\ job'[w] = job[w]
    BY DEF WorkersHoldRecords, Durable
  <2>1. Durable(job[w].msg)
    BY DEF WorkersHoldRecords
  <2> QED
    BY <1>0, <2>1 DEF Durable
<1> QED
  BY <1>1, <1>2, <1>3, <1>4, <1>5, <1>6, <1>7

(***************************************************************************)
(* The INSERT: no other row holds the key, so none is stored or cached     *)
(* under it as a rival of the new one.                                     *)
(***************************************************************************)
LEMMA InsertStep ==
  ASSUME IInv, TypeOK', NEW r \in Requests, Insert(r), UNCHANGED workerVars
  PROVE  IInv'
<1> USE DEF IInv, Insert, Goto
<1>0. /\ pc \in [Requests -> {"received"} \cup Active \cup Over]
      /\ row \in [Requests -> {"none", "flushed"} \cup SMSStatus]
  BY DEF TypeOK, ServiceTypeOK, SharedTypeOK
<1>1. RowsFollowRequests'
  BY <1>0 DEF RowsFollowRequests, Durable
<1>2. KeyHeldOnce'
  BY <1>0 DEF KeyHeldOnce, Rivals
<1>3. CommitterIsCached'
  BY <1>0 DEF CommitterIsCached
<1>4. CacheAgreesWithTable'
  BY <1>0 DEF CacheAgreesWithTable, Durable, SMSStatus
<1>5. CacheHoldsOwnSlot'
  BY <1>0 DEF CacheHoldsOwnSlot
<1>6. DuplicateNamesRecord'
  <2>1. row[r] = "none"
    BY DEF RowsFollowRequests
  <2>2. \A m \in Requests : Durable(m) => Durable(m)'
    BY <1>0, <2>1 DEF Durable, SMSStatus
  <2>3. \A m \in Requests : pc'[m] = "refunding" => pc[m] = "refunding"
    BY <1>0
  <2> QED
    BY <2>2, <2>3 DEF DuplicateNamesRecord
<1>7. WorkersHoldRecords'
  <2> SUFFICES ASSUME NEW w \in Workers,
                      wpc[w] \in {"sending", "accepted", "refused", "raised"}
               PROVE  Durable(job[w].msg)'
    BY DEF WorkersHoldRecords, Durable, workerVars
  <2>1. Durable(job[w].msg) /\ row[r] = "none"
    BY DEF WorkersHoldRecords, RowsFollowRequests
  <2>2. job[w].msg \in Requests
    BY TaskFields DEF TypeOK, WorkerTypeOK
  <2> QED
    BY <1>0, <2>1, <2>2 DEF Durable, SMSStatus, workerVars
<1> QED
  BY <1>1, <1>2, <1>3, <1>4, <1>5, <1>6, <1>7

(***************************************************************************)
(* The IntegrityError of a duplicate: the record that is fetched is        *)
(* committed, holds the key and belongs to the same application.           *)
(***************************************************************************)
LEMMA DuplicateStep ==
  ASSUME IInv, TypeOK', NEW r \in Requests, DuplicateFound(r), UNCHANGED workerVars
  PROVE  IInv'
<1> USE DEF IInv
<1>0. /\ pc \in [Requests -> {"received"} \cup Active \cup Over]
      /\ reply \in [Requests -> Requests \cup {Nobody}]
      /\ pc[r] = "writing"
      /\ pc' = [pc EXCEPT ![r] = "refunding"]
      /\ UNCHANGED <<row, cache, workerVars>>
  BY DEF TypeOK, ServiceTypeOK, DuplicateFound, Goto, sharedVars
<1>m. PICK m \in Rivals(r) : Durable(m) /\ m.app = r.app /\ Answer(r, m)
  BY DEF DuplicateFound
<1>1. RowsFollowRequests'
  BY <1>0 DEF RowsFollowRequests, Durable
<1>2. KeyHeldOnce'
  BY <1>0 DEF KeyHeldOnce
<1>3. CommitterIsCached'
  BY <1>0 DEF CommitterIsCached
<1>4. CacheAgreesWithTable'
  BY <1>0 DEF CacheAgreesWithTable, Durable
<1>5. CacheHoldsOwnSlot'
  <2>1. \A n \in Requests : pc[n] \notin {"received", "metering", "writing", "refunding"}
                          => pc'[n] = pc[n]
    BY <1>0
  <2>2. \A s \in CacheSlot : cache[s] \in Requests \cup {Nobody}
    BY DEF TypeOK, SharedTypeOK
  <2> QED
    BY <1>0, <2>1, <2>2 DEF CacheHoldsOwnSlot, CacheSlot
<1>6. DuplicateNamesRecord'
  BY <1>0, <1>m DEF DuplicateNamesRecord, Durable, Answer, Rivals, SameSlot
<1>7. WorkersHoldRecords'
  BY <1>0 DEF WorkersHoldRecords, Durable, workerVars
<1> QED
  BY <1>1, <1>2, <1>3, <1>4, <1>5, <1>6, <1>7

(***************************************************************************)
(* Caching the response: the open row of the writer excludes every other   *)
(* record and every other committer of its key.                            *)
(***************************************************************************)
LEMMA CacheStep ==
  ASSUME IInv, TypeOK', NEW r \in Requests, CacheResponse(r), UNCHANGED workerVars
  PROVE  IInv'
<1> USE DEF IInv, CacheResponse, Goto
<1>0. /\ pc \in [Requests -> {"received"} \cup Active \cup Over]
      /\ cache \in [CacheSlot -> Requests \cup {Nobody}]
  BY DEF TypeOK, ServiceTypeOK, SharedTypeOK
<1>h. row[r] = "flushed"
  BY DEF RowsFollowRequests
<1>s. \A m \in Requests \ {r} : row[m] # "none" /\ m.key # NoKey /\ r.key # NoKey
        => m.key # r.key
  BY <1>h DEF KeyHeldOnce
<1>c. \A m \in Requests \ {r} : row[m] # "none" /\ m.key # NoKey
        => cache'[<<m.app, m.key>>] = cache[<<m.app, m.key>>]
  BY <1>0, <1>s, SlotOfRequest
<1>w. r.key # NoKey => cache'[<<r.app, r.key>>] = r
  BY <1>0, SlotOfRequest
<1>1. RowsFollowRequests'
  BY <1>0, <1>h DEF RowsFollowRequests, Durable
<1>2. KeyHeldOnce'
  BY DEF KeyHeldOnce
<1>3. CommitterIsCached'
  <2> SUFFICES ASSUME NEW m \in Requests, pc'[m] = "committing", m.key # NoKey
               PROVE  cache'[<<m.app, m.key>>] \in {Nobody, m}
    BY DEF CommitterIsCached
  <2>1. CASE m = r
    BY <1>w, <2>1
  <2>2. CASE m # r
    <3>1. pc[m] = "committing" /\ row[m] = "flushed"
      BY <1>0, <2>2 DEF RowsFollowRequests
    <3> QED
      BY <1>c, <2>2, <3>1 DEF CommitterIsCached
  <2> QED
    BY <2>1, <2>2
<1>4. CacheAgreesWithTable'
  BY <1>c, <1>h DEF CacheAgreesWithTable, Durable, SMSStatus
<1>5. CacheHoldsOwnSlot'
  <2> SUFFICES ASSUME NEW a \in Apps, NEW k \in Keys, cache'[<<a, k>>] # Nobody
               PROVE  /\ cache'[<<a, k>>].app = a
                      /\ cache'[<<a, k>>].key = k
                      /\ pc'[cache'[<<a, k>>]]
                           \notin {"received", "metering", "writing", "refunding"}
    BY DEF CacheHoldsOwnSlot
  <2>1. CASE r.key # NoKey /\ <<a, k>> = <<r.app, r.key>>
    BY <1>0, <1>w, <2>1
  <2>2. CASE ~(r.key # NoKey /\ <<a, k>> = <<r.app, r.key>>)
    <3>1. cache'[<<a, k>>] = cache[<<a, k>>] /\ cache[<<a, k>>] \in Requests
      BY <1>0, <2>2 DEF CacheSlot
    <3> QED
      BY <1>0, <3>1 DEF CacheHoldsOwnSlot
  <2> QED
    BY <2>1, <2>2
<1>6. DuplicateNamesRecord'
  BY <1>0 DEF DuplicateNamesRecord, Durable
<1>7. WorkersHoldRecords'
  BY DEF WorkersHoldRecords, Durable, workerVars
<1> QED
  BY <1>1, <1>2, <1>3, <1>4, <1>5, <1>6, <1>7

(***************************************************************************)
(* The commit: the cache already agrees with the row that becomes durable. *)
(***************************************************************************)
LEMMA CommitStep ==
  ASSUME IInv, TypeOK', NEW r \in Requests, Commit(r), UNCHANGED workerVars
  PROVE  IInv'
<1> USE DEF IInv, Commit, Goto
<1>0. /\ pc \in [Requests -> {"received"} \cup Active \cup Over]
      /\ row \in [Requests -> {"none", "flushed"} \cup SMSStatus]
      /\ row[r] = "flushed"
  BY DEF TypeOK, ServiceTypeOK, SharedTypeOK, RowsFollowRequests
<1>d. \A m \in Requests : Durable(m)' <=> Durable(m) \/ m = r
  BY <1>0 DEF Durable, SMSStatus
<1>n. \A m \in Requests : row'[m] = "none" <=> row[m] = "none"
  BY <1>0
<1>1. RowsFollowRequests'
  <2> SUFFICES ASSUME NEW m \in Requests
               PROVE  /\ pc'[m] \in {"received", "metering", "writing", "refunding",
                                     "rejected", "conflict"} => row'[m] = "none"
                      /\ pc'[m] \in {"caching", "committing"} <=> row'[m] = "flushed"
                      /\ pc'[m] \in {"enqueuing", "resolving"} => Durable(m)'
    BY DEF RowsFollowRequests
  <2>1. CASE m = r
    BY <1>0, <1>d, <2>1
  <2>2. CASE m # r
    BY <1>0, <1>d, <2>2 DEF RowsFollowRequests
  <2> QED
    BY <2>1, <2>2
<1>2. KeyHeldOnce'
  BY <1>n DEF KeyHeldOnce
<1>3. CommitterIsCached'
  BY <1>0 DEF CommitterIsCached
<1>4. CacheAgreesWithTable'
  BY <1>d DEF CacheAgreesWithTable, CommitterIsCached
<1>5. CacheHoldsOwnSlot'
  BY <1>0 DEF CacheHoldsOwnSlot
<1>6. DuplicateNamesRecord'
  BY <1>0, <1>d DEF DuplicateNamesRecord
<1>7. WorkersHoldRecords'
  <2> SUFFICES ASSUME NEW w \in Workers,
                      wpc[w] \in {"sending", "accepted", "refused", "raised"}
               PROVE  Durable(job[w].msg)'
    BY DEF WorkersHoldRecords, Durable, workerVars
  <2>1. Durable(job[w].msg) /\ job[w].msg \in Requests
    BY TaskFields DEF WorkersHoldRecords, TypeOK, WorkerTypeOK
  <2> QED
    BY <1>d, <2>1 DEF Durable, workerVars
<1> QED
  BY <1>1, <1>2, <1>3, <1>4, <1>5, <1>6, <1>7

(***************************************************************************)
(* The answer to a committed message, with or without a sandbox status.    *)
(***************************************************************************)
LEMMA LateStep ==
  ASSUME IInv, TypeOK', NEW r \in Requests,
         pc[r] \in {"enqueuing", "resolving"},
         pc' = [pc EXCEPT ![r] = "replied"],
         row' = row \/ \E status \in SMSStatus : row' = [row EXCEPT ![r] = status],
         \A m \in Requests \ {r} : reply'[m] = reply[m],
         UNCHANGED <<cache, workerVars>>
  PROVE  IInv'
<1> USE DEF IInv
<1>0. /\ pc \in [Requests -> {"received"} \cup Active \cup Over]
      /\ row \in [Requests -> {"none", "flushed"} \cup SMSStatus]
      /\ Durable(r)
  BY DEF TypeOK, ServiceTypeOK, SharedTypeOK, RowsFollowRequests
<1>d. \A m \in Requests : /\ Durable(m)' <=> Durable(m)
                          /\ row'[m] = "none" <=> row[m] = "none"
                          /\ row'[m] = "flushed" <=> row[m] = "flushed"
  BY <1>0 DEF Durable, SMSStatus
<1>p. \A m \in Requests : pc'[m] = pc[m] \/ (m = r /\ pc'[m] = "replied")
  BY <1>0
<1>1. RowsFollowRequests'
  BY <1>0, <1>d, <1>p DEF RowsFollowRequests, Durable, SMSStatus
<1>2. KeyHeldOnce'
  BY <1>d DEF KeyHeldOnce
<1>3. CommitterIsCached'
  BY <1>p DEF CommitterIsCached
<1>4. CacheAgreesWithTable'
  BY <1>d DEF CacheAgreesWithTable
<1>5. CacheHoldsOwnSlot'
  BY <1>0 DEF CacheHoldsOwnSlot
<1>6. DuplicateNamesRecord'
  BY <1>0, <1>d, <1>p DEF DuplicateNamesRecord
<1>7. WorkersHoldRecords'
  <2> SUFFICES ASSUME NEW w \in Workers,
                      wpc[w] \in {"sending", "accepted", "refused", "raised"}
               PROVE  Durable(job[w].msg)'
    BY DEF WorkersHoldRecords, Durable, workerVars
  <2>1. Durable(job[w].msg) /\ job[w].msg \in Requests
    BY TaskFields DEF WorkersHoldRecords, TypeOK, WorkerTypeOK
  <2> QED
    BY <1>d, <2>1 DEF Durable, workerVars
<1> QED
  BY <1>1, <1>2, <1>3, <1>4, <1>5, <1>6, <1>7

(***************************************************************************)
(* A request that dies: only an open row disappears with it.               *)
(***************************************************************************)
LEMMA CrashStep ==
  ASSUME IInv, TypeOK', NEW r \in Requests, Crash(r), UNCHANGED workerVars
  PROVE  IInv'
<1> USE DEF IInv, Crash
<1>0. /\ pc \in [Requests -> {"received"} \cup Active \cup Over]
      /\ reply \in [Requests -> Requests \cup {Nobody}]
      /\ row \in [Requests -> {"none", "flushed"} \cup SMSStatus]
  BY DEF TypeOK, ServiceTypeOK, SharedTypeOK
<1>d. \A m \in Requests : /\ Durable(m)' <=> Durable(m)
                          /\ row[m] = "none" => row'[m] = "none"
                          /\ row'[m] = "flushed" <=> row[m] = "flushed" /\ m # r
  BY <1>0 DEF Durable, SMSStatus
<1>p. \A m \in Requests : IF m = r THEN pc'[m] = "crashed" ELSE pc'[m] = pc[m]
  BY <1>0
<1>1. RowsFollowRequests'
  BY <1>d, <1>p DEF RowsFollowRequests
<1>2. KeyHeldOnce'
  BY <1>d DEF KeyHeldOnce
<1>3. CommitterIsCached'
  BY <1>p DEF CommitterIsCached
<1>4. CacheAgreesWithTable'
  BY <1>d DEF CacheAgreesWithTable
<1>5. CacheHoldsOwnSlot'
  BY <1>0 DEF CacheHoldsOwnSlot
<1>6. DuplicateNamesRecord'
  BY <1>0, <1>d, <1>p DEF DuplicateNamesRecord
<1>7. WorkersHoldRecords'
  <2> SUFFICES ASSUME NEW w \in Workers,
                      wpc[w] \in {"sending", "accepted", "refused", "raised"}
               PROVE  Durable(job[w].msg)'
    BY DEF WorkersHoldRecords, Durable, workerVars
  <2>1. Durable(job[w].msg) /\ job[w].msg \in Requests
    BY TaskFields DEF WorkersHoldRecords, TypeOK, WorkerTypeOK
  <2> QED
    BY <1>d, <2>1 DEF Durable, workerVars
<1> QED
  BY <1>1, <1>2, <1>3, <1>4, <1>5, <1>6, <1>7

(***************************************************************************)
(* An entry reaches its TTL: an empty slot disagrees with nothing.         *)
(***************************************************************************)
LEMMA ExpireStep ==
  ASSUME IInv, TypeOK', NEW s \in CacheSlot, Expire(s), UNCHANGED workerVars
  PROVE  IInv'
<1> USE DEF IInv, Expire, serviceVars
<1>0. cache \in [CacheSlot -> Requests \cup {Nobody}]
  BY DEF TypeOK, SharedTypeOK
<1>c. \A x \in CacheSlot : cache'[x] \in {Nobody, cache[x]}
  BY <1>0
<1>1. RowsFollowRequests' /\ KeyHeldOnce' /\ DuplicateNamesRecord'
  BY DEF RowsFollowRequests, KeyHeldOnce, DuplicateNamesRecord, Durable
<1>2. CommitterIsCached'
  BY <1>c, SlotOfRequest DEF CommitterIsCached
<1>3. CacheAgreesWithTable'
  BY <1>c, SlotOfRequest DEF CacheAgreesWithTable, Durable
<1>4. CacheHoldsOwnSlot'
  BY <1>c DEF CacheHoldsOwnSlot, CacheSlot
<1>5. WorkersHoldRecords'
  BY DEF WorkersHoldRecords, Durable, workerVars
<1> QED
  BY <1>1, <1>2, <1>3, <1>4, <1>5

(***************************************************************************)
(* A worker that neither writes a status nor starts to send.               *)
(***************************************************************************)
LEMMA QuietWorkerStep ==
  ASSUME IInv, TypeOK', UNCHANGED <<row, cache, serviceVars>>,
         \A w \in Workers :
           wpc'[w] \in {"sending", "accepted", "refused", "raised"}
             => Durable(job'[w].msg)
  PROVE  IInv'
<1> USE DEF IInv, serviceVars
<1>1. RowsFollowRequests' /\ KeyHeldOnce' /\ DuplicateNamesRecord'
  BY DEF RowsFollowRequests, KeyHeldOnce, DuplicateNamesRecord, Durable
<1>2. CommitterIsCached' /\ CacheAgreesWithTable' /\ CacheHoldsOwnSlot'
  BY DEF CommitterIsCached, CacheAgreesWithTable, CacheHoldsOwnSlot, Durable
<1>3. WorkersHoldRecords'
  BY DEF WorkersHoldRecords, Durable
<1> QED
  BY <1>1, <1>2, <1>3

(***************************************************************************)
(* Every step of SMSService.send keeps the inductive invariant.            *)
(***************************************************************************)
LEMMA ServiceKeepsIInv ==
  ASSUME IInv, ServiceNext, UNCHANGED workerVars
  PROVE  IInv'
<1>0. TypeOK'
  BY ServiceKeepsTypes DEF IInv
<1>a. reply \in [Requests -> Requests \cup {Nobody}]
  BY DEF IInv, TypeOK, ServiceTypeOK
<1>1. ASSUME NEW r \in Requests, CacheHit(r) PROVE IInv'
  BY <1>0, <1>1, <1>a, EarlyStep DEF CacheHit, Goto, Answer, sharedVars
<1>2. ASSUME NEW r \in Requests, CacheMiss(r) PROVE IInv'
  BY <1>0, <1>2, EarlyStep DEF CacheMiss, Goto, sharedVars
<1>3. ASSUME NEW r \in Requests, BurstExceeded(r) PROVE IInv'
  BY <1>0, <1>3, EarlyStep DEF BurstExceeded, Goto, sharedVars
<1>4. ASSUME NEW r \in Requests, Consume(r) PROVE IInv'
  BY <1>0, <1>4, EarlyStep DEF Consume, Validated, Goto
<1>5. ASSUME NEW r \in Requests, QuotaExceeded(r) PROVE IInv'
  BY <1>0, <1>5, EarlyStep DEF QuotaExceeded, Goto, sharedVars
<1>6. ASSUME NEW r \in Requests, SandboxExempt(r) PROVE IInv'
  BY <1>0, <1>6, EarlyStep DEF SandboxExempt, Validated, Goto, sharedVars
<1>7. ASSUME NEW r \in Requests, ForeignConflict(r) PROVE IInv'
  BY <1>0, <1>7, EarlyStep DEF ForeignConflict, Goto, sharedVars
<1>8. ASSUME NEW r \in Requests, QuotaRollback(r) PROVE IInv'
  BY <1>0, <1>8, EarlyStep DEF QuotaRollback, Goto
<1>9. ASSUME NEW r \in Requests, Enqueue(r) PROVE IInv'
  BY <1>0, <1>9, <1>a, LateStep DEF Enqueue, Goto, Answer
<1>10. ASSUME NEW r \in Requests, ResolveSandbox(r) PROVE IInv'
  BY <1>0, <1>10, <1>a, LateStep DEF ResolveSandbox, Goto, Answer, SMSStatus
<1>11. ASSUME NextDay PROVE IInv'
  <2>1. UNCHANGED <<row, cache, serviceVars, workerVars>>
    BY <1>11 DEF NextDay
  <2>2. \A w \in Workers :
          wpc'[w] \in {"sending", "accepted", "refused", "raised"} => Durable(job'[w].msg)
    BY <2>1 DEF IInv, WorkersHoldRecords, workerVars
  <2> QED
    BY <1>0, <2>1, <2>2, QuietWorkerStep
<1> QED
  BY <1>0, <1>1, <1>2, <1>3, <1>4, <1>5, <1>6, <1>7, <1>8, <1>9, <1>10, <1>11,
     InsertStep, DuplicateStep, CacheStep, CommitStep, CrashStep, ExpireStep
     DEF ServiceNext, Serve

(***************************************************************************)
(* Every step of a worker keeps the inductive invariant.                   *)
(***************************************************************************)
LEMMA WorkerKeepsIInv ==
  ASSUME IInv, WorkerNext, UNCHANGED serviceVars
  PROVE  IInv'
<1> USE DEF Step, sharedVars
<1>0. TypeOK'
  BY WorkerKeepsTypes DEF IInv
<1>a. /\ wpc \in [Workers -> {"idle", "sending", "accepted", "refused", "raised",
                               "refunding", "acking"}]
      /\ job \in [Workers -> Task \cup {Nobody}]
      /\ \A w \in Workers : wpc[w] # "idle" => job[w] \in Task
      /\ \A w \in Workers : wpc[w] \in {"sending", "accepted", "refused", "raised"}
                            => Durable(job[w].msg)
  BY DEF IInv, TypeOK, WorkerTypeOK, WorkersHoldRecords
<1> DEFINE HoldRecords ==
      \A w \in Workers :
        wpc'[w] \in {"sending", "accepted", "refused", "raised"} => Durable(job'[w].msg)
<1>1. ASSUME NEW w \in Workers, NEW t \in Task, Begin(w, t) PROVE IInv'
  <2>1. HoldRecords
    BY <1>1, <1>a DEF Begin, Durable, SMSStatus
  <2> QED
    BY <1>0, <1>1, <2>1, QuietWorkerStep DEF Begin
<1>2. ASSUME NEW w \in Workers, Accepted(w) \/ Refused(w) \/ AnswerLost(w) PROVE IInv'
  <2>1. HoldRecords
    BY <1>2, <1>a DEF Accepted, Refused, AnswerLost
  <2> QED
    BY <1>0, <1>2, <2>1, QuietWorkerStep DEF Accepted, Refused, AnswerLost
<1>3. ASSUME NEW w \in Workers, RecordSent(w) PROVE IInv'
  <2>1. job[w].msg \in Requests /\ Durable(job[w].msg)
    BY <1>3, <1>a, TaskFields DEF RecordSent
  <2> QED
    BY <1>0, <1>3, <1>a, <2>1, StatusStep
       DEF RecordSent, SetStatus, serviceVars, SMSStatus
<1>4. ASSUME NEW w \in Workers,
             Retry(w) \/ GiveUp(w) \/ DatabaseFails(w) \/ Refund(w) \/ RefundLost(w)
      PROVE IInv'
  <2>1. HoldRecords
    BY <1>4, <1>a DEF Retry, GiveUp, DatabaseFails, Refund, RefundLost
  <2>2. UNCHANGED <<row, cache>>
    BY <1>4 DEF Retry, GiveUp, DatabaseFails, Refund, RefundLost
  <2> QED
    BY <1>0, <2>1, <2>2, QuietWorkerStep
<1>5. ASSUME NEW w \in Workers, FailPermanently(w) PROVE IInv'
  <2>1. job[w].msg \in Requests /\ Durable(job[w].msg)
    BY <1>5, <1>a, TaskFields DEF FailPermanently
  <2> QED
    BY <1>0, <1>5, <1>a, <2>1, StatusStep
       DEF FailPermanently, SetStatus, serviceVars, SMSStatus
<1>6. ASSUME NEW w \in Workers, Ack(w) \/ WorkerCrash(w) PROVE IInv'
  <2>1. HoldRecords
    BY <1>6, <1>a DEF Ack, WorkerCrash
  <2>2. UNCHANGED <<row, cache>>
    BY <1>6 DEF Ack, WorkerCrash
  <2> QED
    BY <1>0, <2>1, <2>2, QuietWorkerStep
<1> QED
  BY <1>1, <1>2, <1>3, <1>4, <1>5, <1>6 DEF WorkerNext, Work

(***************************************************************************)
(* The inductive invariant holds initially.                                *)
(***************************************************************************)
LEMMA InitIInv == Init => IInv
BY InitTypes, SlotOfRequest
   DEF Init, SharedInit, ServiceInit, WorkerInit, IInv, RowsFollowRequests, KeyHeldOnce,
       CommitterIsCached, CacheAgreesWithTable, CacheHoldsOwnSlot, DuplicateNamesRecord,
       WorkersHoldRecords, Durable, CacheSlot, SMSStatus

(***************************************************************************)
(* The inductive invariant is inductive.                                   *)
(***************************************************************************)
LEMMA StepIInv == IInv /\ [Next]_vars => IInv'
<1> SUFFICES ASSUME IInv, [Next]_vars PROVE IInv'
  OBVIOUS
<1>1. CASE UNCHANGED vars
  <2>1. UNCHANGED <<row, cache, serviceVars, workerVars>> /\ TypeOK'
    BY <1>1 DEF vars, sharedVars, serviceVars, workerVars, observed, IInv, TypeOK, SharedTypeOK,
                ServiceTypeOK, WorkerTypeOK
  <2>2. \A w \in Workers :
          wpc'[w] \in {"sending", "accepted", "refused", "raised"} => Durable(job'[w].msg)
    BY <2>1 DEF IInv, WorkersHoldRecords, workerVars
  <2> QED
    BY <2>1, <2>2, QuietWorkerStep
<1> QED
  BY <1>1, ServiceKeepsIInv, WorkerKeepsIInv DEF Next

(***************************************************************************)
(* The inductive invariant holds in every reachable state.                 *)
(***************************************************************************)
LEMMA Inductive == Spec => []IInv
BY InitIInv, StepIInv, PTL DEF Spec

(***************************************************************************)
(* Idempotency cache and table agree, whatever expires, crashes or races.  *)
(***************************************************************************)
THEOREM CacheAgreement == Spec => []CacheAgreesWithTable
<1>1. IInv => CacheAgreesWithTable
  BY DEF IInv
<1> QED
  BY Inductive, <1>1, PTL

-----------------------------------------------------------------------------
(***************************************************************************)
(* The refinement: what the abstract variables are in the platform.        *)
(***************************************************************************)
Stored == {r \in Requests : Durable(r)}
Told == [r \in Requests |-> IF pc[r] = "replied" THEN reply[r] ELSE Nobody]

(***************************************************************************)
(* Answering a request is an abstract Answer when the record that is named *)
(* belongs to its slot, is its own only if stored, and is the one stored.  *)
(***************************************************************************)
LEMMA AnswerRefines ==
  ASSUME TypeOK, NEW r \in Requests, NEW m \in Requests,
         pc[r] # "replied", pc' = [pc EXCEPT ![r] = "replied"],
         reply' = [reply EXCEPT ![r] = m], Stored' = Stored,
         SameSlot(r, m), m = r => r \in Stored,
         \A d \in Stored : SameSlot(r, d) => d = m
  PROVE  Create!Next
<1>1. Told' = [Told EXCEPT ![r] = m]
  BY DEF Told, TypeOK, ServiceTypeOK
<1>2. Told[r] = Nobody
  BY DEF Told
<1>3. \A d \in Requests : Create!Slot(r, d) <=> SameSlot(r, d)
  BY DEF Create!Slot, SameSlot
<1>4. Stored \subseteq Requests
  BY DEF Stored
<1>5. Create!Answer(r, m)
  BY <1>1, <1>2, <1>3, <1>4 DEF Create!Answer, Stored, Told
<1> QED
  BY <1>5 DEF Create!Next

(***************************************************************************)
(* Steps that commit nothing and answer nobody are stutters.               *)
(***************************************************************************)
LEMMA Stutters ==
  ASSUME TypeOK,
         \A m \in Requests : Durable(m)' <=> Durable(m),
         \A m \in Requests : pc[m] = "replied" <=> pc'[m] = "replied",
         \A m \in Requests : pc[m] = "replied" => reply'[m] = reply[m]
  PROVE  Stored' = Stored /\ Told' = Told
<1>1. Stored' = Stored
  BY DEF Stored
<1>2. Told' = Told
  BY DEF Told
<1> QED
  BY <1>1, <1>2

(***************************************************************************)
(* A commit is the abstract Persist, the last step of a request the        *)
(* abstract Answer, and every other step of a request a stutter.           *)
(***************************************************************************)
LEMMA RequestRefines ==
  ASSUME IInv, NEW r \in Requests, Serve(r) \/ Crash(r)
  PROVE  Create!Next \/ (Stored' = Stored /\ Told' = Told)
<1> USE DEF Goto
<1>0. /\ TypeOK
      /\ pc \in [Requests -> {"received"} \cup Active \cup Over]
      /\ reply \in [Requests -> Requests \cup {Nobody}]
      /\ row \in [Requests -> {"none", "flushed"} \cup SMSStatus]
      /\ cache \in [CacheSlot -> Requests \cup {Nobody}]
  BY DEF IInv, TypeOK, ServiceTypeOK, SharedTypeOK
<1> DEFINE Quiet == Stored' = Stored /\ Told' = Told
<1>1. ASSUME CacheHit(r) PROVE Create!Next
  <2> DEFINE m == cache[<<r.app, r.key>>]
  <2>1. /\ m \in Requests /\ m # Nobody
        /\ m.app = r.app /\ m.key = r.key /\ m # r /\ r.key # NoKey
        /\ row[r] = "none"
    <3>1. <<r.app, r.key>> \in CacheSlot /\ r.app \in Apps /\ r.key \in Keys
      BY <1>1, SlotOfRequest DEF CacheHit, CacheSlot
    <3>2. m \in Requests /\ m # Nobody /\ r.key # NoKey /\ pc[r] = "received"
      BY <1>0, <1>1, <3>1 DEF CacheHit
    <3> QED
      BY <3>1, <3>2 DEF IInv, CacheHoldsOwnSlot, RowsFollowRequests
  <2>2. \A d \in Stored : SameSlot(r, d) => d = m
    BY <2>1 DEF Stored, SameSlot, IInv, CacheAgreesWithTable, Durable, SMSStatus
  <2>3. Stored' = Stored
    BY <1>1 DEF CacheHit, sharedVars, Stored, Durable
  <2> QED
    BY <1>0, <1>1, <2>1, <2>2, <2>3, AnswerRefines DEF CacheHit, Answer, SameSlot
<1>2. ASSUME CacheMiss(r) \/ BurstExceeded(r) \/ QuotaExceeded(r) PROVE Quiet
  BY <1>0, <1>2, Stutters
     DEF CacheMiss, BurstExceeded, QuotaExceeded, sharedVars, Durable
<1>3. ASSUME Consume(r) \/ SandboxExempt(r) PROVE Quiet
  BY <1>0, <1>3, Stutters DEF Consume, SandboxExempt, Validated, sharedVars, Durable
<1>4. ASSUME Insert(r) PROVE Quiet
  <2>1. row[r] = "none"
    BY <1>4 DEF Insert, IInv, RowsFollowRequests
  <2>2. \A m \in Requests : Durable(m)' <=> Durable(m)
    BY <1>0, <1>4, <2>1 DEF Insert, Durable, SMSStatus
  <2> QED
    BY <1>0, <1>4, <2>2, Stutters DEF Insert
<1>5. ASSUME DuplicateFound(r) \/ ForeignConflict(r) PROVE Quiet
  <2>1. \A m \in Requests : pc[m] = "replied" => reply'[m] = reply[m]
    BY <1>0, <1>5 DEF DuplicateFound, ForeignConflict, Answer
  <2>2. \A m \in Requests : pc[m] = "replied" <=> pc'[m] = "replied"
    BY <1>0, <1>5 DEF DuplicateFound, ForeignConflict
  <2>3. \A m \in Requests : Durable(m)' <=> Durable(m)
    BY <1>5 DEF DuplicateFound, ForeignConflict, sharedVars, Durable
  <2> QED
    BY <1>0, <2>1, <2>2, <2>3, Stutters
<1>6. ASSUME QuotaRollback(r) PROVE Create!Next
  <2> DEFINE m == reply[r]
  <2>1. m \in Requests /\ m # r /\ SameSlot(r, m) /\ Durable(m) /\ row[r] = "none"
    BY <1>6 DEF QuotaRollback, IInv, DuplicateNamesRecord, RowsFollowRequests
  <2>2. \A d \in Stored : SameSlot(r, d) => d = m
    BY <2>1 DEF Stored, SameSlot, IInv, KeyHeldOnce, Durable, SMSStatus
  <2>3. Stored' = Stored
    BY <1>6 DEF QuotaRollback, Stored, Durable
  <2>4. reply' = [reply EXCEPT ![r] = m]
    BY <1>0, <1>6 DEF QuotaRollback
  <2> HIDE DEF m
  <2> QED
    BY <1>0, <1>6, <2>1, <2>2, <2>3, <2>4, AnswerRefines DEF QuotaRollback
<1>7. ASSUME CacheResponse(r) PROVE Quiet
  BY <1>0, <1>7, Stutters DEF CacheResponse, Durable
<1>8. ASSUME Commit(r) PROVE Create!Next
  <2>1. row[r] = "flushed"
    BY <1>8 DEF Commit, IInv, RowsFollowRequests
  <2>2. \A d \in Stored : ~Create!Slot(r, d)
    BY <2>1 DEF Stored, Create!Slot, IInv, KeyHeldOnce, Durable, SMSStatus
  <2>3. Stored' = Stored \cup {r}
    BY <1>0, <1>8 DEF Commit, Stored, Durable, SMSStatus
  <2>4. Told' = Told
    BY <1>0, <1>8 DEF Commit, Told
  <2>5. Create!Persist(r)
    BY <2>2, <2>3, <2>4 DEF Create!Persist, Stored, Told
  <2> QED
    BY <2>5 DEF Create!Next
<1>9. ASSUME Enqueue(r) \/ ResolveSandbox(r) PROVE Create!Next
  <2>1. Durable(r)
    BY <1>9 DEF Enqueue, ResolveSandbox, IInv, RowsFollowRequests
  <2>2. \A d \in Stored : SameSlot(r, d) => d = r
    BY <2>1 DEF Stored, SameSlot, IInv, KeyHeldOnce, Durable, SMSStatus
  <2>3. Stored' = Stored
    BY <1>0, <1>9, <2>1 DEF Enqueue, ResolveSandbox, Stored, Durable, SMSStatus
  <2>4. r \in Stored /\ SameSlot(r, r)
    BY <2>1 DEF Stored, SameSlot
  <2> QED
    BY <1>0, <1>9, <2>2, <2>3, <2>4, AnswerRefines DEF Enqueue, ResolveSandbox, Answer
<1>10. ASSUME Crash(r) PROVE Quiet
  <2>1. \A m \in Requests : Durable(m)' <=> Durable(m)
    BY <1>0, <1>10 DEF Crash, Durable, SMSStatus
  <2> QED
    BY <1>0, <1>10, <2>1, Stutters DEF Crash, Active
<1> QED
  BY <1>1, <1>2, <1>3, <1>4, <1>5, <1>6, <1>7, <1>8, <1>9, <1>10 DEF Serve

(***************************************************************************)
(* A worker overwrites the status of stored messages and answers nobody.   *)
(***************************************************************************)
LEMMA WorkerRefines ==
  ASSUME IInv, WorkerNext, UNCHANGED serviceVars
  PROVE  Stored' = Stored /\ Told' = Told
<1>0. TypeOK /\ row \in [Requests -> {"none", "flushed"} \cup SMSStatus]
  BY DEF IInv, TypeOK, SharedTypeOK
<1>1. PICK w \in Workers : Work(w) \/ WorkerCrash(w)
  BY DEF WorkerNext
<1>2. CASE RecordSent(w) \/ FailPermanently(w)
  <2>1. Durable(job[w].msg)
    BY <1>2 DEF RecordSent, FailPermanently, Step, IInv, WorkersHoldRecords
  <2>2. \A m \in Requests : Durable(m)' <=> Durable(m)
    BY <1>0, <1>2, <2>1 DEF RecordSent, FailPermanently, SetStatus, Durable, SMSStatus
  <2> QED
    BY <1>0, <2>2, Stutters DEF serviceVars
<1>3. CASE ~(RecordSent(w) \/ FailPermanently(w))
  <2>1. UNCHANGED row
    BY <1>1, <1>3
       DEF Work, Begin, Accepted, Refused, AnswerLost, Retry, GiveUp, DatabaseFails, Refund,
           RefundLost, Ack, WorkerCrash, sharedVars
  <2> QED
    BY <1>0, <2>1, Stutters DEF serviceVars, Durable
<1> QED
  BY <1>2, <1>3

(***************************************************************************)
(* Every step of the platform is a step of the idempotent create or none.  *)
(***************************************************************************)
LEMMA StepRefines ==
  ASSUME IInv, [Next]_vars
  PROVE  Create!Next \/ (Stored' = Stored /\ Told' = Told)
<1>0. TypeOK
  BY DEF IInv
<1>1. CASE \E r \in Requests : Serve(r) \/ Crash(r)
  BY <1>1, RequestRefines
<1>2. CASE NextDay \/ (\E s \in CacheSlot : Expire(s)) \/ UNCHANGED vars
  BY <1>0, <1>2, Stutters DEF NextDay, Expire, vars, sharedVars, serviceVars, Durable
<1>3. CASE WorkerNext /\ UNCHANGED serviceVars
  BY <1>3, WorkerRefines
<1> QED
  BY <1>1, <1>2, <1>3 DEF Next, ServiceNext

(***************************************************************************)
(* SMSService.send implements the idempotent create: one record per key,   *)
(* and every later answer names it.                                        *)
(***************************************************************************)
THEOREM IdempotentSend == Spec => ImplementsIdempotentCreate
<1>1. Init => Create!Init
  BY DEF Init, SharedInit, ServiceInit, Create!Init, Durable, SMSStatus
<1>2. IInv /\ [Next]_vars => [Create!Next]_<<Stored, Told>>
  BY StepRefines
<1>3. IInv /\ [Next]_vars
        => [Create!Next]_<<{r \in Requests : Durable(r)},
                           [r \in Requests |-> IF pc[r] = "replied" THEN reply[r]
                                                                   ELSE Nobody]>>
  BY <1>2 DEF Stored, Told
<1> QED
  BY Inductive, <1>1, <1>3, PTL DEF Spec, Create!Spec, ImplementsIdempotentCreate

-----------------------------------------------------------------------------
(***************************************************************************)
(* The copies of the tasks of a message: publishing adds one, taking       *)
(* removes one.                                                            *)
(***************************************************************************)
LEMMA CopiesAre ==
  ASSUME queue \in [Task -> Nat], NEW r \in Requests
  PROVE  Copies(r) = {c \in Task \X Nat : c[1].msg = r /\ 1 <= c[2] /\ c[2] <= queue[c[1]]}
BY DEF Copies

LEMMA Published ==
  ASSUME queue \in [Task -> Nat], queue' \in [Task -> Nat], NEW t \in Task, queue' = Enqueued(t),
         NEW r \in Requests, IsFiniteSet(Copies(r))
  PROVE  /\ IsFiniteSet(Copies(r)')
         /\ t.msg # r => Copies(r)' = Copies(r)
         /\ t.msg = r => Cardinality(Copies(r)') = Cardinality(Copies(r)) + 1
<1>1. PICK D : D = Copies(r)'
  OBVIOUS
<1>2. D = {c \in Task \X Nat : c[1].msg = r /\ 1 <= c[2] /\ c[2] <= queue'[c[1]]}
  BY <1>1 DEF Copies
<1>3. queue' = [queue EXCEPT ![t] = queue[t] + 1] /\ queue[t] \in Nat
  BY DEF Enqueued
<1>4. t.msg # r => D = Copies(r)
  BY <1>2, <1>3, CopiesAre
<1>5. t.msg = r => D = Copies(r) \cup {<<t, queue[t] + 1>>} /\ <<t, queue[t] + 1>> \notin Copies(r)
  BY <1>2, <1>3, CopiesAre
<1>6. t.msg = r => IsFiniteSet(D) /\ Cardinality(D) = Cardinality(Copies(r)) + 1
  BY <1>5, FS_AddElement
<1> QED
  BY <1>1, <1>4, <1>6

LEMMA Taken ==
  ASSUME queue \in [Task -> Nat], queue' \in [Task -> Nat], NEW t \in Task, queue[t] > 0,
         queue' = Dequeued(t), NEW r \in Requests, IsFiniteSet(Copies(r))
  PROVE  /\ IsFiniteSet(Copies(r)')
         /\ t.msg # r => Copies(r)' = Copies(r)
         /\ t.msg = r => Cardinality(Copies(r)') = Cardinality(Copies(r)) - 1
<1>1. PICK D : D = Copies(r)'
  OBVIOUS
<1>2. D = {c \in Task \X Nat : c[1].msg = r /\ 1 <= c[2] /\ c[2] <= queue'[c[1]]}
  BY <1>1 DEF Copies
<1>3. queue' = [queue EXCEPT ![t] = queue[t] - 1] /\ queue[t] \in Nat
  BY DEF Dequeued
<1>4. t.msg # r => D = Copies(r)
  BY <1>2, <1>3, CopiesAre
<1>5. t.msg = r => D = Copies(r) \ {<<t, queue[t]>>} /\ <<t, queue[t]>> \in Copies(r)
  BY <1>2, <1>3, CopiesAre
<1>6. t.msg = r => IsFiniteSet(D) /\ Cardinality(D) = Cardinality(Copies(r)) - 1
  BY <1>5, FS_RemoveElement
<1> QED
  BY <1>1, <1>4, <1>6

(***************************************************************************)
(* The workers that hold a message: one of them moves.                     *)
(***************************************************************************)
LEMMA OneMoved ==
  ASSUME NEW H, NEW G, NEW w, IsFiniteSet(H), G \ {w} = H \ {w}
  PROVE  /\ IsFiniteSet(G) /\ Cardinality(G) \in Nat /\ Cardinality(H) \in Nat
         /\ Cardinality(G) = Cardinality(H) - (IF w \in H THEN 1 ELSE 0) + (IF w \in G THEN 1 ELSE 0)
<1>1. PICK R : R = H \ {w}
  OBVIOUS
<1>2. IsFiniteSet(R) /\ w \notin R
  BY <1>1, FS_RemoveElement
<1>3. Cardinality(R) = IF w \in H THEN Cardinality(H) - 1 ELSE Cardinality(H)
  BY <1>1, FS_RemoveElement
<1>4. IsFiniteSet(R \cup {w}) /\ Cardinality(R \cup {w}) = Cardinality(R) + 1
  BY <1>2, FS_AddElement
<1>5. G = IF w \in G THEN R \cup {w} ELSE R
  BY <1>1
<1>6. IsFiniteSet(G)
  BY <1>2, <1>4, <1>5
<1>7. Cardinality(G) \in Nat /\ Cardinality(H) \in Nat /\ Cardinality(R) \in Nat
  BY <1>2, <1>6, FS_CardinalityType
<1> QED
  BY <1>3, <1>4, <1>5, <1>6, <1>7

(***************************************************************************)
(* What a worker does to the copies and the workers of a message.  The     *)
(* four numbers are those of the copies in the broker, of the workers that *)
(* may still send or retry, of those that may still write its status, and  *)
(* of those that are at the provider.                                      *)
(***************************************************************************)
Trial(r) == Cardinality(Triers(r))
Heading(r) == Cardinality(Senders(r))
Load(r) == Cardinality(Carriers(r))
Stock(r) == Cardinality(Copies(r))

LEMMA Numbers ==
  ASSUME CopiesBounded, NEW r \in Requests
  PROVE  /\ IsFiniteSet(Copies(r)) /\ IsFiniteSet(Triers(r)) /\ IsFiniteSet(Carriers(r))
         /\ Stock(r) \in Nat /\ Trial(r) \in Nat /\ Load(r) \in Nat
         /\ IsFiniteSet(Senders(r)) /\ Heading(r) \in Nat
         /\ Trial(r) <= Load(r) /\ Heading(r) <= Trial(r)
         /\ Carried(r) <=> Stock(r) + Load(r) >= 1
<1>1. /\ IsFiniteSet(Copies(r)) /\ IsFiniteSet(Carriers(r))
      /\ Triers(r) \subseteq Carriers(r) /\ Senders(r) \subseteq Triers(r)
  BY DEF CopiesBounded, Senders, Triers, Carriers, Trying, Carrying
<1>2. /\ IsFiniteSet(Triers(r)) /\ Trial(r) <= Load(r)
      /\ IsFiniteSet(Senders(r)) /\ Heading(r) <= Trial(r)
  BY <1>1, FS_Subset DEF Trial, Load, Heading
<1>3. Stock(r) \in Nat /\ Trial(r) \in Nat /\ Load(r) \in Nat /\ Heading(r) \in Nat
  BY <1>1, <1>2, FS_CardinalityType DEF Stock, Trial, Load, Heading
<1>4. (Stock(r) = 0 <=> Copies(r) = {}) /\ (Load(r) = 0 <=> Carriers(r) = {})
  BY <1>1, FS_EmptySet DEF Stock, Load
<1> QED
  BY <1>1, <1>2, <1>3, <1>4 DEF Carried

LEMMA NumbersAfter ==
  ASSUME NEW r \in Requests, IsFiniteSet(Copies(r)'), IsFiniteSet(Carriers(r)')
  PROVE  /\ Stock(r)' \in Nat /\ Trial(r)' \in Nat /\ Load(r)' \in Nat /\ Heading(r)' \in Nat
         /\ Carried(r)' <=> Stock(r)' + Load(r)' >= 1
<1>1. PICK C, H, T, S : C = Copies(r)' /\ H = Carriers(r)' /\ T = Triers(r)' /\ S = Senders(r)'
  OBVIOUS
<1>2. T \subseteq H /\ S \subseteq T
  BY <1>1 DEF Senders, Triers, Carriers, Trying, Carrying
<1>3. IsFiniteSet(C) /\ IsFiniteSet(H) /\ IsFiniteSet(T) /\ IsFiniteSet(S)
  BY <1>1, <1>2, FS_Subset
<1>4. /\ Cardinality(C) \in Nat /\ Cardinality(H) \in Nat
      /\ Cardinality(T) \in Nat /\ Cardinality(S) \in Nat
  BY <1>3, FS_CardinalityType
<1>5. (Cardinality(C) = 0 <=> C = {}) /\ (Cardinality(H) = 0 <=> H = {})
  BY <1>3, FS_EmptySet
<1>6. Carried(r)' <=> C # {} \/ H # {}
  BY <1>1 DEF Carried
<1>7. /\ Stock(r)' = Cardinality(C) /\ Load(r)' = Cardinality(H)
      /\ Trial(r)' = Cardinality(T) /\ Heading(r)' = Cardinality(S)
  BY <1>1 DEF Stock, Load, Trial, Heading
<1> QED
  BY <1>4, <1>5, <1>6, <1>7

\* The kinds of steps: what happens to the four numbers of a message (x copies, y workers that
\* may send or retry, z that may write its status, v at the provider) and to what is known of it.
Known(r) == <<row[r], sends[r], unheard[r], redelivered[r]>>

Undone(r, x, y, z, v) ==
  x = Stock(r) /\ y = Trial(r) /\ z = Load(r) /\ v <= Heading(r) /\ UNCHANGED Known(r)

Began(r, x, y, z, v) ==
  /\ x = Stock(r) - 1 /\ y = Trial(r) + 1 /\ z = Load(r) + 1 /\ v = Heading(r) + 1
  /\ row[r] = "PENDING" /\ UNCHANGED Known(r)

Dropped(r, x, y, z, v) ==
  /\ x = Stock(r) - 1 /\ y = Trial(r) /\ z = Load(r) /\ v <= Heading(r)
  /\ row[r] # "PENDING" /\ UNCHANGED Known(r)

WasSent(r, x, y, z, v) ==
  /\ x = Stock(r) /\ y = Trial(r) - 1 /\ z = Load(r) /\ v = Heading(r) - 1
  /\ sends'[r] = sends[r] + 1 /\ UNCHANGED <<row[r], unheard[r], redelivered[r]>>

WasUnheard(r, x, y, z, v) ==
  /\ x = Stock(r) /\ y = Trial(r) /\ z = Load(r) /\ v = Heading(r) - 1
  /\ sends'[r] = sends[r] + 1 /\ unheard'[r] = unheard[r] + 1
  /\ UNCHANGED <<row[r], redelivered[r]>>

WasSettled(r, x, y, z, v) ==
  /\ x = Stock(r) /\ y <= Trial(r) /\ z = Load(r) - 1 /\ v <= Heading(r)
  /\ row'[r] \in {"SENT", "FAILED"} /\ UNCHANGED <<sends[r], unheard[r], redelivered[r]>>

WasRetried(r, x, y, z, v) ==
  /\ x = Stock(r) + 1 /\ y = Trial(r) - 1 /\ z = Load(r) - 1 /\ v <= Heading(r)
  /\ UNCHANGED Known(r)

Died(r, x, y, z, v) ==
  /\ x = Stock(r) /\ y <= Trial(r) /\ z = Load(r) - 1 /\ v <= Heading(r)
  /\ r \in dead' /\ UNCHANGED Known(r)

\* A lost worker returns the copy that it holds: of an attempt that is not over, of a message
\* that is settled, or one that is counted.
WasLost(r, x, y, z, v) ==
  /\ x = Stock(r) + 1 /\ y <= Trial(r) /\ z <= Load(r) /\ v <= Heading(r)
  /\ UNCHANGED <<row[r], sends[r], unheard[r]>>
  /\ \/ y = Trial(r) - 1 /\ z = Load(r) - 1 /\ UNCHANGED redelivered[r]
     \/ Settled(r) /\ UNCHANGED redelivered[r]
     \/ redelivered'[r] = redelivered[r] + 1

Moves(r, x, y, z, v) ==
  \/ Undone(r, x, y, z, v) \/ Began(r, x, y, z, v) \/ Dropped(r, x, y, z, v)
  \/ WasSent(r, x, y, z, v) \/ WasUnheard(r, x, y, z, v) \/ WasSettled(r, x, y, z, v)
  \/ WasRetried(r, x, y, z, v) \/ Died(r, x, y, z, v) \/ WasLost(r, x, y, z, v)

LEMMA Holders ==
  ASSUME TypeOK, CopiesBounded, NEW w \in Workers, NEW to, wpc' = [wpc EXCEPT ![w] = to],
         \A v \in Workers \ {w} : job'[v] = job[v], NEW r \in Requests
  PROVE  /\ IsFiniteSet(Carriers(r)')
         /\ Trial(r)' = Trial(r) - (IF wpc[w] \in Trying /\ job[w].msg = r THEN 1 ELSE 0)
                                 + (IF to \in Trying /\ job'[w].msg = r THEN 1 ELSE 0)
         /\ Load(r)' = Load(r) - (IF wpc[w] \in Carrying /\ job[w].msg = r THEN 1 ELSE 0)
                               + (IF to \in Carrying /\ job'[w].msg = r THEN 1 ELSE 0)
         /\ Heading(r)' = Heading(r) - (IF wpc[w] = "sending" /\ job[w].msg = r THEN 1 ELSE 0)
                                     + (IF to = "sending" /\ job'[w].msg = r THEN 1 ELSE 0)
<1>0. /\ WorkerTypeOK /\ IsFiniteSet(Triers(r)) /\ IsFiniteSet(Carriers(r))
      /\ IsFiniteSet(Senders(r))
  BY Numbers DEF TypeOK
<1>1. PICK H, G : H = Triers(r) /\ G = Triers(r)'
  OBVIOUS
<1>2. PICK K, L : K = Carriers(r) /\ L = Carriers(r)'
  OBVIOUS
<1>3. /\ \A v \in Workers \ {w} : wpc'[v] = wpc[v] /\ job'[v] = job[v]
      /\ wpc'[w] = to
  BY <1>0 DEF WorkerTypeOK
<1>4. /\ G \ {w} = H \ {w}
      /\ w \in H <=> wpc[w] \in Trying /\ job[w].msg = r
      /\ w \in G <=> to \in Trying /\ job'[w].msg = r
  BY <1>1, <1>3 DEF Triers, Trying
<1>5. /\ L \ {w} = K \ {w}
      /\ w \in K <=> wpc[w] \in Carrying /\ job[w].msg = r
      /\ w \in L <=> to \in Carrying /\ job'[w].msg = r
  BY <1>2, <1>3 DEF Carriers, Carrying, Trying
<1>6. Cardinality(G) = Cardinality(H) - (IF w \in H THEN 1 ELSE 0) + (IF w \in G THEN 1 ELSE 0)
  BY <1>0, <1>1, <1>4, OneMoved
<1>7. /\ IsFiniteSet(L)
      /\ Cardinality(L) = Cardinality(K) - (IF w \in K THEN 1 ELSE 0) + (IF w \in L THEN 1 ELSE 0)
  BY <1>0, <1>2, <1>5, OneMoved
<1>8. /\ Trial(r) = Cardinality(H) /\ Trial(r)' = Cardinality(G)
      /\ Load(r) = Cardinality(K) /\ Load(r)' = Cardinality(L)
  BY <1>1, <1>2 DEF Trial, Load
<1>9. Heading(r)' = Heading(r) - (IF wpc[w] = "sending" /\ job[w].msg = r THEN 1 ELSE 0)
                               + (IF to = "sending" /\ job'[w].msg = r THEN 1 ELSE 0)
  <2>1. PICK A, B : A = Senders(r) /\ B = Senders(r)'
    OBVIOUS
  <2>2. /\ B \ {w} = A \ {w}
        /\ w \in A <=> wpc[w] = "sending" /\ job[w].msg = r
        /\ w \in B <=> to = "sending" /\ job'[w].msg = r
    BY <1>3, <2>1 DEF Senders
  <2>3. Cardinality(B) = Cardinality(A) - (IF w \in A THEN 1 ELSE 0) + (IF w \in B THEN 1 ELSE 0)
    BY <1>0, <2>1, <2>2, OneMoved
  <2>4. Heading(r) = Cardinality(A) /\ Heading(r)' = Cardinality(B)
    BY <2>1 DEF Heading
  <2> QED
    BY <2>2, <2>3, <2>4
<1> QED
  BY <1>2, <1>4, <1>5, <1>6, <1>7, <1>8, <1>9

LEMMA WorkerMoves ==
  ASSUME TypeOK, CopiesBounded, NEW w \in Workers, Work(w) \/ WorkerCrash(w), TypeOK',
         NEW r \in Requests
  PROVE  /\ IsFiniteSet(Copies(r)') /\ IsFiniteSet(Carriers(r)')
         /\ dead \subseteq dead'
         /\ Moves(r, Stock(r)', Trial(r)', Load(r)', Heading(r)')
<1> DEFINE Result == /\ IsFiniteSet(Copies(r)') /\ IsFiniteSet(Carriers(r)')
                     /\ dead \subseteq dead'
                     /\ Moves(r, Stock(r)', Trial(r)', Load(r)', Heading(r)')
<1>0. /\ queue \in [Task -> Nat] /\ queue' \in [Task -> Nat]
      /\ row \in [Requests -> {"none", "flushed"} \cup SMSStatus]
      /\ sends \in [Requests -> Nat] /\ unheard \in [Requests -> Nat]
      /\ redelivered \in [Requests -> Nat]
      /\ wpc \in [Workers -> {"idle", "sending", "accepted", "refused", "raised",
                              "refunding", "acking"}]
      /\ job \in [Workers -> Task \cup {Nobody}]
      /\ wpc[w] # "idle" => job[w] \in Task
  BY DEF TypeOK, SharedTypeOK, WorkerTypeOK
<1>1. /\ IsFiniteSet(Copies(r)) /\ Stock(r) \in Nat /\ Trial(r) \in Nat /\ Load(r) \in Nat
      /\ Heading(r) \in Nat
  BY Numbers
<1>2. ASSUME UNCHANGED queue PROVE IsFiniteSet(Copies(r)') /\ Stock(r)' = Stock(r)
  BY <1>1, <1>2 DEF Copies, Stock
<1>3. ASSUME NEW t \in Task, queue' = Enqueued(t)
      PROVE  IsFiniteSet(Copies(r)') /\ Stock(r)' = Stock(r) + (IF t.msg = r THEN 1 ELSE 0)
  <2>1. /\ IsFiniteSet(Copies(r)')
        /\ t.msg # r => Copies(r)' = Copies(r)
        /\ t.msg = r => Cardinality(Copies(r)') = Cardinality(Copies(r)) + 1
    BY <1>0, <1>1, <1>3, Published
  <2>2. t.msg # r => Cardinality(Copies(r)') = Cardinality(Copies(r))
    BY <2>1
  <2> QED
    BY <1>1, <2>1, <2>2 DEF Stock
<1>4. ASSUME NEW t \in Task, queue[t] > 0, queue' = Dequeued(t)
      PROVE  IsFiniteSet(Copies(r)') /\ Stock(r)' = Stock(r) - (IF t.msg = r THEN 1 ELSE 0)
  <2>1. /\ IsFiniteSet(Copies(r)')
        /\ t.msg # r => Copies(r)' = Copies(r)
        /\ t.msg = r => Cardinality(Copies(r)') = Cardinality(Copies(r)) - 1
    BY <1>0, <1>1, <1>4, Taken
  <2>2. t.msg # r => Cardinality(Copies(r)') = Cardinality(Copies(r))
    BY <2>1
  <2> QED
    BY <1>1, <2>1, <2>2 DEF Stock
<1> USE DEF Step, observed, Known
<1>6. ASSUME NEW t \in Task, Begin(w, t) PROVE Result
  <2>1. PICK to : to = IF row[t.msg] = "PENDING" THEN "sending" ELSE "acking"
    OBVIOUS
  <2>2. /\ wpc[w] = "idle" /\ wpc' = [wpc EXCEPT ![w] = to] /\ job'[w] = t
        /\ \A v \in Workers \ {w} : job'[v] = job[v]
        /\ queue[t] > 0 /\ queue' = Dequeued(t) /\ UNCHANGED <<row, sends, dead, observed>>
    BY <1>0, <1>6, <2>1 DEF Begin
  <2>3. IsFiniteSet(Copies(r)') /\ Stock(r)' = Stock(r) - (IF t.msg = r THEN 1 ELSE 0)
    BY <1>4, <2>2
  <2>4. /\ IsFiniteSet(Carriers(r)')
        /\ Trial(r)' = Trial(r) + (IF to \in Trying /\ t.msg = r THEN 1 ELSE 0)
        /\ Load(r)' = Load(r) + (IF to \in Carrying /\ t.msg = r THEN 1 ELSE 0)
        /\ Heading(r)' = Heading(r) + (IF to = "sending" /\ t.msg = r THEN 1 ELSE 0)
    <3>1. /\ IsFiniteSet(Carriers(r)')
          /\ Trial(r)' = Trial(r) - (IF wpc[w] \in Trying /\ job[w].msg = r THEN 1 ELSE 0)
                                  + (IF to \in Trying /\ job'[w].msg = r THEN 1 ELSE 0)
          /\ Load(r)' = Load(r) - (IF wpc[w] \in Carrying /\ job[w].msg = r THEN 1 ELSE 0)
                                + (IF to \in Carrying /\ job'[w].msg = r THEN 1 ELSE 0)
          /\ Heading(r)' = Heading(r) - (IF wpc[w] = "sending" /\ job[w].msg = r THEN 1 ELSE 0)
                                      + (IF to = "sending" /\ job'[w].msg = r THEN 1 ELSE 0)
      BY Holders, <2>2
    <3>2. /\ wpc[w] \notin Trying /\ wpc[w] \notin Carrying /\ wpc[w] # "sending"
          /\ job'[w].msg = t.msg
      BY <2>2 DEF Trying, Carrying
    <3>3. /\ Trial(r)' = Trial(r) - 0 + (IF to \in Trying /\ t.msg = r THEN 1 ELSE 0)
          /\ Load(r)' = Load(r) - 0 + (IF to \in Carrying /\ t.msg = r THEN 1 ELSE 0)
          /\ Heading(r)' = Heading(r) - 0 + (IF to = "sending" /\ t.msg = r THEN 1 ELSE 0)
      BY <3>1, <3>2
    <3> QED
      BY <1>1, <3>1, <3>3
  <2>5. Moves(r, Stock(r)', Trial(r)', Load(r)', Heading(r)')
    <3>1. "sending" \in Trying /\ "sending" \in Carrying /\ "acking" \notin Trying
          /\ "acking" \notin Carrying
      BY DEF Trying, Carrying
    <3>2. UNCHANGED <<row[r], sends[r], unheard[r], redelivered[r]>>
      BY <2>2
    <3>3. CASE t.msg # r
      BY <1>1, <2>3, <2>4, <3>2, <3>3 DEF Moves, Undone
    <3>4. CASE t.msg = r /\ row[r] = "PENDING"
      BY <1>1, <2>1, <2>3, <2>4, <3>1, <3>2, <3>4 DEF Moves, Began
    <3>5. CASE t.msg = r /\ row[r] # "PENDING"
      BY <1>1, <2>1, <2>3, <2>4, <3>1, <3>2, <3>5 DEF Moves, Dropped
    <3> QED
      BY <3>3, <3>4, <3>5
  <2> QED
    BY <2>2, <2>3, <2>4, <2>5
<1>7. ASSUME Accepted(w) PROVE Result
  <2>1. /\ wpc[w] = "sending" /\ wpc' = [wpc EXCEPT ![w] = "accepted"] /\ job' = job
        /\ UNCHANGED <<queue, row, dead, observed>>
        /\ sends' = [sends EXCEPT ![job[w].msg] = sends[job[w].msg] + 1]
    BY <1>7 DEF Accepted, sharedVars
  <2>2. IsFiniteSet(Copies(r)') /\ Stock(r)' = Stock(r)
    BY <1>2, <2>1
  <2>3. /\ IsFiniteSet(Carriers(r)')
        /\ Trial(r)' = Trial(r) - (IF job[w].msg = r THEN 1 ELSE 0) /\ Load(r)' = Load(r)
        /\ Heading(r)' = Heading(r) - (IF job[w].msg = r THEN 1 ELSE 0)
    <3>1. /\ IsFiniteSet(Carriers(r)')
          /\ Trial(r)' = Trial(r) - (IF wpc[w] \in Trying /\ job[w].msg = r THEN 1 ELSE 0)
                                  + (IF "accepted" \in Trying /\ job'[w].msg = r THEN 1 ELSE 0)
          /\ Load(r)' = Load(r) - (IF wpc[w] \in Carrying /\ job[w].msg = r THEN 1 ELSE 0)
                                + (IF "accepted" \in Carrying /\ job'[w].msg = r THEN 1 ELSE 0)
          /\ Heading(r)' = Heading(r) - (IF wpc[w] = "sending" /\ job[w].msg = r THEN 1 ELSE 0)
                                      + (IF "accepted" = "sending" /\ job'[w].msg = r THEN 1 ELSE 0)
      BY Holders, <2>1
    <3> QED
      BY <1>1, <2>1, <3>1 DEF Trying, Carrying
  <2>4. sends'[r] = sends[r] + (IF job[w].msg = r THEN 1 ELSE 0)
    BY <1>0, <2>1
  <2>5. Moves(r, Stock(r)', Trial(r)', Load(r)', Heading(r)')
    BY <1>1, <2>1, <2>2, <2>3, <2>4 DEF Moves, Undone, WasSent
  <2> QED
    BY <2>1, <2>2, <2>3, <2>5
<1>8. ASSUME Refused(w) PROVE Result
  <2>1. PICK to \in {"refused", "raised"} :
          /\ wpc[w] = "sending" /\ wpc' = [wpc EXCEPT ![w] = to] /\ job' = job
          /\ UNCHANGED <<queue, row, dead, observed, sends>>
    BY <1>8 DEF Refused, sharedVars
  <2>2. IsFiniteSet(Copies(r)') /\ Stock(r)' = Stock(r)
    BY <1>2, <2>1
  <2>3. /\ IsFiniteSet(Carriers(r)') /\ Trial(r)' = Trial(r) /\ Load(r)' = Load(r)
        /\ Heading(r)' <= Heading(r)
    <3>1. /\ IsFiniteSet(Carriers(r)')
          /\ Trial(r)' = Trial(r) - (IF wpc[w] \in Trying /\ job[w].msg = r THEN 1 ELSE 0)
                                  + (IF to \in Trying /\ job'[w].msg = r THEN 1 ELSE 0)
          /\ Load(r)' = Load(r) - (IF wpc[w] \in Carrying /\ job[w].msg = r THEN 1 ELSE 0)
                                + (IF to \in Carrying /\ job'[w].msg = r THEN 1 ELSE 0)
          /\ Heading(r)' = Heading(r) - (IF wpc[w] = "sending" /\ job[w].msg = r THEN 1 ELSE 0)
                                      + (IF to = "sending" /\ job'[w].msg = r THEN 1 ELSE 0)
      BY Holders, <2>1
    <3> QED
      BY <1>1, <2>1, <3>1 DEF Trying, Carrying
  <2> QED
    BY <2>1, <2>2, <2>3 DEF Moves, Undone
<1>9. ASSUME RecordSent(w) \/ FailPermanently(w) PROVE Result
  <2>1. PICK to \in {"acking", "refunding"}, status \in {"SENT", "FAILED"} :
          /\ wpc[w] \in {"accepted", "refused"} /\ wpc' = [wpc EXCEPT ![w] = to] /\ job' = job
          /\ UNCHANGED <<queue, dead, observed, sends>>
          /\ row' = [row EXCEPT ![job[w].msg] = status]
    BY <1>9 DEF RecordSent, FailPermanently, SetStatus
  <2>2. IsFiniteSet(Copies(r)') /\ Stock(r)' = Stock(r)
    BY <1>2, <2>1
  <2>3. /\ IsFiniteSet(Carriers(r)')
        /\ Trial(r)' = Trial(r) - (IF wpc[w] = "refused" /\ job[w].msg = r THEN 1 ELSE 0)
        /\ Load(r)' = Load(r) - (IF job[w].msg = r THEN 1 ELSE 0)
        /\ Heading(r)' <= Heading(r)
    <3>1. /\ IsFiniteSet(Carriers(r)')
          /\ Trial(r)' = Trial(r) - (IF wpc[w] \in Trying /\ job[w].msg = r THEN 1 ELSE 0)
                                  + (IF to \in Trying /\ job'[w].msg = r THEN 1 ELSE 0)
          /\ Load(r)' = Load(r) - (IF wpc[w] \in Carrying /\ job[w].msg = r THEN 1 ELSE 0)
                                + (IF to \in Carrying /\ job'[w].msg = r THEN 1 ELSE 0)
          /\ Heading(r)' = Heading(r) - (IF wpc[w] = "sending" /\ job[w].msg = r THEN 1 ELSE 0)
                                      + (IF to = "sending" /\ job'[w].msg = r THEN 1 ELSE 0)
      BY Holders, <2>1
    <3> QED
      BY <1>1, <2>1, <3>1 DEF Trying, Carrying
  <2>4. job[w].msg # r => row'[r] = row[r]
    BY <1>0, <2>1
  <2>5. job[w].msg = r => row'[r] = status
    BY <1>0, <2>1
  <2>6. CASE job[w].msg # r
    <3>1. Undone(r, Stock(r)', Trial(r)', Load(r)', Heading(r)')
      BY <1>1, <2>1, <2>2, <2>3, <2>4, <2>6 DEF Undone
    <3> QED
      BY <2>1, <2>2, <2>3, <3>1 DEF Moves
  <2>7. CASE job[w].msg = r
    <3>1. WasSettled(r, Stock(r)', Trial(r)', Load(r)', Heading(r)')
      BY <1>1, <2>1, <2>2, <2>3, <2>5, <2>7 DEF WasSettled
    <3> QED
      BY <2>1, <2>2, <2>3, <3>1 DEF Moves
  <2> QED
    BY <2>6, <2>7
<1>10. ASSUME Retry(w) PROVE Result
  <2>1. /\ wpc[w] \in {"refused", "raised"} /\ wpc' = [wpc EXCEPT ![w] = "acking"] /\ job' = job
        /\ UNCHANGED <<row, dead, observed, sends>>
        /\ queue' = Enqueued(Again(job[w])) /\ Again(job[w]) \in Task /\ Again(job[w]).msg = job[w].msg
    BY <1>0, <1>10, TaskFields DEF Retry
  <2>2. IsFiniteSet(Copies(r)') /\ Stock(r)' = Stock(r) + (IF job[w].msg = r THEN 1 ELSE 0)
    BY <1>3, <2>1
  <2>3. /\ IsFiniteSet(Carriers(r)')
        /\ Trial(r)' = Trial(r) - (IF job[w].msg = r THEN 1 ELSE 0)
        /\ Load(r)' = Load(r) - (IF job[w].msg = r THEN 1 ELSE 0)
        /\ Heading(r)' <= Heading(r)
    <3>1. /\ IsFiniteSet(Carriers(r)')
          /\ Trial(r)' = Trial(r) - (IF wpc[w] \in Trying /\ job[w].msg = r THEN 1 ELSE 0)
                                  + (IF "acking" \in Trying /\ job'[w].msg = r THEN 1 ELSE 0)
          /\ Load(r)' = Load(r) - (IF wpc[w] \in Carrying /\ job[w].msg = r THEN 1 ELSE 0)
                                + (IF "acking" \in Carrying /\ job'[w].msg = r THEN 1 ELSE 0)
          /\ Heading(r)' = Heading(r) - (IF wpc[w] = "sending" /\ job[w].msg = r THEN 1 ELSE 0)
                                      + (IF "acking" = "sending" /\ job'[w].msg = r THEN 1 ELSE 0)
      BY Holders, <2>1
    <3> QED
      BY <1>1, <2>1, <3>1 DEF Trying, Carrying
  <2>4. Moves(r, Stock(r)', Trial(r)', Load(r)', Heading(r)')
    BY <1>1, <2>1, <2>2, <2>3 DEF Moves, Undone, WasRetried
  <2> QED
    BY <2>1, <2>2, <2>3, <2>4
<1>11. ASSUME GiveUp(w) \/ DatabaseFails(w) PROVE Result
  <2>1. /\ wpc[w] \in Carrying /\ wpc' = [wpc EXCEPT ![w] = "acking"] /\ job' = job
        /\ UNCHANGED <<queue, row, observed, sends>>
        /\ dead' = dead \cup {job[w].msg}
    BY <1>11 DEF GiveUp, DatabaseFails, sharedVars, Trying, Carrying
  <2>2. IsFiniteSet(Copies(r)') /\ Stock(r)' = Stock(r)
    BY <1>2, <2>1
  <2>3. /\ IsFiniteSet(Carriers(r)')
        /\ Trial(r)' = Trial(r) - (IF wpc[w] \in Trying /\ job[w].msg = r THEN 1 ELSE 0)
        /\ Load(r)' = Load(r) - (IF job[w].msg = r THEN 1 ELSE 0)
        /\ Heading(r)' <= Heading(r)
    <3>1. /\ IsFiniteSet(Carriers(r)')
          /\ Trial(r)' = Trial(r) - (IF wpc[w] \in Trying /\ job[w].msg = r THEN 1 ELSE 0)
                                  + (IF "acking" \in Trying /\ job'[w].msg = r THEN 1 ELSE 0)
          /\ Load(r)' = Load(r) - (IF wpc[w] \in Carrying /\ job[w].msg = r THEN 1 ELSE 0)
                                + (IF "acking" \in Carrying /\ job'[w].msg = r THEN 1 ELSE 0)
          /\ Heading(r)' = Heading(r) - (IF wpc[w] = "sending" /\ job[w].msg = r THEN 1 ELSE 0)
                                      + (IF "acking" = "sending" /\ job'[w].msg = r THEN 1 ELSE 0)
      BY Holders, <2>1
    <3> QED
      BY <1>1, <2>1, <3>1 DEF Trying, Carrying
  <2>4. Moves(r, Stock(r)', Trial(r)', Load(r)', Heading(r)')
    BY <1>1, <2>1, <2>2, <2>3 DEF Moves, Undone, Died
  <2> QED
    BY <2>1, <2>2, <2>3, <2>4
<1>12. ASSUME Refund(w) \/ RefundLost(w) \/ Ack(w) PROVE Result
  <2>1. PICK to \in {"acking", "idle"} :
          /\ wpc[w] \in {"refunding", "acking"} /\ wpc' = [wpc EXCEPT ![w] = to]
          /\ \A v \in Workers \ {w} : job'[v] = job[v]
          /\ UNCHANGED <<queue, row, dead, observed, sends>>
    BY <1>0, <1>12 DEF Refund, RefundLost, Ack, sharedVars
  <2>2. IsFiniteSet(Copies(r)') /\ Stock(r)' = Stock(r)
    BY <1>2, <2>1
  <2>3. /\ IsFiniteSet(Carriers(r)') /\ Trial(r)' = Trial(r) /\ Load(r)' = Load(r)
        /\ Heading(r)' <= Heading(r)
    <3>1. /\ IsFiniteSet(Carriers(r)')
          /\ Trial(r)' = Trial(r) - (IF wpc[w] \in Trying /\ job[w].msg = r THEN 1 ELSE 0)
                                  + (IF to \in Trying /\ job'[w].msg = r THEN 1 ELSE 0)
          /\ Load(r)' = Load(r) - (IF wpc[w] \in Carrying /\ job[w].msg = r THEN 1 ELSE 0)
                                + (IF to \in Carrying /\ job'[w].msg = r THEN 1 ELSE 0)
          /\ Heading(r)' = Heading(r) - (IF wpc[w] = "sending" /\ job[w].msg = r THEN 1 ELSE 0)
                                      + (IF to = "sending" /\ job'[w].msg = r THEN 1 ELSE 0)
      BY Holders, <2>1
    <3> QED
      BY <1>1, <2>1, <3>1 DEF Trying, Carrying
  <2> QED
    BY <2>1, <2>2, <2>3 DEF Moves, Undone
<1>13. ASSUME WorkerCrash(w) PROVE Result
  <2>1. /\ wpc[w] # "idle" /\ job[w] \in Task /\ wpc' = [wpc EXCEPT ![w] = "idle"]
        /\ \A v \in Workers \ {w} : job'[v] = job[v]
        /\ UNCHANGED <<row, dead, sends, unheard>>
        /\ queue' = Enqueued(job[w])
        /\ redelivered' = IF wpc[w] \in Trying \/ Settled(job[w].msg) THEN redelivered
                          ELSE [redelivered EXCEPT ![job[w].msg] = @ + 1]
    BY <1>0, <1>13 DEF WorkerCrash
  <2>2. IsFiniteSet(Copies(r)') /\ Stock(r)' = Stock(r) + (IF job[w].msg = r THEN 1 ELSE 0)
    BY <1>3, <2>1
  <2>3. /\ IsFiniteSet(Carriers(r)')
        /\ Trial(r)' = Trial(r) - (IF wpc[w] \in Trying /\ job[w].msg = r THEN 1 ELSE 0)
        /\ Load(r)' = Load(r) - (IF wpc[w] \in Carrying /\ job[w].msg = r THEN 1 ELSE 0)
        /\ Heading(r)' <= Heading(r)
    <3>1. /\ IsFiniteSet(Carriers(r)')
          /\ Trial(r)' = Trial(r) - (IF wpc[w] \in Trying /\ job[w].msg = r THEN 1 ELSE 0)
                                  + (IF "idle" \in Trying /\ job'[w].msg = r THEN 1 ELSE 0)
          /\ Load(r)' = Load(r) - (IF wpc[w] \in Carrying /\ job[w].msg = r THEN 1 ELSE 0)
                                + (IF "idle" \in Carrying /\ job'[w].msg = r THEN 1 ELSE 0)
          /\ Heading(r)' = Heading(r) - (IF wpc[w] = "sending" /\ job[w].msg = r THEN 1 ELSE 0)
                                      + (IF "idle" = "sending" /\ job'[w].msg = r THEN 1 ELSE 0)
      BY Holders, <2>1
    <3> QED
      BY <1>1, <2>1, <3>1 DEF Trying, Carrying
  <2>4. Moves(r, Stock(r)', Trial(r)', Load(r)', Heading(r)')
    <3>1. CASE job[w].msg # r
      <4>1. redelivered'[r] = redelivered[r]
        BY <1>0, <2>1, <3>1
      <4>2. Undone(r, Stock(r)', Trial(r)', Load(r)', Heading(r)')
        BY <1>1, <2>1, <2>2, <2>3, <3>1, <4>1 DEF Undone
      <4> QED
        BY <4>2 DEF Moves
    <3>2. CASE job[w].msg = r
      <4>1. /\ wpc[w] \in Trying \/ Settled(r) => redelivered'[r] = redelivered[r]
            /\ ~(wpc[w] \in Trying \/ Settled(r)) => redelivered'[r] = redelivered[r] + 1
        BY <1>0, <2>1, <3>2
      <4>2. /\ Stock(r)' = Stock(r) + 1 /\ Trial(r)' <= Trial(r) /\ Load(r)' <= Load(r)
            /\ wpc[w] \in Trying => Trial(r)' = Trial(r) - 1 /\ Load(r)' = Load(r) - 1
        BY <1>1, <2>2, <2>3, <3>2 DEF Carrying
      <4>3. WasLost(r, Stock(r)', Trial(r)', Load(r)', Heading(r)')
        BY <2>1, <2>3, <4>1, <4>2 DEF WasLost
      <4> QED
        BY <4>3 DEF Moves
    <3> QED
      BY <3>1, <3>2
  <2> QED
    BY <2>1, <2>2, <2>3, <2>4
<1>14. ASSUME AnswerLost(w) PROVE Result
  <2>1. /\ wpc[w] = "sending" /\ wpc' = [wpc EXCEPT ![w] = "raised"] /\ job' = job
        /\ UNCHANGED <<queue, row, dead, redelivered>>
        /\ sends' = [sends EXCEPT ![job[w].msg] = sends[job[w].msg] + 1]
        /\ unheard' = [unheard EXCEPT ![job[w].msg] = unheard[job[w].msg] + 1]
    BY <1>14 DEF AnswerLost, sharedVars
  <2>2. IsFiniteSet(Copies(r)') /\ Stock(r)' = Stock(r)
    BY <1>2, <2>1
  <2>3. /\ IsFiniteSet(Carriers(r)') /\ Trial(r)' = Trial(r) /\ Load(r)' = Load(r)
        /\ Heading(r)' = Heading(r) - (IF job[w].msg = r THEN 1 ELSE 0)
    <3>1. /\ IsFiniteSet(Carriers(r)')
          /\ Trial(r)' = Trial(r) - (IF wpc[w] \in Trying /\ job[w].msg = r THEN 1 ELSE 0)
                                  + (IF "raised" \in Trying /\ job'[w].msg = r THEN 1 ELSE 0)
          /\ Load(r)' = Load(r) - (IF wpc[w] \in Carrying /\ job[w].msg = r THEN 1 ELSE 0)
                                + (IF "raised" \in Carrying /\ job'[w].msg = r THEN 1 ELSE 0)
          /\ Heading(r)' = Heading(r) - (IF wpc[w] = "sending" /\ job[w].msg = r THEN 1 ELSE 0)
                                      + (IF "raised" = "sending" /\ job'[w].msg = r THEN 1 ELSE 0)
      BY Holders, <2>1
    <3> QED
      BY <1>1, <2>1, <3>1 DEF Trying, Carrying
  <2>4. /\ sends'[r] = sends[r] + (IF job[w].msg = r THEN 1 ELSE 0)
        /\ unheard'[r] = unheard[r] + (IF job[w].msg = r THEN 1 ELSE 0)
    BY <1>0, <2>1
  <2>5. Moves(r, Stock(r)', Trial(r)', Load(r)', Heading(r)')
    BY <1>0, <1>1, <2>1, <2>2, <2>3, <2>4 DEF Moves, Undone, WasUnheard
  <2> QED
    BY <2>1, <2>2, <2>3, <2>5
<1> HIDE DEF Result
<1>15. Result
  BY <1>6, <1>7, <1>8, <1>9, <1>10, <1>11, <1>12, <1>13, <1>14 DEF Work
<1> QED
  BY <1>15 DEF Result

-----------------------------------------------------------------------------
(***************************************************************************)
(* A message without copies has none of its tasks in the broker.           *)
(***************************************************************************)
LEMMA NoCopies ==
  ASSUME queue \in [Task -> Nat], NEW r \in Requests
  PROVE  Copies(r) = {} <=> \A t \in Task : t.msg = r => queue[t] = 0
<1>1. ASSUME Copies(r) = {}, NEW t \in Task, t.msg = r, queue[t] # 0 PROVE FALSE
  <2>1. PICK c : c = <<t, 1>>
    OBVIOUS
  <2>2. c \in Task \X Nat /\ c[1] = t /\ c[2] = 1 /\ queue[t] \in Nat
    BY <2>1
  <2>3. c \in Copies(r)
    BY <1>1, <2>2, CopiesAre
  <2> QED
    BY <1>1, <2>3
<1>2. ASSUME \A t \in Task : t.msg = r => queue[t] = 0, Copies(r) # {} PROVE FALSE
  <2>1. PICK c \in Task \X Nat : c[1].msg = r /\ 1 <= c[2] /\ c[2] <= queue[c[1]]
    BY <1>2, CopiesAre
  <2> QED
    BY <1>2, <2>1
<1> QED
  BY <1>1, <1>2

LEMMA NoCopiesAfter ==
  ASSUME queue' \in [Task -> Nat], NEW r \in Requests,
         \A t \in Task : t.msg = r => queue'[t] = 0
  PROVE  Copies(r)' = {}
<1>1. PICK D : D = Copies(r)'
  OBVIOUS
<1>2. D = {c \in Task \X Nat : c[1].msg = r /\ 1 <= c[2] /\ c[2] <= queue'[c[1]]}
  BY <1>1 DEF Copies
<1>3. \A c \in D : FALSE
  BY <1>2
<1> QED
  BY <1>1, <1>3

(***************************************************************************)
(* A message that is not enqueued yet is carried by nobody.                *)
(***************************************************************************)
LEMMA NothingCarried ==
  ASSUME TypeOK, NotYetEnqueued, NEW r \in Requests, pc[r] \notin Over
  PROVE  /\ sends[r] = 0 /\ Copies(r) = {} /\ Carriers(r) = {}
         /\ Stock(r) = 0 /\ Trial(r) = 0 /\ Load(r) = 0 /\ Heading(r) = 0 /\ ~Carried(r)
<1>1. /\ sends[r] = 0 /\ Copies(r) = {}
      /\ \A w \in Workers : wpc[w] # "idle" => job[w].msg # r
  BY DEF NotYetEnqueued
<1>2. Triers(r) = {} /\ Carriers(r) = {} /\ Senders(r) = {}
  BY <1>1 DEF Senders, Triers, Carriers, Trying, Carrying
<1> QED
  BY <1>1, <1>2, FS_EmptySet DEF Stock, Trial, Load, Heading, Carried

(***************************************************************************)
(* No worker touches a message that is not enqueued yet.                   *)
(***************************************************************************)
LEMMA WorkersLeaveAlone ==
  ASSUME TypeOK, TypeOK', NEW w \in Workers, Work(w) \/ WorkerCrash(w), NEW r \in Requests,
         sends[r] = 0, Copies(r) = {}, \A v \in Workers : wpc[v] # "idle" => job[v].msg # r
  PROVE  /\ sends'[r] = 0 /\ Copies(r)' = {} /\ row'[r] = row[r]
         /\ \A v \in Workers : wpc'[v] # "idle" => job'[v].msg # r
<1> DEFINE Result == /\ sends'[r] = 0 /\ Copies(r)' = {} /\ row'[r] = row[r]
                     /\ \A v \in Workers : wpc'[v] # "idle" => job'[v].msg # r
<1>0. /\ queue \in [Task -> Nat] /\ queue' \in [Task -> Nat]
      /\ row \in [Requests -> {"none", "flushed"} \cup SMSStatus]
      /\ sends \in [Requests -> Nat]
      /\ wpc \in [Workers -> {"idle", "sending", "accepted", "refused", "raised",
                              "refunding", "acking"}]
      /\ job \in [Workers -> Task \cup {Nobody}]
      /\ \A v \in Workers : wpc[v] # "idle" => job[v] \in Task
  BY DEF TypeOK, SharedTypeOK, WorkerTypeOK
<1>1. \A t \in Task : t.msg = r => queue[t] = 0
  BY <1>0, NoCopies
<1>2. ASSUME \A t \in Task : t.msg = r => queue'[t] = queue[t] PROVE Copies(r)' = {}
  BY <1>0, <1>1, <1>2, NoCopiesAfter
<1> USE DEF Step
<1>3. ASSUME NEW t \in Task, Begin(w, t) PROVE Result
  <2>1. t.msg # r /\ queue' = [queue EXCEPT ![t] = queue[t] - 1]
    BY <1>1, <1>3 DEF Begin, Dequeued
  <2>2. \A u \in Task : u.msg = r => queue'[u] = queue[u]
    BY <1>0, <2>1
  <2> QED
    BY <1>0, <1>2, <1>3, <2>1, <2>2 DEF Begin
<1>4. ASSUME \/ Accepted(w) \/ Refused(w) \/ AnswerLost(w) \/ GiveUp(w) \/ DatabaseFails(w)
             \/ RecordSent(w) \/ FailPermanently(w) PROVE Result
  <2>1. UNCHANGED <<queue, job>> /\ wpc[w] # "idle"
    BY <1>4 DEF Accepted, Refused, AnswerLost, GiveUp, DatabaseFails, RecordSent,
                FailPermanently, sharedVars
  <2>2. Copies(r)' = {}
    BY <1>2, <2>1
  <2>3. sends'[r] = 0 /\ row'[r] = row[r]
    BY <1>0, <1>4, <2>1
       DEF Accepted, Refused, AnswerLost, GiveUp, DatabaseFails, RecordSent, FailPermanently,
           SetStatus, sharedVars
  <2>4. \A v \in Workers : wpc'[v] # "idle" => wpc[v] # "idle"
    BY <1>0, <1>4 DEF Accepted, Refused, AnswerLost, GiveUp, DatabaseFails, RecordSent,
                      FailPermanently
  <2> QED
    BY <2>1, <2>2, <2>3, <2>4
<1>5. ASSUME Refund(w) \/ RefundLost(w) \/ Ack(w) PROVE Result
  <2>1. UNCHANGED <<queue, sends, row>> /\ wpc[w] # "idle"
    BY <1>5 DEF Refund, RefundLost, Ack, sharedVars
  <2>2. Copies(r)' = {}
    BY <1>2, <2>1
  <2>3. \A v \in Workers : wpc'[v] # "idle" => wpc[v] # "idle" /\ job'[v] = job[v]
    BY <1>0, <1>5 DEF Refund, RefundLost, Ack
  <2> QED
    BY <2>1, <2>2, <2>3
<1>6. ASSUME Retry(w) PROVE Result
  <2>1. job[w] \in Task /\ job[w].msg # r /\ Again(job[w]) \in Task /\ Again(job[w]).msg # r
    BY <1>0, <1>6, TaskFields DEF Retry
  <2>2. queue' = [queue EXCEPT ![Again(job[w])] = queue[Again(job[w])] + 1]
    BY <1>6 DEF Retry, Enqueued
  <2>3. \A u \in Task : u.msg = r => queue'[u] = queue[u]
    BY <1>0, <2>1, <2>2
  <2>4. UNCHANGED <<job, sends, row>> /\ \A v \in Workers : wpc'[v] # "idle" => wpc[v] # "idle"
    BY <1>0, <1>6 DEF Retry
  <2> QED
    BY <1>2, <2>3, <2>4
<1>7. ASSUME WorkerCrash(w) PROVE Result
  <2>1. job[w] \in Task /\ job[w].msg # r /\ queue' = [queue EXCEPT ![job[w]] = queue[job[w]] + 1]
    BY <1>0, <1>7 DEF WorkerCrash, Enqueued
  <2>2. \A u \in Task : u.msg = r => queue'[u] = queue[u]
    BY <1>0, <2>1
  <2>3. /\ UNCHANGED <<sends, row>>
        /\ \A v \in Workers : wpc'[v] # "idle" => wpc[v] # "idle" /\ job'[v] = job[v]
    BY <1>0, <1>7 DEF WorkerCrash
  <2> QED
    BY <1>2, <2>2, <2>3
<1> HIDE DEF Result
<1>8. Result
  BY <1>3, <1>4, <1>5, <1>6, <1>7 DEF Work
<1> QED
  BY <1>8 DEF Result

(***************************************************************************)
(* Every step of a worker keeps the invariant.                             *)
(***************************************************************************)
LEMMA WorkerKeepsDelivery ==
  ASSUME TypeOK, DeliveryInv, NEW w \in Workers, Work(w) \/ WorkerCrash(w), TypeOK',
         UNCHANGED serviceVars
  PROVE  DeliveryInv'
<1>0. /\ NotYetEnqueued /\ PendingIsCarried /\ CopiesBounded /\ SettledBounded
      /\ UNCHANGED <<pc, reply>>
      /\ sends \in [Requests -> Nat] /\ unheard \in [Requests -> Nat]
      /\ redelivered \in [Requests -> Nat] /\ redelivered' \in [Requests -> Nat]
  BY DEF DeliveryInv, serviceVars, TypeOK, WorkerTypeOK
<1>1. ASSUME NEW r \in Requests, pc[r] \notin Over
      PROVE  /\ sends'[r] = 0 /\ Copies(r)' = {} /\ row'[r] = row[r]
             /\ \A v \in Workers : wpc'[v] # "idle" => job'[v].msg # r
  <2>1. /\ sends[r] = 0 /\ Copies(r) = {}
        /\ \A v \in Workers : wpc[v] # "idle" => job[v].msg # r
    BY <1>0, <1>1 DEF NotYetEnqueued
  <2> QED
    BY <2>1, WorkersLeaveAlone
<1>2. NotYetEnqueued'
  BY <1>0, <1>1 DEF NotYetEnqueued, Over
<1>3. ASSUME NEW r \in Requests
      PROVE  /\ IsFiniteSet(Copies(r)') /\ IsFiniteSet(Carriers(r)') /\ dead \subseteq dead'
             /\ Moves(r, Stock(r)', Trial(r)', Load(r)', Heading(r)')
             /\ Stock(r)' \in Nat /\ Trial(r)' \in Nat /\ Load(r)' \in Nat
             /\ Heading(r)' \in Nat /\ Heading(r) \in Nat /\ Heading(r) <= Trial(r)
             /\ Carried(r)' <=> Stock(r)' + Load(r)' >= 1
             /\ Stock(r) \in Nat /\ Trial(r) \in Nat /\ Load(r) \in Nat /\ Trial(r) <= Load(r)
             /\ Carried(r) <=> Stock(r) + Load(r) >= 1
  BY <1>0, WorkerMoves, Numbers, NumbersAfter
<1>4. ASSUME NEW r \in Requests
      PROVE  /\ ~Settled(r) => /\ sends[r] + Stock(r) + Trial(r) <= 1 + unheard[r] + redelivered[r]
                               /\ Stock(r) + Load(r) <= 1 + redelivered[r]
             /\ Settled(r) => Load(r) <= redelivered[r]
             /\ sends[r] + Heading(r) <= 1 + unheard[r] + redelivered[r]
             /\ sends[r] \in Nat /\ unheard[r] \in Nat /\ redelivered[r] \in Nat
             /\ redelivered'[r] \in Nat
  BY <1>0 DEF CopiesBounded, SettledBounded, Stock, Trial, Load, Heading
<1> DEFINE Bound(r) ==
      /\ ~Settled(r)' =>
           /\ sends'[r] + Stock(r)' + Trial(r)' <= 1 + unheard'[r] + redelivered'[r]
           /\ Stock(r)' + Load(r)' <= 1 + redelivered'[r]
      /\ Settled(r)' => Load(r)' <= redelivered'[r]
      /\ sends'[r] + Heading(r)' <= 1 + unheard'[r] + redelivered'[r]
<1>5. ASSUME NEW r \in Requests PROVE Bound(r)
  <2>0. /\ row'[r] = row[r] => (Settled(r)' <=> Settled(r))
        /\ row[r] = "PENDING" => ~Settled(r)
        /\ row'[r] \in {"SENT", "FAILED"} => Settled(r)' /\ (Settled(r) \/ ~Settled(r))
    BY DEF Settled
  <2> USE DEF Known
  <2>1. CASE Undone(r, Stock(r)', Trial(r)', Load(r)', Heading(r)')
    BY <1>3, <1>4, <2>0, <2>1 DEF Undone
  <2>2. CASE Began(r, Stock(r)', Trial(r)', Load(r)', Heading(r)')
    BY <1>3, <1>4, <2>0, <2>2 DEF Began
  <2>3. CASE Dropped(r, Stock(r)', Trial(r)', Load(r)', Heading(r)')
    BY <1>3, <1>4, <2>0, <2>3 DEF Dropped
  <2>4. CASE WasSent(r, Stock(r)', Trial(r)', Load(r)', Heading(r)')
    BY <1>3, <1>4, <2>0, <2>4 DEF WasSent
  <2>5. CASE WasUnheard(r, Stock(r)', Trial(r)', Load(r)', Heading(r)')
    BY <1>3, <1>4, <2>0, <2>5 DEF WasUnheard
  <2>6. CASE WasSettled(r, Stock(r)', Trial(r)', Load(r)', Heading(r)')
    BY <1>3, <1>4, <2>0, <2>6 DEF WasSettled
  <2>7. CASE WasRetried(r, Stock(r)', Trial(r)', Load(r)', Heading(r)')
    BY <1>3, <1>4, <2>0, <2>7 DEF WasRetried
  <2>8. CASE Died(r, Stock(r)', Trial(r)', Load(r)', Heading(r)')
    BY <1>3, <1>4, <2>0, <2>8 DEF Died
  <2>9. CASE WasLost(r, Stock(r)', Trial(r)', Load(r)', Heading(r)')
    BY <1>3, <1>4, <2>0, <2>9 DEF WasLost
  <2> QED
    BY <1>3, <2>1, <2>2, <2>3, <2>4, <2>5, <2>6, <2>7, <2>8, <2>9 DEF Moves
<1>6. CopiesBounded'
  BY <1>3, <1>5 DEF CopiesBounded, Stock, Trial, Load
<1>8. SettledBounded'
  BY <1>5 DEF SettledBounded, Load, Heading
<1>9. ASSUME NEW r \in Requests, r.live, pc[r] = "replied", reply[r] = r, row'[r] = "PENDING"
      PROVE  Carried(r)' \/ r \in dead'
  <2>1. row[r] # "PENDING" \/ Carried(r) \/ r \in dead
    BY <1>0, <1>9 DEF PendingIsCarried
  <2>2. SUFFICES ASSUME r \notin dead' PROVE Stock(r)' + Load(r)' >= 1
    BY <1>3
  <2>3. row[r] = "PENDING" => Stock(r) + Load(r) >= 1
    BY <1>3, <2>1, <2>2
  <2> USE DEF Known
  <2>4. CASE \/ Undone(r, Stock(r)', Trial(r)', Load(r)', Heading(r)') \/ WasSent(r, Stock(r)', Trial(r)', Load(r)', Heading(r)')
             \/ WasUnheard(r, Stock(r)', Trial(r)', Load(r)', Heading(r)')
    BY <1>3, <1>9, <2>3, <2>4 DEF Undone, WasSent, WasUnheard
  <2>5. CASE Began(r, Stock(r)', Trial(r)', Load(r)', Heading(r)')
    BY <1>3, <1>9, <2>3, <2>5 DEF Began
  <2>6. CASE \/ Dropped(r, Stock(r)', Trial(r)', Load(r)', Heading(r)')
             \/ WasSettled(r, Stock(r)', Trial(r)', Load(r)', Heading(r)')
             \/ Died(r, Stock(r)', Trial(r)', Load(r)', Heading(r)')
    BY <1>3, <1>9, <2>2, <2>6 DEF Dropped, WasSettled, Died
  <2>7. CASE \/ WasRetried(r, Stock(r)', Trial(r)', Load(r)', Heading(r)')
             \/ WasLost(r, Stock(r)', Trial(r)', Load(r)', Heading(r)')
    BY <1>3, <1>9, <2>3, <2>7 DEF WasRetried, WasLost
  <2> QED
    BY <1>3, <2>4, <2>5, <2>6, <2>7 DEF Moves
<1>10. PendingIsCarried'
  BY <1>0, <1>9 DEF PendingIsCarried
<1> QED
  BY <1>2, <1>6, <1>8, <1>10 DEF DeliveryInv

(***************************************************************************)
(* What a request does to its own message and to the others'.              *)
(***************************************************************************)
LEMMA RequestFrame ==
  ASSUME IInv, NotYetEnqueued, NEW r \in Requests, Serve(r) \/ Crash(r)
  PROVE  /\ pc[r] \notin Over
         /\ \A m \in Requests \ {r} : pc'[m] = pc[m] /\ reply'[m] = reply[m] /\ row'[m] = row[m]
         /\ pc'[r] \in {"enqueuing", "resolving"} => row'[r] = "PENDING"
         /\ pc'[r] = "resolving" => ~r.live
         /\ \/ /\ UNCHANGED queue
               /\ r.live /\ pc'[r] = "replied" /\ reply'[r] = r => row'[r] # "PENDING"
            \/ Enqueue(r) /\ row[r] = "PENDING"
<1> DEFINE Result ==
         /\ pc[r] \notin Over
         /\ \A m \in Requests \ {r} : pc'[m] = pc[m] /\ reply'[m] = reply[m] /\ row'[m] = row[m]
         /\ pc'[r] \in {"enqueuing", "resolving"} => row'[r] = "PENDING"
         /\ pc'[r] = "resolving" => ~r.live
         /\ \/ /\ UNCHANGED queue
               /\ r.live /\ pc'[r] = "replied" /\ reply'[r] = r => row'[r] # "PENDING"
            \/ Enqueue(r) /\ row[r] = "PENDING"
<1>0. /\ row \in [Requests -> {"none", "flushed"} \cup SMSStatus]
      /\ pc \in [Requests -> {"received"} \cup Active \cup Over]
      /\ reply \in [Requests -> Requests \cup {Nobody}]
      /\ pc[r] \in {"received", "metering", "writing", "refunding", "rejected", "conflict"}
           => row[r] = "none"
      /\ pc[r] = "enqueuing" => row[r] = "PENDING"
      /\ pc[r] = "resolving" => ~r.live
  BY DEF IInv, TypeOK, SharedTypeOK, ServiceTypeOK, RowsFollowRequests, NotYetEnqueued
<1> USE DEF Goto, Answer, sharedVars, Over
<1>1. ASSUME CacheHit(r) \/ CacheMiss(r) \/ BurstExceeded(r) \/ QuotaExceeded(r) PROVE Result
  BY <1>0, <1>1 DEF CacheHit, CacheMiss, BurstExceeded, QuotaExceeded
<1>2. ASSUME Consume(r) \/ SandboxExempt(r) PROVE Result
  BY <1>0, <1>2 DEF Consume, SandboxExempt, Validated
<1>3. ASSUME Insert(r) \/ ForeignConflict(r) \/ CacheResponse(r) PROVE Result
  BY <1>0, <1>3 DEF Insert, ForeignConflict, CacheResponse
<1>4. ASSUME DuplicateFound(r) \/ QuotaRollback(r) PROVE Result
  BY <1>0, <1>4 DEF DuplicateFound, QuotaRollback
<1>5. ASSUME Commit(r) \/ ResolveSandbox(r) PROVE Result
  BY <1>0, <1>5 DEF Commit, ResolveSandbox
<1>6. ASSUME Enqueue(r) PROVE Result
  BY <1>0, <1>6 DEF Enqueue
<1>7. ASSUME Crash(r) PROVE Result
  BY <1>0, <1>7 DEF Crash, Active
<1> HIDE DEF Result
<1>8. Result
  BY <1>1, <1>2, <1>3, <1>4, <1>5, <1>6, <1>7 DEF Serve
<1> QED
  BY <1>8 DEF Result

(***************************************************************************)
(* What a step of a request does to the copies and workers of a message:   *)
(* nothing, or one copy is published of its own.                           *)
(***************************************************************************)
LEMMA RequestMoves ==
  ASSUME TypeOK, TypeOK', CopiesBounded, UNCHANGED workerVars, NEW r \in Requests,
         UNCHANGED queue \/ Enqueue(r), NEW m \in Requests
  PROVE  /\ IsFiniteSet(Copies(m)') /\ IsFiniteSet(Carriers(m)')
         /\ Trial(m)' = Trial(m) /\ Load(m)' = Load(m) /\ Heading(m)' = Heading(m)
         /\ m # r \/ ~Enqueue(r) => Copies(m)' = Copies(m) /\ Stock(m)' = Stock(m)
         /\ m = r /\ Enqueue(r) => Stock(m)' = Stock(m) + 1
<1>0. queue \in [Task -> Nat] /\ queue' \in [Task -> Nat]
  BY DEF TypeOK, SharedTypeOK
<1>1. IsFiniteSet(Copies(m)) /\ IsFiniteSet(Carriers(m)) /\ Stock(m) \in Nat
  BY Numbers
<1>2. Triers(m)' = Triers(m) /\ Carriers(m)' = Carriers(m) /\ Senders(m)' = Senders(m)
  BY DEF workerVars, Senders, Triers, Carriers, Trying, Carrying
<1>3. CASE ~Enqueue(r)
  <2>1. Copies(m)' = Copies(m)
    BY <1>3 DEF Copies
  <2>2. /\ Stock(m)' = Stock(m) /\ Trial(m)' = Trial(m) /\ Load(m)' = Load(m)
        /\ Heading(m)' = Heading(m)
    BY <1>2, <2>1 DEF Stock, Trial, Load, Heading
  <2> QED
    BY <1>1, <1>2, <1>3, <2>1, <2>2
<1>4. CASE Enqueue(r)
  <2>1. PICK t \in Task : t.msg = r /\ queue' = Enqueued(t)
    BY <1>4, FirstTask DEF Enqueue
  <2>2. /\ IsFiniteSet(Copies(m)')
        /\ t.msg # m => Copies(m)' = Copies(m)
        /\ t.msg = m => Cardinality(Copies(m)') = Cardinality(Copies(m)) + 1
    BY <1>0, <1>1, <2>1, Published
  <2> QED
    BY <1>1, <1>2, <1>4, <2>1, <2>2 DEF Stock, Trial, Load, Heading
<1> QED
  BY <1>3, <1>4

(***************************************************************************)
(* Every step of a request keeps the invariant.                            *)
(***************************************************************************)
LEMMA RequestKeepsDelivery ==
  ASSUME IInv, IInv', DeliveryInv, NEW r \in Requests, Serve(r) \/ Crash(r), UNCHANGED workerVars
  PROVE  DeliveryInv'
<1>0. /\ NotYetEnqueued /\ PendingIsCarried /\ CopiesBounded /\ SettledBounded
      /\ UNCHANGED <<sends, wpc, job, dead, unheard, redelivered>> /\ TypeOK /\ TypeOK'
      /\ sends \in [Requests -> Nat] /\ unheard \in [Requests -> Nat]
      /\ redelivered \in [Requests -> Nat]
  BY DEF DeliveryInv, workerVars, observed, IInv, TypeOK, WorkerTypeOK
<1>1. /\ pc[r] \notin Over
      /\ \A m \in Requests \ {r} : pc'[m] = pc[m] /\ reply'[m] = reply[m] /\ row'[m] = row[m]
      /\ pc'[r] \in {"enqueuing", "resolving"} => row'[r] = "PENDING"
      /\ pc'[r] = "resolving" => ~r.live
      /\ \/ /\ UNCHANGED queue
            /\ r.live /\ pc'[r] = "replied" /\ reply'[r] = r => row'[r] # "PENDING"
         \/ Enqueue(r) /\ row[r] = "PENDING"
  BY <1>0, RequestFrame
<1>2. /\ sends[r] = 0 /\ Copies(r) = {} /\ Carriers(r) = {}
      /\ Stock(r) = 0 /\ Trial(r) = 0 /\ Load(r) = 0 /\ Heading(r) = 0 /\ ~Carried(r)
  BY <1>0, <1>1, NothingCarried
<1>3. ASSUME NEW m \in Requests
      PROVE  /\ IsFiniteSet(Copies(m)') /\ IsFiniteSet(Carriers(m)')
             /\ Trial(m)' = Trial(m) /\ Load(m)' = Load(m) /\ Heading(m)' = Heading(m)
             /\ m # r \/ ~Enqueue(r) => Copies(m)' = Copies(m) /\ Stock(m)' = Stock(m)
             /\ m = r /\ Enqueue(r) => Stock(m)' = Stock(m) + 1
             /\ Stock(m) \in Nat /\ Trial(m) \in Nat /\ Load(m) \in Nat
             /\ Carried(m)' <=> Stock(m)' + Load(m)' >= 1
             /\ Carried(m) <=> Stock(m) + Load(m) >= 1
  BY <1>0, <1>1, RequestMoves, Numbers, NumbersAfter
<1>4. Enqueue(r) => pc'[r] = "replied" /\ row' = row
  BY <1>0 DEF Enqueue, Goto, TypeOK, ServiceTypeOK
<1>5. ASSUME NEW m \in Requests
      PROVE  /\ pc'[m] \notin Over =>
                  /\ sends'[m] = 0 /\ Copies(m)' = {}
                  /\ \A w \in Workers : wpc'[w] # "idle" => job'[w].msg # m
             /\ pc'[m] \in {"enqueuing", "resolving"} => row'[m] = "PENDING"
             /\ pc'[m] = "resolving" => ~m.live
  <2>1. CASE m = r
    <3>1. \A w \in Workers : wpc[w] # "idle" => job[w].msg # r
      BY <1>0, <1>1 DEF NotYetEnqueued
    <3>2. pc'[r] \notin Over => Copies(r)' = Copies(r)
      BY <1>3, <1>4 DEF Over
    <3> QED
      BY <1>0, <1>1, <1>2, <2>1, <3>1, <3>2
  <2>2. CASE m # r
    <3>1. pc'[m] = pc[m] /\ row'[m] = row[m] /\ Copies(m)' = Copies(m)
      BY <1>1, <1>3, <2>2
    <3>2. /\ pc[m] \notin Over => /\ sends[m] = 0 /\ Copies(m) = {}
                                  /\ \A w \in Workers : wpc[w] # "idle" => job[w].msg # m
          /\ pc[m] \in {"enqueuing", "resolving"} => row[m] = "PENDING"
          /\ pc[m] = "resolving" => ~m.live
      BY <1>0 DEF NotYetEnqueued
    <3> QED
      BY <1>0, <3>1, <3>2
  <2> QED
    BY <2>1, <2>2
<1>6. NotYetEnqueued'
  BY <1>5 DEF NotYetEnqueued, Over
<1>7. ASSUME NEW m \in Requests
      PROVE  /\ ~Settled(m)' =>
                  /\ sends'[m] + Stock(m)' + Trial(m)' <= 1 + unheard'[m] + redelivered'[m]
                  /\ Stock(m)' + Load(m)' <= 1 + redelivered'[m]
             /\ sends'[m] + Heading(m)' <= 1 + unheard'[m] + redelivered'[m]
             /\ Settled(m)' => Load(m)' <= redelivered'[m]
  <2>1. /\ ~Settled(m) =>
             /\ sends[m] + Stock(m) + Trial(m) <= 1 + unheard[m] + redelivered[m]
             /\ Stock(m) + Load(m) <= 1 + redelivered[m]
        /\ sends[m] + Heading(m) <= 1 + unheard[m] + redelivered[m]
        /\ Settled(m) => Load(m) <= redelivered[m]
        /\ sends[m] \in Nat /\ unheard[m] \in Nat /\ redelivered[m] \in Nat
    BY <1>0 DEF CopiesBounded, SettledBounded, Stock, Trial, Load, Heading
  <2>2. CASE m = r
    BY <1>0, <1>2, <1>3, <2>1, <2>2
  <2>3. CASE m # r
    <3>1. Settled(m)' <=> Settled(m)
      BY <1>1, <2>3 DEF Settled
    <3> QED
      BY <1>0, <1>3, <2>1, <2>3, <3>1
  <2> QED
    BY <2>2, <2>3
<1>8. CopiesBounded'
  BY <1>3, <1>7 DEF CopiesBounded, Stock, Trial, Load
<1>10. SettledBounded'
  BY <1>7 DEF SettledBounded, Load, Heading
<1>11. ASSUME NEW m \in Requests, m.live, pc'[m] = "replied", reply'[m] = m, row'[m] = "PENDING"
       PROVE  Carried(m)' \/ m \in dead'
  <2>1. CASE m = r
    <3>1. Enqueue(r)
      BY <1>1, <1>11, <2>1
    <3> QED
      BY <1>2, <1>3, <2>1, <3>1
  <2>2. CASE m # r
    <3>1. pc[m] = "replied" /\ reply[m] = m /\ row[m] = "PENDING"
      BY <1>1, <1>11, <2>2
    <3>2. Carried(m) \/ m \in dead
      BY <1>0, <1>11, <3>1 DEF PendingIsCarried
    <3> QED
      BY <1>0, <1>3, <2>2, <3>2
  <2> QED
    BY <2>1, <2>2
<1>12. PendingIsCarried'
  BY <1>11 DEF PendingIsCarried
<1> QED
  BY <1>6, <1>8, <1>10, <1>12 DEF DeliveryInv

(***************************************************************************)
(* A cache entry that expires, a day that passes: nothing is delivered.    *)
(***************************************************************************)
LEMMA DeliveryUntouched ==
  ASSUME DeliveryInv, UNCHANGED <<row, queue, pc, reply, workerVars>>
  PROVE  DeliveryInv'
<1>1. /\ NotYetEnqueued /\ PendingIsCarried /\ CopiesBounded /\ SettledBounded
      /\ UNCHANGED <<sends, wpc, job, dead, unheard, redelivered>>
  BY DEF DeliveryInv, workerVars, observed
<1>2. \A r \in Requests : /\ Copies(r)' = Copies(r) /\ Senders(r)' = Senders(r)
                          /\ Triers(r)' = Triers(r) /\ Carriers(r)' = Carriers(r)
                          /\ Settled(r)' <=> Settled(r)
  BY <1>1 DEF Copies, Senders, Triers, Carriers, Trying, Carrying, Settled
<1>3. NotYetEnqueued'
  BY <1>1, <1>2 DEF NotYetEnqueued, Over
<1>4. CopiesBounded'
  BY <1>1, <1>2 DEF CopiesBounded
<1>5. SettledBounded' /\ PendingIsCarried'
  BY <1>1, <1>2 DEF SettledBounded, PendingIsCarried, Carried
<1> QED
  BY <1>3, <1>4, <1>5 DEF DeliveryInv

(***************************************************************************)
(* The invariant holds initially and is kept by every step.                *)
(***************************************************************************)
LEMMA InitDelivery == Init => DeliveryInv
<1> SUFFICES ASSUME Init PROVE DeliveryInv
  OBVIOUS
<1>1. TypeOK
  BY InitTypes
<1>2. /\ queue = [t \in Task |-> 0] /\ wpc = [w \in Workers |-> "idle"]
      /\ pc = [r \in Requests |-> "received"] /\ sends = [r \in Requests |-> 0]
      /\ unheard = [r \in Requests |-> 0] /\ redelivered = [r \in Requests |-> 0]
  BY DEF Init, SharedInit, ServiceInit, WorkerInit
<1>3. ASSUME NEW r \in Requests
      PROVE  Copies(r) = {} /\ Triers(r) = {} /\ Carriers(r) = {} /\ Senders(r) = {}
  <2>1. queue \in [Task -> Nat] /\ \A t \in Task : t.msg = r => queue[t] = 0
    BY <1>2
  <2>2. Copies(r) = {}
    BY <2>1, NoCopies
  <2> QED
    BY <1>2, <2>2 DEF Senders, Triers, Carriers, Trying, Carrying
<1>4. NotYetEnqueued
  BY <1>2, <1>3 DEF NotYetEnqueued
<1>5. PendingIsCarried
  BY <1>2, <1>3 DEF PendingIsCarried, Carried
<1>6. CopiesBounded /\ SettledBounded
  <2>1. ASSUME NEW r \in Requests
        PROVE  /\ IsFiniteSet(Copies(r)) /\ IsFiniteSet(Carriers(r))
               /\ Cardinality(Copies(r)) = 0 /\ Cardinality(Triers(r)) = 0
               /\ Cardinality(Carriers(r)) = 0 /\ Cardinality(Senders(r)) = 0
               /\ sends[r] = 0 /\ unheard[r] = 0 /\ redelivered[r] = 0
    BY <1>2, <1>3, FS_EmptySet
  <2>2. CopiesBounded
    BY <2>1 DEF CopiesBounded
  <2>3. SettledBounded
    BY <2>1 DEF SettledBounded
  <2> QED
    BY <2>2, <2>3
<1> QED
  BY <1>4, <1>5, <1>6 DEF DeliveryInv

LEMMA StepDelivery == IInv /\ DeliveryInv /\ [Next]_vars => DeliveryInv'
<1> SUFFICES ASSUME IInv, DeliveryInv, [Next]_vars PROVE DeliveryInv'
  OBVIOUS
<1>1. IInv'
  BY StepIInv
<1>2. CASE (\E r \in Requests : Serve(r) \/ Crash(r)) /\ UNCHANGED workerVars
  BY <1>1, <1>2, RequestKeepsDelivery
<1>3. CASE NextDay /\ UNCHANGED workerVars
  BY <1>3, DeliveryUntouched DEF NextDay, serviceVars
<1>4. CASE (\E s \in CacheSlot : Expire(s)) /\ UNCHANGED workerVars
  BY <1>4, DeliveryUntouched DEF Expire, serviceVars
<1>5. CASE WorkerNext /\ UNCHANGED serviceVars
  <2>1. TypeOK /\ TypeOK'
    BY <1>1 DEF IInv
  <2> QED
    BY <1>5, <2>1, WorkerKeepsDelivery DEF WorkerNext
<1>6. CASE UNCHANGED vars
  BY <1>6, DeliveryUntouched DEF vars, sharedVars, serviceVars, workerVars
<1> QED
  BY <1>2, <1>3, <1>4, <1>5, <1>6 DEF Next, ServiceNext

LEMMA Delivered == Spec => [](IInv /\ DeliveryInv)
<1>1. Init => IInv /\ DeliveryInv
  BY InitIInv, InitDelivery
<1>2. IInv /\ DeliveryInv /\ [Next]_vars => (IInv /\ DeliveryInv)'
  BY StepIInv, StepDelivery
<1> QED
  BY <1>1, <1>2, PTL DEF Spec

(***************************************************************************)
(* A live message whose caller was told it is accepted, and that is still  *)
(* PENDING, has a copy of its task in the broker or with a worker, or a    *)
(* task that ended with an exception.                                      *)
(***************************************************************************)
THEOREM NothingStranded == Spec => []NoMessageStranded
<1>1. IInv /\ DeliveryInv => NoMessageStranded
  <2> SUFFICES ASSUME IInv, DeliveryInv, NEW r \in Requests, Carried(r) PROVE TaskExists(r)
    BY DEF DeliveryInv, PendingIsCarried, NoMessageStranded, TaskExists
  <2>0. queue \in [Task -> Nat] /\ \A w \in Workers : wpc[w] # "idle" => job[w] # Nobody
    BY RequestsAssumption DEF IInv, TypeOK, SharedTypeOK, WorkerTypeOK
  <2>1. CASE Copies(r) # {}
    <3>1. PICK t \in Task : t.msg = r /\ queue[t] # 0
      BY <2>0, <2>1, NoCopies
    <3>2. queue[t] > 0
      BY <2>0, <3>1
    <3> QED
      BY <3>1, <3>2 DEF TaskExists
  <2>2. CASE Carriers(r) # {}
    <3>1. PICK w \in Workers : wpc[w] # "idle" /\ job[w].msg = r
      BY <2>2 DEF Carriers, Carrying, Trying
    <3> QED
      BY <2>0, <3>1 DEF TaskExists
  <2> QED
    BY <2>1, <2>2 DEF Carried
<1> QED
  BY Delivered, <1>1, PTL

(***************************************************************************)
(* The provider accepts a message once, and once more for every answer     *)
(* that is lost and every copy that comes back before the message is       *)
(* settled: a send uses up a copy of its task, or leaves one behind that   *)
(* is counted, and no copy sends a message that is settled.                *)
(***************************************************************************)
THEOREM EverySendAccounted == Spec => []SendsAccounted
<1>1. IInv /\ DeliveryInv => SendsAccounted
  <2> SUFFICES ASSUME IInv, DeliveryInv, NEW r \in Requests
               PROVE  sends[r] <= 1 + unheard[r] + redelivered[r]
    BY DEF SendsAccounted
  <2>1. /\ CopiesBounded /\ SettledBounded
        /\ sends[r] \in Nat /\ unheard[r] \in Nat /\ redelivered[r] \in Nat
    BY DEF DeliveryInv, IInv, TypeOK, WorkerTypeOK
  <2>2. Heading(r) \in Nat /\ sends[r] + Heading(r) <= 1 + unheard[r] + redelivered[r]
    BY <2>1, Numbers DEF SettledBounded, Heading
  <2> QED
    BY <2>1, <2>2
<1> QED
  BY Delivered, <1>1, PTL

(***************************************************************************)
(* A settled message no copy of which came back before it was settled      *)
(* keeps its status: nobody is left who would write it.                    *)
(***************************************************************************)
THEOREM SettledForGood == Spec => SettledOnce
<1>1. IInv /\ DeliveryInv /\ [Next]_vars =>
        \A r \in Requests : redelivered[r] = 0 /\ Settled(r) => row'[r] = row[r]
  <2> SUFFICES ASSUME IInv, DeliveryInv, [Next]_vars, NEW r \in Requests, redelivered[r] = 0,
                      Settled(r)
               PROVE  row'[r] = row[r]
    OBVIOUS
  <2>0. /\ TypeOK /\ NotYetEnqueued /\ RowsFollowRequests /\ CopiesBounded /\ SettledBounded
        /\ row \in [Requests -> {"none", "flushed"} \cup SMSStatus]
        /\ \A w \in Workers : wpc[w] # "idle" => job[w] \in Task
    BY DEF IInv, DeliveryInv, TypeOK, SharedTypeOK, WorkerTypeOK
  <2>s. row[r] \in {"SENT", "DELIVERED", "FAILED"}
    BY DEF Settled
  <2>1. ASSUME NEW m \in Requests, Serve(m) \/ Crash(m) PROVE row'[r] = row[r]
    <3>1. CASE m # r
      BY <2>0, <2>1, <3>1, RequestFrame
    <3>2. CASE m = r
      <4>1. pc[r] \notin {"received", "metering", "writing", "refunding", "caching", "committing"}
        BY <2>0, <2>s DEF RowsFollowRequests
      <4>2. pc[r] \notin {"enqueuing", "resolving"}
        BY <2>0, <2>s DEF NotYetEnqueued
      <4>3. pc[r] \notin Over
        BY <2>0, <2>1, <3>2, RequestFrame
      <4> QED
        BY <4>1, <4>2, <4>3 DEF IInv, TypeOK, ServiceTypeOK, Active
    <3> QED
      BY <3>1, <3>2
  <2>2. ASSUME NEW w \in Workers, RecordSent(w) \/ FailPermanently(w) PROVE row'[r] = row[r]
    <3>1. wpc[w] \in {"accepted", "refused"}
      BY <2>2 DEF RecordSent, FailPermanently, Step
    <3>2. Carriers(r) = {}
      <4>1. Cardinality(Carriers(r)) \in Nat /\ Cardinality(Carriers(r)) <= 0
        BY <2>0, Numbers DEF SettledBounded, Load
      <4>2. Cardinality(Carriers(r)) = 0 /\ IsFiniteSet(Carriers(r))
        BY <2>0, <4>1, Numbers
      <4> QED
        BY <4>2, FS_EmptySet
    <3>3. job[w].msg # r
      BY <3>1, <3>2 DEF Carriers, Carrying, Trying
    <3> QED
      BY <2>0, <2>2, <3>3 DEF RecordSent, FailPermanently, SetStatus
  <2>3. ASSUME NEW w \in Workers, NEW t \in Task, Begin(w, t) PROVE row' = row
    BY <2>3 DEF Begin
  <2>4. ASSUME NEW w \in Workers,
               \/ Accepted(w) \/ Refused(w) \/ AnswerLost(w) \/ Retry(w) \/ GiveUp(w)
               \/ DatabaseFails(w)
        PROVE row' = row
    BY <2>4 DEF Accepted, Refused, AnswerLost, Retry, GiveUp, DatabaseFails, sharedVars
  <2>5. ASSUME NEW w \in Workers, Refund(w) \/ RefundLost(w) \/ Ack(w) \/ WorkerCrash(w)
        PROVE row' = row
    BY <2>5 DEF Refund, RefundLost, Ack, WorkerCrash, sharedVars
  <2>6. CASE NextDay \/ (\E s \in CacheSlot : Expire(s)) \/ UNCHANGED vars
    BY <2>6 DEF NextDay, Expire, vars, sharedVars
  <2>7. CASE WorkerNext
    BY <2>2, <2>3, <2>4, <2>5, <2>7 DEF WorkerNext, Work
  <2> QED
    BY <2>1, <2>6, <2>7 DEF Next, ServiceNext
<1>2. IInv /\ DeliveryInv /\ [Next]_vars =>
        [\A r \in Requests : redelivered[r] = 0 /\ Settled(r) => row'[r] = row[r]]_vars
  BY <1>1
<1> QED
  BY Delivered, <1>2, PTL DEF Spec, SettledOnce

-----------------------------------------------------------------------------
(***************************************************************************)
(* The books: what happens to a finite set when one element moves.         *)
(***************************************************************************)
LEMMA AtMost ==
  ASSUME NEW H, NEW G, NEW x, IsFiniteSet(H), G \ {x} \subseteq H \ {x}
  PROVE  /\ IsFiniteSet(G) /\ Cardinality(G) \in Nat /\ Cardinality(H) \in Nat
         /\ Cardinality(G)
              <= Cardinality(H) - (IF x \in H THEN 1 ELSE 0) + (IF x \in G THEN 1 ELSE 0)
<1>1. PICK R : R = G \ {x}
  OBVIOUS
<1>2. PICK Q : Q = H \ {x}
  OBVIOUS
<1>3. IsFiniteSet(Q) /\ x \notin Q
  BY <1>2, FS_RemoveElement
<1>4. Cardinality(Q) = IF x \in H THEN Cardinality(H) - 1 ELSE Cardinality(H)
  BY <1>2, FS_RemoveElement
<1>5. IsFiniteSet(R) /\ Cardinality(R) <= Cardinality(Q)
  BY <1>1, <1>2, <1>3, FS_Subset
<1>6. IsFiniteSet(R \cup {x}) /\ Cardinality(R \cup {x}) = Cardinality(R) + 1
  BY <1>1, <1>5, FS_AddElement
<1>7. G = IF x \in G THEN R \cup {x} ELSE R
  BY <1>1
<1>8. IsFiniteSet(G)
  BY <1>5, <1>6, <1>7
<1>9. /\ Cardinality(G) \in Nat /\ Cardinality(H) \in Nat
      /\ Cardinality(R) \in Nat /\ Cardinality(Q) \in Nat
  BY <1>3, <1>5, <1>8, FS_CardinalityType
<1> QED
  BY <1>4, <1>5, <1>6, <1>7, <1>8, <1>9

(***************************************************************************)
(* The units of the counters of one application, one counter of which goes *)
(* up by one: a unit more was consumed, or one less is overdrawn.          *)
(***************************************************************************)
Units(f) == {c \in Days \X Int : 1 <= c[2] /\ c[2] <= f[c[1]]}
Debts(f) == {c \in Days \X Int : f[c[1]] < c[2] /\ c[2] <= 0}

LEMMA OneUnit ==
  ASSUME NEW f \in [Days -> Int], NEW g \in [Days -> Int], NEW d \in Days, g[d] = f[d] + 1,
         \A e \in Days \ {d} : g[e] = f[e],
         \/ IsFiniteSet(Units(f)) /\ IsFiniteSet(Debts(f))
         \/ IsFiniteSet(Units(g)) /\ IsFiniteSet(Debts(g))
  PROVE  /\ IsFiniteSet(Units(f)) /\ IsFiniteSet(Debts(f))
         /\ IsFiniteSet(Units(g)) /\ IsFiniteSet(Debts(g))
         /\ Cardinality(Units(g)) - Cardinality(Debts(g))
              = Cardinality(Units(f)) - Cardinality(Debts(f)) + 1
<1>1. PICK u : u = <<d, f[d] + 1>>
  OBVIOUS
<1>2. u \in Days \X Int /\ u[1] = d /\ u[2] = f[d] + 1
  BY <1>1
<1>3. \A c \in Days \X Int : c[1] = d /\ c[2] = f[d] + 1 => c = u
  BY <1>1
<1>4. CASE f[d] >= 0
  <2>1. Debts(g) = Debts(f)
    BY <1>4 DEF Debts
  <2>2. Units(g) = Units(f) \cup {u} /\ u \notin Units(f)
    BY <1>2, <1>3, <1>4 DEF Units
  <2>3. Units(f) = Units(g) \ {u}
    BY <2>2
  <2>4. IsFiniteSet(Units(f))
    BY <2>3, FS_RemoveElement
  <2>5. IsFiniteSet(Units(g)) /\ Cardinality(Units(g)) = Cardinality(Units(f)) + 1
    BY <2>2, <2>4, FS_AddElement
  <2>6. Cardinality(Units(f)) \in Nat /\ Cardinality(Debts(f)) \in Nat
    BY <2>1, <2>4, FS_CardinalityType
  <2> QED
    BY <2>1, <2>4, <2>5, <2>6
<1>5. CASE f[d] < 0
  <2>1. Units(g) = Units(f)
    BY <1>5 DEF Units
  <2>2. Debts(f) = Debts(g) \cup {u} /\ u \notin Debts(g)
    BY <1>2, <1>3, <1>5 DEF Debts
  <2>3. Debts(g) = Debts(f) \ {u}
    BY <2>2
  <2>4. IsFiniteSet(Debts(g))
    BY <2>3, FS_RemoveElement
  <2>5. IsFiniteSet(Debts(f)) /\ Cardinality(Debts(f)) = Cardinality(Debts(g)) + 1
    BY <2>2, <2>4, FS_AddElement
  <2>6. Cardinality(Units(f)) \in Nat /\ Cardinality(Debts(g)) \in Nat
    BY <2>1, <2>4, FS_CardinalityType
  <2> QED
    BY <2>1, <2>4, <2>5, <2>6
<1> QED
  BY <1>4, <1>5

\* What is spent of an application, and the places that hold a claim to a unit.
SpentFinite(a) == IsFiniteSet(Consumed(a)) /\ IsFiniteSet(Overdrawn(a))

LEMMA QuotaMoves ==
  ASSUME quota \in [Apps -> [Days -> Int]], quota' \in [Apps -> [Days -> Int]],
         NEW a \in Apps, NEW d \in Days, SpentFinite(a),
         \A e \in Days \ {d} : quota'[a][e] = quota[a][e]
  PROVE  /\ QuotaTotal(a) \in Int
         /\ quota'[a][d] = quota[a][d] => SpentFinite(a)' /\ QuotaTotal(a)' = QuotaTotal(a)
         /\ quota'[a][d] = quota[a][d] + 1
              => SpentFinite(a)' /\ QuotaTotal(a)' = QuotaTotal(a) + 1
         /\ quota'[a][d] = quota[a][d] - 1
              => SpentFinite(a)' /\ QuotaTotal(a)' = QuotaTotal(a) - 1
<1>1. PICK f, g : f = quota[a] /\ g = quota'[a]
  OBVIOUS
<1>2. f \in [Days -> Int] /\ g \in [Days -> Int]
  BY <1>1
<1>3. Consumed(a) = Units(f) /\ Overdrawn(a) = Debts(f)
  BY <1>1, <1>2 DEF Consumed, Overdrawn, Units, Debts
<1>4. PICK C, O : C = Consumed(a)' /\ O = Overdrawn(a)'
  OBVIOUS
<1>5. C = Units(g) /\ O = Debts(g)
  BY <1>1, <1>2, <1>4 DEF Consumed, Overdrawn, Units, Debts
<1>6. /\ IsFiniteSet(Units(f)) /\ IsFiniteSet(Debts(f))
      /\ Cardinality(Units(f)) \in Nat /\ Cardinality(Debts(f)) \in Nat
  BY <1>3, FS_CardinalityType DEF SpentFinite
<1>7. QuotaTotal(a) = Cardinality(Units(f)) - Cardinality(Debts(f))
  BY <1>3 DEF QuotaTotal
<1>8. QuotaTotal(a)' = Cardinality(Units(g)) - Cardinality(Debts(g))
  BY <1>4, <1>5 DEF QuotaTotal
<1>9. SpentFinite(a)' <=> IsFiniteSet(Units(g)) /\ IsFiniteSet(Debts(g))
  BY <1>4, <1>5 DEF SpentFinite
<1>10. g[d] = f[d] => g = f
  BY <1>1, <1>2
<1>11. g[d] = f[d] + 1 =>
         /\ IsFiniteSet(Units(g)) /\ IsFiniteSet(Debts(g))
         /\ Cardinality(Units(g)) - Cardinality(Debts(g))
              = Cardinality(Units(f)) - Cardinality(Debts(f)) + 1
  BY <1>1, <1>2, <1>6, OneUnit
<1>12. g[d] = f[d] - 1 =>
         /\ IsFiniteSet(Units(g)) /\ IsFiniteSet(Debts(g))
         /\ Cardinality(Units(f)) - Cardinality(Debts(f))
              = Cardinality(Units(g)) - Cardinality(Debts(g)) + 1
  <2>1. g[d] = f[d] - 1 => f[d] = g[d] + 1
    BY <1>2
  <2> QED
    BY <1>1, <1>2, <1>6, <2>1, OneUnit
<1>13. /\ IsFiniteSet(Units(g)) => Cardinality(Units(g)) \in Nat
       /\ IsFiniteSet(Debts(g)) => Cardinality(Debts(g)) \in Nat
  BY FS_CardinalityType
<1> QED
  BY <1>1, <1>6, <1>7, <1>8, <1>9, <1>10, <1>11, <1>12, <1>13

(***************************************************************************)
(* The copies of the tasks of an application.                              *)
(***************************************************************************)
LEMMA TaskCopiesAre ==
  ASSUME queue \in [Task -> Nat], NEW a \in Apps
  PROVE  TaskCopies(a)
           = {c \in Task \X Nat : c[1].msg.app = a /\ 1 <= c[2] /\ c[2] <= queue[c[1]]}
BY DEF TaskCopies

LEMMA AppPublished ==
  ASSUME queue \in [Task -> Nat], queue' \in [Task -> Nat], NEW t \in Task, queue' = Enqueued(t),
         NEW a \in Apps, t.msg.app = a, IsFiniteSet(TaskCopies(a))
  PROVE  /\ IsFiniteSet(TaskCopies(a)')
         /\ Cardinality(TaskCopies(a)') = Cardinality(TaskCopies(a)) + 1
<1>1. PICK D : D = TaskCopies(a)'
  OBVIOUS
<1>2. D = {c \in Task \X Nat : c[1].msg.app = a /\ 1 <= c[2] /\ c[2] <= queue'[c[1]]}
  BY <1>1 DEF TaskCopies
<1>3. queue' = [queue EXCEPT ![t] = queue[t] + 1] /\ queue[t] \in Nat
  BY DEF Enqueued
<1>4. D = TaskCopies(a) \cup {<<t, queue[t] + 1>>} /\ <<t, queue[t] + 1>> \notin TaskCopies(a)
  BY <1>2, <1>3, TaskCopiesAre
<1>5. IsFiniteSet(D) /\ Cardinality(D) = Cardinality(TaskCopies(a)) + 1
  BY <1>4, FS_AddElement
<1> QED
  BY <1>1, <1>5

LEMMA AppTaken ==
  ASSUME queue \in [Task -> Nat], queue' \in [Task -> Nat], NEW t \in Task, queue[t] > 0,
         queue' = Dequeued(t), NEW a \in Apps, t.msg.app = a, IsFiniteSet(TaskCopies(a))
  PROVE  /\ IsFiniteSet(TaskCopies(a)')
         /\ Cardinality(TaskCopies(a)') = Cardinality(TaskCopies(a)) - 1
<1>1. PICK D : D = TaskCopies(a)'
  OBVIOUS
<1>2. D = {c \in Task \X Nat : c[1].msg.app = a /\ 1 <= c[2] /\ c[2] <= queue'[c[1]]}
  BY <1>1 DEF TaskCopies
<1>3. queue' = [queue EXCEPT ![t] = queue[t] - 1] /\ queue[t] \in Nat
  BY DEF Dequeued
<1>4. D = TaskCopies(a) \ {<<t, queue[t]>>} /\ <<t, queue[t]>> \in TaskCopies(a)
  BY <1>2, <1>3, TaskCopiesAre
<1>5. IsFiniteSet(D) /\ Cardinality(D) = Cardinality(TaskCopies(a)) - 1
  BY <1>4, FS_RemoveElement
<1> QED
  BY <1>1, <1>5

LEMMA AppElsewhere ==
  ASSUME queue \in [Task -> Nat], queue' \in [Task -> Nat], NEW a \in Apps,
         \A t \in Task : t.msg.app = a => queue'[t] = queue[t]
  PROVE  TaskCopies(a)' = TaskCopies(a)
BY DEF TaskCopies

(***************************************************************************)
(* The sizes of the parts of the claims; all of them are finite, because   *)
(* finitely many requests have begun.                                      *)
(***************************************************************************)
Charge(a) == Cardinality(Charged(a))
Copied(a) == Cardinality(TaskCopies(a))
Handled(a) == Cardinality(Handlers(a))
Stays(a) == Cardinality(Kept(a))
Gave(a) == Cardinality(Returned(a))

AllFinite(a) ==
  /\ IsFiniteSet(Charged(a)) /\ IsFiniteSet(TaskCopies(a)) /\ IsFiniteSet(Handlers(a))
  /\ IsFiniteSet(Kept(a)) /\ IsFiniteSet(Returned(a)) /\ IsFiniteSet(SandboxDuplicates(a))

LEMMA Sizes ==
  ASSUME IInv, BooksInv, NEW a \in Apps
  PROVE  /\ AllFinite(a) /\ SpentFinite(a)
         /\ Charge(a) \in Nat /\ Copied(a) \in Nat /\ Handled(a) \in Nat /\ Stays(a) \in Nat
         /\ Gave(a) \in Nat /\ QuotaTotal(a) \in Int
         /\ Charge(a) + Copied(a) + Handled(a) + Stays(a)
              <= QuotaTotal(a) + wcrashes + Gave(a)
<1>1. /\ IsFiniteSet(Begun) /\ IsFiniteSet(TaskCopies(a)) /\ IsFiniteSet(Handlers(a))
      /\ SpentFinite(a)
  BY DEF BooksInv, ClaimsPaid, SpentFinite
<1>2. Charged(a) \subseteq Begun
  BY DEF Charged, Begun
<1>3. Kept(a) \subseteq Begun
  BY DEF IInv, RowsFollowRequests, Kept, Billable, Durable, SMSStatus, Begun
<1>4. Returned(a) \subseteq Begun /\ SandboxDuplicates(a) \subseteq Begun
  BY DEF BooksInv, Returned, SandboxDuplicates, Begun
<1>5. AllFinite(a)
  <2>1. IsFiniteSet(Charged(a)) /\ IsFiniteSet(Kept(a))
    BY <1>1, <1>2, <1>3, FS_Subset
  <2>2. IsFiniteSet(Returned(a)) /\ IsFiniteSet(SandboxDuplicates(a))
    BY <1>1, <1>4, FS_Subset
  <2> QED
    BY <1>1, <2>1, <2>2 DEF AllFinite
<1>6. /\ Charge(a) \in Nat /\ Copied(a) \in Nat /\ Handled(a) \in Nat /\ Stays(a) \in Nat
      /\ Gave(a) \in Nat
  BY <1>5, FS_CardinalityType DEF AllFinite, Charge, Copied, Handled, Stays, Gave
<1>7. Claims(a) = Charge(a) + Copied(a) + Handled(a) + Stays(a)
  BY DEF Claims, Charge, Copied, Handled, Stays
<1>8. Claims(a) <= QuotaTotal(a) + wcrashes + Gave(a)
  BY DEF BooksInv, ClaimsPaid, Gave
<1>9. QuotaTotal(a) \in Int
  BY <1>1, FS_CardinalityType DEF SpentFinite, QuotaTotal
<1> QED
  BY <1>1, <1>5, <1>6, <1>7, <1>8, <1>9

(***************************************************************************)
(* A step of a worker, whose task is t: what happens to the claims of the  *)
(* application of its message, and that nothing happens to the others.     *)
(***************************************************************************)
Refunding == Carrying \cup {"refunding"}
Weight(p) == IF p \in Refunding THEN 1 ELSE 0

LEMMA HandlersMove ==
  ASSUME TypeOK, NEW w \in Workers, NEW t \in Task, NEW to, wpc' = [wpc EXCEPT ![w] = to],
         \A v \in Workers \ {w} : job'[v] = job[v],
         wpc[w] # "idle" => job[w] = t, to # "idle" => job'[w] = t,
         NEW a \in Apps, IsFiniteSet(Handlers(a))
  PROVE  /\ IsFiniteSet(Handlers(a)') /\ Handled(a)' \in Nat
         /\ t.msg.app # a => Handlers(a)' = Handlers(a)
         /\ t.msg.app = a =>
              Handled(a)' = Handled(a) - Weight(wpc[w]) + Weight(to)
<1>0. WorkerTypeOK
  BY DEF TypeOK
<1>1. PICK H, G : H = Handlers(a) /\ G = Handlers(a)'
  OBVIOUS
<1>2. /\ \A v \in Workers \ {w} : wpc'[v] = wpc[v] /\ job'[v] = job[v]
      /\ wpc'[w] = to
  BY <1>0 DEF WorkerTypeOK
<1>3. "idle" \notin Refunding
  BY DEF Refunding, Carrying, Trying
<1>4. /\ G \ {w} = H \ {w}
      /\ w \in H <=> wpc[w] \in Refunding /\ t.msg.app = a
      /\ w \in G <=> to \in Refunding /\ t.msg.app = a
  BY <1>1, <1>2, <1>3 DEF Handlers, Refunding, Carrying, Trying
<1>5. /\ IsFiniteSet(G) /\ Cardinality(G) \in Nat
      /\ Cardinality(G) = Cardinality(H) - (IF w \in H THEN 1 ELSE 0) + (IF w \in G THEN 1 ELSE 0)
  BY <1>1, <1>4, OneMoved
<1>6. Handled(a) = Cardinality(H) /\ Handled(a)' = Cardinality(G)
  BY <1>1 DEF Handled
<1>7. t.msg.app # a => G = H
  BY <1>4
<1>8. Weight(wpc[w]) \in {0, 1} /\ Weight(to) \in {0, 1}
  BY DEF Weight
<1> QED
  BY <1>1, <1>4, <1>5, <1>6, <1>7, <1>8 DEF Weight

\* What still carries the other messages stays; the books of a message are its row and carriers.
LEMMA KeptMoves ==
  ASSUME IInv, TypeOK', UNCHANGED <<pc, reply>>, NEW w \in Workers, NEW t \in Task, NEW to,
         wpc' = [wpc EXCEPT ![w] = to], \A v \in Workers \ {w} : job'[v] = job[v],
         wpc[w] # "idle" => job[w] = t, to # "idle" => job'[w] = t,
         \A u \in Task : u.msg # t.msg => queue'[u] = queue[u],
         \A m \in Requests \ {t.msg} : row'[m] = row[m],
         NEW a \in Apps, IsFiniteSet(Kept(a))
  PROVE  /\ IsFiniteSet(Kept(a)') /\ Stays(a)' \in Nat
         /\ t.msg.app # a => Stays(a)' = Stays(a)
         /\ Stays(a)' <= Stays(a) + 1
         /\ (t.msg \in Kept(a)' => t.msg \in Kept(a)) => Stays(a)' <= Stays(a)
<1>0. WorkerTypeOK /\ queue \in [Task -> Nat] /\ queue' \in [Task -> Nat] /\ t.msg \in Requests
  BY TaskFields DEF IInv, TypeOK, SharedTypeOK
<1>1. ASSUME NEW m \in Requests, m # t.msg PROVE Carried(m)' <=> Carried(m)
  <2>1. Copies(m)' = Copies(m)
    BY <1>0, <1>1 DEF Copies
  <2>2. Carriers(m)' = Carriers(m)
    <3>1. /\ \A v \in Workers \ {w} : wpc'[v] = wpc[v] /\ job'[v] = job[v]
          /\ wpc'[w] = to
      BY <1>0 DEF WorkerTypeOK
    <3>2. /\ wpc[w] \in Carrying => job[w].msg # m
          /\ to \in Carrying => job'[w].msg # m
      BY <1>1 DEF Carrying, Trying
    <3>3. \A v \in Workers : wpc'[v] \in Carrying /\ job'[v].msg = m
                              <=> wpc[v] \in Carrying /\ job[v].msg = m
      BY <3>1, <3>2
    <3> QED
      BY <3>3 DEF Carriers, Carrying, Trying
  <2> QED
    BY <2>1, <2>2 DEF Carried
<1>2. PICK H, G : H = Kept(a) /\ G = Kept(a)'
  OBVIOUS
<1>3. \A m \in Requests :
        m \in G <=> /\ m.live /\ m.app = a /\ row'[m] \in SMSStatus /\ row'[m] # "FAILED"
                    /\ ~(pc[m] \in {"writing", "refunding", "caching", "committing", "enqueuing"})
                    /\ ~Carried(m)'
  BY <1>2 DEF Kept, Billable, Charged, Durable, SMSStatus
<1>4. \A m \in Requests :
        m \in H <=> /\ m.live /\ m.app = a /\ row[m] \in SMSStatus /\ row[m] # "FAILED"
                    /\ ~(pc[m] \in {"writing", "refunding", "caching", "committing", "enqueuing"})
                    /\ ~Carried(m)
  BY <1>2 DEF Kept, Billable, Charged, Durable
<1>5. G \subseteq Requests /\ H \subseteq Requests
  BY <1>2 DEF Kept, Billable
<1>6. G \ {t.msg} = H \ {t.msg}
  BY <1>1, <1>3, <1>4, <1>5
<1>7. t.msg.app # a => t.msg \notin G /\ t.msg \notin H
  BY <1>0, <1>3, <1>4
<1>8. /\ IsFiniteSet(G) /\ Cardinality(G) \in Nat /\ Cardinality(H) \in Nat
      /\ Cardinality(G) = Cardinality(H) - (IF t.msg \in H THEN 1 ELSE 0)
                                         + (IF t.msg \in G THEN 1 ELSE 0)
  BY <1>2, <1>6, OneMoved
<1>9. Stays(a) = Cardinality(H) /\ Stays(a)' = Cardinality(G)
  BY <1>2 DEF Stays
<1> QED
  BY <1>2, <1>7, <1>8, <1>9

LEMMA CarriedAfter ==
  ASSUME TypeOK', NEW t \in Task,
         queue'[t] > 0 \/ \E w \in Workers : wpc'[w] \in Carrying /\ job'[w].msg = t.msg
  PROVE  Carried(t.msg)'
<1>0. queue' \in [Task -> Nat]
  BY DEF TypeOK, SharedTypeOK
<1>1. PICK C, H : C = Copies(t.msg)' /\ H = Carriers(t.msg)'
  OBVIOUS
<1>2. C = {c \in Task \X Nat : c[1].msg = t.msg /\ 1 <= c[2] /\ c[2] <= queue'[c[1]]}
  BY <1>0, <1>1 DEF Copies
<1>3. CASE queue'[t] > 0
  <2>1. PICK c : c = <<t, 1>>
    OBVIOUS
  <2>2. c \in Task \X Nat /\ c[1] = t /\ c[2] = 1 /\ queue'[t] \in Nat
    BY <1>0, <2>1
  <2>3. c \in C
    BY <1>2, <1>3, <2>2
  <2> QED
    BY <1>1, <2>3 DEF Carried
<1>4. CASE \E w \in Workers : wpc'[w] \in Carrying /\ job'[w].msg = t.msg
  <2>1. H # {}
    BY <1>1, <1>4 DEF Carriers, Carrying, Trying
  <2> QED
    BY <1>1, <2>1 DEF Carried
<1> QED
  BY <1>3, <1>4

\* What a worker that handles t leaves alone.
Frame(w, t, to) ==
  /\ wpc' = [wpc EXCEPT ![w] = to]
  /\ \A v \in Workers \ {w} : job'[v] = job[v]
  /\ wpc[w] # "idle" => job[w] = t
  /\ to # "idle" => job'[w] = t
  /\ \A u \in Task : u.msg # t.msg => queue'[u] = queue[u]
  /\ \A m \in Requests \ {t.msg} : row'[m] = row[m]
  /\ \A b \in Apps \ {t.msg.app} : quota'[b] = quota[b]
  /\ UNCHANGED <<pc, reply>>

\* The claims of an application stay paid.
Paid(a) ==
  /\ IsFiniteSet(TaskCopies(a)') /\ IsFiniteSet(Handlers(a)') /\ SpentFinite(a)'
  /\ Charge(a)' + Copied(a)' + Handled(a)' + Stays(a)' <= QuotaTotal(a)' + wcrashes' + Gave(a)'

LEMMA WorkerClaims ==
  ASSUME IInv, IInv', BooksInv, NEW w \in Workers, NEW t \in Task, NEW to, Frame(w, t, to),
         NEW a \in Apps
  PROVE  /\ Charge(a)' = Charge(a) /\ Gave(a)' = Gave(a)
         /\ IsFiniteSet(Handlers(a)') /\ Handled(a)' \in Nat /\ Stays(a)' \in Nat
         /\ t.msg.app # a /\ wcrashes <= wcrashes' => Paid(a)
         /\ t.msg.app = a =>
              Handled(a)' = Handled(a) - Weight(wpc[w]) + Weight(to)
         /\ Stays(a)' <= Stays(a) + 1
         /\ (t.msg \in Kept(a)' => t.msg \in Kept(a)) => Stays(a)' <= Stays(a)
<1>0. /\ TypeOK /\ TypeOK' /\ queue \in [Task -> Nat] /\ queue' \in [Task -> Nat]
      /\ quota \in [Apps -> [Days -> Int]] /\ quota' \in [Apps -> [Days -> Int]]
      /\ wcrashes \in Nat /\ wcrashes' \in Nat /\ today \in Days
  BY DEF IInv, TypeOK, SharedTypeOK, WorkerTypeOK
<1>1. /\ AllFinite(a) /\ SpentFinite(a)
      /\ Charge(a) \in Nat /\ Copied(a) \in Nat /\ Handled(a) \in Nat /\ Stays(a) \in Nat
      /\ Gave(a) \in Nat
      /\ Charge(a) + Copied(a) + Handled(a) + Stays(a) <= QuotaTotal(a) + wcrashes + Gave(a)
  BY Sizes
<1>2. Charge(a)' = Charge(a) /\ Gave(a)' = Gave(a)
  BY DEF Frame, Charge, Charged, Gave, Returned, SandboxDuplicates
<1>3. /\ IsFiniteSet(Handlers(a)') /\ Handled(a)' \in Nat
      /\ t.msg.app # a => Handlers(a)' = Handlers(a)
      /\ t.msg.app = a =>
           Handled(a)' = Handled(a) - Weight(wpc[w]) + Weight(to)
  <2>1. /\ wpc' = [wpc EXCEPT ![w] = to] /\ \A v \in Workers \ {w} : job'[v] = job[v]
        /\ wpc[w] # "idle" => job[w] = t
        /\ to # "idle" => job'[w] = t
        /\ IsFiniteSet(Handlers(a))
    BY <1>1 DEF Frame, AllFinite
  <2> QED
    BY <1>0, <2>1, HandlersMove
<1>4. /\ Stays(a)' \in Nat
      /\ t.msg.app # a => Stays(a)' = Stays(a)
      /\ Stays(a)' <= Stays(a) + 1
      /\ (t.msg \in Kept(a)' => t.msg \in Kept(a)) => Stays(a)' <= Stays(a)
  BY <1>0, <1>1, KeptMoves DEF Frame, AllFinite
<1>5. ASSUME t.msg.app # a, wcrashes <= wcrashes' PROVE Paid(a)
  <2>1. TaskCopies(a)' = TaskCopies(a)
    BY <1>0, <1>5, AppElsewhere, TaskFields DEF Frame
  <2>2. Copied(a)' = Copied(a) /\ Handled(a)' = Handled(a)
    BY <1>3, <1>5, <2>1 DEF Copied, Handled
  <2>3. quota'[a] = quota[a]
    BY <1>5 DEF Frame
  <2>4. /\ QuotaTotal(a) \in Int /\ QuotaTotal(a)' = QuotaTotal(a) /\ SpentFinite(a)'
    BY <1>0, <1>1, <2>3, QuotaMoves
  <2>5. IsFiniteSet(TaskCopies(a)')
    BY <1>1, <2>1 DEF AllFinite
  <2> QED
    BY <1>0, <1>1, <1>2, <1>3, <1>4, <1>5, <2>2, <2>4, <2>5 DEF Paid
<1> QED
  BY <1>2, <1>3, <1>4, <1>5

LEMMA Weights ==
  /\ Weight("sending") = 1 /\ Weight("accepted") = 1 /\ Weight("refused") = 1
  /\ Weight("raised") = 1 /\ Weight("refunding") = 1
  /\ Weight("idle") = 0 /\ Weight("acking") = 0
BY DEF Weight, Refunding, Carrying, Trying

(***************************************************************************)
(* Every step of a worker keeps the books of every application.            *)
(***************************************************************************)
LEMMA WorkerKeepsBooks ==
  ASSUME IInv, IInv', BooksInv, NEW w \in Workers, Work(w) \/ WorkerCrash(w),
         UNCHANGED serviceVars, NEW a \in Apps
  PROVE  Paid(a)
<1>0. /\ queue \in [Task -> Nat] /\ queue' \in [Task -> Nat]
      /\ quota \in [Apps -> [Days -> Int]] /\ quota' \in [Apps -> [Days -> Int]]
      /\ row \in [Requests -> {"none", "flushed"} \cup SMSStatus]
      /\ wpc \in [Workers -> {"idle", "sending", "accepted", "refused", "raised",
                              "refunding", "acking"}]
      /\ job \in [Workers -> Task \cup {Nobody}]
      /\ \A v \in Workers : wpc[v] # "idle" => job[v] \in Task
      /\ wcrashes \in Nat /\ wcrashes' \in Nat /\ today \in Days /\ TypeOK /\ TypeOK'
      /\ UNCHANGED <<pc, reply>>
  BY DEF IInv, TypeOK, SharedTypeOK, WorkerTypeOK, serviceVars
<1>1. /\ IsFiniteSet(TaskCopies(a)) /\ SpentFinite(a)
      /\ Charge(a) \in Nat /\ Copied(a) \in Nat /\ Handled(a) \in Nat /\ Stays(a) \in Nat
      /\ Gave(a) \in Nat
      /\ Charge(a) + Copied(a) + Handled(a) + Stays(a) <= QuotaTotal(a) + wcrashes + Gave(a)
  BY Sizes DEF AllFinite
<1>2. QuotaTotal(a) \in Int
  BY Sizes
<1>3. ASSUME UNCHANGED quota PROVE SpentFinite(a)' /\ QuotaTotal(a)' = QuotaTotal(a)
  BY <1>0, <1>1, <1>3, QuotaMoves
<1>4. ASSUME UNCHANGED queue PROVE IsFiniteSet(TaskCopies(a)') /\ Copied(a)' = Copied(a)
  BY <1>1, <1>4 DEF TaskCopies, Copied
<1>5. ASSUME NEW t \in Task, NEW to, Frame(w, t, to)
      PROVE  /\ Charge(a)' = Charge(a) /\ Gave(a)' = Gave(a)
             /\ IsFiniteSet(Handlers(a)') /\ Handled(a)' \in Nat /\ Stays(a)' \in Nat
             /\ t.msg.app # a /\ wcrashes <= wcrashes' => Paid(a)
             /\ t.msg.app = a => Handled(a)' = Handled(a) - Weight(wpc[w]) + Weight(to)
             /\ Stays(a)' <= Stays(a) + 1
             /\ (t.msg \in Kept(a)' => t.msg \in Kept(a)) => Stays(a)' <= Stays(a)
  BY <1>5, WorkerClaims
<1>6. ASSUME NEW t \in Task, Carried(t.msg)' PROVE t.msg \notin Kept(a)'
  BY <1>6 DEF Kept
<1> USE DEF Step
<1>7. ASSUME NEW t \in Task, Begin(w, t) PROVE Paid(a)
  <2>1. PICK to \in {"sending", "acking"} :
          to = IF row[t.msg] = "PENDING" THEN "sending" ELSE "acking"
    OBVIOUS
  <2>2. /\ wpc[w] = "idle" /\ wpc' = [wpc EXCEPT ![w] = to] /\ job'[w] = t
        /\ \A v \in Workers \ {w} : job'[v] = job[v]
        /\ queue[t] > 0 /\ queue' = Dequeued(t) /\ UNCHANGED <<row, quota, wcrashes>>
    BY <1>0, <1>7, <2>1 DEF Begin
  <2>3. \A u \in Task : u.msg # t.msg => queue'[u] = queue[u]
    BY <1>0, <2>2 DEF Dequeued
  <2>4. Frame(w, t, to)
    BY <1>0, <2>2, <2>3 DEF Frame
  <2>5. CASE t.msg.app # a
    BY <1>0, <1>5, <2>2, <2>4, <2>5
  <2>6. CASE t.msg.app = a
    <3>1. IsFiniteSet(TaskCopies(a)') /\ Copied(a)' = Copied(a) - 1
      BY <1>0, <1>1, <2>2, <2>6, AppTaken DEF Copied
    <3>2. Handled(a)' = Handled(a) + Weight(to)
      BY <1>1, <1>5, <2>2, <2>4, <2>6, Weights
    <3>3. CASE to = "sending"
      <4>1. wpc'[w] = "sending"
        BY <1>0, <2>2, <3>3
      <4>2. Carried(t.msg)'
        BY <1>0, <2>2, <4>1, CarriedAfter DEF Carrying, Trying
      <4>3. Stays(a)' <= Stays(a)
        BY <1>5, <1>6, <2>4, <4>2
      <4> QED
        BY <1>0, <1>1, <1>2, <1>3, <1>5, <2>2, <2>4, <3>1, <3>2, <3>3, <4>3, Weights DEF Paid
    <3>4. CASE to = "acking"
      BY <1>0, <1>1, <1>2, <1>3, <1>5, <2>2, <2>4, <3>1, <3>2, <3>4, Weights DEF Paid
    <3> QED
      BY <3>3, <3>4
  <2> QED
    BY <2>5, <2>6
<1>8. ASSUME Accepted(w) \/ Refused(w) \/ AnswerLost(w) PROVE Paid(a)
  <2>1. PICK to \in {"accepted", "refused", "raised"} :
          /\ wpc[w] = "sending" /\ wpc' = [wpc EXCEPT ![w] = to] /\ job' = job
          /\ UNCHANGED <<queue, row, quota, wcrashes>>
    BY <1>8 DEF Accepted, Refused, AnswerLost, sharedVars
  <2>2. PICK t \in Task : t = job[w]
    BY <1>0, <2>1
  <2>3. Frame(w, t, to)
    BY <1>0, <2>1, <2>2 DEF Frame
  <2>4. wpc'[w] \in Carrying /\ job'[w].msg = t.msg
    BY <1>0, <2>1, <2>2 DEF Carrying, Trying
  <2>5. Stays(a)' <= Stays(a)
    BY <1>0, <1>5, <1>6, <2>3, <2>4, CarriedAfter
  <2>6. t.msg.app = a => Handled(a)' = Handled(a)
    BY <1>1, <1>5, <2>1, <2>3, Weights
  <2> QED
    BY <1>0, <1>1, <1>2, <1>3, <1>4, <1>5, <2>1, <2>3, <2>5, <2>6 DEF Paid
<1>9. ASSUME RecordSent(w) \/ GiveUp(w) \/ DatabaseFails(w) \/ RefundLost(w) PROVE Paid(a)
  <2>1. /\ wpc[w] \in {"sending", "accepted", "refused", "raised", "refunding"}
        /\ wpc' = [wpc EXCEPT ![w] = "acking"] /\ job' = job
        /\ UNCHANGED <<queue, quota, wcrashes>>
        /\ row' = row \/ row' = [row EXCEPT ![job[w].msg] = "SENT"]
    BY <1>9 DEF RecordSent, GiveUp, DatabaseFails, RefundLost, SetStatus, sharedVars
  <2>2. PICK t \in Task : t = job[w]
    BY <1>0, <2>1
  <2>3. Frame(w, t, "acking")
    BY <1>0, <2>1, <2>2 DEF Frame
  <2>4. t.msg.app = a => Handled(a)' = Handled(a) - 1
    BY <1>1, <1>5, <2>1, <2>3, Weights
  <2> QED
    BY <1>0, <1>1, <1>2, <1>3, <1>4, <1>5, <2>1, <2>3, <2>4 DEF Paid
<1>10. ASSUME Retry(w) PROVE Paid(a)
  <2>1. /\ wpc[w] \in {"refused", "raised"} /\ wpc' = [wpc EXCEPT ![w] = "acking"] /\ job' = job
        /\ UNCHANGED <<row, quota, wcrashes>> /\ queue' = Enqueued(Again(job[w]))
    BY <1>10 DEF Retry
  <2>2. PICK t \in Task : t = job[w]
    BY <1>0, <2>1
  <2>3. PICK u \in Task : u = Again(t) /\ u.msg = t.msg
    BY <1>10, <2>2, TaskFields DEF Retry
  <2>4. queue' = Enqueued(u) /\ queue' = [queue EXCEPT ![u] = queue[u] + 1]
    BY <2>1, <2>2, <2>3 DEF Enqueued
  <2>5. Frame(w, t, "acking")
    BY <1>0, <2>1, <2>2, <2>3, <2>4 DEF Frame
  <2>6. CASE t.msg.app # a
    BY <1>0, <1>5, <2>1, <2>5, <2>6
  <2>7. CASE t.msg.app = a
    <3>1. Copied(a)' = Copied(a) + 1 /\ IsFiniteSet(TaskCopies(a)')
      BY <1>0, <1>1, <2>3, <2>4, <2>7, AppPublished DEF Copied
    <3>2. Carried(u.msg)'
      BY <1>0, <2>4, CarriedAfter
    <3>3. Stays(a)' <= Stays(a)
      BY <1>5, <1>6, <2>3, <2>5, <3>2
    <3>4. Handled(a)' = Handled(a) - 1
      BY <1>1, <1>5, <2>1, <2>5, <2>7, Weights
    <3> QED
      BY <1>0, <1>1, <1>2, <1>3, <1>5, <2>1, <2>5, <3>1, <3>3, <3>4 DEF Paid
  <2> QED
    BY <2>6, <2>7
<1>11. ASSUME FailPermanently(w) PROVE Paid(a)
  <2>1. /\ wpc[w] = "refused" /\ wpc' = [wpc EXCEPT ![w] = "refunding"] /\ job' = job
        /\ UNCHANGED <<queue, quota, wcrashes>> /\ row' = [row EXCEPT ![job[w].msg] = "FAILED"]
    BY <1>11 DEF FailPermanently, SetStatus
  <2>2. PICK t \in Task : t = job[w]
    BY <1>0, <2>1
  <2>3. Frame(w, t, "refunding")
    BY <1>0, <2>1, <2>2 DEF Frame
  <2>4. row'[t.msg] = "FAILED"
    BY <1>0, <2>1, <2>2, TaskFields
  <2>5. t.msg \notin Kept(a)'
    BY <2>4 DEF Kept, Billable
  <2>6. Stays(a)' <= Stays(a) /\ (t.msg.app = a => Handled(a)' = Handled(a))
    BY <1>1, <1>5, <2>1, <2>3, <2>5, Weights
  <2> QED
    BY <1>0, <1>1, <1>2, <1>3, <1>4, <1>5, <2>1, <2>3, <2>6 DEF Paid
<1>12. ASSUME Refund(w) PROVE Paid(a)
  <2>1. /\ wpc[w] = "refunding" /\ wpc' = [wpc EXCEPT ![w] = "acking"] /\ job' = job
        /\ UNCHANGED <<queue, row, wcrashes>>
        /\ quota' = [quota EXCEPT ![job[w].msg.app][today] = IF @ > 0 THEN @ - 1 ELSE @]
    BY <1>12 DEF Refund
  <2>2. PICK t \in Task : t = job[w]
    BY <1>0, <2>1
  <2>3. t.msg.app \in Apps
    BY TaskFields, RequestFields
  <2>4. /\ \A b \in Apps \ {t.msg.app} : quota'[b] = quota[b]
        /\ t.msg.app = a => /\ \A e \in Days \ {today} : quota'[a][e] = quota[a][e]
                            /\ quota'[a][today] \in {quota[a][today], quota[a][today] - 1}
    BY <1>0, <2>1, <2>2, <2>3
  <2>5. Frame(w, t, "acking")
    BY <1>0, <2>1, <2>2, <2>4 DEF Frame
  <2>6. CASE t.msg.app # a
    BY <1>0, <1>5, <2>1, <2>5, <2>6
  <2>7. CASE t.msg.app = a
    <3>1. /\ SpentFinite(a)'
          /\ QuotaTotal(a)' = QuotaTotal(a) \/ QuotaTotal(a)' = QuotaTotal(a) - 1
      BY <1>0, <1>1, <2>4, <2>7, QuotaMoves
    <3>2. Kept(a)' = Kept(a)
      <4>1. \A v \in Workers : wpc'[v] \in Carrying <=> wpc[v] \in Carrying
        BY <1>0, <2>1 DEF Carrying, Trying
      <4>2. \A m \in Requests : Copies(m)' = Copies(m) /\ Carriers(m)' = Carriers(m)
        BY <2>1, <4>1 DEF Copies, Carriers, Carrying, Trying
      <4> QED
        BY <1>0, <2>1, <4>2 DEF Kept, Billable, Charged, Durable, SMSStatus, Carried
    <3>3. Stays(a)' = Stays(a) /\ Handled(a)' = Handled(a) - 1
      BY <1>1, <1>5, <2>1, <2>5, <2>7, <3>2, Weights DEF Stays
    <3> QED
      BY <1>0, <1>1, <1>2, <1>4, <1>5, <2>1, <2>5, <3>1, <3>3 DEF Paid
  <2> QED
    BY <2>6, <2>7
<1>13. ASSUME Ack(w) PROVE Paid(a)
  <2>1. /\ wpc[w] = "acking" /\ wpc' = [wpc EXCEPT ![w] = "idle"]
        /\ \A v \in Workers \ {w} : job'[v] = job[v]
        /\ UNCHANGED <<queue, row, quota, wcrashes>>
    BY <1>0, <1>13 DEF Ack, sharedVars
  <2>2. PICK t \in Task : t = job[w]
    BY <1>0, <2>1
  <2>3. Frame(w, t, "idle")
    BY <1>0, <2>1, <2>2 DEF Frame
  <2>4. Kept(a)' = Kept(a)
    <3>1. \A v \in Workers : /\ wpc'[v] \in Carrying <=> wpc[v] \in Carrying
                             /\ wpc'[v] \in Carrying => job'[v] = job[v]
      BY <1>0, <2>1 DEF Carrying, Trying
    <3>2. \A m \in Requests : Copies(m)' = Copies(m) /\ Carriers(m)' = Carriers(m)
      BY <2>1, <3>1 DEF Copies, Carriers, Carrying, Trying
    <3> QED
      BY <1>0, <2>1, <3>2 DEF Kept, Billable, Charged, Durable, SMSStatus, Carried
  <2>5. Stays(a)' = Stays(a) /\ (t.msg.app = a => Handled(a)' = Handled(a))
    BY <1>1, <1>5, <2>1, <2>3, <2>4, Weights DEF Stays
  <2> QED
    BY <1>0, <1>1, <1>2, <1>3, <1>4, <1>5, <2>1, <2>3, <2>5 DEF Paid
<1>14. ASSUME WorkerCrash(w) PROVE Paid(a)
  <2>1. /\ wpc[w] # "idle" /\ wpc' = [wpc EXCEPT ![w] = "idle"]
        /\ \A v \in Workers \ {w} : job'[v] = job[v]
        /\ UNCHANGED <<row, quota>> /\ queue' = Enqueued(job[w]) /\ wcrashes' = wcrashes + 1
    BY <1>0, <1>14 DEF WorkerCrash
  <2>2. PICK t \in Task : t = job[w]
    BY <1>0, <2>1
  <2>3. queue' = Enqueued(t) /\ queue' = [queue EXCEPT ![t] = queue[t] + 1]
    BY <2>1, <2>2 DEF Enqueued
  <2>4. Frame(w, t, "idle")
    BY <1>0, <2>1, <2>2, <2>3 DEF Frame
  <2>5. CASE t.msg.app # a
    BY <1>0, <1>5, <2>1, <2>4, <2>5
  <2>6. CASE t.msg.app = a
    <3>1. Copied(a)' = Copied(a) + 1 /\ IsFiniteSet(TaskCopies(a)')
      BY <1>0, <1>1, <2>3, <2>6, AppPublished DEF Copied
    <3>2. Carried(t.msg)'
      BY <1>0, <2>3, CarriedAfter
    <3>3. Stays(a)' <= Stays(a)
      BY <1>5, <1>6, <2>4, <3>2
    <3>4. Weight(wpc[w]) \in {0, 1}
      BY DEF Weight
    <3>5. Handled(a)' <= Handled(a)
      BY <1>1, <1>5, <2>4, <2>6, <3>4, Weights
    <3> QED
      BY <1>0, <1>1, <1>2, <1>3, <1>5, <2>1, <2>4, <3>1, <3>3, <3>5 DEF Paid
  <2> QED
    BY <2>5, <2>6
<1> QED
  BY <1>7, <1>8, <1>9, <1>10, <1>11, <1>12, <1>13, <1>14 DEF Work

(***************************************************************************)
(* A step of a request moves its own claim only.                           *)
(***************************************************************************)
LEMMA RequestClaims ==
  ASSUME IInv, IInv', BooksInv, DeliveryInv, NEW r \in Requests, Serve(r) \/ Crash(r),
         UNCHANGED workerVars, NEW a \in Apps
  PROVE  /\ IsFiniteSet(Handlers(a)') /\ Handled(a)' = Handled(a)
         /\ Charge(a)' \in Nat /\ Stays(a)' \in Nat /\ Gave(a)' \in Nat
         /\ r \notin Charged(a) /\ r \in Charged(a)' => Charge(a)' = Charge(a) + 1
         /\ r \in Charged(a) /\ r \notin Charged(a)' => Charge(a)' = Charge(a) - 1
         /\ (r \in Charged(a)' => r \in Charged(a)) => Charge(a)' <= Charge(a)
         /\ Stays(a)' <= Stays(a) + 1 /\ (r \notin Kept(a)' => Stays(a)' <= Stays(a))
         /\ Gave(a)' >= Gave(a) /\ (r \in Returned(a)' => Gave(a)' = Gave(a) + 1)
         /\ r.app # a => Charge(a)' <= Charge(a) /\ Stays(a)' <= Stays(a)
<1>0. /\ TypeOK /\ TypeOK' /\ NotYetEnqueued /\ CopiesBounded /\ RowsFollowRequests
      /\ UNCHANGED <<wpc, job>>
  BY DEF IInv, DeliveryInv, workerVars
<1>1. /\ IsFiniteSet(Charged(a)) /\ IsFiniteSet(Handlers(a)) /\ IsFiniteSet(Kept(a))
      /\ IsFiniteSet(Returned(a))
  BY Sizes DEF AllFinite
<1>2. /\ pc[r] \notin Over
      /\ \A m \in Requests \ {r} : pc'[m] = pc[m] /\ reply'[m] = reply[m] /\ row'[m] = row[m]
      /\ UNCHANGED queue \/ Enqueue(r)
  BY <1>0, RequestFrame
<1>3. Handlers(a)' = Handlers(a)
  BY <1>0 DEF Handlers, Carrying, Trying
<1>4. PICK H, G : H = Charged(a) /\ G = Charged(a)'
  OBVIOUS
<1>5. G \ {r} = H \ {r} /\ (r.app # a => r \notin G)
  BY <1>2, <1>4 DEF Charged
<1>6. /\ Cardinality(G) \in Nat /\ Cardinality(H) \in Nat
      /\ Cardinality(G) = Cardinality(H) - (IF r \in H THEN 1 ELSE 0) + (IF r \in G THEN 1 ELSE 0)
  BY <1>1, <1>4, <1>5, OneMoved
<1>7. PICK K, L : K = Kept(a) /\ L = Kept(a)'
  OBVIOUS
<1>8. \A m \in Requests \ {r} : Carried(m)' <=> Carried(m)
  <2>1. ASSUME NEW m \in Requests \ {r}
        PROVE  Copies(m)' = Copies(m) /\ Carriers(m)' = Carriers(m)
    <3>1. Copies(m)' = Copies(m)
      BY <1>0, <1>2, RequestMoves
    <3>2. Carriers(m)' = Carriers(m)
      BY <1>0 DEF Carriers, Carrying, Trying
    <3> QED
      BY <3>1, <3>2
  <2> QED
    BY <2>1 DEF Carried
<1>9. L \ {r} = K \ {r} /\ (r.app # a => r \notin L)
  <2>1. \A m \in Requests :
          m \in L <=> /\ m.live /\ m.app = a /\ row'[m] \in SMSStatus /\ row'[m] # "FAILED"
                      /\ ~(pc'[m] \in {"writing", "refunding", "caching", "committing", "enqueuing"})
                      /\ ~Carried(m)'
    BY <1>7 DEF Kept, Billable, Charged, Durable, SMSStatus
  <2>2. \A m \in Requests :
          m \in K <=> /\ m.live /\ m.app = a /\ row[m] \in SMSStatus /\ row[m] # "FAILED"
                      /\ ~(pc[m] \in {"writing", "refunding", "caching", "committing", "enqueuing"})
                      /\ ~Carried(m)
    BY <1>7 DEF Kept, Billable, Charged, Durable
  <2>3. K \subseteq Requests /\ L \subseteq Requests
    BY <1>7 DEF Kept, Billable
  <2> QED
    BY <1>2, <1>8, <2>1, <2>2, <2>3
<1>10. /\ Cardinality(L) \in Nat /\ Cardinality(K) \in Nat
       /\ Cardinality(L) = Cardinality(K) - (IF r \in K THEN 1 ELSE 0) + (IF r \in L THEN 1 ELSE 0)
  BY <1>1, <1>7, <1>9, OneMoved
<1>11. PICK B, D : B = Returned(a) /\ D = Returned(a)'
  OBVIOUS
<1>12. D \ {r} = B \ {r} /\ r \notin B
  BY <1>2, <1>11 DEF Returned, SandboxDuplicates, Over
<1>13. /\ Cardinality(D) \in Nat /\ Cardinality(B) \in Nat
       /\ Cardinality(D) = Cardinality(B) - (IF r \in B THEN 1 ELSE 0) + (IF r \in D THEN 1 ELSE 0)
  BY <1>1, <1>11, <1>12, OneMoved
<1>14. /\ Charge(a) = Cardinality(H) /\ Charge(a)' = Cardinality(G)
       /\ Stays(a) = Cardinality(K) /\ Stays(a)' = Cardinality(L)
       /\ Gave(a) = Cardinality(B) /\ Gave(a)' = Cardinality(D)
       /\ Handled(a)' = Handled(a)
  BY <1>3, <1>4, <1>7, <1>11 DEF Charge, Stays, Gave, Handled
<1>15. IsFiniteSet(Handlers(a)')
  BY <1>1, <1>3
<1>16. /\ Charge(a)' \in Nat /\ (r.app # a => Charge(a)' <= Charge(a))
       /\ r \notin Charged(a) /\ r \in Charged(a)' => Charge(a)' = Charge(a) + 1
       /\ r \in Charged(a) /\ r \notin Charged(a)' => Charge(a)' = Charge(a) - 1
       /\ (r \in Charged(a)' => r \in Charged(a)) => Charge(a)' <= Charge(a)
  BY <1>4, <1>5, <1>6, <1>14
<1>17. /\ Stays(a)' \in Nat /\ (r.app # a => Stays(a)' <= Stays(a))
       /\ Stays(a)' <= Stays(a) + 1 /\ (r \notin Kept(a)' => Stays(a)' <= Stays(a))
  BY <1>7, <1>9, <1>10, <1>14
<1>18. /\ Gave(a)' \in Nat /\ Gave(a)' >= Gave(a)
       /\ (r \in Returned(a)' => Gave(a)' = Gave(a) + 1)
  BY <1>11, <1>12, <1>13, <1>14
<1> QED
  BY <1>14, <1>15, <1>16, <1>17, <1>18

(***************************************************************************)
(* Every step of a request keeps the books of every application.           *)
(***************************************************************************)
LEMMA RequestKeepsBooks ==
  ASSUME IInv, IInv', BooksInv, DeliveryInv, NEW r \in Requests, Serve(r) \/ Crash(r),
         UNCHANGED workerVars, NEW a \in Apps
  PROVE  Paid(a)
<1>0. /\ queue \in [Task -> Nat] /\ queue' \in [Task -> Nat]
      /\ quota \in [Apps -> [Days -> Int]] /\ quota' \in [Apps -> [Days -> Int]]
      /\ row \in [Requests -> {"none", "flushed"} \cup SMSStatus]
      /\ pc \in [Requests -> {"received"} \cup Active \cup Over]
      /\ reply \in [Requests -> Requests \cup {Nobody}]
      /\ wcrashes \in Nat /\ today \in Days /\ r.app \in Apps /\ TypeOK /\ TypeOK'
      /\ UNCHANGED <<wcrashes, wpc, job>>
  BY RequestFields DEF IInv, TypeOK, SharedTypeOK, WorkerTypeOK, ServiceTypeOK, workerVars
<1>1. /\ IsFiniteSet(TaskCopies(a)) /\ SpentFinite(a)
      /\ Charge(a) \in Nat /\ Copied(a) \in Nat /\ Handled(a) \in Nat /\ Stays(a) \in Nat
      /\ Gave(a) \in Nat /\ QuotaTotal(a) \in Int
      /\ Charge(a) + Copied(a) + Handled(a) + Stays(a) <= QuotaTotal(a) + wcrashes + Gave(a)
  BY Sizes DEF AllFinite
<1>2. /\ IsFiniteSet(Handlers(a)') /\ Handled(a)' = Handled(a)
      /\ Charge(a)' \in Nat /\ Stays(a)' \in Nat /\ Gave(a)' \in Nat
      /\ r \notin Charged(a) /\ r \in Charged(a)' => Charge(a)' = Charge(a) + 1
      /\ r \in Charged(a) /\ r \notin Charged(a)' => Charge(a)' = Charge(a) - 1
      /\ (r \in Charged(a)' => r \in Charged(a)) => Charge(a)' <= Charge(a)
      /\ Stays(a)' <= Stays(a) + 1 /\ (r \notin Kept(a)' => Stays(a)' <= Stays(a))
      /\ Gave(a)' >= Gave(a) /\ (r \in Returned(a)' => Gave(a)' = Gave(a) + 1)
      /\ r.app # a => Charge(a)' <= Charge(a) /\ Stays(a)' <= Stays(a)
  BY RequestClaims
<1>3. ASSUME UNCHANGED quota PROVE SpentFinite(a)' /\ QuotaTotal(a)' = QuotaTotal(a)
  BY <1>0, <1>1, <1>3, QuotaMoves
<1>4. ASSUME UNCHANGED queue PROVE IsFiniteSet(TaskCopies(a)') /\ Copied(a)' = Copied(a)
  BY <1>1, <1>4 DEF TaskCopies, Copied
\* A claim is given up or taken with a unit; nothing is kept that was not.
<1>5. ASSUME UNCHANGED <<queue, quota>>, r \in Charged(a)' => r \in Charged(a), r \notin Kept(a)'
      PROVE  Paid(a)
  BY <1>0, <1>1, <1>2, <1>3, <1>4, <1>5 DEF Paid
<1>6. /\ pc[r] \in {"received", "metering", "writing", "refunding", "rejected", "conflict"}
           => row[r] = "none"
      /\ pc[r] \in {"caching", "committing"} <=> row[r] = "flushed"
      /\ pc[r] = "enqueuing" => r.live
      /\ pc[r] = "resolving" => ~r.live
      /\ pc[r] = "refunding" => reply[r] \in Requests \ {r}
  BY DEF IInv, RowsFollowRequests, BooksInv, DuplicateNamesRecord, DeliveryInv, NotYetEnqueued
<1> USE DEF Goto, Answer, sharedVars
<1>7. ASSUME CacheHit(r) \/ CacheMiss(r) \/ BurstExceeded(r) \/ QuotaExceeded(r) PROVE Paid(a)
  <2>1. UNCHANGED <<queue, quota, row>> /\ row[r] = "none" /\ pc'[r] \in {"replied", "metering", "rejected"}
    BY <1>0, <1>6, <1>7 DEF CacheHit, CacheMiss, BurstExceeded, QuotaExceeded
  <2>2. r \notin Charged(a)' /\ r \notin Kept(a)'
    BY <2>1 DEF Charged, Kept, Billable, Durable, SMSStatus
  <2> QED
    BY <1>5, <2>1, <2>2
<1>8. ASSUME SandboxExempt(r) \/ ResolveSandbox(r) PROVE Paid(a)
  <2>1. UNCHANGED <<queue, quota>> /\ ~r.live
    BY <1>6, <1>8 DEF SandboxExempt, ResolveSandbox
  <2>2. r \notin Charged(a)' /\ r \notin Kept(a)'
    BY <2>1 DEF Charged, Kept, Billable
  <2> QED
    BY <1>5, <2>1, <2>2
<1>9. ASSUME Insert(r) \/ CacheResponse(r) \/ DuplicateFound(r) \/ ForeignConflict(r) PROVE Paid(a)
  <2>1. /\ UNCHANGED <<queue, quota>> /\ row'[r] \in {"none", "flushed"}
        /\ pc[r] \in {"writing", "caching"}
    BY <1>0, <1>6, <1>9 DEF Insert, CacheResponse, DuplicateFound, ForeignConflict
  <2>2. r \in Charged(a)' => r \in Charged(a)
    BY <2>1 DEF Charged
  <2>3. r \notin Kept(a)'
    BY <2>1 DEF Kept, Billable, Durable, SMSStatus
  <2> QED
    BY <1>5, <2>1, <2>2, <2>3
<1>10. ASSUME Commit(r) PROVE Paid(a)
  <2>1. /\ UNCHANGED <<queue, quota>> /\ pc[r] = "committing" /\ (r.live => pc'[r] = "enqueuing")
    BY <1>0, <1>10 DEF Commit
  <2>2. r \in Charged(a)' => r \in Charged(a)
    BY <2>1 DEF Charged
  <2>3. r \notin Kept(a)'
    BY <2>1 DEF Kept, Billable, Charged
  <2> QED
    BY <1>5, <2>1, <2>2, <2>3
<1>11. ASSUME Consume(r) PROVE Paid(a)
  <2>1. /\ UNCHANGED <<queue, row>> /\ pc[r] = "metering" /\ row[r] = "none"
        /\ quota' = [quota EXCEPT ![r.app][today] = @ + 1]
    BY <1>6, <1>11 DEF Consume, Validated
  <2>2. r \notin Kept(a)' /\ r \notin Charged(a)
    BY <2>1 DEF Kept, Billable, Durable, SMSStatus, Charged
  <2>3. CASE r.app # a
    <3>1. quota'[a] = quota[a]
      BY <1>0, <2>1, <2>3
    <3>2. SpentFinite(a)' /\ QuotaTotal(a)' = QuotaTotal(a)
      BY <1>0, <1>1, <3>1, QuotaMoves
    <3> QED
      BY <1>0, <1>1, <1>2, <1>4, <2>1, <2>3, <3>2 DEF Paid
  <2>4. CASE r.app = a
    <3>1. /\ \A e \in Days \ {today} : quota'[a][e] = quota[a][e]
          /\ quota'[a][today] = quota[a][today] + 1
      BY <1>0, <2>1, <2>4
    <3>2. SpentFinite(a)' /\ QuotaTotal(a)' = QuotaTotal(a) + 1
      BY <1>0, <1>1, <3>1, QuotaMoves
    <3>3. Charge(a)' <= Charge(a) + 1
      BY <1>1, <1>2, <2>2
    <3> QED
      BY <1>0, <1>1, <1>2, <1>4, <2>1, <2>2, <3>2, <3>3 DEF Paid
  <2> QED
    BY <2>3, <2>4
<1>12. ASSUME QuotaRollback(r) PROVE Paid(a)
  <2>1. /\ UNCHANGED <<queue, row, reply>> /\ pc[r] = "refunding" /\ row[r] = "none"
        /\ pc'[r] = "replied" /\ reply[r] \in Requests \ {r}
        /\ quota' = [quota EXCEPT ![r.app][today] = @ - 1]
    BY <1>0, <1>6, <1>12 DEF QuotaRollback
  <2>2. r \notin Kept(a)' /\ r \notin Charged(a)'
    BY <2>1 DEF Kept, Billable, Durable, SMSStatus, Charged
  <2>3. CASE r.app # a
    <3>1. quota'[a] = quota[a]
      BY <1>0, <2>1, <2>3
    <3>2. SpentFinite(a)' /\ QuotaTotal(a)' = QuotaTotal(a)
      BY <1>0, <1>1, <3>1, QuotaMoves
    <3> QED
      BY <1>0, <1>1, <1>2, <1>4, <2>1, <2>3, <3>2 DEF Paid
  <2>4. CASE r.app = a
    <3>1. /\ \A e \in Days \ {today} : quota'[a][e] = quota[a][e]
          /\ quota'[a][today] = quota[a][today] - 1
      BY <1>0, <2>1, <2>4
    <3>2. SpentFinite(a)' /\ QuotaTotal(a)' = QuotaTotal(a) - 1
      BY <1>0, <1>1, <3>1, QuotaMoves
    <3>3. Charge(a)' - Gave(a)' <= Charge(a) - Gave(a) - 1
      <4>1. CASE r.live
        <5>1. r \in Charged(a)
          BY <2>1, <2>4, <4>1 DEF Charged
        <5> QED
          BY <1>1, <1>2, <2>2, <5>1
      <4>2. CASE ~r.live
        <5>1. r \in Returned(a)'
          BY <2>1, <2>4, <4>2, RequestsAssumption DEF Returned, SandboxDuplicates
        <5> QED
          BY <1>1, <1>2, <2>2, <5>1
      <4> QED
        BY <4>1, <4>2
    <3> QED
      BY <1>0, <1>1, <1>2, <1>4, <2>1, <2>2, <3>2, <3>3 DEF Paid
  <2> QED
    BY <2>3, <2>4
<1>13. ASSUME Enqueue(r) PROVE Paid(a)
  <2>1. /\ UNCHANGED <<quota, row>> /\ pc[r] = "enqueuing" /\ pc'[r] = "replied" /\ r.live
        /\ queue' = Enqueued([msg |-> r, retries |-> 0])
    BY <1>0, <1>6, <1>13 DEF Enqueue
  <2>2. PICK t \in Task : t = [msg |-> r, retries |-> 0] /\ t.msg = r
    BY FirstTask
  <2>3. queue' = Enqueued(t) /\ queue' = [queue EXCEPT ![t] = queue[t] + 1]
    BY <2>1, <2>2 DEF Enqueued
  <2>4. CASE r.app # a
    <3>1. TaskCopies(a)' = TaskCopies(a)
      BY <1>0, <2>2, <2>3, <2>4, AppElsewhere
    <3>2. IsFiniteSet(TaskCopies(a)') /\ Copied(a)' = Copied(a)
      BY <1>1, <3>1 DEF Copied
    <3> QED
      BY <1>0, <1>1, <1>2, <1>3, <2>1, <2>4, <3>2 DEF Paid
  <2>5. CASE r.app = a
    <3>1. IsFiniteSet(TaskCopies(a)') /\ Copied(a)' = Copied(a) + 1
      BY <1>0, <1>1, <2>2, <2>3, <2>5, AppPublished DEF Copied
    <3>2. r \in Charged(a) /\ r \notin Charged(a)'
      BY <2>1, <2>5 DEF Charged
    <3>3. Carried(t.msg)'
      BY <1>0, <2>3, CarriedAfter
    <3>4. r \notin Kept(a)'
      BY <2>2, <3>3 DEF Kept
    <3> QED
      BY <1>0, <1>1, <1>2, <1>3, <2>1, <3>1, <3>2, <3>4 DEF Paid
  <2> QED
    BY <2>4, <2>5
<1>14. ASSUME Crash(r) PROVE Paid(a)
  <2>1. /\ UNCHANGED <<queue, quota>> /\ pc'[r] = "crashed" /\ pc[r] \in Active
        /\ row[r] = "flushed" => row'[r] = "none"
        /\ row[r] # "flushed" => row'[r] = row[r]
    BY <1>0, <1>14 DEF Crash
  <2>2. r \notin Charged(a)'
    BY <2>1 DEF Charged
  <2>3. r \in Kept(a)' => r \in Charged(a)
    <3>1. r \in Kept(a)' => r.live /\ r.app = a /\ row'[r] \in SMSStatus
      BY DEF Kept, Billable, Durable, SMSStatus
    <3>2. row'[r] \in SMSStatus => pc[r] \in {"enqueuing", "resolving"}
      BY <1>6, <2>1 DEF Active, SMSStatus
    <3> QED
      BY <1>6, <3>1, <3>2 DEF Charged
  <2>4. Charge(a)' + Stays(a)' <= Charge(a) + Stays(a)
    BY <1>1, <1>2, <2>2, <2>3
  <2> QED
    BY <1>0, <1>1, <1>2, <1>3, <1>4, <2>1, <2>4 DEF Paid
<1> QED
  BY <1>7, <1>8, <1>9, <1>10, <1>11, <1>12, <1>13, <1>14 DEF Serve

(***************************************************************************)
(* The books are kept by every step.                                       *)
(***************************************************************************)
LEMMA BooksClosed ==
  ASSUME \A a \in Apps : Paid(a)
  PROVE  ClaimsPaid'
<1>1. ASSUME NEW a \in Apps
      PROVE  /\ IsFiniteSet(TaskCopies(a)') /\ IsFiniteSet(Handlers(a)')
             /\ IsFiniteSet(Consumed(a)') /\ IsFiniteSet(Overdrawn(a)')
             /\ Claims(a)' <= QuotaTotal(a)' + wcrashes' + Cardinality(Returned(a)')
  BY DEF Paid, SpentFinite, Claims, Charge, Copied, Handled, Stays, Gave
<1> QED
  BY <1>1 DEF ClaimsPaid

LEMMA StepBooks == IInv /\ DeliveryInv /\ BooksInv /\ [Next]_vars => BooksInv'
<1> SUFFICES ASSUME IInv, DeliveryInv, BooksInv, [Next]_vars PROVE BooksInv'
  OBVIOUS
<1>0. /\ IInv' /\ NotYetEnqueued /\ IsFiniteSet(Begun) /\ ClaimsPaid
      /\ \A r \in Requests : /\ pc[r] = "received" => reply[r] = Nobody
                             /\ pc[r] = "enqueuing" => r.live
      /\ pc \in [Requests -> {"received"} \cup Active \cup Over]
      /\ reply \in [Requests -> Requests \cup {Nobody}]
  BY StepIInv DEF BooksInv, IInv, DeliveryInv, TypeOK, ServiceTypeOK
<1>1. ASSUME NEW r \in Requests, Serve(r) \/ Crash(r), UNCHANGED workerVars PROVE BooksInv'
  <2>1. /\ pc[r] \notin Over
        /\ \A m \in Requests \ {r} : pc'[m] = pc[m] /\ reply'[m] = reply[m]
    BY <1>0, <1>1, RequestFrame
  <2>2. pc'[r] # "received" /\ (pc'[r] = "enqueuing" => r.live)
    <3>1. CASE CacheHit(r) \/ CacheMiss(r) \/ BurstExceeded(r) \/ QuotaExceeded(r)
      BY <1>0, <3>1 DEF CacheHit, CacheMiss, BurstExceeded, QuotaExceeded, Goto
    <3>2. CASE Consume(r) \/ SandboxExempt(r) \/ Insert(r) \/ DuplicateFound(r)
      BY <1>0, <3>2 DEF Consume, SandboxExempt, Insert, DuplicateFound, Validated, Goto
    <3>3. CASE ForeignConflict(r) \/ QuotaRollback(r) \/ CacheResponse(r) \/ Commit(r)
      BY <1>0, <3>3 DEF ForeignConflict, QuotaRollback, CacheResponse, Commit, Goto
    <3>4. CASE Enqueue(r) \/ ResolveSandbox(r) \/ Crash(r)
      BY <1>0, <3>4 DEF Enqueue, ResolveSandbox, Crash, Goto
    <3> QED
      BY <1>1, <3>1, <3>2, <3>3, <3>4 DEF Serve
  <2>3. IsFiniteSet(Begun)'
    <3>1. PICK B : B = Begun'
      OBVIOUS
    <3>2. B \ {r} \subseteq Begun \ {r}
      BY <2>1, <3>1 DEF Begun
    <3>3. IsFiniteSet(B)
      BY <1>0, <3>2, AtMost
    <3> QED
      BY <3>1, <3>3
  <2>4. \A m \in Requests : /\ pc'[m] = "received" => reply'[m] = Nobody
                            /\ pc'[m] = "enqueuing" => m.live
    BY <1>0, <2>1, <2>2
  <2>5. ClaimsPaid'
    BY <1>0, <1>1, RequestKeepsBooks, BooksClosed
  <2> QED
    BY <2>3, <2>4, <2>5 DEF BooksInv
<1>2. ASSUME UNCHANGED <<pc, reply>>, ClaimsPaid' PROVE BooksInv'
  <2>1. Begun' = Begun
    BY <1>2 DEF Begun
  <2> QED
    BY <1>0, <1>2, <2>1 DEF BooksInv
<1>3. ASSUME UNCHANGED <<row, queue, quota, pc, reply, workerVars>> PROVE BooksInv'
  <2>1. UNCHANGED <<sends, wpc, job, dead, wcrashes>>
    BY <1>3 DEF workerVars
  <2>2. ASSUME NEW a \in Apps
        PROVE  /\ TaskCopies(a)' = TaskCopies(a) /\ Handlers(a)' = Handlers(a)
               /\ Consumed(a)' = Consumed(a) /\ Overdrawn(a)' = Overdrawn(a)
               /\ Charged(a)' = Charged(a) /\ Returned(a)' = Returned(a)
               /\ Kept(a)' = Kept(a)
    <3>1. /\ TaskCopies(a)' = TaskCopies(a)
          /\ Consumed(a)' = Consumed(a) /\ Overdrawn(a)' = Overdrawn(a)
      BY <1>3 DEF TaskCopies, Consumed, Overdrawn
    <3>2. /\ Handlers(a)' = Handlers(a) /\ Charged(a)' = Charged(a)
          /\ Returned(a)' = Returned(a)
      BY <1>3, <2>1 DEF Handlers, Carrying, Trying, Charged, Returned, SandboxDuplicates
    <3>3. \A m \in Requests : Copies(m)' = Copies(m) /\ Carriers(m)' = Carriers(m)
      BY <1>3, <2>1 DEF Copies, Carriers, Carrying, Trying
    <3>4. Kept(a)' = Kept(a)
      BY <1>3, <3>3 DEF Kept, Billable, Charged, Durable, SMSStatus, Carried
    <3> QED
      BY <3>1, <3>2, <3>4
  <2>3. ASSUME NEW a \in Apps PROVE Claims(a)' = Claims(a) /\ QuotaTotal(a)' = QuotaTotal(a)
    BY <2>2 DEF Claims, QuotaTotal
  <2>4. ClaimsPaid'
    BY <1>0, <2>1, <2>2, <2>3 DEF ClaimsPaid
  <2> QED
    BY <1>2, <1>3, <2>4
<1>4. CASE NextDay /\ UNCHANGED workerVars
  BY <1>3, <1>4 DEF NextDay, serviceVars
<1>5. CASE (\E s \in CacheSlot : Expire(s)) /\ UNCHANGED workerVars
  BY <1>3, <1>5 DEF Expire, serviceVars
<1>6. CASE WorkerNext /\ UNCHANGED serviceVars
  <2>1. ClaimsPaid'
    BY <1>0, <1>6, WorkerKeepsBooks, BooksClosed DEF WorkerNext
  <2> QED
    BY <1>2, <1>6, <2>1 DEF serviceVars
<1>7. CASE UNCHANGED vars
  BY <1>3, <1>7 DEF vars, sharedVars, serviceVars
<1> QED
  BY <1>1, <1>4, <1>5, <1>6, <1>7 DEF Next, ServiceNext

(***************************************************************************)
(* Before the first request there is nothing to pay.                       *)
(***************************************************************************)
LEMMA InitBooks == Init => BooksInv
<1> SUFFICES ASSUME Init PROVE BooksInv
  OBVIOUS
<1>1. /\ queue = [t \in Task |-> 0] /\ wpc = [w \in Workers |-> "idle"] /\ wcrashes = 0
      /\ pc = [r \in Requests |-> "received"] /\ reply = [r \in Requests |-> Nobody]
      /\ row = [r \in Requests |-> "none"]
      /\ quota = [a \in Apps |-> [d \in Days |-> 0]]
  BY DEF Init, SharedInit, ServiceInit, WorkerInit
<1>2. Begun = {}
  BY <1>1 DEF Begun
<1>3. ASSUME NEW a \in Apps
      PROVE  /\ Charged(a) = {} /\ TaskCopies(a) = {} /\ Handlers(a) = {} /\ Kept(a) = {}
             /\ Consumed(a) = {} /\ Overdrawn(a) = {} /\ Returned(a) = {}
  <2>1. TaskCopies(a) = {}
    BY <1>1 DEF TaskCopies
  <2>2. Consumed(a) = {} /\ Overdrawn(a) = {}
    <3>1. quota[a] \in [Days -> Int] /\ \A d \in Days : quota[a][d] = 0
      BY <1>1
    <3>2. ASSUME NEW c \in Consumed(a) PROVE FALSE
      <4>1. PICK d \in Days : c \in {d} \X (1 .. quota[a][d])
        BY DEF Consumed
      <4> QED
        BY <3>1, <4>1
    <3>3. ASSUME NEW c \in Overdrawn(a) PROVE FALSE
      <4>1. PICK d \in Days : c \in {d} \X ((quota[a][d] + 1) .. 0)
        BY DEF Overdrawn
      <4> QED
        BY <3>1, <4>1
    <3> QED
      BY <3>2, <3>3
  <2>3. Charged(a) = {} /\ Returned(a) = {}
    BY <1>1 DEF Charged, Returned, SandboxDuplicates
  <2>4. Handlers(a) = {} /\ Kept(a) = {}
    BY <1>1 DEF Handlers, Carrying, Trying, Kept, Billable, Durable, SMSStatus
  <2> QED
    BY <2>1, <2>2, <2>3, <2>4
<1>4. IsFiniteSet({}) /\ Cardinality({}) = 0
  BY FS_EmptySet
<1>5. ASSUME NEW a \in Apps
      PROVE  Claims(a) = 0 /\ QuotaTotal(a) = 0 /\ Cardinality(Returned(a)) = 0
  BY <1>3, <1>4 DEF Claims, QuotaTotal
<1>6. ClaimsPaid
  BY <1>1, <1>3, <1>4, <1>5 DEF ClaimsPaid
<1> QED
  BY <1>1, <1>2, <1>4, <1>6 DEF BooksInv

(***************************************************************************)
(* The billable messages are among the claims: those of a request, those   *)
(* that stay, and those of a task that is in the broker or with a worker.  *)
(***************************************************************************)
LEMMA Together ==
  ASSUME NEW S, NEW T, IsFiniteSet(S), IsFiniteSet(T)
  PROVE  IsFiniteSet(S \cup T) /\ Cardinality(S \cup T) <= Cardinality(S) + Cardinality(T)
<1>1. IsFiniteSet(S \cap T)
  BY FS_Intersection
<1>2. Cardinality(S) \in Nat /\ Cardinality(T) \in Nat /\ Cardinality(S \cap T) \in Nat
  BY <1>1, FS_CardinalityType
<1>3. /\ IsFiniteSet(S \cup T)
      /\ Cardinality(S \cup T) = Cardinality(S) + Cardinality(T) - Cardinality(S \cap T)
  BY FS_Union
<1>4. Cardinality(S \cup T) \in Nat
  BY <1>3, FS_CardinalityType
<1> QED
  BY <1>2, <1>3, <1>4

LEMMA BillableClaimed ==
  ASSUME IInv, BooksInv, NEW a \in Apps
  PROVE  Cardinality(Billable(a)) <= Claims(a)
<1>0. /\ queue \in [Task -> Nat] /\ job \in [Workers -> Task \cup {Nobody}]
      /\ \A w \in Workers : wpc[w] # "idle" => job[w] \in Task
  BY DEF IInv, TypeOK, SharedTypeOK, WorkerTypeOK
<1>1. /\ IsFiniteSet(Charged(a)) /\ IsFiniteSet(Kept(a)) /\ IsFiniteSet(TaskCopies(a))
      /\ IsFiniteSet(Handlers(a))
  BY Sizes DEF AllFinite
<1> DEFINE InBroker == {r \in Requests : \E c \in TaskCopies(a) : c[1].msg = r}
           Worked == {r \in Requests : \E w \in Handlers(a) : job[w].msg = r}
           Rest == Charged(a) \cup Kept(a)
<1>2. IsFiniteSet(InBroker) /\ Cardinality(InBroker) <= Cardinality(TaskCopies(a))
  <2>1. \A c \in TaskCopies(a) : c[1] \in Task /\ c[1].msg \in Requests
    BY <1>0, TaskCopiesAre, TaskFields
  <2>2. [c \in TaskCopies(a) |-> c[1].msg] \in Surjection(TaskCopies(a), InBroker)
    BY <2>1 DEF Surjection
  <2> HIDE DEF InBroker
  <2> QED
    BY <1>1, <2>2, FS_Surjection
<1>3. IsFiniteSet(Worked) /\ Cardinality(Worked) <= Cardinality(Handlers(a))
  <2>1. \A w \in Handlers(a) : job[w].msg \in Requests
    BY <1>0, TaskFields DEF Handlers, Carrying, Trying
  <2>2. [w \in Handlers(a) |-> job[w].msg] \in Surjection(Handlers(a), Worked)
    BY <2>1 DEF Surjection
  <2> HIDE DEF Worked
  <2> QED
    BY <1>1, <2>2, FS_Surjection
<1>4. Billable(a) \subseteq Rest \cup (InBroker \cup Worked)
  <2> SUFFICES ASSUME NEW r \in Billable(a), r \notin Rest PROVE r \in InBroker \cup Worked
    OBVIOUS
  <2>1. r \in Requests /\ r.app = a /\ Carried(r)
    BY DEF Billable, Kept
  <2>2. CASE Copies(r) # {}
    <3>1. PICK c \in Task \X Nat : c[1].msg = r /\ 1 <= c[2] /\ c[2] <= queue[c[1]]
      BY <1>0, <2>1, <2>2, CopiesAre
    <3>2. c \in TaskCopies(a)
      BY <1>0, <2>1, <3>1, TaskCopiesAre
    <3> QED
      BY <2>1, <3>1, <3>2
  <2>3. CASE Carriers(r) # {}
    <3>1. PICK w \in Workers : wpc[w] \in Carrying /\ job[w].msg = r
      BY <2>3 DEF Carriers
    <3>2. w \in Handlers(a)
      BY <2>1, <3>1 DEF Handlers
    <3> QED
      BY <2>1, <3>1, <3>2
  <2> QED
    BY <2>1, <2>2, <2>3 DEF Carried
<1>5. /\ IsFiniteSet(Rest) /\ Cardinality(Rest) <= Cardinality(Charged(a)) + Cardinality(Kept(a))
  BY <1>1, Together
<1> HIDE DEF InBroker, Worked, Rest
<1>6. /\ IsFiniteSet(InBroker \cup Worked)
      /\ Cardinality(InBroker \cup Worked) <= Cardinality(InBroker) + Cardinality(Worked)
  BY <1>2, <1>3, Together
<1>7. PICK J : J = InBroker \cup Worked
  OBVIOUS
<1>8. IsFiniteSet(Rest \cup J) /\ Cardinality(Rest \cup J) <= Cardinality(Rest) + Cardinality(J)
  BY <1>5, <1>6, <1>7, Together
<1>9. Cardinality(Billable(a)) <= Cardinality(Rest \cup J) /\ IsFiniteSet(Billable(a))
  BY <1>4, <1>7, <1>8, FS_Subset
<1>10. /\ Cardinality(Billable(a)) \in Nat /\ Cardinality(Rest \cup J) \in Nat
       /\ Cardinality(Rest) \in Nat /\ Cardinality(J) \in Nat
       /\ Cardinality(InBroker) \in Nat /\ Cardinality(Worked) \in Nat
       /\ Cardinality(Charged(a)) \in Nat /\ Cardinality(Kept(a)) \in Nat
       /\ Cardinality(TaskCopies(a)) \in Nat /\ Cardinality(Handlers(a)) \in Nat
  BY <1>1, <1>2, <1>3, <1>5, <1>6, <1>7, <1>8, <1>9, FS_CardinalityType
<1> QED
  BY <1>2, <1>3, <1>5, <1>6, <1>7, <1>8, <1>9, <1>10 DEF Claims

LEMMA BooksKept == Spec => [](IInv /\ DeliveryInv /\ BooksInv)
<1>1. Init => IInv /\ DeliveryInv /\ BooksInv
  BY InitIInv, InitDelivery, InitBooks
<1>2. IInv /\ DeliveryInv /\ BooksInv /\ [Next]_vars => (IInv /\ DeliveryInv /\ BooksInv)'
  BY StepIInv, StepDelivery, StepBooks
<1> QED
  BY <1>1, <1>2, PTL DEF Spec

(***************************************************************************)
(* Every live message that has not failed is paid for by a unit of its     *)
(* application, up to one per lost worker and per sandbox duplicate,       *)
(* whatever day the refunds of duplicates and failures run on.             *)
(***************************************************************************)
THEOREM LivePaid == Spec => []LiveMessagesPaid
<1>1. IInv /\ DeliveryInv /\ BooksInv => LiveMessagesPaid
  <2> SUFFICES ASSUME IInv, BooksInv, NEW a \in Apps
               PROVE  Cardinality(Billable(a))
                        <= QuotaTotal(a) + wcrashes + Cardinality(SandboxDuplicates(a))
    BY DEF LiveMessagesPaid
  <2>1. /\ IsFiniteSet(SandboxDuplicates(a)) /\ IsFiniteSet(Billable(a)) /\ QuotaTotal(a) \in Int
    <3>1. Billable(a) \subseteq Begun
      BY DEF IInv, RowsFollowRequests, Billable, Durable, SMSStatus, Begun
    <3> QED
      BY <3>1, Sizes, FS_Subset DEF AllFinite, BooksInv
  <2>2. Cardinality(Returned(a)) <= Cardinality(SandboxDuplicates(a))
    BY <2>1, FS_Subset DEF Returned
  <2>3. /\ Cardinality(Billable(a)) \in Nat /\ Cardinality(SandboxDuplicates(a)) \in Nat
        /\ Gave(a) \in Nat /\ wcrashes \in Nat
    BY <2>1, Sizes, FS_CardinalityType DEF IInv, TypeOK, WorkerTypeOK
  <2>4. Claims(a) \in Nat /\ Claims(a) <= QuotaTotal(a) + wcrashes + Gave(a)
    BY Sizes DEF Claims, Charge, Copied, Handled, Stays
  <2> QED
    BY <2>1, <2>2, <2>3, <2>4, BillableClaimed DEF Gave
<1> QED
  BY BooksKept, <1>1, PTL
=============================================================================
