------------------------- MODULE NotificationProofs --------------------------
(***************************************************************************)
(* Theorems about NotificationService, for every set of applications, keys *)
(* and requests and every daily limit.                                     *)
(***************************************************************************)
EXTENDS NotificationService, TLAPS

(***************************************************************************)
(* What a request is made of.                                              *)
(***************************************************************************)
LEMMA RequestFields ==
  ASSUME NEW r \in Requests
  PROVE  /\ r.app \in Apps
         /\ r.key \in Keys \cup {NoKey}
         /\ r.live \in BOOLEAN
         /\ r # Nobody
         /\ r.key # NoKey => SlotOf(r) \in Apps \X Keys
BY NotificationAssumption DEF SlotOf

(***************************************************************************)
(* A slot is an application and a key.                                     *)
(***************************************************************************)
LEMMA SameSlot ==
  ASSUME NEW r, NEW m
  PROVE  SlotOf(r) = SlotOf(m) <=> r.app = m.app /\ r.key = m.key
BY DEF SlotOf

(***************************************************************************)
(* Every step keeps the types.                                             *)
(***************************************************************************)
LEMMA StepTypes ==
  ASSUME TypeOK, [Next]_vars
  PROVE  TypeOK'
<1> USE DEF TypeOK, Active
<1>1. ASSUME NEW r \in Requests, Replay(r) PROVE TypeOK'
  BY <1>1, RequestFields DEF Replay, Cached, Goto
<1>2. ASSUME NEW r \in Requests, CacheMiss(r) \/ QuotaRefused(r) \/ Duplicate(r) PROVE TypeOK'
  BY <1>2 DEF CacheMiss, QuotaRefused, Duplicate, Goto
<1>3. ASSUME NEW r \in Requests, Consume(r) PROVE TypeOK'
  BY <1>3, RequestFields DEF Consume, Goto
<1>4. ASSUME NEW r \in Requests, Create(r) \/ SettleUnsent(r) PROVE TypeOK'
  BY <1>4 DEF Create, SettleUnsent, Goto
<1>5. ASSUME NEW r \in Requests, Send(r) PROVE TypeOK'
  BY <1>5 DEF Send, Goto
<1>6. ASSUME NEW r \in Requests, CacheResponse(r) PROVE TypeOK'
  BY <1>6, RequestFields DEF CacheResponse, Goto
<1>7. ASSUME NEW r \in Requests, Commit(r) \/ Return(r) PROVE TypeOK'
  BY <1>7 DEF Commit, Return, Goto
<1>8. ASSUME NEW r \in Requests, Crash(r) \/ CrashSending(r) PROVE TypeOK'
  BY <1>8 DEF Crash, CrashSending, Goto
<1>9. ASSUME NEW s \in Apps \X Keys, Expire(s) PROVE TypeOK'
  BY <1>9 DEF Expire
<1>10. CASE UNCHANGED vars
  BY <1>10 DEF vars
<1> QED
  BY <1>1, <1>2, <1>3, <1>4, <1>5, <1>6, <1>7, <1>8, <1>9, <1>10 DEF Next, Dispatch

-----------------------------------------------------------------------------
(***************************************************************************)
(* A record exists exactly as long as the place of its request says.       *)
(***************************************************************************)
LEMMA StepRows ==
  ASSUME IInv, [Next]_vars
  PROVE  RowsFollowRequests'
<1> USE DEF IInv, TypeOK, Active, RowsFollowRequests, Goto
<1>1. ASSUME NEW r \in Requests,
             Replay(r) \/ CacheMiss(r) \/ Consume(r) \/ QuotaRefused(r) \/ Duplicate(r)
      PROVE  RowsFollowRequests'
  BY <1>1 DEF Replay, CacheMiss, Consume, QuotaRefused, Duplicate
<1>2. ASSUME NEW r \in Requests, Create(r) PROVE RowsFollowRequests'
  BY <1>2 DEF Create
<1>3. ASSUME NEW r \in Requests, SettleUnsent(r) \/ Send(r) PROVE RowsFollowRequests'
  BY <1>3 DEF SettleUnsent, Send
<1>4. ASSUME NEW r \in Requests, CacheResponse(r) \/ Commit(r) \/ Return(r)
      PROVE  RowsFollowRequests'
  BY <1>4 DEF CacheResponse, Commit, Return
<1>5. ASSUME NEW r \in Requests, Crash(r) \/ CrashSending(r) PROVE RowsFollowRequests'
  BY <1>5 DEF Crash, CrashSending
<1>6. CASE (\E s \in Apps \X Keys : Expire(s)) \/ UNCHANGED vars
  BY <1>6 DEF Expire, vars
<1> QED
  BY <1>1, <1>2, <1>3, <1>4, <1>5, <1>6 DEF Next, Dispatch

(***************************************************************************)
(* Only an INSERT without rivals adds a record.                            *)
(***************************************************************************)
LEMMA StepKeys ==
  ASSUME IInv, [Next]_vars
  PROVE  KeyHeldOnce'
<1> USE DEF IInv, TypeOK, KeyHeldOnce
<1>1. ASSUME NEW r \in Requests, Create(r) PROVE KeyHeldOnce'
  BY <1>1 DEF Create, Rivals
<1>2. ASSUME NEW r \in Requests, SettleUnsent(r) \/ Send(r) PROVE KeyHeldOnce'
  BY <1>2 DEF SettleUnsent, Send, Goto, RowsFollowRequests
<1>3. ASSUME NEW r \in Requests, Crash(r) \/ CrashSending(r) PROVE KeyHeldOnce'
  BY <1>3 DEF Crash, CrashSending
<1>4. CASE UNCHANGED row
  BY <1>4
<1> QED
  BY <1>1, <1>2, <1>3, <1>4
     DEF Next, Dispatch, Replay, CacheMiss, Consume, QuotaRefused, Duplicate, CacheResponse,
         Commit, Return, Expire, vars

(***************************************************************************)
(* Between the cache write and the commit nobody else caches for the key.  *)
(***************************************************************************)
LEMMA StepCommitter ==
  ASSUME IInv, [Next]_vars
  PROVE  CommitterIsCached'
<1> USE DEF IInv, TypeOK, CommitterIsCached, Goto
<1>1. ASSUME NEW r \in Requests, CacheResponse(r) PROVE CommitterIsCached'
  <2> SUFFICES ASSUME NEW q \in Requests, pc'[q] = "committing", q.key # NoKey
               PROVE  cache'[SlotOf(q)] \in {Nobody, q}
    OBVIOUS
  <2>1. CASE q = r
    BY <1>1, <2>1, RequestFields DEF CacheResponse
  <2>2. CASE q # r
    <3>1. pc[q] = "committing" /\ pc[r] = "caching" /\ row[q] # "none" /\ row[r] # "none"
      BY <1>1, <2>2 DEF CacheResponse, RowsFollowRequests
    <3>2. r.key # q.key
      BY <2>2, <3>1 DEF KeyHeldOnce
    <3>3. cache'[SlotOf(q)] = cache[SlotOf(q)]
      BY <1>1, <3>2, SameSlot, RequestFields DEF CacheResponse
    <3> QED
      BY <3>1, <3>3
  <2> QED
    BY <2>1, <2>2
<1>2. ASSUME NEW s \in Apps \X Keys, Expire(s) PROVE CommitterIsCached'
  BY <1>2, RequestFields DEF Expire
<1>3. ASSUME UNCHANGED cache, \A q \in Requests : pc'[q] = "committing" => pc[q] = "committing"
      PROVE  CommitterIsCached'
  BY <1>3
<1>4. ASSUME NEW r \in Requests, Dispatch(r) \/ Crash(r) \/ CrashSending(r), ~CacheResponse(r)
      PROVE  /\ UNCHANGED cache
             /\ \A q \in Requests : pc'[q] = "committing" => pc[q] = "committing"
  BY <1>4 DEF Dispatch, Replay, CacheMiss, Consume, QuotaRefused, Create, Duplicate, SettleUnsent,
              Send, Commit, Return, Crash, CrashSending
<1> QED
  BY <1>1, <1>2, <1>3, <1>4 DEF Next, Dispatch, vars

(***************************************************************************)
(* A slot never holds a response that disagrees with the table.            *)
(***************************************************************************)
LEMMA StepCache ==
  ASSUME IInv, [Next]_vars
  PROVE  CacheHoldsSlot'
<1> USE DEF IInv, TypeOK, CacheHoldsSlot, Goto, Active
<1>1. ASSUME NEW r \in Requests, CacheResponse(r) PROVE CacheHoldsSlot'
  <2> SUFFICES ASSUME NEW s \in Apps \X Keys, cache'[s] # Nobody
               PROVE  /\ SlotOf(cache'[s]) = s
                      /\ pc'[cache'[s]] # "received"
                      /\ \A d \in committed' : SlotOf(d) = s => d = cache'[s]
    OBVIOUS
  <2>0. row[r] # "none" /\ r \notin committed
    BY <1>1 DEF CacheResponse, RowsFollowRequests
  <2>1. CASE r.key # NoKey /\ s = SlotOf(r)
    <3>1. cache'[s] = r /\ pc'[r] # "received"
      BY <1>1, <2>1 DEF CacheResponse
    <3>2. \A d \in committed : SlotOf(d) # s
      BY <2>0, <2>1, SameSlot DEF KeyHeldOnce, RowsFollowRequests
    <3> QED
      BY <1>1, <2>1, <3>1, <3>2 DEF CacheResponse
  <2>2. CASE ~(r.key # NoKey /\ s = SlotOf(r))
    <3>1. cache'[s] = cache[s] /\ committed' = committed
      BY <1>1, <2>2 DEF CacheResponse
    <3>2. cache[s] \in Requests
      BY <3>1
    <3> QED
      BY <1>1, <3>1, <3>2 DEF CacheResponse
  <2> QED
    BY <2>1, <2>2
<1>2. ASSUME NEW r \in Requests, Commit(r) PROVE CacheHoldsSlot'
  <2> SUFFICES ASSUME NEW s \in Apps \X Keys, cache[s] # Nobody
               PROVE  /\ SlotOf(cache[s]) = s
                      /\ pc'[cache[s]] # "received"
                      /\ \A d \in committed' : SlotOf(d) = s => d = cache[s]
    BY <1>2 DEF Commit
  <2>1. SlotOf(r) = s => cache[s] = r
    BY <1>2, RequestFields, NotificationAssumption DEF Commit, CommitterIsCached, SlotOf
  <2>2. cache[s] \in Requests
    OBVIOUS
  <2> QED
    BY <1>2, <2>1, <2>2 DEF Commit
<1>3. ASSUME NEW s \in Apps \X Keys, Expire(s) PROVE CacheHoldsSlot'
  BY <1>3 DEF Expire
<1>4. ASSUME NEW r \in Requests, Dispatch(r) \/ Crash(r) \/ CrashSending(r),
             ~CacheResponse(r), ~Commit(r)
      PROVE  /\ UNCHANGED <<cache, committed>>
             /\ \A q \in Requests : pc'[q] = "received" => pc[q] = "received"
  BY <1>4 DEF Dispatch, Replay, CacheMiss, Consume, QuotaRefused, Create, Duplicate, SettleUnsent,
              Send, Return, Crash, CrashSending
<1>5. ASSUME UNCHANGED <<cache, committed>>,
             \A q \in Requests : pc'[q] = "received" => pc[q] = "received"
      PROVE  CacheHoldsSlot'
  BY <1>5
<1> QED
  BY <1>1, <1>2, <1>3, <1>4, <1>5 DEF Next, Dispatch, vars

(***************************************************************************)
(* dispatch returns as the last thing it does, and what is sent has its    *)
(* record until the request dies.                                          *)
(***************************************************************************)
LEMMA StepEnds ==
  ASSUME IInv, [Next]_vars
  PROVE  ReturnsAtEnd' /\ SentHasRecord'
<1> USE DEF IInv, TypeOK, ReturnsAtEnd, SentHasRecord, Goto, Active
<1> DEFINE Ends == ReturnsAtEnd' /\ SentHasRecord'
<1>1. ASSUME NEW r \in Requests,
             Replay(r) \/ CacheMiss(r) \/ Consume(r) \/ QuotaRefused(r) \/ Duplicate(r)
      PROVE  Ends
  BY <1>1 DEF Replay, CacheMiss, Consume, QuotaRefused, Duplicate
<1>2. ASSUME NEW r \in Requests, Create(r) \/ SettleUnsent(r) \/ Send(r) PROVE Ends
  BY <1>2 DEF Create, SettleUnsent, Send
<1>3. ASSUME NEW r \in Requests, CacheResponse(r) \/ Commit(r) \/ Return(r) PROVE Ends
  BY <1>3 DEF CacheResponse, Commit, Return
<1>4. ASSUME NEW r \in Requests, Crash(r) \/ CrashSending(r) PROVE Ends
  BY <1>4 DEF Crash, CrashSending
<1>5. CASE (\E s \in Apps \X Keys : Expire(s)) \/ UNCHANGED vars
  BY <1>5 DEF Expire, vars
<1> QED
  BY <1>1, <1>2, <1>3, <1>4, <1>5 DEF Next, Dispatch

(***************************************************************************)
(* IInv is inductive.                                                      *)
(***************************************************************************)
LEMMA Inductive == Spec => []IInv
<1>1. Init => IInv
  BY NotificationAssumption, RequestFields
     DEF Init, IInv, TypeOK, Active, RowsFollowRequests, KeyHeldOnce, CommitterIsCached,
         CacheHoldsSlot, ReturnsAtEnd, SentHasRecord
<1>2. IInv /\ [Next]_vars => IInv'
  BY StepTypes, StepRows, StepKeys, StepCommitter, StepCache, StepEnds DEF IInv
<1> QED
  BY <1>1, <1>2, PTL DEF Spec

(***************************************************************************)
(* Of two notifications with one key that were handed to a provider, one   *)
(* belongs to a request that died: a live one holds the key from before    *)
(* the provider is called.                                                 *)
(***************************************************************************)
THEOREM SentOnce == Spec => []SentAgainOnlyAfterDeath
<1>1. IInv => SentAgainOnlyAfterDeath
  BY DEF IInv, TypeOK, KeyHeldOnce, SentHasRecord, SentAgainOnlyAfterDeath
<1> QED
  BY <1>1, Inductive, PTL

-----------------------------------------------------------------------------
(***************************************************************************)
(* Every step of a request is a step of the idempotent create or none.     *)
(***************************************************************************)
LEMMA RequestRefines ==
  ASSUME IInv, NEW r \in Requests, Dispatch(r) \/ Crash(r) \/ CrashSending(r)
  PROVE  Idempotent!Next \/ UNCHANGED <<committed, returned>>
<1> USE DEF IInv, TypeOK, Goto
<1>1. CASE Replay(r)
  <2> DEFINE m == cache[SlotOf(r)]
  <2>1. r.key # NoKey /\ m # Nobody /\ pc[r] = "received" /\ returned' = [returned EXCEPT ![r] = m]
    BY <1>1 DEF Replay, Cached
  <2>2. SlotOf(r) \in Apps \X Keys /\ m \in Requests
    BY <2>1, RequestFields
  <2>3. SlotOf(m) = SlotOf(r) /\ m # r /\ \A d \in committed : SlotOf(d) = SlotOf(r) => d = m
    BY <2>1, <2>2 DEF CacheHoldsSlot
  <2>4. r \notin committed /\ returned[r] = Nobody
    BY <2>1 DEF RowsFollowRequests, ReturnsAtEnd
  <2> HIDE DEF m
  <2>5. Idempotent!Slot(r, m) /\ \A d \in committed : Idempotent!Slot(r, d) => d = m
    BY <2>1, <2>3, <2>4, SameSlot DEF Idempotent!Slot
  <2>6. Idempotent!Answer(r, m)
    BY <1>1, <2>1, <2>3, <2>4, <2>5 DEF Replay, Idempotent!Answer
  <2> QED
    BY <2>2, <2>6 DEF Idempotent!Next
<1>2. CASE Commit(r)
  <2>1. row[r] # "none" /\ r \notin committed
    BY <1>2 DEF Commit, RowsFollowRequests
  <2>2. \A m \in committed : ~Idempotent!Slot(r, m)
    BY <2>1 DEF KeyHeldOnce, RowsFollowRequests, Idempotent!Slot
  <2>3. Idempotent!Persist(r)
    BY <1>2, <2>2 DEF Commit, Idempotent!Persist
  <2> QED
    BY <2>3 DEF Idempotent!Next
<1>3. CASE Return(r)
  <2>1. r \in committed /\ row[r] # "none" /\ returned[r] = Nobody
    BY <1>3 DEF Return, RowsFollowRequests, ReturnsAtEnd
  <2>2. \A d \in committed : Idempotent!Slot(r, d) => d = r
    BY <2>1 DEF KeyHeldOnce, RowsFollowRequests, Idempotent!Slot
  <2>3. Idempotent!Answer(r, r)
    BY <1>3, <2>1, <2>2 DEF Return, Idempotent!Answer, Idempotent!Slot
  <2> QED
    BY <2>3 DEF Idempotent!Next
<1>4. CASE ~(Replay(r) \/ Commit(r) \/ Return(r))
  BY <1>4 DEF Dispatch, CacheMiss, Consume, QuotaRefused, Create, Duplicate, SettleUnsent, Send,
              CacheResponse, Crash, CrashSending
<1> QED
  BY <1>1, <1>2, <1>3, <1>4

(***************************************************************************)
(* dispatch implements the idempotent create, although it neither looks    *)
(* for a duplicate nor handles one.                                        *)
(***************************************************************************)
THEOREM IdempotentDispatch == Spec => ImplementsIdempotentCreate
<1>1. Init => Idempotent!Init
  BY DEF Init, Idempotent!Init
<1>2. IInv /\ [Next]_vars => [Idempotent!Next]_<<committed, returned>>
  <2>1. CASE (\E s \in Apps \X Keys : Expire(s)) \/ UNCHANGED vars
    BY <2>1 DEF Expire, vars
  <2> QED
    BY <2>1, RequestRefines DEF Next
<1> QED
  BY Inductive, <1>1, <1>2, PTL DEF Spec, Idempotent!Spec, ImplementsIdempotentCreate
=============================================================================
