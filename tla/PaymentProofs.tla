---------------------------- MODULE PaymentProofs ----------------------------
(***************************************************************************)
(* Theorems about PaymentService, for every set of applications, keys,     *)
(* references, calls and transitions, and about the rules of PureRules,    *)
(* for all amounts and messages.                                           *)
(***************************************************************************)
EXTENDS PaymentService, PureRules, FiniteSetTheorems, TLAPS

(***************************************************************************)
(* What a call of initiate and a transition are made of.                   *)
(***************************************************************************)
LEMMA CallFields ==
  ASSUME NEW r \in Requests
  PROVE  /\ r.app \in Apps
         /\ r.key \in Keys \cup {NoKey}
         /\ r.live \in BOOLEAN
         /\ r # Nobody
         /\ r.key # NoKey => <<r.app, r.key>> \in Apps \X Keys
BY PaymentAssumption

LEMMA TransitionFields ==
  ASSUME NEW t \in Transitions
  PROVE  /\ t.payment \in Requests
         /\ t.verb \in {"pending", "completed", "failed", "reversed"}
         /\ Expected[t.verb] \in {"INITIATED", "PENDING", "COMPLETED"}
         /\ Target[t.verb] \in {"PENDING", "COMPLETED", "FAILED", "REVERSED"}
         /\ Target[t.verb] = "FAILED" <=> t.verb = "failed"
         /\ t.verb = "failed" => Expected[t.verb] = "PENDING"
BY PaymentAssumption DEF Expected, Target

(***************************************************************************)
(* A unit is taken from or given back to one application.                  *)
(***************************************************************************)
LEMMA OneCounterMoves ==
  ASSUME NEW a \in Apps, NEW n \in {1, -1}, quota \in [Apps -> Int], AddUnits(a, n)
  PROVE  /\ quota' \in [Apps -> Int]
         /\ quota'[a] = quota[a] + n
         /\ \A b \in Apps \ {a} : quota'[b] = quota[b]
BY DEF AddUnits

(***************************************************************************)
(* Every step keeps the types.                                             *)
(***************************************************************************)
LEMMA StepTypes ==
  ASSUME TypeOK, [Next]_vars
  PROVE  TypeOK'
<1> USE DEF TypeOK, Active, Over, PaymentStatus, Goto, Answer, Advance,
            tableVars, initiateVars, transitionVars
<1>1. ASSUME NEW r \in Requests, CacheHit(r) PROVE TypeOK'
  BY <1>1, CallFields DEF CacheHit
<1>2. ASSUME NEW r \in Requests, CacheMiss(r) \/ QuotaRefused(r) PROVE TypeOK'
  BY <1>2 DEF CacheMiss, QuotaRefused
<1>3. ASSUME NEW r \in Requests, Consume(r) PROVE TypeOK'
  <2>1. quota' \in [Apps -> Int]
    BY <1>3, CallFields DEF Consume, AddUnits
  <2> QED
    BY <1>3, <2>1 DEF Consume
<1>4. ASSUME NEW r \in Requests, RefuseReference(r) \/ AcceptReference(r) PROVE TypeOK'
  BY <1>4 DEF RefuseReference, AcceptReference
<1>5. ASSUME NEW r \in Requests, Insert(r) \/ IntegrityError(r) PROVE TypeOK'
  BY <1>5 DEF Insert, IntegrityError
<1>6. ASSUME NEW r \in Requests, DuplicateFound(r) \/ Reraise(r) PROVE TypeOK'
  BY <1>6 DEF DuplicateFound, Reraise, Refetched
<1>7. ASSUME NEW r \in Requests, QuotaRollback(r) PROVE TypeOK'
  <2>1. quota' \in [Apps -> Int]
    <3>1. r.app \in Apps
      BY CallFields
    <3>2. AddUnits(r.app, -1)
      BY <1>7 DEF QuotaRollback
    <3> QED
      BY <3>1, <3>2, OneCounterMoves
  <2> QED
    BY <1>7, <2>1 DEF QuotaRollback
<1>8. ASSUME NEW r \in Requests, CacheResponse(r) PROVE TypeOK'
  BY <1>8, CallFields DEF CacheResponse
<1>9. ASSUME NEW r \in Requests, Commit(r) \/ Return(r) \/ ResolveSandbox(r) PROVE TypeOK'
  BY <1>9 DEF Commit, Return, ResolveSandbox
<1>10. ASSUME NEW r \in Requests, Crash(r) PROVE TypeOK'
  BY <1>10 DEF Crash
<1>11. ASSUME NEW s \in Apps \X Keys, Expire(s) PROVE TypeOK'
  BY <1>11 DEF Expire
<1>12. ASSUME NEW t \in Transitions, Read(t) PROVE TypeOK'
  BY <1>12, TransitionFields DEF Read, Durable
<1>13. ASSUME NEW t \in Transitions, Write(t) PROVE TypeOK'
  BY <1>13, TransitionFields DEF Write
<1>14. ASSUME NEW t \in Transitions, Refund(t) PROVE TypeOK'
  <2>1. quota' \in [Apps -> Int]
    <3>1. t.payment.app \in Apps
      BY TransitionFields, CallFields
    <3>2. AddUnits(t.payment.app, -1)
      BY <1>14 DEF Refund
    <3> QED
      BY <3>1, <3>2, OneCounterMoves
  <2> QED
    BY <1>14, <2>1 DEF Refund
<1>15. ASSUME NEW t \in Transitions, TransitionCrash(t) PROVE TypeOK'
  BY <1>15 DEF TransitionCrash
<1>16. CASE UNCHANGED vars
  BY <1>16 DEF vars
<1> QED
  BY <1>1, <1>2, <1>3, <1>4, <1>5, <1>6, <1>7, <1>8, <1>9, <1>10, <1>11, <1>12, <1>13, <1>14,
     <1>15, <1>16 DEF Next, Initiate, Transit

-----------------------------------------------------------------------------
(***************************************************************************)
(* A step of a call leaves the other calls and all transitions alone.      *)
(***************************************************************************)
LEMMA OneCallMoves ==
  ASSUME TypeOK, NEW r \in Requests, Initiate(r) \/ Crash(r)
  PROVE  /\ UNCHANGED transitionVars
         /\ \A q \in Requests \ {r} : row'[q] = row[q] /\ pc'[q] = pc[q] /\ reply'[q] = reply[q]
         /\ UNCHANGED cache \/ CacheResponse(r)
<1> USE DEF TypeOK, Goto, Answer, tableVars
<1>1. CASE CacheHit(r) \/ CacheMiss(r) \/ QuotaRefused(r) \/ Consume(r)
  BY <1>1 DEF CacheHit, CacheMiss, QuotaRefused, Consume
<1>2. CASE RefuseReference(r) \/ AcceptReference(r) \/ Insert(r) \/ IntegrityError(r)
  BY <1>2 DEF RefuseReference, AcceptReference, Insert, IntegrityError
<1>3. CASE DuplicateFound(r) \/ Reraise(r) \/ QuotaRollback(r) \/ CacheResponse(r)
  BY <1>3 DEF DuplicateFound, Reraise, QuotaRollback, CacheResponse
<1>4. CASE Commit(r) \/ Return(r) \/ ResolveSandbox(r) \/ Crash(r)
  BY <1>4 DEF Commit, Return, ResolveSandbox, Crash
<1> QED
  BY <1>1, <1>2, <1>3, <1>4 DEF Initiate

(***************************************************************************)
(* A transition leaves the calls and the other transitions alone, and the  *)
(* status it writes replaces one that was committed.                       *)
(***************************************************************************)
LEMMA OneTransitionMoves ==
  ASSUME IInv, NEW t \in Transitions, Transit(t)
  PROVE  /\ UNCHANGED <<cache, initiateVars>>
         /\ \A u \in Transitions \ {t} : step'[u] = step[u] /\ seen'[u] = seen[u]
         /\ \A q \in Requests \ {t.payment} : row'[q] = row[q]
         /\ UNCHANGED row \/ Write(t)
         /\ row'[t.payment] \in PaymentStatus <=> row[t.payment] \in PaymentStatus
         /\ row'[t.payment] = "flushed" <=> row[t.payment] = "flushed"
         /\ row'[t.payment] = "none" <=> row[t.payment] = "none"
<1> USE DEF IInv, TypeOK, Advance, tableVars, initiateVars
<1>1. CASE Read(t)
  BY <1>1 DEF Read
<1>2. CASE Write(t)
  <2>1. row[t.payment] \in PaymentStatus /\ row'[t.payment] \in PaymentStatus
    BY <1>2, TransitionFields DEF Write, ReadsFound, Durable, PaymentStatus
  <2> QED
    BY <1>2, <2>1 DEF Write, PaymentStatus
<1>3. CASE Refund(t) \/ TransitionCrash(t)
  BY <1>3 DEF Refund, TransitionCrash
<1> QED
  BY <1>1, <1>2, <1>3 DEF Transit

(***************************************************************************)
(* A committed payment stays committed, and only a Commit adds one.        *)
(***************************************************************************)
LEMMA DurableStays ==
  ASSUME IInv, [Next]_vars, NEW q \in Requests
  PROVE  /\ Durable(q) => Durable(q)'
         /\ Durable(q)' => Durable(q) \/ (Commit(q) /\ row[q] = "flushed")
<1> USE DEF IInv, TypeOK, Durable, PaymentStatus, Goto
<1>1. ASSUME NEW r \in Requests, Initiate(r) \/ Crash(r), q # r
      PROVE  row'[q] = row[q]
  BY <1>1, OneCallMoves
<1>2. CASE CacheHit(q) \/ CacheMiss(q) \/ QuotaRefused(q) \/ Consume(q)
           \/ RefuseReference(q) \/ AcceptReference(q)
  BY <1>2 DEF CacheHit, CacheMiss, QuotaRefused, Consume, RefuseReference, AcceptReference, tableVars
<1>3. CASE Insert(q) \/ IntegrityError(q) \/ DuplicateFound(q) \/ Reraise(q) \/ QuotaRollback(q)
  BY <1>3 DEF Insert, IntegrityError, DuplicateFound, Reraise, QuotaRollback, tableVars,
              RowsFollowCalls
<1>4. CASE CacheResponse(q) \/ Commit(q) \/ Return(q) \/ ResolveSandbox(q) \/ Crash(q)
  BY <1>4 DEF CacheResponse, Commit, Return, ResolveSandbox, Crash, tableVars, RowsFollowCalls
<1>5. ASSUME NEW t \in Transitions, Transit(t) PROVE Durable(q)' <=> Durable(q)
  BY <1>5, OneTransitionMoves
<1>6. CASE (\E s \in Apps \X Keys : Expire(s)) \/ UNCHANGED vars
  BY <1>6 DEF Expire, vars, tableVars
<1> QED
  BY <1>1, <1>2, <1>3, <1>4, <1>5, <1>6 DEF Next, Initiate

(***************************************************************************)
(* The row and the answer of a call are where its place says.              *)
(***************************************************************************)
LEMMA StepCalls ==
  ASSUME IInv, [Next]_vars
  PROVE  RowsFollowCalls'
<1> USE DEF IInv, TypeOK, RowsFollowCalls, Durable, PaymentStatus, Goto, Answer
<1>1. ASSUME NEW r \in Requests, Initiate(r) \/ Crash(r) PROVE RowsFollowCalls'
  <2> DEFINE Follows(q) ==
        /\ pc[q] \in {"caching", "committing"} <=> row[q] = "flushed"
        /\ pc[q] \in {"returning", "resolving"} => Durable(q)
        /\ Durable(q) => \/ pc[q] \in {"returning", "resolving", "crashed"}
                         \/ pc[q] = "replied" /\ reply[q] = q
        /\ pc[q] \notin {"refunding", "replied"} => reply[q] = Nobody
        /\ reply[q] = q => pc[q] = "replied" /\ Durable(q)
        /\ pc[q] = "replied" => reply[q] # Nobody
        /\ pc[q] = "resolving" => ~q.live
  <2>0. \A q \in Requests : Follows(q)
    OBVIOUS
  <2>1. Follows(r)'
    <3>1. CASE CacheHit(r)
      <4>1. cache[<<r.app, r.key>>] \in Requests \ {r}
        BY <3>1, CallFields DEF CacheHit, CacheHoldsSlot, HeldBy
      <4> QED
        BY <3>1, <4>1 DEF CacheHit, tableVars
    <3>2. CASE CacheMiss(r) \/ QuotaRefused(r) \/ Consume(r) \/ RefuseReference(r)
               \/ AcceptReference(r)
      BY <3>2, CallFields
         DEF CacheMiss, QuotaRefused, Consume, RefuseReference, AcceptReference, tableVars
    <3>3. CASE Insert(r) \/ IntegrityError(r) \/ Reraise(r)
      BY <3>3, CallFields DEF Insert, IntegrityError, Reraise, tableVars
    <3>4. CASE DuplicateFound(r)
      <4>1. row[r] # "flushed" /\ ~Durable(r)
        BY <3>4 DEF DuplicateFound
      <4> QED
        BY <3>4, <4>1, CallFields DEF DuplicateFound, Refetched, tableVars
    <3>5. CASE QuotaRollback(r)
      BY <3>5, CallFields DEF QuotaRollback, DuplicateIsCommitted
    <3>6. CASE CacheResponse(r) \/ Commit(r)
      BY <3>6, CallFields DEF CacheResponse, Commit
    <3>7. CASE Return(r) \/ ResolveSandbox(r)
      BY <3>7, CallFields DEF Return, ResolveSandbox, tableVars
    <3>8. CASE Crash(r)
      BY <3>8, CallFields DEF Crash, Active
    <3> QED
      BY <1>1, <3>1, <3>2, <3>3, <3>4, <3>5, <3>6, <3>7, <3>8 DEF Initiate
  <2>2. ASSUME NEW q \in Requests \ {r} PROVE Follows(q)'
    <3>1. row'[q] = row[q] /\ pc'[q] = pc[q] /\ reply'[q] = reply[q]
      BY <1>1, OneCallMoves
    <3> QED
      BY <2>0, <3>1
  <2> QED
    BY <2>1, <2>2
<1>2. ASSUME NEW t \in Transitions, Transit(t) PROVE RowsFollowCalls'
  BY <1>2, OneTransitionMoves DEF initiateVars
<1>3. CASE (\E s \in Apps \X Keys : Expire(s)) \/ UNCHANGED vars
  BY <1>3 DEF Expire, vars, tableVars, initiateVars
<1> QED
  BY <1>1, <1>2, <1>3 DEF Next

(***************************************************************************)
(* Only an INSERT without rivals adds a row.                               *)
(***************************************************************************)
LEMMA StepRivals ==
  ASSUME IInv, [Next]_vars
  PROVE  RivalsExcluded'
<1> USE DEF IInv, TypeOK, RivalsExcluded
<1>1. ASSUME NEW r \in Requests, Insert(r) PROVE RivalsExcluded'
  BY <1>1 DEF Insert, Rivals, SameKey
<1>2. ASSUME NEW q \in Requests, ~Insert(q) PROVE row'[q] # "none" => row[q] # "none"
  <2>1. ASSUME NEW r \in Requests, Initiate(r) \/ Crash(r), r # q PROVE row'[q] = row[q]
    BY <2>1, OneCallMoves
  <2>2. CASE Initiate(q) \/ Crash(q)
    <3>1. CASE Commit(q) \/ ResolveSandbox(q) \/ Crash(q)
      BY <3>1 DEF Commit, ResolveSandbox, Crash, Goto, RowsFollowCalls, Durable, PaymentStatus
    <3>2. CASE ~(Commit(q) \/ ResolveSandbox(q) \/ Crash(q))
      BY <1>2, <2>2, <3>2
         DEF Initiate, CacheHit, CacheMiss, QuotaRefused, Consume, RefuseReference,
             AcceptReference, IntegrityError, DuplicateFound, Reraise, QuotaRollback,
             CacheResponse, Return, tableVars
    <3> QED
      BY <3>1, <3>2
  <2>3. ASSUME NEW t \in Transitions, Transit(t) PROVE row'[q] # "none" => row[q] # "none"
    BY <2>3, OneTransitionMoves
  <2>4. CASE (\E s \in Apps \X Keys : Expire(s)) \/ UNCHANGED vars
    BY <2>4 DEF Expire, vars, tableVars
  <2> QED
    BY <2>1, <2>2, <2>3, <2>4 DEF Next
<1> QED
  BY <1>1, <1>2 DEF SameKey

(***************************************************************************)
(* A call comes to "committing" by caching its response, leaves "received" *)
(* for good, and comes to "refunding" by finding its duplicate.            *)
(***************************************************************************)
LEMMA Places ==
  ASSUME TypeOK, [Next]_vars, NEW q \in Requests
  PROVE  /\ pc'[q] = "committing" => pc[q] = "committing" \/ CacheResponse(q)
         /\ pc'[q] = "received" => pc[q] = "received"
         /\ pc'[q] = "refunding" => \/ pc[q] = "refunding" /\ reply'[q] = reply[q]
                                    \/ DuplicateFound(q)
         /\ pc'[q] = "resolving" => pc[q] = "resolving" \/ Commit(q)
         /\ pc[q] = "replied" => pc'[q] = "replied" /\ reply'[q] = reply[q]
<1> USE DEF TypeOK, Goto, Active
<1>1. ASSUME NEW r \in Requests, Initiate(r) \/ Crash(r), r # q
      PROVE  pc'[q] = pc[q] /\ reply'[q] = reply[q]
  BY <1>1, OneCallMoves
<1>2. CASE CacheHit(q) \/ CacheMiss(q) \/ QuotaRefused(q) \/ Consume(q)
           \/ RefuseReference(q) \/ AcceptReference(q)
  BY <1>2 DEF CacheHit, CacheMiss, QuotaRefused, Consume, RefuseReference, AcceptReference
<1>3. CASE Insert(q) \/ IntegrityError(q) \/ DuplicateFound(q) \/ Reraise(q) \/ QuotaRollback(q)
  BY <1>3 DEF Insert, IntegrityError, DuplicateFound, Reraise, QuotaRollback
<1>4. CASE CacheResponse(q) \/ Commit(q) \/ Return(q) \/ ResolveSandbox(q) \/ Crash(q)
  BY <1>4 DEF CacheResponse, Commit, Return, ResolveSandbox, Crash
<1>5. CASE (\E t \in Transitions : Transit(t)) \/ (\E s \in Apps \X Keys : Expire(s)) \/ UNCHANGED vars
  BY <1>5 DEF Transit, Read, Write, Refund, TransitionCrash, Expire, vars, initiateVars
<1> QED
  BY <1>1, <1>2, <1>3, <1>4, <1>5 DEF Next, Initiate

(***************************************************************************)
(* What a step does to the cache.                                          *)
(***************************************************************************)
LEMMA CacheMoves ==
  ASSUME IInv, [Next]_vars
  PROVE  \/ UNCHANGED cache
         \/ \E s \in Apps \X Keys : Expire(s)
         \/ \E r \in Requests : CacheResponse(r)
BY OneCallMoves, OneTransitionMoves DEF IInv, Next, vars, tableVars

(***************************************************************************)
(* Between the cache write and the commit nobody else caches for the key.  *)
(***************************************************************************)
LEMMA StepCommitter ==
  ASSUME IInv, [Next]_vars
  PROVE  CommitterIsCached'
<1> USE DEF IInv, TypeOK
<1> SUFFICES ASSUME NEW q \in Requests, pc'[q] = "committing", q.key # NoKey
             PROVE  cache'[<<q.app, q.key>>] \in {Nobody, q}
  BY DEF CommitterIsCached
<1>0. <<q.app, q.key>> \in Apps \X Keys
  BY CallFields
<1>1. CASE CacheResponse(q)
  BY <1>0, <1>1 DEF CacheResponse
<1>2. CASE pc[q] = "committing"
  <2>0. cache[<<q.app, q.key>>] \in {Nobody, q} /\ row[q] = "flushed"
    BY <1>2 DEF CommitterIsCached, RowsFollowCalls
  <2>1. ASSUME NEW r \in Requests, CacheResponse(r)
        PROVE  cache'[<<q.app, q.key>>] = cache[<<q.app, q.key>>]
    <3>1. row[r] = "flushed" /\ r # q
      BY <1>2, <2>1 DEF CacheResponse, Goto, RowsFollowCalls
    <3>2. r.key # q.key
      BY <2>0, <3>1 DEF RivalsExcluded, SameKey
    <3> QED
      BY <1>0, <2>1, <3>2 DEF CacheResponse
  <2>2. ASSUME NEW s \in Apps \X Keys, Expire(s)
        PROVE  cache'[<<q.app, q.key>>] \in {Nobody, cache[<<q.app, q.key>>]}
    BY <1>0, <2>2 DEF Expire
  <2> QED
    BY <2>0, <2>1, <2>2, CacheMoves
<1> QED
  BY <1>1, <1>2, Places

(***************************************************************************)
(* A slot never holds a response that disagrees with the table.            *)
(***************************************************************************)
LEMMA StepCache ==
  ASSUME IInv, [Next]_vars
  PROVE  CacheHoldsSlot'
<1> USE DEF IInv, TypeOK
<1> SUFFICES ASSUME NEW s \in Apps \X Keys, cache'[s] # Nobody
             PROVE  HeldBy(s, cache[s])'
  BY DEF CacheHoldsSlot
<1>1. ASSUME NEW r \in Requests, CacheResponse(r), r.key # NoKey, s = <<r.app, r.key>>
      PROVE  HeldBy(s, cache[s])'
  <2>1. cache'[s] = r /\ pc'[r] # "received" /\ row' = row /\ row[r] = "flushed"
    BY <1>1 DEF CacheResponse, Goto, RowsFollowCalls
  <2>2. \A d \in Requests : Durable(d)' /\ <<d.app, d.key>> = s => d = r
    BY <1>1, <2>1 DEF RivalsExcluded, SameKey, Durable, PaymentStatus
  <2> QED
    BY <1>1, <2>1, <2>2 DEF HeldBy
<1>2. CASE cache'[s] = cache[s]
  <2> DEFINE m == cache[s]
  <2>1. m \in Requests /\ HeldBy(s, m)
    BY <1>2 DEF CacheHoldsSlot
  <2>2. pc'[m] # "received"
    BY <2>1, Places DEF HeldBy
  <2>3. ASSUME NEW d \in Requests, Durable(d)', <<d.app, d.key>> = s PROVE d = m
    <3>1. CASE Durable(d)
      BY <2>1, <2>3, <3>1 DEF HeldBy
    <3>2. CASE Commit(d)
      <4>1. d.key # NoKey
        BY <2>3, PaymentAssumption
      <4> QED
        BY <1>2, <2>1, <2>3, <3>2, <4>1 DEF Commit, Goto, CommitterIsCached
    <3> QED
      BY <2>3, <3>1, <3>2, DurableStays
  <2> QED
    BY <1>2, <2>1, <2>2, <2>3 DEF HeldBy
<1> QED
  BY <1>1, <1>2, CacheMoves DEF CacheResponse, Expire

(***************************************************************************)
(* A duplicate is fetched when it is committed, and stays.                 *)
(***************************************************************************)
LEMMA StepDuplicate ==
  ASSUME IInv, [Next]_vars
  PROVE  DuplicateIsCommitted'
<1> USE DEF IInv, TypeOK, DuplicateIsCommitted
<1> SUFFICES ASSUME NEW q \in Requests, pc'[q] = "refunding"
             PROVE  /\ reply'[q] \in Requests \ {q} /\ q.key # NoKey
                    /\ reply'[q].app = q.app /\ reply'[q].key = q.key
                    /\ Durable(reply[q])'
  BY DEF Durable
<1>1. CASE pc[q] = "refunding" /\ reply'[q] = reply[q]
  BY <1>1, DurableStays DEF Durable
<1>2. CASE DuplicateFound(q)
  <2>1. PICK m \in Refetched(q) : Answer(q, m)
    BY <1>2 DEF DuplicateFound
  <2>2. ~Durable(q) /\ UNCHANGED row
    BY <1>2 DEF DuplicateFound, Goto, RowsFollowCalls, tableVars
  <2>3. m \in Requests /\ Durable(m) /\ m.app = q.app /\ m.key = q.key /\ q.key # NoKey
        /\ reply'[q] = m
    BY <2>1 DEF Refetched, SameKey, Answer
  <2> QED
    BY <2>2, <2>3 DEF Durable
<1> QED
  BY <1>1, <1>2, Places

-----------------------------------------------------------------------------
(***************************************************************************)
(* A transition that has gone ahead has done so for good, on the status it *)
(* has read.                                                               *)
(***************************************************************************)
LEMMA GoneAhead ==
  ASSUME IInv, [Next]_vars, NEW t \in Transitions
  PROVE  /\ WentAhead(t) => WentAhead(t)' /\ seen'[t] = seen[t]
         /\ WentAhead(t)' => WentAhead(t) \/ Read(t)
         /\ step'[t] = "validated" => step[t] = "validated" \/ Read(t)
         /\ step'[t] = "refunding" => step[t] = "refunding" \/ Write(t)
         /\ step'[t] = "done" => step[t] \in {"refunding", "done"} \/ Write(t)
         /\ step'[t] # "called" => step[t] # "called" \/ Read(t)
<1> USE DEF IInv, TypeOK, WentAhead, Advance
<1>1. ASSUME NEW u \in Transitions, Transit(u), u # t PROVE step'[t] = step[t] /\ seen'[t] = seen[t]
  BY <1>1, OneTransitionMoves
<1>2. CASE Transit(t)
  BY <1>2 DEF Transit, Read, Write, Refund, TransitionCrash
<1>3. ASSUME NEW r \in Requests, Initiate(r) \/ Crash(r) PROVE UNCHANGED transitionVars
  BY <1>3, OneCallMoves
<1>4. CASE (\E s \in Apps \X Keys : Expire(s)) \/ UNCHANGED vars
  BY <1>4 DEF Expire, vars, transitionVars
<1> QED
  BY <1>1, <1>2, <1>3, <1>4 DEF Next, transitionVars

(***************************************************************************)
(* Contested payments stay contested.                                      *)
(***************************************************************************)
LEMMA ContestedStays ==
  ASSUME IInv, [Next]_vars, NEW r \in Requests, Contested(r)
  PROVE  Contested(r)'
<1>1. PICK t \in Transitions, u \in Transitions :
        /\ t # u /\ t.payment = r /\ u.payment = r /\ WentAhead(t) /\ WentAhead(u)
        /\ seen[t] = seen[u]
  BY DEF Contested
<1>2. WentAhead(t)' /\ WentAhead(u)' /\ seen'[t] = seen'[u]
  BY <1>1, GoneAhead
<1> QED
  BY <1>1, <1>2 DEF Contested

(***************************************************************************)
(* The status of a committed payment is written by its own call, if that   *)
(* is a sandbox call, and by its transitions, and by nobody else.          *)
(***************************************************************************)
LEMMA StatusMoves ==
  ASSUME IInv, [Next]_vars, NEW q \in Requests, Durable(q)
  PROVE  \/ row'[q] = row[q]
         \/ ResolveSandbox(q)
         \/ \E u \in Transitions : Write(u) /\ u.payment = q
<1> USE DEF IInv, TypeOK
<1>1. ASSUME NEW r \in Requests, Initiate(r) \/ Crash(r), r # q PROVE row'[q] = row[q]
  BY <1>1, OneCallMoves
<1>2. CASE CacheHit(q) \/ CacheMiss(q) \/ QuotaRefused(q) \/ Consume(q)
           \/ RefuseReference(q) \/ AcceptReference(q) \/ Return(q)
  BY <1>2 DEF CacheHit, CacheMiss, QuotaRefused, Consume, RefuseReference, AcceptReference,
              Return, tableVars
<1>3. CASE IntegrityError(q) \/ DuplicateFound(q) \/ Reraise(q) \/ QuotaRollback(q)
           \/ CacheResponse(q)
  BY <1>3 DEF IntegrityError, DuplicateFound, Reraise, QuotaRollback, CacheResponse, tableVars
<1>4. CASE Insert(q) \/ Commit(q) \/ Crash(q)
  BY <1>4 DEF Insert, Commit, Crash, Goto, RowsFollowCalls, Durable, PaymentStatus
<1>5. ASSUME NEW u \in Transitions, Transit(u), u.payment # q PROVE row'[q] = row[q]
  BY <1>5, OneTransitionMoves
<1>6. ASSUME NEW u \in Transitions, Transit(u), u.payment = q PROVE UNCHANGED row \/ Write(u)
  BY <1>6, OneTransitionMoves
<1>7. CASE (\E s \in Apps \X Keys : Expire(s)) \/ UNCHANGED vars
  BY <1>7 DEF Expire, vars, tableVars
<1> QED
  BY <1>1, <1>2, <1>3, <1>4, <1>5, <1>6, <1>7 DEF Next, Initiate

(***************************************************************************)
(* A transition finds a committed payment, and goes ahead from a status    *)
(* that it may leave.                                                      *)
(***************************************************************************)
LEMMA StepReads ==
  ASSUME IInv, [Next]_vars
  PROVE  ReadsFound'
<1> USE DEF IInv, TypeOK, ReadsFound
<1> SUFFICES ASSUME NEW t \in Transitions
             PROVE  /\ step'[t] # "called" => Durable(t.payment)'
                    /\ WentAhead(t)' => seen'[t] = Expected[t.verb] /\ seen'[t] \notin Terminal
                    /\ step'[t] = "refunding" => t.verb = "failed"
  OBVIOUS
<1>1. CASE Read(t)
  BY <1>1, TransitionFields DEF Read, Advance, Durable, Legal, WentAhead, tableVars
<1>2. CASE ~Read(t)
  <2>1. step'[t] # "called" => Durable(t.payment)'
    BY <1>2, GoneAhead, DurableStays, TransitionFields
  <2>2. WentAhead(t)' => seen'[t] = Expected[t.verb] /\ seen'[t] \notin Terminal
    BY <1>2, GoneAhead
  <2>3. step'[t] = "refunding" => t.verb = "failed"
    BY <1>2, GoneAhead DEF Write, Advance
  <2> QED
    BY <2>1, <2>2, <2>3
<1> QED
  BY <1>1, <1>2

(***************************************************************************)
(* What a transition has read still stands when it writes, unless another  *)
(* has read the same or a sandbox call has written its outcome.            *)
(***************************************************************************)
LEMMA StepSeen ==
  ASSUME IInv, [Next]_vars
  PROVE  SeenStands'
<1> USE DEF IInv, TypeOK
<1> SUFFICES ASSUME NEW t \in Transitions, step'[t] = "validated"
             PROVE  \/ row'[t.payment] = seen'[t]
                    \/ Contested(t.payment)'
                    \/ ~t.payment.live /\ pc'[t.payment] = "replied"
  BY DEF SeenStands
<1> DEFINE p == t.payment
<1>0. p \in Requests
  BY TransitionFields
<1>1. CASE Read(t)
  BY <1>1 DEF Read, tableVars
<1>2. CASE step[t] = "validated"
  <2>0. WentAhead(t) /\ seen'[t] = seen[t] /\ Durable(p)
    BY <1>2, GoneAhead DEF WentAhead, ReadsFound
  <2>1. CASE Contested(p)
    BY <1>0, <2>1, ContestedStays
  <2>2. CASE ~p.live /\ pc[p] = "replied"
    BY <1>0, <2>2, Places
  <2>3. CASE row[p] = seen[t] /\ row'[p] = row[p]
    BY <2>0, <2>3
  <2>4. CASE ResolveSandbox(p)
    BY <1>0, <2>4 DEF ResolveSandbox, Goto, RowsFollowCalls
  <2>5. ASSUME row[p] = seen[t], NEW u \in Transitions, Write(u), u.payment = p,
               ~Contested(p), ~(~p.live /\ pc[p] = "replied")
        PROVE  FALSE
    <3>1. step[u] = "validated" /\ WentAhead(u) /\ u # t
      <4>1. step[u] = "validated" /\ step'[u] # "validated"
        BY <2>5 DEF Write, Advance
      <4> QED
        BY <4>1 DEF WentAhead
    <3>2. row[p] = seen[u]
      BY <2>5, <3>1 DEF SeenStands
    <3> QED
      BY <2>0, <2>5, <3>1, <3>2 DEF Contested
  <2> QED
    BY <1>0, <1>2, <2>0, <2>1, <2>2, <2>3, <2>4, <2>5, StatusMoves DEF SeenStands
<1> QED
  BY <1>1, <1>2, GoneAhead

(***************************************************************************)
(* A live payment that failed stays failed.                                *)
(***************************************************************************)
LEMMA StepFailure ==
  ASSUME IInv, [Next]_vars
  PROVE  FailureStands'
<1> USE DEF IInv, TypeOK
<1> SUFFICES ASSUME NEW t \in Transitions, t.verb = "failed",
                    step'[t] \in {"refunding", "done"}, t.payment.live
             PROVE  row'[t.payment] = "FAILED" \/ Contested(t.payment)'
  BY DEF FailureStands
<1> DEFINE p == t.payment
<1>0. p \in Requests
  BY TransitionFields
<1>1. CASE Write(t)
  BY <1>0, <1>1, TransitionFields DEF Write
<1>2. CASE step[t] \in {"refunding", "done"}
  <2>0. Durable(p) /\ (row[p] = "FAILED" \/ Contested(p))
    BY <1>2 DEF ReadsFound, FailureStands
  <2>1. CASE Contested(p)
    BY <1>0, <2>1, ContestedStays
  <2>2. ~ResolveSandbox(p)
    BY <1>0 DEF ResolveSandbox, Goto, RowsFollowCalls
  <2>3. ASSUME row[p] = "FAILED", ~Contested(p), NEW u \in Transitions, Write(u), u.payment = p
        PROVE  FALSE
    <3>1. row[p] = seen[u]
      BY <2>3 DEF Write, Advance, SeenStands
    <3>2. seen[u] \notin Terminal
      BY <2>3 DEF Write, Advance, ReadsFound, WentAhead
    <3> QED
      BY <2>3, <3>1, <3>2 DEF Terminal
  <2> QED
    BY <1>0, <2>0, <2>1, <2>2, <2>3, StatusMoves
<1> QED
  BY <1>1, <1>2, GoneAhead

(***************************************************************************)
(* A sandbox call overwrites a status that no transition has written, or   *)
(* one has.                                                                *)
(***************************************************************************)
LEMMA StepResolves ==
  ASSUME IInv, [Next]_vars
  PROVE  ResolvesInitiated'
<1> USE DEF IInv, TypeOK
<1> SUFFICES ASSUME NEW r \in Requests, pc'[r] = "resolving"
             PROVE  \/ row'[r] = "INITIATED"
                    \/ \E t \in Transitions : t.payment = r /\ WentAhead(t)'
  BY DEF ResolvesInitiated
<1>1. CASE Commit(r)
  BY <1>1 DEF Commit
<1>2. CASE pc[r] = "resolving"
  <2>1. Durable(r) /\ ~ResolveSandbox(r)
    BY <1>2 DEF RowsFollowCalls, ResolveSandbox, Goto
  <2>2. ASSUME NEW u \in Transitions, Write(u), u.payment = r
        PROVE  \E t \in Transitions : t.payment = r /\ WentAhead(t)'
    BY <2>2, GoneAhead DEF Write, Advance, WentAhead
  <2>3. ASSUME NEW t \in Transitions, WentAhead(t) PROVE WentAhead(t)'
    BY <2>3, GoneAhead
  <2> QED
    BY <1>2, <2>1, <2>2, <2>3, StatusMoves DEF ResolvesInitiated
<1> QED
  BY <1>1, <1>2, Places

-----------------------------------------------------------------------------
(***************************************************************************)
(* At most one call or one transition begins at a time.                    *)
(***************************************************************************)
LEMMA StepFinite ==
  ASSUME IInv, [Next]_vars
  PROVE  FinitelyManyBegan'
<1> USE DEF IInv, TypeOK
<1> DEFINE Calls == {r \in Requests : pc[r] # "received"}
           Moves == {t \in Transitions : step[t] # "called"}
<1>0. IsFiniteSet(Calls) /\ IsFiniteSet(Moves)
  BY DEF FinitelyManyBegan
<1>1. ASSUME NEW r \in Requests, Initiate(r) \/ Crash(r) PROVE FinitelyManyBegan'
  <2>1. Calls' \subseteq Calls \cup {r} /\ Moves' = Moves
    BY <1>1, OneCallMoves DEF transitionVars
  <2>2. IsFiniteSet(Calls \cup {r})
    BY <1>0, FS_AddElement
  <2>3. IsFiniteSet(Calls')
    BY <2>1, <2>2, FS_Subset
  <2> QED
    BY <1>0, <2>1, <2>3 DEF FinitelyManyBegan
<1>2. ASSUME NEW t \in Transitions, Transit(t) PROVE FinitelyManyBegan'
  <2>1. Moves' \subseteq Moves \cup {t} /\ Calls' = Calls
    BY <1>2, OneTransitionMoves DEF initiateVars
  <2>2. IsFiniteSet(Moves \cup {t})
    BY <1>0, FS_AddElement
  <2>3. IsFiniteSet(Moves')
    BY <2>1, <2>2, FS_Subset
  <2> QED
    BY <1>0, <2>1, <2>3 DEF FinitelyManyBegan
<1>3. CASE (\E s \in Apps \X Keys : Expire(s)) \/ UNCHANGED vars
  BY <1>0, <1>3 DEF FinitelyManyBegan, Expire, vars, initiateVars, transitionVars
<1> QED
  BY <1>1, <1>2, <1>3 DEF Next

(***************************************************************************)
(* The three sets that are counted are finite.                             *)
(***************************************************************************)
LEMMA CountedSets ==
  ASSUME IInv, NEW a \in Apps
  PROVE  /\ IsFiniteSet(Holders(a)) /\ IsFiniteSet(SandboxRefunds(a))
         /\ IsFiniteSet(FailureRefunds(a))
         /\ Cardinality(Holders(a)) \in Nat /\ Cardinality(SandboxRefunds(a)) \in Nat
         /\ Cardinality(FailureRefunds(a)) \in Nat
<1>1. /\ Holders(a) \subseteq {r \in Requests : pc[r] # "received"}
      /\ SandboxRefunds(a) \subseteq {r \in Requests : pc[r] # "received"}
      /\ FailureRefunds(a) \subseteq {t \in Transitions : step[t] # "called"}
  BY DEF IInv, RowsFollowCalls, Holders, SandboxRefunds, FailureRefunds
<1>2. IsFiniteSet(Holders(a)) /\ IsFiniteSet(SandboxRefunds(a)) /\ IsFiniteSet(FailureRefunds(a))
  BY <1>1, FS_Subset DEF IInv, FinitelyManyBegan
<1> QED
  BY <1>2, FS_CardinalityType

(***************************************************************************)
(* A call comes to hold a unit by consuming it.                            *)
(***************************************************************************)
LEMMA HoldersStay ==
  ASSUME IInv, [Next]_vars, NEW a \in Apps, NEW q \in Holders(a)'
  PROVE  q \in Holders(a) \/ Consume(q)
<1> USE DEF IInv, TypeOK, Goto, Holders
<1> DEFINE Underway == {"checking", "writing", "refetching", "refunding", "caching", "committing"}
<1>0. q \in Requests /\ q.app = a /\ q.live
  OBVIOUS
<1>1. CASE Durable(q)'
  BY <1>0, <1>1, DurableStays DEF Commit
<1>2. CASE pc'[q] \in Underway
  <2>1. ASSUME NEW r \in Requests, Initiate(r) \/ Crash(r), r # q PROVE pc'[q] = pc[q]
    BY <1>0, <2>1, OneCallMoves
  <2>2. CASE CacheHit(q) \/ CacheMiss(q) \/ QuotaRefused(q) \/ RefuseReference(q)
             \/ AcceptReference(q) \/ Insert(q) \/ IntegrityError(q)
    BY <1>0, <1>2, <2>2 DEF CacheHit, CacheMiss, QuotaRefused, RefuseReference, AcceptReference,
                            Insert, IntegrityError
  <2>3. CASE DuplicateFound(q) \/ Reraise(q) \/ QuotaRollback(q) \/ CacheResponse(q) \/ Commit(q)
             \/ Return(q) \/ ResolveSandbox(q) \/ Crash(q)
    BY <1>0, <1>2, <2>3 DEF DuplicateFound, Reraise, QuotaRollback, CacheResponse, Commit,
                            Return, ResolveSandbox, Crash
  <2>4. CASE (\E t \in Transitions : Transit(t)) \/ (\E s \in Apps \X Keys : Expire(s))
             \/ UNCHANGED vars
    BY <1>0, <1>2, <2>4, OneTransitionMoves DEF Expire, vars, initiateVars
  <2> QED
    BY <1>0, <1>2, <2>1, <2>2, <2>3, <2>4 DEF Next, Initiate
<1> QED
  BY <1>1, <1>2

(***************************************************************************)
(* A refund that was made stays made.                                      *)
(***************************************************************************)
LEMMA RefundsStay ==
  ASSUME IInv, [Next]_vars, NEW a \in Apps
  PROVE  /\ SandboxRefunds(a) \subseteq SandboxRefunds(a)'
         /\ FailureRefunds(a) \subseteq FailureRefunds(a)'
<1> USE DEF IInv, TypeOK
<1>1. SandboxRefunds(a) \subseteq SandboxRefunds(a)'
  BY Places DEF SandboxRefunds
<1>2. ASSUME NEW t \in Transitions, step[t] = "done" PROVE step'[t] = "done"
  <2>1. CASE Transit(t)
    BY <1>2, <2>1 DEF Transit, Read, Write, Refund, TransitionCrash, Advance
  <2>2. ASSUME NEW u \in Transitions, Transit(u), u # t PROVE step'[t] = step[t]
    BY <2>2, OneTransitionMoves
  <2>3. ASSUME NEW r \in Requests, Initiate(r) \/ Crash(r) PROVE UNCHANGED transitionVars
    BY <2>3, OneCallMoves
  <2>4. CASE (\E s \in Apps \X Keys : Expire(s)) \/ UNCHANGED vars
    BY <1>2, <2>4 DEF Expire, vars, transitionVars
  <2> QED
    BY <1>2, <2>1, <2>2, <2>3, <2>4 DEF Next, transitionVars
<1> QED
  BY <1>1, <1>2 DEF FailureRefunds

(***************************************************************************)
(* A unit moves in one of three steps.                                     *)
(***************************************************************************)
LEMMA QuotaMoves ==
  ASSUME [Next]_vars
  PROVE  \/ UNCHANGED quota
         \/ \E r \in Requests : Consume(r) \/ QuotaRollback(r)
         \/ \E t \in Transitions : Refund(t)
<1> USE DEF tableVars
<1>1. ASSUME NEW r \in Requests, Initiate(r) \/ Crash(r), ~(Consume(r) \/ QuotaRollback(r))
      PROVE  UNCHANGED quota
  BY <1>1 DEF Initiate, CacheHit, CacheMiss, QuotaRefused, RefuseReference, AcceptReference,
              Insert, IntegrityError, DuplicateFound, Reraise, CacheResponse, Commit, Return,
              ResolveSandbox, Crash
<1> QED
  BY <1>1 DEF Next, Transit, Read, Write, TransitionCrash, Expire, vars

(***************************************************************************)
(* The counter keeps up with the units that are held.                      *)
(***************************************************************************)
LEMMA StepUnits ==
  ASSUME IInv, [Next]_vars
  PROVE  UnitsHeld'
<1> USE DEF IInv, TypeOK
<1> SUFFICES ASSUME NEW a \in Apps
             PROVE  Cardinality(Holders(a)')
                      <= quota'[a] + Cardinality(SandboxRefunds(a)')
                                   + Cardinality(FailureRefunds(a)')
  BY DEF UnitsHeld
<1> DEFINE H == Holders(a)
           S == SandboxRefunds(a)
           F == FailureRefunds(a)
<1>1. /\ IsFiniteSet(H) /\ Cardinality(H) \in Nat
      /\ IsFiniteSet(S) /\ Cardinality(S) \in Nat
      /\ IsFiniteSet(F) /\ Cardinality(F) \in Nat
      /\ quota[a] \in Int
      /\ Cardinality(H) <= quota[a] + Cardinality(S) + Cardinality(F)
  BY CountedSets DEF UnitsHeld
<1>2. /\ IsFiniteSet(S') /\ Cardinality(S') \in Nat /\ Cardinality(S) <= Cardinality(S')
      /\ IsFiniteSet(F') /\ Cardinality(F') \in Nat /\ Cardinality(F) <= Cardinality(F')
      /\ quota'[a] \in Int
  <2>1. S \subseteq S' /\ F \subseteq F'
    BY RefundsStay
  <2>2. TypeOK' /\ RowsFollowCalls' /\ FinitelyManyBegan'
    BY StepTypes, StepCalls, StepFinite
  <2>3. S' \subseteq {r \in Requests : pc'[r] # "received"}
        /\ F' \subseteq {t \in Transitions : step'[t] # "called"}
    BY DEF SandboxRefunds, FailureRefunds
  <2>4. IsFiniteSet(S') /\ IsFiniteSet(F')
    BY <2>2, <2>3, FS_Subset DEF FinitelyManyBegan
  <2> QED
    BY <2>1, <2>2, <2>4, FS_Subset, FS_CardinalityType
<1> HIDE DEF H, S, F
<1>3. ASSUME H' \subseteq H, quota'[a] = quota[a]
      PROVE  Cardinality(H') <= quota'[a] + Cardinality(S') + Cardinality(F')
  <2>1. Cardinality(H') \in Nat /\ Cardinality(H') <= Cardinality(H)
    BY <1>1, <1>3, FS_Subset, FS_CardinalityType
  <2> QED
    BY <1>1, <1>2, <1>3, <2>1
<1>4. ASSUME NEW r \in Requests, Consume(r)
      PROVE  Cardinality(H') <= quota'[a] + Cardinality(S') + Cardinality(F')
  <2>1. H' \subseteq H \cup {r}
    BY <1>4, HoldersStay, OneCallMoves DEF H, Initiate, Consume, Goto
  <2>2. CASE r \in H' /\ r \notin H
    <3>1. r.live /\ r.app = a
      BY <2>2 DEF H, Holders
    <3>2. quota'[a] = quota[a] + 1
      BY <1>4, <3>1 DEF Consume, AddUnits
    <3>3. IsFiniteSet(H \cup {r}) /\ Cardinality(H \cup {r}) = Cardinality(H) + 1
      BY <1>1, <2>2, FS_AddElement
    <3>4. Cardinality(H') \in Nat /\ Cardinality(H') <= Cardinality(H \cup {r})
      BY <2>1, <3>3, FS_Subset, FS_CardinalityType
    <3> QED
      BY <1>1, <1>2, <3>2, <3>3, <3>4
  <2>3. CASE ~(r \in H' /\ r \notin H)
    <3>1. Cardinality(H') \in Nat /\ Cardinality(H') <= Cardinality(H)
      BY <1>1, <2>1, <2>3, FS_Subset, FS_CardinalityType
    <3>2. quota'[a] \in {quota[a], quota[a] + 1}
      BY <1>4 DEF Consume, AddUnits
    <3> QED
      BY <1>1, <1>2, <3>1, <3>2
  <2> QED
    BY <2>2, <2>3
<1>5. ASSUME NEW r \in Requests, QuotaRollback(r)
      PROVE  Cardinality(H') <= quota'[a] + Cardinality(S') + Cardinality(F')
  <2>0. /\ pc[r] = "refunding" /\ pc'[r] = "replied" /\ row'[r] = row[r] /\ ~Durable(r)
        /\ reply'[r] = reply[r] /\ reply[r] # r
    BY <1>5 DEF QuotaRollback, Goto, RowsFollowCalls
  <2>1. H' \subseteq H
    BY <1>5, HoldersStay DEF H, QuotaRollback, Consume, Goto
  <2>2. CASE r.app # a
    <3>1. quota'[a] = quota[a]
      <4>1. AddUnits(r.app, -1) /\ r.app \in Apps
        BY <1>5, CallFields DEF QuotaRollback
      <4> QED
        BY <2>2, <4>1, OneCounterMoves
    <3> QED
      BY <1>3, <2>1, <3>1
  <2>3. CASE r.app = a
    <3>1. quota'[a] = quota[a] + (-1)
      <4>1. AddUnits(a, -1)
        BY <1>5, <2>3 DEF QuotaRollback
      <4> QED
        BY <4>1, OneCounterMoves
    <3>2. CASE r.live
      <4>1. r \in H /\ r \notin H'
        BY <2>0, <2>3, <3>2 DEF H, Holders, Durable
      <4>2. IsFiniteSet(H \ {r}) /\ Cardinality(H \ {r}) = Cardinality(H) - 1
        BY <1>1, <4>1, FS_RemoveElement
      <4>3. Cardinality(H') \in Nat /\ Cardinality(H') <= Cardinality(H \ {r})
        BY <2>1, <4>1, <4>2, FS_Subset, FS_CardinalityType
      <4> QED
        BY <1>1, <1>2, <3>1, <4>2, <4>3
    <3>3. CASE ~r.live
      <4>1. r \in S' /\ r \notin S /\ S \subseteq S'
        BY <2>0, <2>3, <3>3, RefundsStay DEF S, SandboxRefunds
      <4>2. IsFiniteSet(S \cup {r}) /\ Cardinality(S \cup {r}) = Cardinality(S) + 1
        BY <1>1, <4>1, FS_AddElement
      <4>3. Cardinality(S \cup {r}) <= Cardinality(S')
        BY <1>2, <4>1, FS_Subset
      <4>4. Cardinality(H') \in Nat /\ Cardinality(H') <= Cardinality(H)
        BY <1>1, <2>1, FS_Subset, FS_CardinalityType
      <4> QED
        BY <1>1, <1>2, <3>1, <4>2, <4>3, <4>4
    <3> QED
      BY <3>2, <3>3
  <2> QED
    BY <2>2, <2>3
<1>6. ASSUME NEW t \in Transitions, Refund(t)
      PROVE  Cardinality(H') <= quota'[a] + Cardinality(S') + Cardinality(F')
  <2>0. /\ step[t] = "refunding" /\ step'[t] = "done" /\ t.verb = "failed"
        /\ t.payment.app \in Apps
    BY <1>6, TransitionFields, CallFields DEF Refund, Advance, ReadsFound
  <2>1. H' \subseteq H
    <3>1. \A q \in Requests : pc'[q] = pc[q]
      BY <1>6 DEF Refund, initiateVars
    <3> QED
      BY <3>1, HoldersStay DEF H, Holders, Consume, Goto
  <2>2. CASE t.payment.app # a
    <3>1. quota'[a] = quota[a]
      <4>1. AddUnits(t.payment.app, -1)
        BY <1>6 DEF Refund
      <4> QED
        BY <2>0, <2>2, <4>1, OneCounterMoves
    <3> QED
      BY <1>3, <2>1, <3>1
  <2>3. CASE t.payment.app = a
    <3>1. quota'[a] = quota[a] + (-1)
      <4>1. AddUnits(a, -1)
        BY <1>6, <2>3 DEF Refund
      <4> QED
        BY <4>1, OneCounterMoves
    <3>2. t \in F' /\ t \notin F /\ F \subseteq F'
      BY <2>0, <2>3, RefundsStay DEF F, FailureRefunds
    <3>3. IsFiniteSet(F \cup {t}) /\ Cardinality(F \cup {t}) = Cardinality(F) + 1
      BY <1>1, <3>2, FS_AddElement
    <3>4. Cardinality(F \cup {t}) <= Cardinality(F')
      BY <1>2, <3>2, FS_Subset
    <3>5. Cardinality(H') \in Nat /\ Cardinality(H') <= Cardinality(H)
      BY <1>1, <2>1, FS_Subset, FS_CardinalityType
    <3> QED
      BY <1>1, <1>2, <3>1, <3>3, <3>4, <3>5
  <2> QED
    BY <2>2, <2>3
<1>7. CASE UNCHANGED quota /\ \A r \in Requests : ~Consume(r)
  <2>1. H' \subseteq H
    BY <1>7, HoldersStay DEF H, Holders
  <2> QED
    BY <1>3, <1>7, <2>1 DEF H, S, F
<1> QED
  BY <1>4, <1>5, <1>6, <1>7, QuotaMoves DEF H, S, F

-----------------------------------------------------------------------------
(***************************************************************************)
(* IInv is inductive.                                                      *)
(***************************************************************************)
LEMMA InitIInv == Init => IInv
<1> SUFFICES ASSUME Init PROVE IInv
  OBVIOUS
<1> USE DEF Init
<1>1. TypeOK
  BY DEF TypeOK
<1>2. FinitelyManyBegan
  <2>1. {r \in Requests : pc[r] # "received"} = {} /\ {t \in Transitions : step[t] # "called"} = {}
    OBVIOUS
  <2> QED
    BY <2>1, FS_EmptySet DEF FinitelyManyBegan
<1>3. UnitsHeld
  <2> SUFFICES ASSUME NEW a \in Apps
               PROVE  Cardinality(Holders(a))
                        <= quota[a] + Cardinality(SandboxRefunds(a)) + Cardinality(FailureRefunds(a))
    BY DEF UnitsHeld
  <2>1. Holders(a) = {} /\ SandboxRefunds(a) = {} /\ FailureRefunds(a) = {}
    BY DEF Holders, SandboxRefunds, FailureRefunds, Durable, PaymentStatus
  <2>2. Cardinality({}) = 0 /\ quota[a] = 0
    BY FS_EmptySet
  <2> QED
    BY <2>1, <2>2
<1>4. RowsFollowCalls /\ RivalsExcluded /\ CommitterIsCached /\ CacheHoldsSlot /\ DuplicateIsCommitted
  BY CallFields
     DEF RowsFollowCalls, RivalsExcluded, CommitterIsCached, CacheHoldsSlot,
         DuplicateIsCommitted, Durable, PaymentStatus
<1>5. ReadsFound /\ SeenStands /\ FailureStands /\ ResolvesInitiated
  BY DEF ReadsFound, SeenStands, FailureStands, ResolvesInitiated, WentAhead
<1> QED
  BY <1>1, <1>2, <1>3, <1>4, <1>5 DEF IInv

LEMMA Inductive == Spec => []IInv
<1>1. IInv /\ [Next]_vars => IInv'
  BY StepTypes, StepCalls, StepRivals, StepCommitter, StepCache, StepDuplicate, StepReads,
     StepSeen, StepFailure, StepResolves, StepUnits, StepFinite DEF IInv
<1> QED
  BY InitIInv, <1>1, PTL DEF Spec

(***************************************************************************)
(* Two committed payments have different references, although both calls   *)
(* may have found the reference free.                                      *)
(***************************************************************************)
THEOREM ReferencePaidOnce == Spec => []OnePaymentPerReference
<1>1. IInv => OnePaymentPerReference
  BY DEF IInv, RivalsExcluded, OnePaymentPerReference, Durable, PaymentStatus
<1> QED
  BY <1>1, Inductive, PTL

(***************************************************************************)
(* A terminal status is final unless the writers of the payment overlap.   *)
(***************************************************************************)
THEOREM SettledForGood == Spec => SettledUnlessOverlapped
<1> DEFINE Settled ==
      \A r \in Requests :
        row[r] \in Terminal /\ ~Overlapped(r)'
          => row'[r] = row[r] \/ (row[r] = "COMPLETED" /\ row'[r] = "REVERSED")
<1>1. IInv /\ [Next]_vars => [Settled]_vars
  <2> SUFFICES ASSUME IInv, [Next]_vars, NEW r \in Requests, row[r] \in Terminal, ~Overlapped(r)'
               PROVE  row'[r] = row[r]
    OBVIOUS
  <2> USE DEF IInv, TypeOK
  <2>1. Durable(r) /\ ~Contested(r)
    <3>1. ~Contested(r)'
      BY DEF Overlapped, Contested
    <3> QED
      BY <3>1, ContestedStays DEF Durable, Terminal, PaymentStatus
  <2>2. ~ResolveSandbox(r)
    <3> SUFFICES ASSUME ResolveSandbox(r) PROVE FALSE
      OBVIOUS
    <3>1. pc[r] = "resolving" /\ pc'[r] = "replied" /\ ~r.live
      BY DEF ResolveSandbox, Goto, RowsFollowCalls
    <3>2. PICK t \in Transitions : t.payment = r /\ WentAhead(t)
      BY <3>1 DEF ResolvesInitiated, Terminal
    <3>3. WentAhead(t)'
      BY <3>2, GoneAhead
    <3> QED
      BY <3>1, <3>2, <3>3 DEF Overlapped
  <2>3. ASSUME NEW u \in Transitions, Write(u), u.payment = r PROVE FALSE
    <3>1. step[u] = "validated" /\ WentAhead(u) /\ WentAhead(u)'
      BY <2>3, GoneAhead DEF Write, Advance, WentAhead
    <3>2. pc'[r] = pc[r]
      BY <2>3 DEF Write, initiateVars
    <3>3. ~(~r.live /\ pc[r] = "replied")
      BY <2>3, <3>1, <3>2 DEF Overlapped
    <3>4. row[r] = seen[u] /\ seen[u] \notin Terminal
      BY <2>1, <2>3, <3>1, <3>3 DEF SeenStands, ReadsFound
    <3> QED
      BY <3>4
  <2> QED
    BY <2>1, <2>2, <2>3, StatusMoves
<1> QED
  BY <1>1, Inductive, PTL DEF Spec, SettledUnlessOverlapped

\* Refunds that a failure stands behind, and the failures.
EarnedRefunds(a) == FailureRefunds(a) \ UnearnedRefunds(a)

FailedPayments(a) == {r \in Requests : r.app = a /\ r.live /\ row[r] = "FAILED"}

(***************************************************************************)
(* A live payment that was refunded without a competitor has failed, and   *)
(* was refunded once.                                                      *)
(***************************************************************************)
LEMMA EarnedOnce ==
  ASSUME IInv, NEW a \in Apps
  PROVE  /\ IsFiniteSet(EarnedRefunds(a)) /\ IsFiniteSet(FailedPayments(a))
         /\ Cardinality(EarnedRefunds(a)) <= Cardinality(FailedPayments(a))
<1> DEFINE E == EarnedRefunds(a)
           P == FailedPayments(a)
           f == [t \in E |-> t.payment]
<1>1. IsFiniteSet(P)
  <2>1. P \subseteq Holders(a)
    BY DEF FailedPayments, Holders, Durable, PaymentStatus
  <2> QED
    BY <2>1, CountedSets, FS_Subset
<1>2. ASSUME NEW t \in E
      PROVE  t.payment \in P /\ t \in Transitions /\ WentAhead(t) /\ ~Overlapped(t.payment)
             /\ seen[t] = "PENDING"
  <2>1. /\ t \in Transitions /\ t.payment.app = a /\ t.verb = "failed" /\ step[t] = "done"
        /\ t.payment.live /\ ~Overlapped(t.payment)
    BY CallFields, TransitionFields DEF EarnedRefunds, FailureRefunds, UnearnedRefunds
  <2>2. ~Contested(t.payment)
    BY <2>1 DEF Overlapped, Contested
  <2>3. row[t.payment] = "FAILED"
    BY <2>1, <2>2 DEF IInv, FailureStands
  <2>4. WentAhead(t) /\ seen[t] = "PENDING"
    BY <2>1, TransitionFields DEF IInv, ReadsFound, WentAhead
  <2> QED
    BY <2>1, <2>3, <2>4, TransitionFields DEF FailedPayments
<1>3. f \in Injection(E, P)
  <2>1. \A t, u \in E : t.payment = u.payment => t = u
    BY <1>2 DEF Overlapped
  <2>2. f \in [E -> P]
    BY <1>2
  <2> QED
    BY <2>1, <2>2 DEF Injection, IsInjective
<1> HIDE DEF E, P, f
<1> QED
  BY <1>1, <1>3, FS_Injection DEF E, P

(***************************************************************************)
(* Every live payment that did not fail is paid for, up to the exceptions  *)
(* that PaymentsPaid names.                                                *)
(***************************************************************************)
THEOREM LivePaymentsPaid == Spec => []PaymentsPaid
<1>1. IInv => PaymentsPaid
  <2> SUFFICES ASSUME IInv, NEW a \in Apps
               PROVE  Cardinality(Billable(a))
                        <= quota[a] + Cardinality(SandboxDuplicates(a))
                                    + Cardinality(UnearnedRefunds(a))
    BY DEF PaymentsPaid
  <2> DEFINE B == Billable(a)
             P == FailedPayments(a)
             H == Holders(a)
             S == SandboxRefunds(a)
             D == SandboxDuplicates(a)
             F == FailureRefunds(a)
             U == UnearnedRefunds(a)
             E == EarnedRefunds(a)
  <2>0. /\ IsFiniteSet(H) /\ IsFiniteSet(S) /\ IsFiniteSet(F)
        /\ IsFiniteSet(E) /\ IsFiniteSet(P) /\ Cardinality(E) <= Cardinality(P)
        /\ Cardinality(H) <= quota[a] + Cardinality(S) + Cardinality(F)
        /\ quota[a] \in Int
    BY CountedSets, EarnedOnce DEF IInv, UnitsHeld, TypeOK
  <2>1. IsFiniteSet(D) /\ Cardinality(S) <= Cardinality(D)
    <3>1. S \subseteq D
      BY DEF SandboxRefunds, SandboxDuplicates, IInv, RowsFollowCalls
    <3>2. D \subseteq {r \in Requests : pc[r] # "received"}
      BY DEF SandboxDuplicates, IInv, RowsFollowCalls
    <3>3. IsFiniteSet(D)
      BY <3>2, FS_Subset DEF IInv, FinitelyManyBegan
    <3> QED
      BY <3>1, <3>3, FS_Subset
  <2>2. /\ IsFiniteSet(B) /\ Cardinality(B) + Cardinality(P) <= Cardinality(H)
    <3>1. B \subseteq H /\ P \subseteq H /\ B \cap P = {}
      BY DEF Billable, FailedPayments, Holders, Durable, PaymentStatus
    <3>2. IsFiniteSet(B)
      BY <2>0, <3>1, FS_Subset
    <3> HIDE DEF B, P, H
    <3>3. Cardinality(B \cup P) = Cardinality(B) + Cardinality(P) - Cardinality(B \cap P)
          /\ IsFiniteSet(B \cup P)
      BY <2>0, <3>2, FS_Union
    <3>4. Cardinality(B \cup P) <= Cardinality(H)
      BY <2>0, <3>1, FS_Subset
    <3>5. /\ Cardinality(B) \in Nat /\ Cardinality(P) \in Nat /\ Cardinality(H) \in Nat
          /\ Cardinality(B \cap P) = 0
      BY <2>0, <3>1, <3>2, FS_CardinalityType, FS_EmptySet
    <3> QED
      BY <3>2, <3>3, <3>4, <3>5
  <2>3. /\ IsFiniteSet(U) /\ Cardinality(F) <= Cardinality(U) + Cardinality(E)
    <3>1. F = U \cup E /\ U \subseteq F /\ U \cap E = {}
      BY DEF EarnedRefunds, FailureRefunds, UnearnedRefunds
    <3>2. IsFiniteSet(U)
      BY <2>0, <3>1, FS_Subset
    <3> HIDE DEF U, E, F
    <3>3. Cardinality(F) = Cardinality(U) + Cardinality(E) - Cardinality(U \cap E)
      BY <2>0, <3>1, <3>2, FS_Union
    <3>4. /\ Cardinality(F) \in Nat /\ Cardinality(U) \in Nat /\ Cardinality(E) \in Nat
          /\ Cardinality(U \cap E) = 0
      BY <2>0, <3>1, <3>2, FS_CardinalityType, FS_EmptySet
    <3> QED
      BY <3>2, <3>3, <3>4
  <2> HIDE DEF B, P, H, S, D, F, U, E
  <2>4. /\ Cardinality(B) \in Nat /\ Cardinality(P) \in Nat /\ Cardinality(H) \in Nat
        /\ Cardinality(S) \in Nat /\ Cardinality(D) \in Nat /\ Cardinality(F) \in Nat
        /\ Cardinality(U) \in Nat /\ Cardinality(E) \in Nat
    BY <2>0, <2>1, <2>2, <2>3, FS_CardinalityType
  <2>5. Cardinality(B) <= quota[a] + Cardinality(D) + Cardinality(U)
    BY <2>0, <2>1, <2>2, <2>3, <2>4
  <2> QED
    BY <2>5 DEF B, D, U
<1> QED
  BY <1>1, Inductive, PTL

-----------------------------------------------------------------------------
\* What the variables of IdempotentCreate stand for.
Payments == {r \in Requests : Durable(r)}
Answers == [r \in Requests |-> IF pc[r] = "replied" THEN reply[r] ELSE Nobody]

(***************************************************************************)
(* Every step of a call is a step of the idempotent create or none.        *)
(***************************************************************************)
LEMMA CallRefines ==
  ASSUME IInv, NEW r \in Requests, Initiate(r) \/ Crash(r)
  PROVE  Create!Next \/ UNCHANGED <<Payments, Answers>>
<1> USE DEF IInv, TypeOK
<1>0. /\ \A q \in Requests \ {r} : /\ Durable(q)' <=> Durable(q)
                                   /\ pc'[q] = pc[q] /\ reply'[q] = reply[q]
      /\ \A q \in Requests : Durable(q) => Durable(q)'
  BY OneCallMoves, DurableStays DEF Durable, Next
<1>1. ASSUME NEW m \in Requests, pc[r] # "replied", pc'[r] = "replied", reply'[r] = m,
             Durable(r)' <=> Durable(r), m = r => Durable(r),
             m = r \/ (r.key # NoKey /\ m.key = r.key /\ m.app = r.app),
             \A d \in Requests : Durable(d) /\ Create!Slot(r, d) => d = m
      PROVE  Create!Answer(r, m)
  <2>1. Payments' = Payments
    BY <1>0, <1>1 DEF Payments
  <2>2. Answers' = [Answers EXCEPT ![r] = m] /\ Answers[r] = Nobody
    BY <1>0, <1>1 DEF Answers
  <2> QED
    BY <1>1, <2>1, <2>2 DEF Create!Answer, Create!Slot, Payments, Answers
<1>2. CASE CacheHit(r)
  <2> DEFINE s == <<r.app, r.key>>
             m == cache[s]
  <2>1. /\ r.key # NoKey /\ s \in Apps \X Keys /\ m \in Requests /\ HeldBy(s, m)
        /\ pc[r] = "received" /\ pc'[r] = "replied" /\ reply'[r] = m /\ UNCHANGED row
    BY <1>2, CallFields DEF CacheHit, Goto, Answer, CacheHoldsSlot, tableVars
  <2>2. m # r /\ m.app = r.app /\ m.key = r.key /\ ~Durable(r)
    BY <2>1 DEF HeldBy, RowsFollowCalls
  <2>3. \A d \in Requests : Durable(d) /\ Create!Slot(r, d) => d = m
    BY <2>1, <2>2 DEF HeldBy, Create!Slot
  <2> HIDE DEF m
  <2> QED
    BY <1>1, <2>1, <2>2, <2>3 DEF Create!Next, Durable
<1>3. CASE QuotaRollback(r)
  <2> DEFINE m == reply[r]
  <2>1. /\ m \in Requests \ {r} /\ r.key # NoKey /\ m.key = r.key /\ m.app = r.app
        /\ Durable(m) /\ pc[r] = "refunding" /\ pc'[r] = "replied" /\ reply'[r] = m
        /\ row' = row /\ ~Durable(r)
    BY <1>3 DEF QuotaRollback, Goto, DuplicateIsCommitted, RowsFollowCalls
  <2>2. \A d \in Requests : Durable(d) /\ Create!Slot(r, d) => d = m
    BY <2>1 DEF Create!Slot, RivalsExcluded, SameKey, Durable, PaymentStatus
  <2> HIDE DEF m
  <2> QED
    BY <1>1, <2>1, <2>2 DEF Create!Next, Durable
<1>4. CASE Return(r) \/ ResolveSandbox(r)
  <2>1. /\ pc[r] \in {"returning", "resolving"} /\ pc'[r] = "replied" /\ reply'[r] = r
        /\ Durable(r) /\ Durable(r)'
    BY <1>0, <1>4 DEF Return, ResolveSandbox, Goto, Answer, RowsFollowCalls
  <2>2. \A d \in Requests : Durable(d) /\ Create!Slot(r, d) => d = r
    BY <2>1 DEF Create!Slot, RivalsExcluded, SameKey, Durable, PaymentStatus
  <2> QED
    BY <1>1, <2>1, <2>2 DEF Create!Next
<1>5. CASE Commit(r)
  <2>1. /\ row[r] = "flushed" /\ ~Durable(r) /\ Durable(r)' /\ pc[r] = "committing"
        /\ pc'[r] \in {"returning", "resolving"}
    BY <1>5 DEF Commit, Goto, RowsFollowCalls, Durable, PaymentStatus
  <2>2. \A d \in Payments : ~Create!Slot(r, d)
    BY <2>1 DEF Payments, Create!Slot, RivalsExcluded, SameKey, Durable, PaymentStatus
  <2>3. Payments' = Payments \cup {r} /\ Answers' = Answers
    BY <1>0, <2>1 DEF Payments, Answers
  <2>4. Create!Persist(r)
    BY <2>2, <2>3 DEF Create!Persist, Payments, Answers
  <2> QED
    BY <2>4 DEF Create!Next
<1>6. CASE ~(CacheHit(r) \/ QuotaRollback(r) \/ Return(r) \/ ResolveSandbox(r) \/ Commit(r))
  <2>1. pc'[r] # "replied" /\ pc[r] # "replied"
    <3>1. CASE CacheMiss(r) \/ QuotaRefused(r) \/ Consume(r) \/ RefuseReference(r)
               \/ AcceptReference(r) \/ Crash(r)
      BY <3>1 DEF CacheMiss, QuotaRefused, Consume, RefuseReference, AcceptReference, Crash,
                  Goto, Active
    <3>2. CASE Insert(r) \/ IntegrityError(r) \/ DuplicateFound(r) \/ Reraise(r)
               \/ CacheResponse(r)
      BY <3>2 DEF Insert, IntegrityError, DuplicateFound, Reraise, CacheResponse, Goto
    <3> QED
      BY <1>6, <3>1, <3>2 DEF Initiate
  <2>2. Durable(r)' <=> Durable(r)
    BY <1>6, DurableStays DEF Next
  <2> QED
    BY <1>0, <2>1, <2>2 DEF Payments, Answers
<1> QED
  BY <1>2, <1>3, <1>4, <1>5, <1>6

(***************************************************************************)
(* initiate implements the idempotent create, whatever the transitions do  *)
(* to its payments.                                                        *)
(***************************************************************************)
THEOREM IdempotentInitiate == Spec => ImplementsIdempotentCreate
<1>1. Init => Create!Init
  BY DEF Init, Create!Init, Durable, PaymentStatus
<1>2. IInv /\ [Next]_vars => [Create!Next]_<<Payments, Answers>>
  <2> SUFFICES ASSUME IInv, [Next]_vars PROVE Create!Next \/ UNCHANGED <<Payments, Answers>>
    OBVIOUS
  <2>1. CASE (\E t \in Transitions : Transit(t)) \/ (\E s \in Apps \X Keys : Expire(s))
             \/ UNCHANGED vars
    <3>1. UNCHANGED <<pc, reply>>
      BY <2>1, OneTransitionMoves DEF Expire, vars, initiateVars
    <3>2. \A q \in Requests : Durable(q)' <=> Durable(q)
      BY <2>1, OneTransitionMoves DEF Expire, vars, tableVars, Durable, IInv, TypeOK
    <3> QED
      BY <3>1, <3>2 DEF Payments, Answers
  <2> QED
    BY <2>1, CallRefines DEF Next
<1> QED
  BY Inductive, <1>1, <1>2, PTL
     DEF Spec, Create!Spec, ImplementsIdempotentCreate, Payments, Answers
-----------------------------------------------------------------------------
(***************************************************************************)
(* Division by a positive number.                                          *)
(***************************************************************************)
LEMMA Division ==
  ASSUME NEW t \in Int, NEW n \in Nat, n > 0
  PROVE  /\ t \div n \in Int
         /\ (t \div n) * n <= t
         /\ t < ((t \div n) + 1) * n
OBVIOUS

(***************************************************************************)
(* A positive factor cancels.                                              *)
(***************************************************************************)
LEMMA Cancel ==
  ASSUME NEW x \in Int, NEW y \in Int, NEW n \in Nat, n > 0, x * n < y * n
  PROVE  x < y
<1>1. SUFFICES ASSUME y <= x PROVE FALSE
  OBVIOUS
<1>2. y * n <= x * n
  <2>1. (x - y) * n >= 0
    BY <1>1
  <2>2. (x - y) * n = x * n - y * n
    OBVIOUS
  <2> QED
    BY <2>1, <2>2
<1> QED
  BY <1>2

(***************************************************************************)
(* One part more.                                                          *)
(***************************************************************************)
LEMMA OneMore ==
  ASSUME NEW k \in Int, NEW n \in Int
  PROVE  k * n = (k - 1) * n + n
OBVIOUS

(***************************************************************************)
(* A question about a message: its encoding, and the lengths that go with  *)
(* it.                                                                     *)
(***************************************************************************)
LEMMA MessageFields ==
  ASSUME Asked, question.of = "text"
  PROVE  /\ question.text \in Seq(Kinds)
         /\ Encoding(question.text) \in Encodings
         /\ Part[Encoding(question.text)] \in Nat
         /\ Single[Encoding(question.text)] \in Int
         /\ 2 <= Part[Encoding(question.text)]
         /\ Part[Encoding(question.text)] <= Single[Encoding(question.text)]
<1>1. question.text \in Texts
  BY DEF Asked
<1>2. Encoding(question.text) \in Encodings
  BY DEF Encoding, Encodings
<1>3. /\ Single[Encoding(question.text)] \in Nat
     /\ Part[Encoding(question.text)] \in 2 .. Single[Encoding(question.text)]
  BY <1>2, RulesAssumption
<1> QED
  BY <1>1, <1>2, <1>3, RulesAssumption

(***************************************************************************)
(* What a character adds to the length, and what it takes on the air.      *)
(***************************************************************************)
LEMMA CharacterUnits ==
  ASSUME NEW e \in Encodings, NEW kind \in Kinds,
         e = "GSM7" => kind \in {"basic", "extended"}
  PROVE  /\ Length(kind, e) \in {1, 2} /\ AirUnits(kind, e) \in {1, 2}
         /\ Length(kind, e) <= AirUnits(kind, e)
         /\ kind # "astral" => Length(kind, e) = AirUnits(kind, e)
         /\ kind # "astral" /\ (e = "GSM7" => kind # "extended") => AirUnits(kind, e) = 1
BY DEF Length, AirUnits, Encodings, Kinds

(***************************************************************************)
(* The kinds that have been read, before and after a character.            *)
(***************************************************************************)
LEMMA KindsGrow ==
  ASSUME Asked, Scanned, ReadCharacter
  PROVE  /\ question.text[read + 1] \in Kinds
         /\ Encoding(question.text) = "GSM7" => question.text[read + 1] \in {"basic", "extended"}
         /\ KindsRead' = KindsRead \cup {question.text[read + 1]}
<1>1. /\ question.of = "text" /\ read \in 0 .. Len(question.text)
      /\ read < Len(question.text) /\ read' = read + 1 /\ question' = question
  BY DEF Scanned, ReadCharacter
<1>2. question.text \in Seq(Kinds)
  BY <1>1, MessageFields
<1>3. read + 1 \in DOMAIN question.text
  BY <1>1, <1>2
<1>4. 1 .. (read + 1) = (1 .. read) \cup {read + 1}
  BY <1>1
<1>5. KindsRead' = KindsRead \cup {question.text[read + 1]}
  BY <1>1, <1>4 DEF KindsRead
<1> QED
  BY <1>2, <1>3, <1>5 DEF Encoding

(***************************************************************************)
(* A character goes into the part that is being filled, or into a new one  *)
(* when the part lacks less than it takes: one unit at most.               *)
(***************************************************************************)
LEMMA CharacterFilled ==
  ASSUME NEW e \in Encodings, NEW n \in {1, 2}, Part[e] \in Nat, 2 <= Part[e],
         Filled(e), air' = Fill(air, n, e), Plain' => Plain /\ n = 1
  PROVE  /\ air'.units = air.units + n
         /\ air' \in [units : Nat, parts : Nat \ {0}, used : 0 .. Part[e]]
         /\ air'.parts > 1 => air'.used > 0
         /\ air'.units <= (air'.parts - 1) * Part[e] + air'.used
         /\ air'.units >= (air'.parts - 1) * (Part[e] - 1) + air'.used
         /\ Plain' => air'.units = (air'.parts - 1) * Part[e] + air'.used
<1> DEFINE P == Part[e]
           k == air.parts
<1>1. /\ air.units \in Nat /\ k \in Nat /\ k > 0 /\ air.used \in Int /\ 0 <= air.used
      /\ air.used <= P /\ P \in Nat
  BY DEF Filled
<1>2. CASE air.used + n > P
  <2>1. air' = [units |-> air.units + n, parts |-> k + 1, used |-> n]
    BY <1>2 DEF Fill
  <2>2. k * P = (k - 1) * P + P /\ k * (P - 1) = (k - 1) * (P - 1) + (P - 1)
    <3>1. k \in Int /\ P \in Int /\ P - 1 \in Int
      BY <1>1
    <3> HIDE DEF k, P
    <3> QED
      BY <3>1, OneMore
  <2>3. /\ air.units <= (k - 1) * P + air.used
        /\ air.units >= (k - 1) * (P - 1) + air.used
        /\ Plain => air.units = (k - 1) * P + air.used
    BY DEF Filled
  <2>4. /\ air.units <= k * P /\ air.units >= k * (P - 1)
        /\ Plain' => air.units = k * P
    <3> DEFINE x == (k - 1) * P
               y == (k - 1) * (P - 1)
    <3>1. x \in Int /\ y \in Int
      BY <1>1
    <3> HIDE DEF x, y, P, k
    <3>2. k * P = x + P /\ k * (P - 1) = y + P - 1
      BY <2>2 DEF x, y
    <3>3. /\ air.units <= x + air.used /\ air.units >= y + air.used
          /\ Plain => air.units = x + air.used
      BY <2>3 DEF x, y
    <3>4. x + air.used <= x + P /\ y + air.used >= y + P - 1
      BY <1>1, <1>2, <3>1
    <3>5. Plain' => Plain /\ air.used = P
      BY <1>1, <1>2
    <3> QED
      BY <1>1, <3>1, <3>2, <3>3, <3>4, <3>5
  <2>5. (k + 1) - 1 = k
    BY <1>1
  <2> QED
    BY <1>1, <2>1, <2>4, <2>5
<1>3. CASE ~(air.used + n > P)
  <2>1. air' = [units |-> air.units + n, parts |-> k, used |-> air.used + n]
    BY <1>3 DEF Fill
  <2> QED
    BY <1>1, <1>3, <2>1 DEF Filled
<1> QED
  BY <1>2, <1>3

(***************************************************************************)
(* Reading a character keeps what has been made of those before it.        *)
(***************************************************************************)
LEMMA ReadKeeps ==
  ASSUME Asked, Scanned, ReadCharacter
  PROVE  Scanned'
<1> DEFINE e == Encoding(question.text)
           kind == question.text[read + 1]
<1>1. /\ question.of = "text" /\ outcome = "asked" /\ outcome' = outcome /\ question' = question
      /\ read < Len(question.text) /\ read' = read + 1
      /\ length' = length + Length(kind, e)
      /\ air' = Fill(air, AirUnits(kind, e), e)
  BY DEF ReadCharacter
<1>2. e \in Encodings /\ Part[e] \in Nat /\ 2 <= Part[e]
  BY <1>1, MessageFields
<1>3. kind \in Kinds /\ (e = "GSM7" => kind \in {"basic", "extended"})
      /\ KindsRead' = KindsRead \cup {kind}
  BY KindsGrow
<1>4. e' = e
  BY <1>1
<1>5. /\ read \in 0 .. Len(question.text) /\ length \in Nat /\ length <= air.units
      /\ "astral" \notin KindsRead => length = air.units
      /\ Filled(e)
  BY <1>1 DEF Scanned
<1>6. Plain' => Plain /\ AirUnits(kind, e) = 1
  <2>1. ASSUME Plain' PROVE Plain /\ kind # "astral" /\ (e = "GSM7" => kind # "extended")
    BY <1>3, <1>4, <2>1 DEF Plain
  <2> QED
    BY <1>2, <1>3, <2>1, CharacterUnits
<1>7. /\ Length(kind, e) \in {1, 2} /\ AirUnits(kind, e) \in {1, 2}
      /\ Length(kind, e) <= AirUnits(kind, e)
      /\ kind # "astral" => Length(kind, e) = AirUnits(kind, e)
  BY <1>2, <1>3, CharacterUnits
<1>8. air'.units = air.units + AirUnits(kind, e)
      /\ Filled(e)'
  <2> HIDE DEF e, kind
  <2>1. /\ air'.units = air.units + AirUnits(kind, e)
        /\ air' \in [units : Nat, parts : Nat \ {0}, used : 0 .. Part[e]]
        /\ air'.parts > 1 => air'.used > 0
        /\ air'.units <= (air'.parts - 1) * Part[e] + air'.used
        /\ air'.units >= (air'.parts - 1) * (Part[e] - 1) + air'.used
        /\ Plain' => air'.units = (air'.parts - 1) * Part[e] + air'.used
    BY <1>1, <1>2, <1>5, <1>6, <1>7, CharacterFilled
  <2> QED
    BY <1>4, <2>1 DEF Filled
<1>9. air.units \in Nat
  BY <1>5 DEF Filled
<1>10. read' \in 0 .. Len(question.text)
  <2>1. Len(question.text) \in Nat
    BY <1>1, MessageFields
  <2> QED
    BY <1>1, <1>5, <2>1
<1>11. /\ length' \in Nat /\ length' <= air'.units
       /\ "astral" \notin KindsRead' => length' = air'.units
  <2> HIDE DEF e, kind
  <2> QED
    BY <1>1, <1>3, <1>5, <1>7, <1>8, <1>9
<1> QED
  BY <1>1, <1>4, <1>8, <1>10, <1>11 DEF Scanned

(***************************************************************************)
(* The arithmetic of the segments, for m units counted by the code and u   *)
(* on the air, which fill k parts of n units, the last of them with v.     *)
(***************************************************************************)
LEMMA PartsCounted ==
  ASSUME NEW n \in Nat, n > 0, NEW m \in Nat, NEW u \in Nat, NEW k \in Nat, k > 0,
         NEW v \in Nat, v <= n, k > 1 => v > 0, m <= u,
         u <= (k - 1) * n + v, u >= (k - 1) * (n - 1) + v, u > n
  PROVE  /\ (m + n - 1) \div n <= k
         /\ m = u /\ (m + n - 1) \div n < n => (m + n - 1) \div n >= k - 1
         /\ m = u /\ u = (k - 1) * n + v => (m + n - 1) \div n = k
<1> DEFINE a == (m + n - 1) \div n
           x == (k - 1) * n
<1>1. /\ a \in Int /\ a * n <= m + n - 1 /\ m + n - 1 < (a + 1) * n
  BY Division
<1>2. x \in Int /\ k * n = x + n /\ (a + 1) * n = a * n + n /\ (k + 1) * n = k * n + n
      /\ a * n \in Int
  <2>1. k * n = (k - 1) * n + n
    BY OneMore
  <2>2. (k + 1) * n = k * n + n
    BY OneMore
  <2>3. (a + 1) * n = a * n + n
    <3> HIDE DEF a
    <3> QED
      BY <1>1, OneMore
  <2> QED
    BY <1>1, <2>1, <2>2, <2>3
<1> HIDE DEF a, x
<1>3. a <= k
  <2>1. a * n < (k + 1) * n
    BY <1>1, <1>2 DEF x
  <2>2. a < k + 1
    BY <1>1, <2>1, Cancel
  <2> QED
    BY <1>1, <2>2
<1>4. k > 1
  <2>1. SUFFICES ASSUME k = 1 PROVE FALSE
    OBVIOUS
  <2>2. (k - 1) * n = 0
    BY <2>1
  <2> QED
    BY <2>2
<1>5. ASSUME m = u, a < n PROVE a >= k - 1
  <2>1. SUFFICES ASSUME a + 1 <= k - 1 PROVE FALSE
    BY <1>1
  <2>2. (a + 1) * (n - 1) <= (k - 1) * (n - 1)
    <3>1. ((k - 1) - (a + 1)) * (n - 1) >= 0
      BY <1>1, <2>1
    <3>2. ((k - 1) - (a + 1)) * (n - 1) = (k - 1) * (n - 1) - (a + 1) * (n - 1)
      BY <1>1
    <3> QED
      BY <1>1, <3>1, <3>2
  <2>3. (a + 1) * (n - 1) = a * n + n - a - 1
    BY <1>1
  <2>4. m >= a * n + n - a - 1 + v
    BY <1>1, <1>2, <1>5, <2>2, <2>3
  <2>5. m < a * n + 1
    BY <1>1, <1>2
  <2> QED
    BY <1>1, <1>2, <1>4, <1>5, <2>4, <2>5
<1>6. ASSUME m = u, u = (k - 1) * n + v PROVE a = k
  <2>1. k * n < (a + 1) * n
    BY <1>1, <1>2, <1>4, <1>6 DEF x
  <2>2. k < a + 1
    BY <1>1, <2>1, Cancel
  <2> QED
    BY <1>1, <1>3, <2>2
<1> QED
  BY <1>3, <1>5, <1>6 DEF a

(***************************************************************************)
(* What the scan keeps is what the count of segments needs.                *)
(***************************************************************************)
LEMMA ScanCounts ==
  ASSUME Asked, Scanned
  PROVE  SegmentsCounted
<1> DEFINE e == Encoding(question.text)
           n == Part[e]
<1> SUFFICES ASSUME question.of = "text", outcome = "taken"
             PROVE  /\ answer <= OnAir
                    /\ "astral" \notin KindsRead => answer >= OnAir - 1
                    /\ Plain => answer = OnAir
  BY DEF SegmentsCounted, Plain
<1>1. e \in Encodings /\ n \in Nat /\ 2 <= n /\ Single[e] \in Int /\ n <= Single[e]
  BY MessageFields
<1>2. /\ length \in Nat /\ length <= air.units
      /\ "astral" \notin KindsRead => length = air.units
      /\ Filled(e) /\ answer = CalculateSegments(length, e) /\ answer <= MaxSegments
  BY DEF Scanned, Segments
<1>3. /\ air.units \in Nat /\ air.parts \in Nat /\ air.parts > 0 /\ air.used \in Nat
      /\ air.used <= n
      /\ air.parts > 1 => air.used > 0
      /\ air.units <= (air.parts - 1) * n + air.used
      /\ air.units >= (air.parts - 1) * (n - 1) + air.used
      /\ Plain => air.units = (air.parts - 1) * n + air.used
  BY <1>2, <1>1 DEF Filled
<1>4. MaxSegments \in Nat /\ (e = "GSM7" => MaxSegments < n)
  BY RulesAssumption
<1>5. e # "GSM7" /\ "astral" \notin KindsRead => Plain
  BY DEF Plain
<1>6. Plain => "astral" \notin KindsRead
  BY DEF Plain
<1>7. OnAir = IF air.units <= Single[e] THEN 1 ELSE air.parts
  BY DEF OnAir
<1> HIDE DEF e, n
<1>8. CASE length <= Single[e]
  <2>1. answer = 1
    BY <1>2, <1>8 DEF CalculateSegments
  <2> QED
    BY <1>1, <1>2, <1>3, <1>6, <1>7, <1>8, <2>1
<1>9. CASE ~(length <= Single[e])
  <2>1. answer = (length + n - 1) \div n
    BY <1>2, <1>9 DEF CalculateSegments, n
  <2>2. air.units > Single[e] /\ air.units > n /\ OnAir = air.parts
    BY <1>1, <1>2, <1>3, <1>7, <1>9
  <2>3. /\ answer <= air.parts
        /\ length = air.units /\ answer < n => answer >= air.parts - 1
        /\ length = air.units /\ air.units = (air.parts - 1) * n + air.used => answer = air.parts
    <3> DEFINE u == air.units
               k == air.parts
               v == air.used
    <3>1. /\ n \in Nat /\ n > 0 /\ length \in Nat /\ u \in Nat /\ k \in Nat /\ k > 0
          /\ v \in Nat /\ v <= n
          /\ k > 1 => v > 0
          /\ length <= u /\ u <= (k - 1) * n + v /\ u >= (k - 1) * (n - 1) + v /\ u > n
      BY <1>1, <1>2, <1>3, <2>2
    <3> HIDE DEF u, k, v
    <3>2. /\ (length + n - 1) \div n <= k
          /\ length = u /\ (length + n - 1) \div n < n => (length + n - 1) \div n >= k - 1
          /\ length = u /\ u = (k - 1) * n + v => (length + n - 1) \div n = k
      BY <3>1, PartsCounted
    <3> QED
      BY <2>1, <3>2 DEF u, k, v
  <2>4. answer \in Int
    BY <1>1, <1>2, <2>1, Division
  <2>5. e = "GSM7" => answer < n
    BY <1>1, <1>2, <1>4, <2>4
  <2>6. Plain => answer = OnAir
    BY <1>2, <1>3, <1>6, <2>2, <2>3
  <2>7. "astral" \notin KindsRead => answer >= OnAir - 1
    BY <1>2, <1>3, <1>5, <2>2, <2>3, <2>4, <2>5, <2>6
  <2> QED
    BY <2>2, <2>3, <2>6, <2>7
<1> QED
  BY <1>8, <1>9

(***************************************************************************)
(* The scan begins with an empty part.                                     *)
(***************************************************************************)
LEMMA RulesStart ==
  ASSUME RulesInit
  PROVE  RulesInv
<1>1. Asked /\ AmountsRounded /\ SandboxRulesAgree
  BY DEF RulesInit, Asked, AmountsRounded, SandboxRulesAgree
<1>2. ASSUME question.of = "text" PROVE Scanned
  <2>1. read = 0 /\ length = 0 /\ air = [units |-> 0, parts |-> 1, used |-> 0] /\ outcome = "asked"
    BY DEF RulesInit
  <2>2. Part[Encoding(question.text)] \in Nat /\ 2 <= Part[Encoding(question.text)]
        /\ question.text \in Seq(Kinds)
    BY <1>1, <1>2, MessageFields
  <2>3. Filled(Encoding(question.text))
    BY <2>1, <2>2 DEF Filled
  <2> QED
    BY <2>1, <2>2, <2>3 DEF Scanned
<1> QED
  BY <1>1, <1>2 DEF RulesInv, Scanned

(***************************************************************************)
(* Every answer is the right one.                                          *)
(***************************************************************************)
LEMMA RulesStep ==
  ASSUME RulesInv, [RulesNext]_ruleVars
  PROVE  RulesInv'
<1> USE DEF RulesInv
<1>1. CASE PrepareAmount
  <2>1. question.amount \in Int
    BY <1>1, RulesAssumption DEF PrepareAmount, Asked
  <2>2. AmountsRounded'
    BY <1>1, <2>1 DEF PrepareAmount, AmountsRounded, Quantize
  <2> QED
    BY <1>1, <2>2 DEF PrepareAmount, Asked, Scanned, SandboxRulesAgree
<1>2. CASE RefuseAmount
  BY <1>2 DEF RefuseAmount, Asked, Scanned, AmountsRounded, SandboxRulesAgree
<1>3. CASE ReadCharacter
  <2>1. Scanned'
    BY <1>3, ReadKeeps
  <2> QED
    BY <1>3, <2>1 DEF ReadCharacter, Asked, AmountsRounded, SandboxRulesAgree
<1>4. CASE CountSegments
  <2>1. question' = question /\ read' = read /\ length' = length /\ air' = air
        /\ question.of = "text"
    BY <1>4 DEF CountSegments, scan
  <2>2. Segments' = Segments /\ KindsRead' = KindsRead
        /\ Encoding(question.text)' = Encoding(question.text)
    BY <2>1 DEF Segments, KindsRead
  <2>3. Filled(Encoding(question.text))' <=> Filled(Encoding(question.text))
    BY <2>1, <2>2 DEF Filled, Plain
  <2>4. Scanned'
    BY <1>4, <2>1, <2>2, <2>3 DEF CountSegments, Scanned
  <2> QED
    BY <1>4, <2>1, <2>4 DEF CountSegments, Asked, AmountsRounded, SandboxRulesAgree
<1>5. CASE TooLong
  <2>1. question' = question /\ read' = read /\ length' = length /\ air' = air
        /\ question.of = "text" /\ outcome' = "refused"
    BY <1>5 DEF TooLong, scan
  <2>2. KindsRead' = KindsRead /\ Encoding(question.text)' = Encoding(question.text)
    BY <2>1 DEF KindsRead
  <2>3. Filled(Encoding(question.text))' <=> Filled(Encoding(question.text))
    BY <2>1, <2>2 DEF Filled, Plain
  <2>4. Scanned'
    BY <2>1, <2>2, <2>3 DEF Scanned
  <2> QED
    BY <2>1, <2>4 DEF Asked, AmountsRounded, SandboxRulesAgree
<1>6. CASE ResolveInSandbox
  <2>1. question.digit \in LastDigits
    BY <1>6 DEF ResolveInSandbox, Asked
  <2>2. SandboxRulesAgree'
    BY <1>6, <2>1 DEF ResolveInSandbox, SandboxRulesAgree, SandboxSms, SandboxPayment, Ok, Fail,
                      SmsOutcome, PaymentOutcome, Digit, LastDigits, NoDigit
  <2> QED
    BY <1>6, <2>2 DEF ResolveInSandbox, Asked, Scanned, AmountsRounded
<1>7. CASE UNCHANGED ruleVars
  <2>1. question' = question /\ read' = read /\ length' = length /\ air' = air
        /\ outcome' = outcome /\ answer' = answer
    BY <1>7 DEF ruleVars, scan
  <2>2. Scanned' <=> Scanned
    BY <2>1 DEF Scanned, Filled, Plain, KindsRead, Segments
  <2> QED
    BY <2>1, <2>2 DEF Asked, AmountsRounded, SandboxRulesAgree
<1> QED
  BY <1>1, <1>2, <1>3, <1>4, <1>5, <1>6, <1>7 DEF RulesNext

(***************************************************************************)
(* The invariant of the rules.                                             *)
(***************************************************************************)
LEMMA RulesInductive == RulesSpec => []RulesInv
<1>1. RulesInit => RulesInv
  BY RulesStart
<1>2. RulesInv /\ [RulesNext]_ruleVars => RulesInv'
  BY RulesStep
<1> QED
  BY <1>1, <1>2, PTL DEF RulesSpec

(***************************************************************************)
(* _validate_and_prepare_amount: for every amount a client may send, what  *)
(* is stored is the nearest hundredth, the larger one at a tie, and it is  *)
(* zero for amounts below half a hundredth.                                *)
(***************************************************************************)
THEOREM AmountsExact == RulesSpec => []AmountsRounded
<1>1. RulesInv => AmountsRounded
  BY DEF RulesInv
<1> QED
  BY <1>1, RulesInductive, PTL

(***************************************************************************)
(* calculate_segments: for messages of every length and every limits of    *)
(* the encodings that the assumptions allow, the count is that of the      *)
(* parts on the air, or one fewer with extended characters; only those     *)
(* beyond the basic plane make it fall further behind.                     *)
(***************************************************************************)
THEOREM SegmentsExact == RulesSpec => []SegmentsCounted
<1>1. RulesInv => SegmentsCounted
  BY ScanCounts DEF RulesInv
<1> QED
  BY <1>1, RulesInductive, PTL

(***************************************************************************)
(* The sandbox outcome of a service is that of the sandbox provider, for   *)
(* all last digits and for numbers without one.                            *)
(***************************************************************************)
THEOREM SandboxAgrees == RulesSpec => []SandboxRulesAgree
<1>1. RulesInv => SandboxRulesAgree
  BY DEF RulesInv
<1> QED
  BY <1>1, RulesInductive, PTL

=============================================================================
