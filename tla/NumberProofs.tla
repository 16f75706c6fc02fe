----------------------------- MODULE NumberProofs -----------------------------
(***************************************************************************)
(* Theorems about NumberService, for every set of applications, numbers    *)
(* and requests and for every choice of the periods.                       *)
(***************************************************************************)
EXTENDS NumberService, TLAPS

(***************************************************************************)
(* What a request asks for, and the times the constants are.               *)
(***************************************************************************)
LEMMA Asked ==
  ASSUME NEW r \in Requests
  PROVE  Slot(r) \in Slots /\ Call[r].live \in BOOLEAN
BY NumberAssumption DEF Slot, Slots

LEMMA Periods ==
  /\ Ttl \in Nat /\ Ttl > 0 /\ Recency \in Nat /\ LastTick \in Nat /\ MaxDelay \in Nat
  /\ Oldest \in Nat /\ NoRow \notin Requests
BY NumberAssumption DEF Oldest

-----------------------------------------------------------------------------
(***************************************************************************)
(* Every step keeps the types.                                             *)
(***************************************************************************)
LEMMA StepTypes ==
  ASSUME TypeOK, FoundRecent, [Next]_vars
  PROVE  TypeOK'
<1> USE DEF Goto
<1>0. /\ now \in Nat
      /\ cache \in [Slots -> Entry]
      /\ rows \subseteq Requests /\ charged \subseteq Requests
      /\ pc \in [Requests -> {"ready", "called", "missed", "found", "fresh", "charged", "stored", "done"}]
      /\ started \in [Requests -> Nat]
      /\ since \in [Requests -> Int] /\ age \in [Requests -> Int]
      /\ answer \in [Requests -> Row]
      /\ before \in [Requests -> SUBSET Requests]
  BY DEF TypeOK
<1>1. ASSUME NEW r \in Requests, NEW row \in Requests, Reply(r, row)
      PROVE  answer' \in [Requests -> Row] /\ age' \in [Requests -> Int]
  <2>1. now - started[row] \in Int
    BY <1>0
  <2> QED
    BY <1>0, <1>1, <2>1 DEF Reply, Row
<1>2. ASSUME NEW r \in Requests, NEW row \in Row, Setex(r, row)
      PROVE  cache' \in [Slots -> Entry]
  <2>1. [row |-> row, until |-> now + Ttl] \in Entry
    BY <1>0, Periods DEF Entry
  <2> QED
    BY <1>0, <1>2, <2>1 DEF Setex
<1>3. ASSUME NEW r \in Requests, Begin(r) \/ FindNone(r) \/ Persist(r)
      PROVE  TypeOK'
  BY <1>0, <1>3 DEF Begin, FindNone, Persist, TypeOK
<1>4. ASSUME NEW r \in Requests, Consume(r) PROVE TypeOK'
  BY <1>0, <1>4 DEF Consume, Charge, TypeOK
<1>5. ASSUME NEW r \in Requests, CacheHit(r) PROVE TypeOK'
  <2>1. cache[Slot(r)].row \in Requests
    BY <1>0, <1>5, Asked DEF CacheHit, Held, Entry, Row
  <2>2. answer' \in [Requests -> Row] /\ age' \in [Requests -> Int]
    BY <1>1, <1>5, <2>1 DEF CacheHit
  <2> QED
    BY <1>0, <1>5, <2>2 DEF CacheHit, TypeOK
<1>6. ASSUME NEW r \in Requests, CacheMiss(r) PROVE TypeOK'
  <2>1. now - Recency \in Int
    BY <1>0, Periods
  <2> QED
    BY <1>0, <1>6, <2>1 DEF CacheMiss, TypeOK
<1>7. ASSUME NEW r \in Requests, FindRecent(r) PROVE TypeOK'
  <2>1. PICK v \in Requests : Reply(r, v)
    BY <1>0, <1>7 DEF FindRecent, Recent
  <2>2. answer' \in [Requests -> Row] /\ age' \in [Requests -> Int]
    BY <1>1, <2>1
  <2> QED
    BY <1>0, <1>7, <2>2 DEF FindRecent, TypeOK
<1>8. ASSUME NEW r \in Requests, Rehydrate(r) PROVE TypeOK'
  <2>1. cache' \in [Slots -> Entry]
    BY <1>0, <1>2, <1>8 DEF Rehydrate
  <2> QED
    BY <1>0, <1>8, <2>1 DEF Rehydrate, TypeOK
<1>9. ASSUME NEW r \in Requests, CacheResult(r) PROVE TypeOK'
  <2>1. cache' \in [Slots -> Entry] /\ answer' \in [Requests -> Row] /\ age' \in [Requests -> Int]
    BY <1>1, <1>2, <1>9 DEF CacheResult, Row
  <2> QED
    BY <1>0, <1>9, <2>1 DEF CacheResult, TypeOK
<1>10. ASSUME NEW r \in Requests, Fail(r) PROVE TypeOK'
  BY <1>0, <1>10 DEF Fail, Row, TypeOK
<1>11. CASE Tick \/ UNCHANGED vars
  BY <1>0, <1>11 DEF Tick, vars, TypeOK
<1> QED
  BY <1>3, <1>4, <1>5, <1>6, <1>7, <1>8, <1>9, <1>10, <1>11 DEF Next, Verify

(***************************************************************************)
(* What no step takes back: time, rows and units, and when a request began.*)
(***************************************************************************)
LEMMA Kept ==
  ASSUME TypeOK, RowsInPlace, [Next]_vars
  PROVE  /\ now <= now' /\ rows \subseteq rows' /\ charged \subseteq charged'
         /\ \A q \in Requests : pc[q] # "ready" => pc'[q] # "ready" /\ started'[q] = started[q]
         /\ \A q \in rows : q \in Requests /\ pc[q] # "ready" /\ started'[q] = started[q]
<1> USE DEF Goto
<1>0. /\ now \in Nat /\ rows \subseteq Requests
      /\ pc \in [Requests -> {"ready", "called", "missed", "found", "fresh", "charged", "stored", "done"}]
      /\ started \in [Requests -> Nat]
      /\ \A q \in rows : pc[q] # "ready"
  BY DEF TypeOK, RowsInPlace
<1>1. now <= now' /\ rows \subseteq rows' /\ charged \subseteq charged'
  <2>1. ASSUME NEW r \in Requests, Begin(r) \/ CacheHit(r) \/ CacheMiss(r) \/ FindRecent(r) \/ Rehydrate(r)
        PROVE  now' = now /\ rows' = rows /\ charged' = charged
    BY <2>1 DEF Begin, CacheHit, CacheMiss, FindRecent, Rehydrate
  <2>2. ASSUME NEW r \in Requests, FindNone(r) \/ Consume(r) \/ Persist(r) \/ CacheResult(r) \/ Fail(r)
        PROVE  now' = now /\ rows \subseteq rows' /\ charged \subseteq charged'
    BY <2>2 DEF FindNone, Consume, Charge, Persist, CacheResult, Fail
  <2>3. CASE Tick \/ UNCHANGED vars
    BY <1>0, <2>3 DEF Tick, vars
  <2> QED
    BY <1>0, <2>1, <2>2, <2>3 DEF Next, Verify
<1>2. \A q \in Requests : pc[q] # "ready" => pc'[q] # "ready" /\ started'[q] = started[q]
  <2>1. ASSUME NEW r \in Requests, CacheHit(r) \/ CacheMiss(r) \/ FindRecent(r) \/ Rehydrate(r)
        PROVE  \A q \in Requests : pc[q] # "ready" => pc'[q] # "ready" /\ started'[q] = started[q]
    BY <1>0, <2>1 DEF CacheHit, CacheMiss, FindRecent, Rehydrate
  <2>2. ASSUME NEW r \in Requests, FindNone(r) \/ Consume(r) \/ Persist(r) \/ CacheResult(r) \/ Fail(r)
        PROVE  \A q \in Requests : pc[q] # "ready" => pc'[q] # "ready" /\ started'[q] = started[q]
    BY <1>0, <2>2 DEF FindNone, Consume, Persist, CacheResult, Fail
  <2>3. ASSUME NEW r \in Requests, Begin(r)
        PROVE  \A q \in Requests : pc[q] # "ready" => pc'[q] # "ready" /\ started'[q] = started[q]
    BY <1>0, <2>3 DEF Begin
  <2>4. CASE Tick \/ UNCHANGED vars
    BY <2>4 DEF Tick, vars
  <2> QED
    BY <2>1, <2>2, <2>3, <2>4 DEF Next, Verify
<1> QED
  BY <1>0, <1>1, <1>2

(***************************************************************************)
(* A request changes nothing of another one.                               *)
(***************************************************************************)
LEMMA OthersStay ==
  ASSUME TypeOK, NEW r \in Requests, Verify(r), NEW q \in Requests \ {r}
  PROVE  /\ pc'[q] = pc[q] /\ started'[q] = started[q] /\ since'[q] = since[q]
         /\ answer'[q] = answer[q] /\ age'[q] = age[q] /\ before'[q] = before[q]
         /\ q \in rows' => q \in rows
<1> USE DEF Goto, TypeOK
<1>1. CASE Begin(r) \/ CacheHit(r) \/ CacheMiss(r)
  BY <1>1 DEF Begin, CacheHit, CacheMiss, Reply
<1>2. CASE FindRecent(r) \/ Rehydrate(r) \/ FindNone(r)
  BY <1>2 DEF FindRecent, Rehydrate, FindNone, Reply
<1>3. CASE Consume(r) \/ Persist(r)
  BY <1>3 DEF Consume, Persist
<1>4. CASE CacheResult(r) \/ Fail(r)
  BY <1>4 DEF CacheResult, Fail, Reply
<1> QED
  BY <1>1, <1>2, <1>3, <1>4 DEF Verify

LEMMA TimeOrRequest ==
  ASSUME [Next]_vars
  PROVE  \/ /\ UNCHANGED <<cache, rows, charged, pc, started, since, answer, age, before>>
            /\ Tick \/ now' = now
         \/ \E r \in Requests : Verify(r) /\ now' = now
<1>1. ASSUME NEW r \in Requests, Verify(r) PROVE now' = now
  <2>1. CASE Begin(r) \/ CacheHit(r) \/ CacheMiss(r) \/ FindRecent(r) \/ Rehydrate(r)
    BY <2>1 DEF Begin, CacheHit, CacheMiss, FindRecent, Rehydrate
  <2>2. CASE FindNone(r) \/ Consume(r) \/ Persist(r) \/ CacheResult(r) \/ Fail(r)
    BY <2>2 DEF FindNone, Consume, Persist, CacheResult, Fail
  <2> QED
    BY <1>1, <2>1, <2>2 DEF Verify
<1> QED
  BY <1>1 DEF Next, Tick, vars

-----------------------------------------------------------------------------
(***************************************************************************)
(* Timely: the clock waits for a request that has reached its delay.       *)
(***************************************************************************)
LEMMA TimelyKept ==
  ASSUME TypeOK, Timely, [Next]_vars, TypeOK'
  PROVE  Timely'
<1> USE Periods
<1>0. /\ now \in Nat /\ now' \in Nat
      /\ pc \in [Requests -> {"ready", "called", "missed", "found", "fresh", "charged", "stored", "done"}]
      /\ started \in [Requests -> Nat] /\ since \in [Requests -> Int]
  BY DEF TypeOK
<1>1. CASE /\ UNCHANGED <<pc, started, since>>
           /\ Tick \/ now' = now
  <2> SUFFICES ASSUME NEW q \in Requests, Running(q) PROVE started[q] <= now' /\ now' <= started[q] + MaxDelay
    BY <1>1 DEF Timely, Running
  <2>1. started[q] <= now /\ now <= started[q] + MaxDelay /\ started[q] \in Nat
    BY <1>0 DEF Timely
  <2>2. CASE Tick
    <3>1. now' = now + 1 /\ now - started[q] < MaxDelay
      BY <2>2 DEF Tick, Running
    <3> QED
      BY <1>0, <2>1, <3>1
  <2>3. CASE now' = now
    BY <2>1, <2>3
  <2> QED
    BY <1>1, <2>2, <2>3
<1>2. ASSUME NEW r \in Requests, Verify(r), now' = now, NEW q \in Requests
      PROVE  /\ Running(q)' => started'[q] <= now' /\ now' <= started'[q] + MaxDelay
             /\ Running(q)' /\ pc'[q] # "called" =>
                  started'[q] <= since'[q] + Recency /\ since'[q] + Recency <= started'[q] + MaxDelay
  <2>1. CASE q # r
    BY <1>2, <2>1, OthersStay DEF Timely, Running
  <2>2. CASE q = r
    <3>1. CASE Begin(r)
      <4>1. pc'[r] = "called" /\ started'[r] = now
        BY <1>0, <3>1 DEF Begin, Goto
      <4> QED
        BY <1>0, <1>2, <2>2, <4>1
    <3>2. CASE CacheMiss(r)
      <4>1. pc[r] = "called" /\ since'[r] = now - Recency /\ started'[r] = started[r]
        BY <1>0, <3>2 DEF CacheMiss, Goto
      <4>2. started[r] <= now /\ now <= started[r] + MaxDelay /\ started[r] \in Nat
        BY <1>0, <4>1 DEF Timely, Running
      <4>3. since'[r] + Recency = now
        BY <1>0, <4>1
      <4> QED
        BY <1>2, <2>2, <4>1, <4>2, <4>3
    <3>3. CASE FindRecent(r) \/ FindNone(r) \/ Consume(r) \/ Persist(r)
      <4>1. pc[r] \notin {"ready", "called", "done"} /\ UNCHANGED <<started, since>>
        BY <3>3 DEF FindRecent, FindNone, Consume, Persist, Goto
      <4> QED
        BY <1>2, <2>2, <4>1 DEF Timely, Running
    <3>4. CASE CacheHit(r) \/ Rehydrate(r) \/ CacheResult(r) \/ Fail(r)
      <4>1. pc'[r] = "done"
        BY <1>0, <3>4 DEF CacheHit, Rehydrate, CacheResult, Fail, Goto
      <4> QED
        BY <2>2, <4>1 DEF Running
    <3> QED
      BY <1>2, <3>1, <3>2, <3>3, <3>4 DEF Verify
  <2> QED
    BY <2>1, <2>2
<1> QED
  BY <1>1, <1>2, TimeOrRequest DEF Timely

(***************************************************************************)
(* RowsInPlace: a live request has paid before its row is committed.       *)
(***************************************************************************)
LEMMA RowsKept ==
  ASSUME TypeOK, RowsInPlace, [Next]_vars
  PROVE  RowsInPlace'
<1>0. /\ pc \in [Requests -> {"ready", "called", "missed", "found", "fresh", "charged", "stored", "done"}]
      /\ rows \subseteq Requests
  BY DEF TypeOK
<1>1. CASE UNCHANGED <<rows, charged, pc>>
  BY <1>1 DEF RowsInPlace
<1>2. ASSUME NEW r \in Requests, Verify(r), NEW q \in Requests
      PROVE  /\ pc'[q] \in {"charged", "stored"} /\ Call[q].live => q \in charged'
             /\ pc'[q] = "stored" => q \in rows'
             /\ q \in rows' => pc'[q] \in {"stored", "done"} /\ (Call[q].live => q \in charged')
  <2>1. CASE q # r
    BY <1>2, <2>1, OthersStay, Kept DEF RowsInPlace
  <2>2. CASE q = r
    <3>1. CASE Begin(r) \/ CacheHit(r) \/ CacheMiss(r) \/ FindRecent(r) \/ Rehydrate(r) \/ FindNone(r)
      BY <1>0, <2>2, <3>1 DEF Begin, CacheHit, CacheMiss, FindRecent, Rehydrate, FindNone, Goto, RowsInPlace
    <3>2. CASE Consume(r)
      BY <1>0, <2>2, <3>2 DEF Consume, Charge, Goto, RowsInPlace
    <3>3. CASE Persist(r)
      BY <1>0, <2>2, <3>3 DEF Persist, Goto, RowsInPlace
    <3>4. CASE CacheResult(r) \/ Fail(r)
      BY <1>0, <2>2, <3>4 DEF CacheResult, Fail, Goto, RowsInPlace
    <3> QED
      BY <1>2, <3>1, <3>2, <3>3, <3>4 DEF Verify
  <2> QED
    BY <2>1, <2>2
<1> QED
  BY <1>1, <1>2, TimeOrRequest DEF RowsInPlace

-----------------------------------------------------------------------------
(***************************************************************************)
(* A request is answered with a committed row of its slot that is young    *)
(* enough, and one that was found is recent.                               *)
(***************************************************************************)
LEMMA Replies ==
  ASSUME TypeOK, Timely, RowsInPlace, CacheFresh, NEW r \in Requests, Verify(r)
  PROVE  \/ answer'[r] = answer[r] /\ age'[r] = age[r] /\ (pc'[r] # "found" \/ pc[r] = "found")
         \/ answer'[r] = NoRow /\ pc'[r] # "found"
         \/ \E v \in rows : /\ Slot(v) = Slot(r) /\ answer'[r] = v /\ age'[r] < Oldest
                            /\ pc'[r] = "found" => started[v] >= since[r] /\ since'[r] = since[r]
<1> USE DEF Goto
<1>0. /\ now \in Nat /\ cache \in [Slots -> Entry]
      /\ pc \in [Requests -> {"ready", "called", "missed", "found", "fresh", "charged", "stored", "done"}]
      /\ started \in [Requests -> Nat] /\ since \in [Requests -> Int]
      /\ answer \in [Requests -> Row] /\ age \in [Requests -> Int]
      /\ rows \subseteq Requests
  BY DEF TypeOK
<1>1. CASE Begin(r) \/ CacheMiss(r) \/ Rehydrate(r) \/ FindNone(r) \/ Consume(r) \/ Persist(r)
  BY <1>0, <1>1 DEF Begin, CacheMiss, Rehydrate, FindNone, Consume, Persist
<1>2. CASE Fail(r)
  BY <1>0, <1>2 DEF Fail
<1>3. CASE CacheHit(r)
  <2> DEFINE v == cache[Slot(r)].row
  <2>1. /\ v \in rows /\ Slot(v) = Slot(r) /\ cache[Slot(r)].until <= started[v] + Oldest
        /\ now < cache[Slot(r)].until
    BY <1>3, Asked DEF CacheHit, Held, CacheFresh
  <2>2. answer'[r] = v /\ age'[r] = now - started[v] /\ pc'[r] = "done"
    BY <1>0, <1>3 DEF CacheHit, Reply
  <2>3. cache[Slot(r)].until \in Nat /\ started[v] \in Nat
    BY <1>0, <2>1, Asked DEF Entry
  <2> HIDE DEF v
  <2>4. now - started[v] < Oldest
    BY <1>0, <2>1, <2>3, Periods
  <2> QED
    BY <2>1, <2>2, <2>4
<1>4. CASE FindRecent(r)
  <2>1. PICK v \in Recent(r) : Reply(r, v)
    BY <1>4 DEF FindRecent
  <2>2. v \in rows /\ Slot(v) = Slot(r) /\ started[v] >= since[r]
    BY <2>1 DEF Recent
  <2>3. answer'[r] = v /\ age'[r] = now - started[v] /\ since' = since /\ pc[r] = "missed"
    BY <1>0, <1>4, <2>1 DEF FindRecent, Reply
  <2>4. /\ started[r] <= since[r] + Recency /\ now <= started[r] + MaxDelay
        /\ started[r] \in Nat /\ since[r] \in Int /\ started[v] \in Nat
    BY <1>0, <2>2, <2>3 DEF Timely, Running
  <2>5. now - started[v] < Oldest
    BY <1>0, <2>2, <2>4, Periods DEF Oldest
  <2> QED
    BY <2>2, <2>3, <2>5
<1>5. CASE CacheResult(r)
  <2>1. r \in rows /\ answer'[r] = r /\ age'[r] = now - started[r] /\ pc[r] = "stored" /\ pc'[r] = "done"
    BY <1>0, <1>5 DEF CacheResult, Reply, RowsInPlace
  <2>2. now <= started[r] + MaxDelay /\ started[r] \in Nat
    BY <1>0, <2>1 DEF Timely, Running
  <2>3. now - started[r] < Oldest
    BY <1>0, <2>2, Periods DEF Oldest
  <2> QED
    BY <2>1, <2>3
<1> QED
  BY <1>1, <1>2, <1>3, <1>4, <1>5 DEF Verify

(***************************************************************************)
(* AnswersFresh and FoundRecent.                                           *)
(***************************************************************************)
LEMMA AnswersKept ==
  ASSUME TypeOK, Timely, RowsInPlace, CacheFresh, AnswersFresh, FoundRecent, [Next]_vars, RowsInPlace'
  PROVE  AnswersFresh' /\ FoundRecent'
<1>0. /\ rows \subseteq rows' /\ charged \subseteq charged' /\ NoRow \notin Requests
      /\ \A v \in rows : v \in Requests /\ started'[v] = started[v]
  BY Kept, Periods
<1> SUFFICES ASSUME NEW q \in Requests
             PROVE  /\ answer'[q] # NoRow =>
                         /\ answer'[q] \in rows' /\ Slot(answer'[q]) = Slot(q)
                         /\ Call[answer'[q]].live => answer'[q] \in charged'
                         /\ age'[q] < Oldest
                    /\ pc'[q] = "found" => answer'[q] # NoRow /\ started'[answer'[q]] >= since'[q]
  BY DEF AnswersFresh, FoundRecent, Oldest, Slot
<1>1. answer[q] # NoRow =>
        /\ answer[q] \in rows /\ Slot(answer[q]) = Slot(q)
        /\ Call[answer[q]].live => answer[q] \in charged
        /\ age[q] < Oldest
  BY DEF AnswersFresh, Oldest
<1>2. CASE answer'[q] = answer[q] /\ age'[q] = age[q] /\ pc'[q] = pc[q] /\ since'[q] = since[q]
  BY <1>0, <1>1, <1>2 DEF FoundRecent
<1>3. CASE Verify(q)
  <2>1. CASE answer'[q] = answer[q] /\ age'[q] = age[q] /\ (pc'[q] # "found" \/ pc[q] = "found")
    <3>1. pc'[q] # "found"
      BY <1>3, <2>1 DEF Verify, Begin, CacheHit, CacheMiss, FindRecent, Rehydrate, FindNone, Consume,
                        Persist, CacheResult, Fail, Goto, TypeOK
    <3> QED
      BY <1>0, <1>1, <2>1, <3>1
  <2>2. CASE answer'[q] = NoRow /\ pc'[q] # "found"
    BY <2>2
  <2>3. ASSUME NEW v \in rows, Slot(v) = Slot(q), answer'[q] = v, age'[q] < Oldest,
               pc'[q] = "found" => started[v] >= since[q] /\ since'[q] = since[q]
        PROVE  /\ answer'[q] # NoRow =>
                    /\ answer'[q] \in rows' /\ Slot(answer'[q]) = Slot(q)
                    /\ Call[answer'[q]].live => answer'[q] \in charged'
                    /\ age'[q] < Oldest
               /\ pc'[q] = "found" => answer'[q] # NoRow /\ started'[answer'[q]] >= since'[q]
    <3>1. Call[v].live => v \in charged'
      BY <1>0, <2>3 DEF RowsInPlace
    <3> QED
      BY <1>0, <2>3, <3>1
  <2> QED
    BY <1>3, <2>1, <2>2, <2>3, Replies
<1>4. CASE UNCHANGED <<answer, age, pc, since>>
  BY <1>2, <1>4
<1>5. ASSUME NEW r \in Requests, Verify(r), r # q
      PROVE  answer'[q] = answer[q] /\ age'[q] = age[q] /\ pc'[q] = pc[q] /\ since'[q] = since[q]
  BY <1>5, OthersStay
<1> QED
  BY <1>2, <1>3, <1>4, <1>5, TimeOrRequest

(***************************************************************************)
(* CacheFresh: a row enters the cache before it is older than Recency and  *)
(* MaxDelay.                                                               *)
(***************************************************************************)
LEMMA CacheKept ==
  ASSUME TypeOK, Timely, RowsInPlace, AnswersFresh, FoundRecent, CacheFresh, [Next]_vars
  PROVE  CacheFresh'
<1>0. /\ rows \subseteq rows'
      /\ \A v \in rows : v \in Requests /\ started'[v] = started[v]
      /\ now \in Nat /\ cache \in [Slots -> Entry] /\ started \in [Requests -> Nat]
      /\ since \in [Requests -> Int]
  BY Kept DEF TypeOK
<1>1. CASE cache' = cache
  BY <1>0, <1>1 DEF CacheFresh, Slot
<1>2. ASSUME NEW r \in Requests, NEW v \in rows, Setex(r, v), Slot(v) = Slot(r),
             now + Ttl <= started[v] + Oldest
      PROVE  CacheFresh'
  <2>1. /\ cache'[Slot(r)].row = v /\ cache'[Slot(r)].until = now + Ttl
        /\ \A s \in Slots : s # Slot(r) => cache'[s] = cache[s]
    BY <1>0, <1>2, Asked DEF Setex
  <2> SUFFICES ASSUME NEW s \in Slots, cache'[s].row # NoRow
               PROVE  /\ cache'[s].row \in rows' /\ Slot(cache'[s].row) = s
                      /\ cache'[s].until <= started'[cache'[s].row] + Oldest
    BY DEF CacheFresh, Slot
  <2>2. CASE s = Slot(r)
    BY <1>0, <1>2, <2>1, <2>2
  <2>3. CASE s # Slot(r)
    BY <1>0, <2>1, <2>3 DEF CacheFresh
  <2> QED
    BY <2>2, <2>3
<1>3. ASSUME NEW r \in Requests, Rehydrate(r) PROVE CacheFresh'
  <2>1. pc[r] = "found" /\ Setex(r, answer[r])
    BY <1>3 DEF Rehydrate, Goto
  <2>2. answer[r] \in rows /\ Slot(answer[r]) = Slot(r) /\ started[answer[r]] >= since[r]
    BY <2>1 DEF FoundRecent, AnswersFresh
  <2>3. /\ started[r] <= since[r] + Recency /\ now <= started[r] + MaxDelay
        /\ started[r] \in Nat /\ since[r] \in Int /\ started[answer[r]] \in Nat
    BY <1>0, <2>1, <2>2 DEF Timely, Running
  <2>4. now + Ttl <= started[answer[r]] + Oldest
    BY <1>0, <2>2, <2>3, Periods DEF Oldest
  <2> QED
    BY <1>2, <2>1, <2>2, <2>4
<1>4. ASSUME NEW r \in Requests, CacheResult(r) PROVE CacheFresh'
  <2>1. pc[r] = "stored" /\ Setex(r, r) /\ r \in rows
    BY <1>4 DEF CacheResult, Goto, RowsInPlace
  <2>2. now <= started[r] + MaxDelay /\ started[r] \in Nat
    BY <1>0, <2>1 DEF Timely, Running
  <2>3. now + Ttl <= started[r] + Oldest
    BY <1>0, <2>2, Periods DEF Oldest
  <2> QED
    BY <1>2, <2>1, <2>3
<1>5. ASSUME NEW r \in Requests,
             Begin(r) \/ CacheHit(r) \/ CacheMiss(r) \/ FindRecent(r) \/ FindNone(r) \/ Consume(r)
               \/ Persist(r) \/ Fail(r)
      PROVE  cache' = cache
  BY <1>5 DEF Begin, CacheHit, CacheMiss, FindRecent, FindNone, Consume, Persist, Fail
<1> QED
  BY <1>1, <1>3, <1>4, <1>5, TimeOrRequest DEF Verify

(***************************************************************************)
(* SeenTooOld: a request that finds no recent row has seen only old ones.  *)
(***************************************************************************)
LEMMA SeenKept ==
  ASSUME TypeOK, Timely, RowsInPlace, SeenTooOld, [Next]_vars
  PROVE  SeenTooOld'
<1>0. /\ rows \subseteq rows'
      /\ \A v \in rows : v \in Requests /\ started'[v] = started[v]
      /\ \A q \in Requests : pc[q] # "ready" => started'[q] = started[q]
      /\ started \in [Requests -> Nat] /\ since \in [Requests -> Int]
      /\ before \in [Requests -> SUBSET Requests]
  BY Kept DEF TypeOK
<1>8. ASSUME NEW s \in Requests, pc'[s] = "ready" PROVE before'[s] = {}
  <2>1. pc[s] = "ready" /\ \A r \in Requests : Verify(r) => r # s
    BY <1>8, Kept DEF TypeOK, Verify, Begin, CacheHit, CacheMiss, FindRecent, Rehydrate, FindNone,
                      Consume, Persist, CacheResult, Fail, Goto
  <2>2. before'[s] = before[s]
    BY <2>1, TimeOrRequest, OthersStay
  <2> QED
    BY <2>1, <2>2 DEF SeenTooOld
<1> SUFFICES ASSUME NEW s \in Requests, NEW v \in before'[s]
             PROVE  v \in rows' /\ (Slot(v) = Slot(s) => started'[s] - started'[v] > Recency - MaxDelay)
  BY <1>8 DEF SeenTooOld, Slot
<1>1. CASE before'[s] = before[s] /\ started'[s] = started[s]
  BY <1>0, <1>1 DEF SeenTooOld
<1>2. CASE Begin(s)
  <2>1. before'[s] = before[s] /\ before[s] = {}
    BY <1>2 DEF Begin, Goto, SeenTooOld
  <2> QED
    BY <2>1
<1>3. CASE FindNone(s)
  <2>1. /\ before'[s] = rows /\ Recent(s) = {} /\ pc[s] = "missed"
        /\ started'[s] = started[s]
    BY <1>0, <1>3 DEF FindNone, Goto
  <2>2. v \in rows /\ (Slot(v) = Slot(s) => started[v] < since[s])
    BY <1>0, <2>1 DEF Recent
  <2>3. since[s] + Recency <= started[s] + MaxDelay
    BY <2>1 DEF Timely, Running
  <2>4. Slot(v) = Slot(s) => started[s] - started[v] > Recency - MaxDelay
    BY <1>0, <2>2, <2>3, Periods
  <2> QED
    BY <1>0, <2>1, <2>2, <2>4
<1>4. CASE CacheHit(s) \/ CacheMiss(s) \/ FindRecent(s) \/ Rehydrate(s)
  BY <1>1, <1>4 DEF CacheHit, CacheMiss, FindRecent, Rehydrate
<1>5. CASE Consume(s) \/ Persist(s) \/ CacheResult(s) \/ Fail(s)
  BY <1>1, <1>5 DEF Consume, Persist, CacheResult, Fail
<1>6. ASSUME NEW r \in Requests, Verify(r), r # s PROVE before'[s] = before[s] /\ started'[s] = started[s]
  BY <1>6, OthersStay
<1>7. CASE UNCHANGED <<before, started>>
  BY <1>1, <1>7
<1> QED
  BY <1>1, <1>2, <1>3, <1>4, <1>5, <1>6, <1>7, TimeOrRequest DEF Verify

-----------------------------------------------------------------------------
(***************************************************************************)
(* The invariant is inductive.                                             *)
(***************************************************************************)
LEMMA InitIInv == Init => IInv
<1> SUFFICES ASSUME Init PROVE IInv
  OBVIOUS
<1>1. TypeOK
  <2>1. [row |-> NoRow, until |-> 0] \in Entry
    BY DEF Entry, Row
  <2> QED
    BY <2>1 DEF Init, TypeOK, Row
<1>2. /\ rows = {} /\ \A s \in Slots : cache[s].row = NoRow
      /\ \A r \in Requests : pc[r] = "ready" /\ answer[r] = NoRow /\ before[r] = {}
  BY DEF Init
<1> QED
  BY <1>1, <1>2 DEF IInv, Timely, Running, RowsInPlace, AnswersFresh, FoundRecent, CacheFresh, SeenTooOld

LEMMA NextIInv ==
  ASSUME IInv, [Next]_vars
  PROVE  IInv'
<1>1. TypeOK' /\ RowsInPlace'
  BY StepTypes, RowsKept DEF IInv
<1>2. Timely' /\ SeenTooOld'
  BY <1>1, TimelyKept, SeenKept DEF IInv
<1>3. AnswersFresh' /\ FoundRecent' /\ CacheFresh'
  BY <1>1, AnswersKept, CacheKept DEF IInv
<1> QED
  BY <1>1, <1>2, <1>3 DEF IInv

LEMMA AlwaysIInv == Spec => []IInv
<1>1. IInv /\ UNCHANGED vars => IInv'
  BY NextIInv
<1> QED
  BY InitIInv, NextIInv, <1>1, PTL DEF Spec

-----------------------------------------------------------------------------
(***************************************************************************)
(* Type correctness.                                                       *)
(***************************************************************************)
THEOREM TypeCorrect == Spec => []TypeOK
<1>1. IInv => TypeOK
  BY DEF IInv
<1> QED
  BY AlwaysIInv, <1>1, PTL

(***************************************************************************)
(* verify: whatever tier answers, the answer is a committed verification   *)
(* of that number for that application, paid for if it was live, and       *)
(* younger than both periods and a request's duration together.            *)
(***************************************************************************)
THEOREM AlwaysFresh == Spec => []AnswersFresh
<1>1. IInv => AnswersFresh
  BY DEF IInv
<1> QED
  BY AlwaysIInv, <1>1, PTL

(***************************************************************************)
(* verify: a number is verified anew within the recent period only by      *)
(* requests that overlap.                                                  *)
(***************************************************************************)
THEOREM VerifiedOnceEach == Spec => []VerifiedOnce
<1>1. IInv => VerifiedOnce
  BY DEF IInv, VerifiedOnce, SeenTooOld, TypeOK
<1> QED
  BY AlwaysIInv, <1>1, PTL
=============================================================================
