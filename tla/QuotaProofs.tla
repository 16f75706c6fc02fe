----------------------------- MODULE QuotaProofs -----------------------------
(***************************************************************************)
(* Theorems about QuotaService, for every set of applications and calls,   *)
(* every limit, window, length of a day and delay of a script.             *)
(***************************************************************************)
EXTENDS QuotaService, FiniteSetTheorems, TLAPS

(***************************************************************************)
(* What the constants are.                                                 *)
(***************************************************************************)
LEMMA Sizes ==
  /\ Window \in Nat /\ Window > 0 /\ DayLength \in Nat /\ DayLength > 0
  /\ DailyLimit \in Nat /\ LastTick \in Nat /\ MaxDelay \in Nat
BY QuotaAssumption

LEMMA CallFields ==
  ASSUME NEW r \in Requests
  PROVE  r.app \in Apps /\ r.live \in BOOLEAN /\ BurstLimit[r.live] \in Nat
<1>1. r.app \in Apps /\ r.live \in BOOLEAN
  BY QuotaAssumption
<1>2. BurstLimit \in [BOOLEAN -> Nat]
  BY QuotaAssumption
<1> QED
  BY <1>1, <1>2

(***************************************************************************)
(* Division by the length of a day.                                        *)
(***************************************************************************)
LEMMA Division ==
  ASSUME NEW t \in Nat, NEW n \in Nat, n > 0
  PROVE  /\ t \div n \in Nat
         /\ (t \div n) * n <= t /\ t < (t \div n + 1) * n
OBVIOUS

LEMMA ProductGrows ==
  ASSUME NEW p \in Nat, NEW q \in Nat, NEW n \in Nat, p <= q
  PROVE  p * n <= q * n
OBVIOUS

LEMMA DayOfTick ==
  ASSUME NEW t \in Ticks
  PROVE  Day(t) \in Days
<1>1. t \in Nat /\ t <= LastTick /\ LastTick \in Nat /\ DayLength \in Nat /\ DayLength > 0
  BY Sizes DEF Ticks
<1> DEFINE p == t \div DayLength
           q == LastTick \div DayLength
<1>2. p \in Nat /\ p * DayLength <= t /\ q \in Nat /\ LastTick < (q + 1) * DayLength
  BY <1>1, Division
<1> HIDE DEF p, q
<1>3. p <= q
  <2>1. SUFFICES ASSUME q + 1 <= p PROVE FALSE
    BY <1>2
  <2>2. (q + 1) * DayLength <= p * DayLength
    BY <1>1, <1>2, <2>1, ProductGrows
  <2>3. (q + 1) * DayLength \in Nat /\ p * DayLength \in Nat
    BY <1>1, <1>2
  <2> QED
    BY <1>1, <1>2, <2>2, <2>3
<1> QED
  BY <1>2, <1>3 DEF Day, Days, p, q

LEMMA LastSeconds ==
  ASSUME NEW d \in Days
  PROVE  LastSecond(d) \in Nat /\ LastSecond(d) < Never
<1> DEFINE q == LastTick \div DayLength
<1>1. q \in Nat /\ q * DayLength <= LastTick /\ d \in Nat /\ d <= q
  BY Sizes, Division DEF Days
<1> HIDE DEF q
<1>2. d * DayLength <= q * DayLength /\ d * DayLength \in Nat /\ q * DayLength \in Nat
  BY <1>1, Sizes, ProductGrows
<1>3. (d + 1) * DayLength = d * DayLength + DayLength
  BY <1>1, Sizes
<1> QED
  BY <1>1, <1>2, <1>3, Sizes DEF LastSecond, Never

-----------------------------------------------------------------------------
(***************************************************************************)
(* Writing one cell of a table of applications and days.                   *)
(***************************************************************************)
LEMMA OneCell ==
  ASSUME NEW S, NEW f \in [Apps -> [Days -> S]], NEW a \in Apps, NEW d \in Days, NEW v \in S,
         NEW g, g = [f EXCEPT ![a][d] = v]
  PROVE  /\ g \in [Apps -> [Days -> S]] /\ g[a][d] = v
         /\ \A b \in Apps, e \in Days : b # a \/ e # d => g[b][e] = f[b][e]
<1>1. f[a] \in [Days -> S]
  OBVIOUS
<1>2. [f[a] EXCEPT ![d] = v] \in [Days -> S]
  BY <1>1
<1>3. g = [f EXCEPT ![a] = [f[a] EXCEPT ![d] = v]]
  OBVIOUS
<1> QED
  BY <1>1, <1>2, <1>3

(***************************************************************************)
(* The types, one variable or two at a time.                               *)
(***************************************************************************)
LEMMA Types ==
  ASSUME TypeOK
  PROVE  /\ now \in Ticks /\ now \in Nat /\ Day(now) \in Days
         /\ window \in [Apps -> SUBSET Ticks]
         /\ counter \in [Apps -> [Days -> Int]]
         /\ expiry \in [Apps -> [Days -> Nat]]
         /\ pc \in [Requests -> {"called", "stamped", "limited", "dated",
                                 "exhausted", "allowed", "refunded"}]
         /\ stamp \in [Requests -> Ticks] /\ date \in [Requests -> Ticks] /\ charged \in [Requests -> Ticks]
         /\ returned \in [Apps -> [Days -> Nat]]
         /\ \A r \in Requests : Day(date[r]) \in Days
BY DayOfTick DEF TypeOK, Ticks

LEMMA NeverIsATime == Never \in Nat
BY Sizes DEF Never

(***************************************************************************)
(* What a charge does to the tables: one unit more, unless the key would   *)
(* die at once; a key that is new dies with its day.                       *)
(***************************************************************************)
LEMMA Consumed ==
  ASSUME TypeOK, NEW r \in Requests, Consume(r), NEW d, d = Day(date[r])
  PROVE  /\ d \in Days /\ counter[r.app][d] < DailyLimit
         /\ counter' \in [Apps -> [Days -> Int]] /\ expiry' \in [Apps -> [Days -> Nat]]
         /\ counter'[r.app][d] = counter[r.app][d] + 1
              \/ (LastSecond(d) <= now /\ counter'[r.app][d] = 0)
         /\ expiry'[r.app][d] \in {expiry[r.app][d], LastSecond(d), Never}
         /\ \A b \in Apps, e \in Days : b # r.app \/ e # d =>
              counter'[b][e] = counter[b][e] /\ expiry'[b][e] = expiry[b][e]
<1> DEFINE a == r.app
           count == counter[a][d] + 1
           first == count = 1
           gone == first /\ LastSecond(d) <= now
           c == IF gone THEN 0 ELSE count
           x == IF gone THEN Never ELSE IF first THEN LastSecond(d) ELSE expiry[a][d]
<1>1. a \in Apps /\ d \in Days /\ count \in Int /\ c \in Int
  BY Types, CallFields
<1>2. Midnight(date[r]) = LastSecond(d)
  BY DEF Midnight, LastSecond
<1>3. LastSecond(d) \in Nat /\ expiry[a][d] \in Nat /\ counter[a][d] \in Int
  BY <1>1, LastSeconds, Types
<1>4. x \in Nat
  BY <1>3, NeverIsATime
<1>5. counter' = [counter EXCEPT ![a][d] = c] /\ expiry' = [expiry EXCEPT ![a][d] = x]
  BY <1>2 DEF Consume
<1>6. /\ counter' \in [Apps -> [Days -> Int]] /\ counter'[a][d] = c
      /\ \A b \in Apps, e \in Days : b # a \/ e # d => counter'[b][e] = counter[b][e]
  <2> HIDE DEF a, c
  <2> QED
    BY <1>1, <1>5, Types, OneCell
<1>7. /\ expiry' \in [Apps -> [Days -> Nat]] /\ expiry'[a][d] = x
      /\ \A b \in Apps, e \in Days : b # a \/ e # d => expiry'[b][e] = expiry[b][e]
  <2> HIDE DEF a, x
  <2> QED
    BY <1>1, <1>4, <1>5, Types, OneCell
<1>8. counter[a][d] < DailyLimit
  BY DEF Consume
<1> QED
  BY <1>1, <1>3, <1>6, <1>7, <1>8

(***************************************************************************)
(* What a refund or a reset does to them: what leaves the counter is       *)
(* written down as given back.                                             *)
(***************************************************************************)
LEMMA GivenBack ==
  ASSUME TypeOK, NEW a \in Apps, NEW d, d = Day(now),
         Reset(a) \/ \E r \in Requests : r.app = a /\ Refund(r)
  PROVE  /\ d \in Days
         /\ counter' \in [Apps -> [Days -> Int]] /\ expiry' \in [Apps -> [Days -> Nat]]
         /\ returned' \in [Apps -> [Days -> Nat]]
         /\ counter'[a][d] <= counter[a][d] \/ counter'[a][d] = 0
         /\ returned'[a][d] >= returned[a][d]
         /\ counter'[a][d] + returned'[a][d] >= counter[a][d] + returned[a][d]
         /\ expiry'[a][d] \in {expiry[a][d], Never}
         /\ \A b \in Apps, e \in Days : b # a \/ e # d =>
              counter'[b][e] = counter[b][e] /\ expiry'[b][e] = expiry[b][e]
                /\ returned'[b][e] = returned[b][e]
<1>1. d \in Days /\ counter[a][d] \in Int /\ returned[a][d] \in Nat /\ expiry[a][d] \in Nat
  BY Types
<1>2. CASE Reset(a)
  <2> DEFINE back == IF counter[a][d] > 0 THEN returned[a][d] + counter[a][d] ELSE returned[a][d]
  <2>1. back \in Nat
    BY <1>1
  <2>2. /\ counter' = [counter EXCEPT ![a][d] = 0] /\ expiry' = [expiry EXCEPT ![a][d] = Never]
        /\ returned' = [returned EXCEPT ![a][d] = back]
    BY <1>2 DEF Reset
  <2> HIDE DEF back
  <2>3. /\ counter' \in [Apps -> [Days -> Int]] /\ counter'[a][d] = 0
        /\ \A b \in Apps, e \in Days : b # a \/ e # d => counter'[b][e] = counter[b][e]
    BY <1>1, <2>2, Types, OneCell
  <2>4. /\ expiry' \in [Apps -> [Days -> Nat]] /\ expiry'[a][d] = Never
        /\ \A b \in Apps, e \in Days : b # a \/ e # d => expiry'[b][e] = expiry[b][e]
    BY <1>1, <2>2, Types, NeverIsATime, OneCell
  <2>5. /\ returned' \in [Apps -> [Days -> Nat]] /\ returned'[a][d] = back
        /\ \A b \in Apps, e \in Days : b # a \/ e # d => returned'[b][e] = returned[b][e]
    BY <1>1, <2>1, <2>2, Types, OneCell
  <2>6. back >= returned[a][d] /\ back >= counter[a][d] + returned[a][d]
    BY <1>1 DEF back
  <2> QED
    BY <1>1, <2>1, <2>3, <2>4, <2>5, <2>6
<1>3. ASSUME NEW r \in Requests, r.app = a, Refund(r)
      PROVE  /\ counter' \in [Apps -> [Days -> Int]] /\ counter'[a][d] = counter[a][d] - 1
             /\ returned' \in [Apps -> [Days -> Nat]] /\ returned'[a][d] = returned[a][d] + 1
             /\ \A b \in Apps, e \in Days : b # a \/ e # d =>
                  counter'[b][e] = counter[b][e] /\ returned'[b][e] = returned[b][e]
             /\ expiry' = expiry
  <2>1. /\ counter' = [counter EXCEPT ![a][d] = counter[a][d] - 1]
        /\ returned' = [returned EXCEPT ![a][d] = returned[a][d] + 1]
        /\ expiry' = expiry
    BY <1>3 DEF Refund
  <2>2. counter[a][d] - 1 \in Int /\ returned[a][d] + 1 \in Nat
    BY <1>1
  <2>3. /\ counter' \in [Apps -> [Days -> Int]] /\ counter'[a][d] = counter[a][d] - 1
        /\ \A b \in Apps, e \in Days : b # a \/ e # d => counter'[b][e] = counter[b][e]
    BY <1>1, <2>1, <2>2, Types, OneCell
  <2>4. /\ returned' \in [Apps -> [Days -> Nat]] /\ returned'[a][d] = returned[a][d] + 1
        /\ \A b \in Apps, e \in Days : b # a \/ e # d => returned'[b][e] = returned[b][e]
    BY <1>1, <2>1, <2>2, Types, OneCell
  <2> QED
    BY <2>1, <2>3, <2>4
<1>4. CASE \E r \in Requests : r.app = a /\ Refund(r)
  <2>1. /\ counter' \in [Apps -> [Days -> Int]] /\ counter'[a][d] = counter[a][d] - 1
        /\ returned' \in [Apps -> [Days -> Nat]] /\ returned'[a][d] = returned[a][d] + 1
        /\ \A b \in Apps, e \in Days : b # a \/ e # d =>
             counter'[b][e] = counter[b][e] /\ returned'[b][e] = returned[b][e]
        /\ expiry' = expiry
    BY <1>3, <1>4
  <2>2. expiry' \in [Apps -> [Days -> Nat]]
    BY <2>1, Types
  <2> QED
    BY <1>1, <2>1, <2>2
<1> QED
  BY <1>2, <1>4

-----------------------------------------------------------------------------
(***************************************************************************)
(* Every step keeps the types.                                             *)
(***************************************************************************)
LEMMA StepTypes ==
  ASSUME TypeOK, [Next]_vars
  PROVE  TypeOK'
<1> USE DEF Goto
<1>0. /\ now \in Ticks /\ window \in [Apps -> SUBSET Ticks]
      /\ counter \in [Apps -> [Days -> Int]] /\ expiry \in [Apps -> [Days -> Nat]]
      /\ pc \in [Requests -> {"called", "stamped", "limited", "dated",
                              "exhausted", "allowed", "refunded"}]
      /\ stamp \in [Requests -> Ticks] /\ date \in [Requests -> Ticks] /\ charged \in [Requests -> Ticks]
      /\ returned \in [Apps -> [Days -> Nat]]
  BY DEF TypeOK
<1>1. ASSUME NEW r \in Requests, Stamp(r) \/ Exhausted(r) PROVE TypeOK'
  <2>1. /\ pc' \in [Requests -> {"called", "stamped", "limited", "dated", "exhausted", "allowed", "refunded"}]
        /\ UNCHANGED <<now, window, counter, expiry, date, charged, returned>>
    BY <1>0, <1>1 DEF Stamp, Exhausted
  <2>2. stamp' \in [Requests -> Ticks]
    BY <1>0, <1>1 DEF Stamp, Exhausted
  <2> QED
    BY <1>0, <2>1, <2>2 DEF TypeOK
<1>2. ASSUME NEW r \in Requests, BurstExceeded(r) \/ BurstRecorded(r) PROVE TypeOK'
  <2>1. r.app \in Apps /\ r.live \in BOOLEAN /\ Trimmed(r.app, stamp[r]) \subseteq Ticks /\ stamp[r] \in Ticks
    BY <1>0, CallFields DEF Trimmed
  <2>2. window' \in [Apps -> SUBSET Ticks]
    BY <1>0, <1>2, <2>1 DEF BurstExceeded, BurstRecorded
  <2>3. pc' \in [Requests -> {"called", "stamped", "limited", "dated", "exhausted", "allowed", "refunded"}]
    BY <1>0, <1>2 DEF BurstExceeded, BurstRecorded
  <2>4. date' \in [Requests -> Ticks]
    BY <1>0, <1>2 DEF BurstExceeded, BurstRecorded
  <2> QED
    BY <1>0, <1>2, <2>2, <2>3, <2>4 DEF BurstExceeded, BurstRecorded, TypeOK
<1>3. ASSUME NEW r \in Requests, Consume(r) PROVE TypeOK'
  <2>1. counter' \in [Apps -> [Days -> Int]] /\ expiry' \in [Apps -> [Days -> Nat]]
    BY <1>3, Consumed
  <2>2. /\ pc' = [pc EXCEPT ![r] = "allowed"] /\ charged' = [charged EXCEPT ![r] = now]
        /\ UNCHANGED <<now, window, stamp, date, returned>>
    BY <1>3 DEF Consume
  <2> QED
    BY <1>0, <2>1, <2>2 DEF TypeOK
<1>4. ASSUME NEW a \in Apps, Reset(a) \/ \E r \in Requests : r.app = a /\ Refund(r) PROVE TypeOK'
  <2>1. /\ counter' \in [Apps -> [Days -> Int]] /\ expiry' \in [Apps -> [Days -> Nat]]
        /\ returned' \in [Apps -> [Days -> Nat]]
    BY <1>4, GivenBack
  <2>2. UNCHANGED <<now, window, stamp, date, charged>>
    BY <1>4 DEF Reset, Refund
  <2>3. pc' \in [Requests -> {"called", "stamped", "limited", "dated", "exhausted", "allowed", "refunded"}]
    BY <1>0, <1>4 DEF Reset, Refund
  <2> QED
    BY <1>0, <2>1, <2>2, <2>3 DEF TypeOK
<1>5. CASE Tick
  <2>1. now' \in Ticks
    BY <1>0, <1>5, Sizes DEF Tick, Ticks
  <2>2. counter' \in [Apps -> [Days -> Int]]
    BY <1>0, <1>5 DEF Tick
  <2>3. expiry' \in [Apps -> [Days -> Nat]]
    BY <1>0, <1>5, NeverIsATime DEF Tick
  <2> QED
    BY <1>0, <1>5, <2>1, <2>2, <2>3 DEF Tick, TypeOK
<1>6. CASE UNCHANGED vars
  BY <1>0, <1>6 DEF vars, TypeOK
<1> QED
  BY <1>1, <1>2, <1>3, <1>4, <1>5, <1>6, CallFields DEF Next

(***************************************************************************)
(* What a step does to the burst layer.                                    *)
(***************************************************************************)
PastBurstLayer(q) == pc[q] \notin {"called", "stamped", "limited"}

Quiet ==
  /\ UNCHANGED <<window, stamp>>
  /\ \A q \in Requests : pc'[q] = pc[q] \/ (PastBurstLayer(q) /\ PastBurstLayer(q)')

LEMMA BurstSteps ==
  ASSUME TypeOK, [Next]_vars
  PROVE  \/ Quiet /\ (Tick \/ now' = now)
         \/ \E r \in Requests : Stamp(r) \/ BurstExceeded(r) \/ BurstRecorded(r)
<1>0. pc \in [Requests -> {"called", "stamped", "limited", "dated", "exhausted", "allowed", "refunded"}]
  BY DEF TypeOK
<1>1. ASSUME NEW r \in Requests, Consume(r) \/ Exhausted(r) \/ Refund(r)
      PROVE  Quiet /\ now' = now
  <2>1. PICK to \in {"allowed", "exhausted", "refunded"} :
          pc' = [pc EXCEPT ![r] = to] /\ pc[r] \in {"dated", "allowed"}
    BY <1>1 DEF Consume, Exhausted, Refund, Goto
  <2>2. UNCHANGED <<now, window, stamp>>
    BY <1>1 DEF Consume, Exhausted, Refund
  <2> QED
    BY <1>0, <2>1, <2>2 DEF Quiet, PastBurstLayer
<1>2. CASE (\E a \in Apps : Reset(a)) \/ Tick \/ UNCHANGED vars
  BY <1>2 DEF Reset, Tick, vars, Quiet, PastBurstLayer
<1> QED
  BY <1>1, <1>2 DEF Next

(***************************************************************************)
(* FinitelyManyCalled: a step begins one call at most.                     *)
(***************************************************************************)
LEMMA CalledKept ==
  ASSUME TypeOK, FinitelyManyCalled, [Next]_vars
  PROVE  FinitelyManyCalled'
<1> DEFINE C == {r \in Requests : pc[r] # "called"}
<1>0. pc \in [Requests -> {"called", "stamped", "limited", "dated", "exhausted", "allowed", "refunded"}]
  BY DEF TypeOK
<1>1. CASE Quiet
  <2>1. C' \subseteq C
    BY <1>1 DEF Quiet, PastBurstLayer
  <2> HIDE DEF C
  <2>2. IsFiniteSet(C')
    BY <2>1, FS_Subset DEF FinitelyManyCalled, C
  <2> QED
    BY <2>2 DEF FinitelyManyCalled, C
<1>2. ASSUME NEW r \in Requests, Stamp(r) \/ BurstExceeded(r) \/ BurstRecorded(r)
      PROVE  FinitelyManyCalled'
  <2>1. C' \subseteq C \cup {r}
    BY <1>0, <1>2 DEF Stamp, BurstExceeded, BurstRecorded, Goto
  <2> HIDE DEF C
  <2>2. IsFiniteSet(C \cup {r})
    BY FS_AddElement DEF FinitelyManyCalled, C
  <2>3. IsFiniteSet(C')
    BY <2>1, <2>2, FS_Subset
  <2> QED
    BY <2>3 DEF FinitelyManyCalled, C
<1> QED
  BY <1>1, <1>2, BurstSteps

(***************************************************************************)
(* LiveDated.                                                              *)
(***************************************************************************)
LEMMA DatedKept ==
  ASSUME TypeOK, LiveDated, [Next]_vars
  PROVE  LiveDated'
<1> USE DEF Goto
<1>0. pc \in [Requests -> {"called", "stamped", "limited", "dated", "exhausted", "allowed", "refunded"}]
  BY DEF TypeOK
<1>1. ASSUME NEW r \in Requests, Stamp(r) \/ BurstExceeded(r) PROVE LiveDated'
  BY <1>0, <1>1 DEF Stamp, BurstExceeded, LiveDated
<1>2. ASSUME NEW r \in Requests, BurstRecorded(r) PROVE LiveDated'
  BY <1>0, <1>2 DEF BurstRecorded, LiveDated
<1>3. ASSUME NEW r \in Requests, Consume(r) \/ Exhausted(r) PROVE LiveDated'
  BY <1>0, <1>3 DEF Consume, Exhausted, LiveDated
<1>4. ASSUME NEW r \in Requests, Refund(r) PROVE LiveDated'
  BY <1>0, <1>4 DEF Refund, LiveDated
<1>5. CASE (\E a \in Apps : Reset(a)) \/ Tick \/ UNCHANGED vars
  BY <1>5 DEF Reset, Tick, vars, LiveDated
<1> QED
  BY <1>1, <1>2, <1>3, <1>4, <1>5 DEF Next

(***************************************************************************)
(* Punctual: the clock waits for a script that has reached its delay.      *)
(***************************************************************************)
LEMMA PunctualKept ==
  ASSUME TypeOK, Punctual, [Next]_vars, TypeOK'
  PROVE  Punctual'
<1>0. /\ pc \in [Requests -> {"called", "stamped", "limited", "dated", "exhausted", "allowed", "refunded"}]
      /\ now \in Nat /\ stamp \in [Requests -> Ticks] /\ \A t \in Ticks : t \in Nat
      /\ MaxDelay \in Nat
  BY Sizes DEF TypeOK, Ticks
<1> SUFFICES ASSUME NEW q \in Requests, pc'[q] = "stamped"
             PROVE  stamp'[q] <= now' /\ now' <= stamp'[q] + MaxDelay
  BY DEF Punctual
<1>1. CASE UNCHANGED stamp /\ (Tick \/ now' = now) /\ pc[q] = "stamped"
  <2>1. stamp[q] <= now /\ now <= stamp[q] + MaxDelay /\ stamp[q] \in Nat
    BY <1>0, <1>1 DEF Punctual
  <2>2. CASE Tick
    <3>1. now' = now + 1 /\ now - stamp[q] < MaxDelay
      BY <1>0, <1>1, <2>1, <2>2 DEF Tick, Waiting
    <3> QED
      BY <1>0, <1>1, <2>1, <3>1
  <2> QED
    BY <1>1, <2>1, <2>2
<1>2. ASSUME NEW r \in Requests, Stamp(r)
      PROVE  stamp'[q] <= now' /\ now' <= stamp'[q] + MaxDelay
  <2>1. CASE q = r
    BY <1>0, <1>2, <2>1 DEF Stamp
  <2>2. CASE q # r
    BY <1>0, <1>2, <2>2 DEF Stamp, Goto, Punctual
  <2> QED
    BY <2>1, <2>2
<1>3. ASSUME NEW r \in Requests, BurstExceeded(r) \/ BurstRecorded(r)
      PROVE  UNCHANGED <<stamp, now>> /\ pc[q] = "stamped"
  BY <1>0, <1>3 DEF BurstExceeded, BurstRecorded, Goto
<1> QED
  BY <1>1, <1>2, <1>3, BurstSteps DEF Quiet, PastBurstLayer

(***************************************************************************)
(* WindowHolds: what a script trims is a window old at least.              *)
(***************************************************************************)
LEMMA WindowKept ==
  ASSUME TypeOK, Punctual, WindowHolds, [Next]_vars, TypeOK'
  PROVE  WindowHolds'
<1>0. /\ pc \in [Requests -> {"called", "stamped", "limited", "dated", "exhausted", "allowed", "refunded"}]
      /\ now \in Nat /\ now' \in Nat /\ \A q \in Requests : stamp[q] \in Nat /\ q.app \in Apps
      /\ stamp \in [Requests -> Ticks] /\ window \in [Apps -> SUBSET Ticks] /\ Window \in Nat
  BY Sizes, CallFields DEF TypeOK, Ticks
<1> SUFFICES ASSUME NEW q \in Requests, PastBurstLayer(q)', stamp'[q] > now' - Window
             PROVE  stamp'[q] \in window'[q.app]
  BY DEF WindowHolds, PastBurstLayer
<1>1. CASE Quiet /\ (Tick \/ now' = now)
  <2>1. PastBurstLayer(q) /\ stamp' = stamp /\ window' = window
    BY <1>1 DEF Quiet, PastBurstLayer
  <2>2. stamp[q] > now - Window
    BY <1>0, <1>1, <2>1 DEF Tick
  <2> QED
    BY <2>1, <2>2 DEF WindowHolds, PastBurstLayer
<1>2. ASSUME NEW r \in Requests, Stamp(r) PROVE stamp'[q] \in window'[q.app]
  <2>1. PastBurstLayer(q) /\ q # r /\ window' = window /\ now' = now
    BY <1>0, <1>2 DEF Stamp, Goto, PastBurstLayer
  <2>2. stamp'[q] = stamp[q]
    BY <1>0, <1>2, <2>1 DEF Stamp
  <2> QED
    BY <2>1, <2>2 DEF WindowHolds, PastBurstLayer
<1>3. ASSUME NEW r \in Requests, BurstExceeded(r) \/ BurstRecorded(r) PROVE stamp'[q] \in window'[q.app]
  <2>1. stamp' = stamp /\ now' = now /\ pc[r] = "stamped"
    BY <1>3 DEF BurstExceeded, BurstRecorded, Goto
  <2>2. /\ Trimmed(r.app, stamp[r]) \subseteq window'[r.app]
        /\ \A a \in Apps \ {r.app} : window'[a] = window[a]
        /\ BurstRecorded(r) => stamp[r] \in window'[r.app]
    BY <1>0, <1>3 DEF BurstExceeded, BurstRecorded
  <2>3. CASE q # r
    <3>1. PastBurstLayer(q)
      BY <1>0, <1>3, <2>3 DEF BurstExceeded, BurstRecorded, Goto, PastBurstLayer
    <3>2. stamp[q] \in window[q.app]
      BY <2>1, <3>1 DEF WindowHolds, PastBurstLayer
    <3>3. stamp[q] > stamp[r] - Window
      BY <1>0, <2>1 DEF Punctual
    <3>4. q.app = r.app => stamp[q] \in Trimmed(r.app, stamp[r])
      BY <3>2, <3>3 DEF Trimmed
    <3> QED
      BY <1>0, <2>1, <2>2, <3>2, <3>4
  <2>4. CASE q = r
    <3>1. BurstRecorded(r)
      BY <1>0, <1>3, <2>4 DEF BurstExceeded, Goto, PastBurstLayer
    <3> QED
      BY <2>1, <2>2, <2>4, <3>1
  <2> QED
    BY <2>3, <2>4
<1> QED
  BY <1>1, <1>2, <1>3, BurstSteps

-----------------------------------------------------------------------------
\* The instants at which calls of a kind were let through, and those within a shortened window.
Instants(a, live) == {stamp[r] : r \in PastBurst(a, live)}
Recent(a, live, t) == {s \in Instants(a, live) : t - (Window - MaxDelay) < s /\ s <= t}

LEMMA RecentFinite ==
  ASSUME TypeOK, NEW a \in Apps, NEW live \in BOOLEAN, NEW t \in Ticks
  PROVE  IsFiniteSet(Recent(a, live, t)) /\ Recent(a, live, t) \subseteq Ticks
<1>1. IsFiniteSet(Ticks)
  BY Sizes, FS_Interval DEF Ticks
<1>2. Recent(a, live, t) \subseteq Ticks
  BY DEF Recent, Instants, PastBurst, TypeOK
<1> QED
  BY <1>1, <1>2, FS_Subset

LEMMA BurstKept ==
  ASSUME TypeOK, Punctual, WindowHolds, BurstInstantsBounded, [Next]_vars
  PROVE  BurstInstantsBounded'
<1>0. /\ pc \in [Requests -> {"called", "stamped", "limited", "dated", "exhausted", "allowed", "refunded"}]
      /\ now \in Nat /\ \A q \in Requests : stamp[q] \in Nat /\ q.app \in Apps
      /\ stamp \in [Requests -> Ticks] /\ window \in [Apps -> SUBSET Ticks]
      /\ Window \in Nat /\ MaxDelay \in Nat
  BY Sizes, CallFields DEF TypeOK, Ticks
<1> SUFFICES ASSUME NEW a \in Apps, NEW live \in BOOLEAN, NEW t \in Ticks
             PROVE  Cardinality(Recent(a, live, t)') <= BurstLimit[live]
  BY DEF BurstInstantsBounded, Recent, Instants
<1>1. Cardinality(Recent(a, live, t)) <= BurstLimit[live]
  BY DEF BurstInstantsBounded, Recent, Instants
<1>2. CASE Recent(a, live, t)' = Recent(a, live, t)
  BY <1>1, <1>2
<1>3. CASE Quiet
  BY <1>2, <1>3 DEF Recent, Instants, PastBurst, Quiet, PastBurstLayer
<1>4. ASSUME NEW r \in Requests, Stamp(r) PROVE Recent(a, live, t)' = Recent(a, live, t)
  <2>1. \A q \in Requests : /\ PastBurstLayer(q) <=> PastBurstLayer(q)'
                            /\ PastBurstLayer(q) => stamp'[q] = stamp[q]
    BY <1>0, <1>4 DEF Stamp, Goto, PastBurstLayer
  <2> QED
    BY <2>1 DEF Recent, Instants, PastBurst, PastBurstLayer
<1>5. ASSUME NEW r \in Requests, BurstExceeded(r) PROVE Recent(a, live, t)' = Recent(a, live, t)
  <2>1. stamp' = stamp /\ \A q \in Requests : PastBurstLayer(q) <=> PastBurstLayer(q)'
    BY <1>0, <1>5 DEF BurstExceeded, Goto, PastBurstLayer
  <2> QED
    BY <2>1 DEF Recent, Instants, PastBurst, PastBurstLayer
<1>6. ASSUME NEW r \in Requests, BurstRecorded(r)
      PROVE  Cardinality(Recent(a, live, t)') <= BurstLimit[live]
  <2> DEFINE s == stamp[r]
             T == Trimmed(r.app, s)
  <2>1. /\ stamp' = stamp /\ Cardinality(T) < BurstLimit[r.live] /\ pc[r] = "stamped"
        /\ \A q \in Requests \ {r} : PastBurstLayer(q) <=> PastBurstLayer(q)'
    BY <1>0, <1>6 DEF BurstRecorded, Goto, PastBurstLayer
  <2>2. Recent(a, live, t)' \subseteq Recent(a, live, t) \cup {s}
    BY <2>1 DEF Recent, Instants, PastBurst, PastBurstLayer
  <2>3. CASE s \notin Recent(a, live, t)'
    <3>1. Recent(a, live, t)' \subseteq Recent(a, live, t)
      BY <2>2, <2>3
    <3>2. Cardinality(Recent(a, live, t)') <= Cardinality(Recent(a, live, t))
      BY <3>1, RecentFinite, FS_Subset
    <3>3. /\ Cardinality(Recent(a, live, t)') \in Nat /\ Cardinality(Recent(a, live, t)) \in Nat
          /\ BurstLimit[live] \in Nat
      BY <3>1, RecentFinite, FS_Subset, FS_CardinalityType, QuotaAssumption
    <3> QED
      BY <1>1, <3>2, <3>3
  <2>4. CASE s \in Recent(a, live, t) /\ s \in Recent(a, live, t)'
    <3>1. Recent(a, live, t)' \subseteq Recent(a, live, t)
      BY <2>2, <2>4
    <3>2. Cardinality(Recent(a, live, t)') <= Cardinality(Recent(a, live, t))
      BY <3>1, RecentFinite, FS_Subset
    <3>3. /\ Cardinality(Recent(a, live, t)') \in Nat /\ Cardinality(Recent(a, live, t)) \in Nat
          /\ BurstLimit[live] \in Nat
      BY <3>1, RecentFinite, FS_Subset, FS_CardinalityType, QuotaAssumption
    <3> QED
      BY <1>1, <3>2, <3>3
  <2>5. CASE s \notin Recent(a, live, t) /\ s \in Recent(a, live, t)'
    <3>1. r.app = a /\ r.live = live
      BY <2>1, <2>5 DEF Recent, Instants, PastBurst, PastBurstLayer
    <3>2. s \in Nat /\ t \in Nat /\ t - (Window - MaxDelay) < s /\ s <= t /\ now <= s + MaxDelay
      BY <1>0, <2>1, <2>5 DEF Recent, Punctual, Ticks
    <3>3. ASSUME NEW x \in Recent(a, live, t) PROVE x \in T
      <4>1. PICK q \in Requests : q.app = a /\ PastBurstLayer(q) /\ x = stamp[q]
        BY DEF Recent, Instants, PastBurst, PastBurstLayer
      <4>2. x \in Nat /\ t - (Window - MaxDelay) < x
        BY <1>0, <4>1 DEF Recent
      <4>3. x > now - Window /\ x > s - Window
        BY <1>0, <3>2, <4>2
      <4>4. x \in window[a]
        BY <4>1, <4>3 DEF WindowHolds, PastBurstLayer
      <4> QED
        BY <3>1, <4>3, <4>4 DEF Trimmed
    <3>4. T \subseteq Ticks
      BY <1>0 DEF Trimmed
    <3> HIDE DEF T, s
    <3>5. IsFiniteSet(T) /\ Cardinality(T) \in Nat
      <4>1. IsFiniteSet(Ticks)
        BY Sizes, FS_Interval DEF Ticks
      <4> QED
        BY <3>4, <4>1, FS_Subset, FS_CardinalityType
    <3>6. Recent(a, live, t)' \subseteq T \cup {s}
      BY <2>2, <3>3
    <3>7. IsFiniteSet(T \cup {s}) /\ Cardinality(T \cup {s}) <= Cardinality(T) + 1
      <4>1. IsFiniteSet(T \cup {s})
        BY <3>5, FS_AddElement
      <4>2. Cardinality(T \cup {s}) = IF s \in T THEN Cardinality(T) ELSE Cardinality(T) + 1
        BY <3>5, FS_AddElement
      <4> QED
        BY <3>5, <4>1, <4>2
    <3>8. Cardinality(Recent(a, live, t)') <= Cardinality(T \cup {s}) /\ Cardinality(Recent(a, live, t)') \in Nat
      BY <3>6, <3>7, FS_Subset, FS_CardinalityType
    <3>9. Cardinality(T \cup {s}) \in Nat /\ BurstLimit[live] \in Nat
      BY <3>7, FS_CardinalityType, QuotaAssumption
    <3> QED
      BY <2>1, <3>1, <3>5, <3>7, <3>8, <3>9
  <2> QED
    BY <2>3, <2>4, <2>5
<1> QED
  BY <1>2, <1>3, <1>4, <1>5, <1>6, BurstSteps

-----------------------------------------------------------------------------
(***************************************************************************)
(* What a step does to the daily layer: the daily script charges a call,   *)
(* a refund or a reset gives back, time passes, or nothing.                *)
(***************************************************************************)
LEMMA DailySteps ==
  ASSUME TypeOK, LiveDated, [Next]_vars
  PROVE  \/ \E r \in Requests : Consume(r)
         \/ \E a \in Apps : Reset(a) \/ \E r \in Requests : r.app = a /\ Refund(r)
         \/ Tick
         \/ UNCHANGED <<now, counter, expiry, charged, returned>>
BY CallFields DEF Next, vars, Stamp, BurstExceeded, BurstRecorded, Exhausted

(***************************************************************************)
(* A step other than a charge leaves the sets of charged calls alone.      *)
(***************************************************************************)
LEMMA ChargesStay ==
  ASSUME TypeOK, LiveDated, [Next]_vars, ~\E r \in Requests : Consume(r),
         NEW a \in Apps, NEW d \in Days
  PROVE  Charged(a, d)' = Charged(a, d) /\ ChargedEarly(a, d)' = ChargedEarly(a, d)
<1> DEFINE In(q) == pc[q] \in {"allowed", "refunded"} /\ q.live
<1> USE DEF Goto
<1>0. /\ pc \in [Requests -> {"called", "stamped", "limited", "dated", "exhausted", "allowed", "refunded"}]
      /\ date \in [Requests -> Ticks]
  BY DEF TypeOK
<1>1. charged' = charged
  BY DailySteps DEF Reset, Refund, Tick
<1>2. \A q \in Requests : (In(q) <=> In(q)') /\ (In(q) => date'[q] = date[q])
  <2>1. ASSUME NEW r \in Requests, Stamp(r) \/ BurstExceeded(r) \/ Exhausted(r)
        PROVE  \A q \in Requests : (In(q) <=> In(q)') /\ (In(q) => date'[q] = date[q])
    BY <1>0, <2>1 DEF Stamp, BurstExceeded, Exhausted
  <2>2. ASSUME NEW r \in Requests, BurstRecorded(r)
        PROVE  \A q \in Requests : (In(q) <=> In(q)') /\ (In(q) => date'[q] = date[q])
    BY <1>0, <2>2 DEF BurstRecorded
  <2>3. ASSUME NEW r \in Requests, Refund(r)
        PROVE  \A q \in Requests : (In(q) <=> In(q)') /\ (In(q) => date'[q] = date[q])
    BY <1>0, <2>3 DEF Refund
  <2>4. CASE (\E b \in Apps : Reset(b)) \/ Tick \/ UNCHANGED vars
    BY <2>4 DEF Reset, Tick, vars
  <2> QED
    BY <2>1, <2>2, <2>3, <2>4 DEF Next
<1> QED
  BY <1>1, <1>2 DEF Charged, ChargedEarly

(***************************************************************************)
(* A charge adds its call to the day it was dated with.                    *)
(***************************************************************************)
LEMMA ChargeAdds ==
  ASSUME TypeOK, LiveDated, NEW r \in Requests, Consume(r), NEW a \in Apps, NEW d \in Days
  PROVE  /\ r.app = a /\ Day(date[r]) = d =>
              /\ r \notin Charged(a, d) /\ Charged(a, d)' = Charged(a, d) \cup {r}
              /\ now < LastSecond(d) => ChargedEarly(a, d)' = ChargedEarly(a, d) \cup {r}
              /\ ~(now < LastSecond(d)) => ChargedEarly(a, d)' = ChargedEarly(a, d)
         /\ r.app # a \/ Day(date[r]) # d =>
              Charged(a, d)' = Charged(a, d) /\ ChargedEarly(a, d)' = ChargedEarly(a, d)
<1>1. /\ pc[r] = "dated" /\ r.live /\ pc'[r] = "allowed" /\ charged'[r] = now
      /\ \A q \in Requests \ {r} : pc'[q] = pc[q] /\ charged'[q] = charged[q]
      /\ date' = date
  BY DEF Consume, Goto, LiveDated, TypeOK
<1> QED
  BY <1>1 DEF Charged, ChargedEarly

LEMMA ChargesFinite ==
  ASSUME FinitelyManyCalled, NEW a \in Apps, NEW d \in Days
  PROVE  /\ IsFiniteSet(Charged(a, d)) /\ Cardinality(Charged(a, d)) \in Nat
         /\ IsFiniteSet(ChargedEarly(a, d)) /\ Cardinality(ChargedEarly(a, d)) \in Nat
<1>1. /\ Charged(a, d) \subseteq {r \in Requests : pc[r] # "called"}
      /\ ChargedEarly(a, d) \subseteq {r \in Requests : pc[r] # "called"}
  BY DEF Charged, ChargedEarly
<1> QED
  BY <1>1, FS_Subset, FS_CardinalityType DEF FinitelyManyCalled

(***************************************************************************)
(* KeysOutliveDays.                                                        *)
(***************************************************************************)
LEMMA KeysKept ==
  ASSUME TypeOK, LiveDated, KeysOutliveDays, [Next]_vars
  PROVE  KeysOutliveDays'
<1> SUFFICES ASSUME NEW a \in Apps, NEW d \in Days PROVE expiry'[a][d] >= LastSecond(d)
  BY DEF KeysOutliveDays, LastSecond
<1>0. expiry[a][d] >= LastSecond(d) /\ LastSecond(d) \in Nat /\ Never \in Nat /\ Never >= LastSecond(d)
  BY LastSeconds, NeverIsATime DEF KeysOutliveDays
<1>1. ASSUME NEW r \in Requests, Consume(r) PROVE expiry'[a][d] \in {expiry[a][d], LastSecond(d), Never}
  BY <1>1, Consumed
<1>2. ASSUME NEW b \in Apps, Reset(b) \/ \E r \in Requests : r.app = b /\ Refund(r)
      PROVE  expiry'[a][d] \in {expiry[a][d], Never}
  BY <1>2, GivenBack
<1> HIDE DEF Never
<1>3. expiry'[a][d] \in {expiry[a][d], LastSecond(d), Never}
  <2>1. CASE Tick
    <3>1. expiry'[a][d] \in {expiry[a][d], Never}
      BY <2>1 DEF Tick
    <3> QED
      BY <3>1
  <2> QED
    BY <1>1, <1>2, <2>1, DailySteps
<1> QED
  BY <1>0, <1>3

(***************************************************************************)
(* CounterCovers and EarlyWithinLimit: a charge before the last second     *)
(* finds less than the limit in the counter.                               *)
(***************************************************************************)
LEMMA EarlyKept ==
  ASSUME TypeOK, FinitelyManyCalled, LiveDated, KeysOutliveDays, CounterCovers, EarlyWithinLimit,
         [Next]_vars
  PROVE  CounterCovers' /\ EarlyWithinLimit'
<1> SUFFICES ASSUME NEW a \in Apps, NEW d \in Days
             PROVE  /\ now' < LastSecond(d) =>
                         Cardinality(ChargedEarly(a, d)') <= counter'[a][d] + returned'[a][d]
                    /\ Cardinality(ChargedEarly(a, d)') <= DailyLimit + returned'[a][d]
  BY DEF CounterCovers, EarlyWithinLimit, LastSecond
<1> DEFINE n == Cardinality(ChargedEarly(a, d))
           m == Cardinality(ChargedEarly(a, d)')
<1>0. /\ now < LastSecond(d) => n <= counter[a][d] + returned[a][d]
      /\ n <= DailyLimit + returned[a][d]
      /\ counter[a][d] \in Int /\ returned[a][d] \in Nat /\ DailyLimit \in Nat /\ n \in Nat
      /\ LastSecond(d) \in Nat /\ now \in Nat
  BY Types, Sizes, LastSeconds, ChargesFinite DEF CounterCovers, EarlyWithinLimit
<1>1. ASSUME NEW r \in Requests, Consume(r)
      PROVE  (now' < LastSecond(d) => m <= counter'[a][d] + returned'[a][d]) /\ m <= DailyLimit + returned'[a][d]
  <2>1. now' = now /\ returned' = returned
    BY <1>1 DEF Consume
  <2>2. CASE r.app = a /\ Day(date[r]) = d /\ now < LastSecond(d)
    <3>1. counter'[a][d] = counter[a][d] + 1 /\ counter[a][d] < DailyLimit
      BY <1>0, <1>1, <2>2, Consumed
    <3>2. r \notin ChargedEarly(a, d) /\ ChargedEarly(a, d)' = ChargedEarly(a, d) \cup {r}
      BY <1>1, <2>2, ChargeAdds DEF ChargedEarly
    <3>3. m = n + 1
      BY <3>2, ChargesFinite, FS_AddElement
    <3> HIDE DEF m, n
    <3> QED
      BY <1>0, <2>1, <2>2, <3>1, <3>3
  <2>3. CASE ~(now < LastSecond(d))
    <3>1. m = n
      BY <1>1, <2>3, ChargeAdds
    <3> HIDE DEF m, n
    <3> QED
      BY <1>0, <2>1, <2>3, <3>1
  <2>4. CASE r.app # a \/ Day(date[r]) # d
    <3>1. m = n /\ counter'[a][d] = counter[a][d]
      BY <1>1, <2>4, ChargeAdds, Consumed
    <3> HIDE DEF m, n
    <3> QED
      BY <1>0, <2>1, <3>1
  <2> QED
    BY <2>2, <2>3, <2>4
<1>2. ASSUME ~\E r \in Requests : Consume(r) PROVE m = n
  BY <1>2, ChargesStay
<1>3. ASSUME NEW b \in Apps, Reset(b) \/ \E r \in Requests : r.app = b /\ Refund(r), m = n
      PROVE  (now' < LastSecond(d) => m <= counter'[a][d] + returned'[a][d]) /\ m <= DailyLimit + returned'[a][d]
  <2>1. /\ returned'[a][d] >= returned[a][d] /\ returned'[a][d] \in Nat /\ counter'[a][d] \in Int
        /\ counter'[a][d] + returned'[a][d] >= counter[a][d] + returned[a][d]
    <3>1. /\ counter' \in [Apps -> [Days -> Int]] /\ returned' \in [Apps -> [Days -> Nat]]
      BY <1>3, GivenBack
    <3>2. CASE a = b /\ d = Day(now)
      BY <1>3, <3>1, <3>2, GivenBack
    <3>3. CASE ~(a = b /\ d = Day(now))
      <4>1. counter'[a][d] = counter[a][d] /\ returned'[a][d] = returned[a][d]
        BY <1>3, <3>3, GivenBack
      <4> QED
        BY <1>0, <4>1
    <3> QED
      BY <3>2, <3>3
  <2>2. now' = now
    BY <1>3 DEF Reset, Refund
  <2> HIDE DEF m, n
  <2> QED
    BY <1>0, <1>3, <2>1, <2>2
<1>4. ASSUME Tick, m = n
      PROVE  (now' < LastSecond(d) => m <= counter'[a][d] + returned'[a][d]) /\ m <= DailyLimit + returned'[a][d]
  <2>1. /\ now' = now + 1 /\ returned' = returned
        /\ counter'[a][d] = IF expiry[a][d] <= now' THEN 0 ELSE counter[a][d]
    BY <1>4 DEF Tick
  <2>2. expiry[a][d] >= LastSecond(d) /\ expiry[a][d] \in Nat
    BY Types DEF KeysOutliveDays
  <2> HIDE DEF m, n
  <2> QED
    BY <1>0, <1>4, <2>1, <2>2
<1>5. ASSUME UNCHANGED <<now, counter, returned>>, m = n
      PROVE  (now' < LastSecond(d) => m <= counter'[a][d] + returned'[a][d]) /\ m <= DailyLimit + returned'[a][d]
  BY <1>0, <1>5
<1> QED
  BY <1>1, <1>2, <1>3, <1>4, <1>5, DailySteps

(***************************************************************************)
(* CounterEarned: only a charge raises a counter above zero.               *)
(***************************************************************************)
LEMMA EarnedKept ==
  ASSUME TypeOK, FinitelyManyCalled, LiveDated, CounterEarned, [Next]_vars, FinitelyManyCalled'
  PROVE  CounterEarned'
<1> SUFFICES ASSUME NEW a \in Apps, NEW d \in Days
             PROVE  counter'[a][d] <= Cardinality(Charged(a, d)')
  BY DEF CounterEarned
<1> DEFINE n == Cardinality(Charged(a, d))
           m == Cardinality(Charged(a, d)')
<1>0. counter[a][d] <= n /\ counter[a][d] \in Int /\ n \in Nat
  BY Types, ChargesFinite DEF CounterEarned
<1>1. ASSUME NEW r \in Requests, Consume(r) PROVE counter'[a][d] <= m
  <2>1. CASE r.app = a /\ Day(date[r]) = d
    <3>1. m = n + 1
      BY <1>1, <2>1, ChargeAdds, ChargesFinite, FS_AddElement
    <3>2. counter'[a][d] = counter[a][d] + 1 \/ counter'[a][d] = 0
      BY <1>1, <2>1, Consumed
    <3> HIDE DEF m, n
    <3> QED
      BY <1>0, <3>1, <3>2
  <2>2. CASE ~(r.app = a /\ Day(date[r]) = d)
    <3>1. m = n /\ counter'[a][d] = counter[a][d]
      BY <1>1, <2>2, ChargeAdds, Consumed
    <3> QED
      BY <1>0, <3>1
  <2> QED
    BY <2>1, <2>2
<1>2. ASSUME ~\E r \in Requests : Consume(r) PROVE counter'[a][d] <= m
  <2>1. m = n
    BY <1>2, ChargesStay
  <2>2. counter'[a][d] <= counter[a][d] \/ counter'[a][d] = 0
    <3>1. ASSUME NEW b \in Apps, Reset(b) \/ \E r \in Requests : r.app = b /\ Refund(r)
          PROVE  counter'[a][d] <= counter[a][d] \/ counter'[a][d] = 0
      BY <1>0, <3>1, GivenBack
    <3>2. CASE Tick
      BY <1>0, <3>2 DEF Tick
    <3>3. CASE counter' = counter
      BY <1>0, <3>3
    <3> QED
      BY <1>2, <3>1, <3>2, <3>3, DailySteps
  <2>3. counter'[a][d] \in Int
    BY StepTypes, Types DEF TypeOK
  <2> HIDE DEF m, n
  <2> QED
    BY <1>0, <2>1, <2>2, <2>3
<1> QED
  BY <1>1, <1>2

(***************************************************************************)
(* RefusedOnlyWhenSpent: a call is refused by a counter that was earned,   *)
(* and no charge is forgotten.                                             *)
(***************************************************************************)
LEMMA RefusedKept ==
  ASSUME TypeOK, FinitelyManyCalled, LiveDated, CounterEarned, RefusedOnlyWhenSpent, [Next]_vars,
         FinitelyManyCalled'
  PROVE  RefusedOnlyWhenSpent'
<1> SUFFICES ASSUME NEW r \in Requests, pc'[r] = "exhausted"
             PROVE  Cardinality(Charged(r.app, Day(date[r])))' >= DailyLimit
  BY DEF RefusedOnlyWhenSpent
<1>0. pc \in [Requests -> {"called", "stamped", "limited", "dated", "exhausted", "allowed", "refunded"}]
      /\ date \in [Requests -> Ticks]
  BY DEF TypeOK
<1>1. date'[r] = date[r] /\ (pc[r] = "exhausted" \/ Exhausted(r))
  <2> USE DEF Goto
  <2>1. ASSUME NEW q \in Requests, Stamp(q) \/ BurstExceeded(q) \/ BurstRecorded(q)
        PROVE  date'[r] = date[r] /\ pc[r] = "exhausted"
    BY <1>0, <2>1 DEF Stamp, BurstExceeded, BurstRecorded
  <2>2. ASSUME NEW q \in Requests, Consume(q) \/ Refund(q)
        PROVE  date'[r] = date[r] /\ pc[r] = "exhausted"
    BY <1>0, <2>2 DEF Consume, Refund
  <2>3. ASSUME NEW q \in Requests, Exhausted(q)
        PROVE  date'[r] = date[r] /\ (pc[r] = "exhausted" \/ q = r)
    BY <1>0, <2>3 DEF Exhausted
  <2>4. CASE (\E b \in Apps : Reset(b)) \/ Tick \/ UNCHANGED vars
    BY <2>4 DEF Reset, Tick, vars
  <2> QED
    BY <2>1, <2>2, <2>3, <2>4 DEF Next
<1>2. PICK a \in Apps, d \in Days : a = r.app /\ d = Day(date[r])
  BY CallFields, Types
<1>3. Cardinality(Charged(a, d)) >= DailyLimit
  <2>1. CASE pc[r] = "exhausted"
    BY <1>2, <2>1 DEF RefusedOnlyWhenSpent
  <2>2. CASE Exhausted(r)
    <3>1. counter[a][d] >= DailyLimit /\ counter[a][d] <= Cardinality(Charged(a, d))
      BY <1>2, <2>2 DEF Exhausted, CounterEarned
    <3> QED
      BY <3>1, Types, Sizes, ChargesFinite
  <2> QED
    BY <1>1, <2>1, <2>2
<1>4. Charged(a, d) \subseteq Charged(a, d)'
  BY ChargesStay, ChargeAdds
<1>5. /\ IsFiniteSet(Charged(a, d)') /\ Cardinality(Charged(a, d)') \in Nat
      /\ Cardinality(Charged(a, d)) <= Cardinality(Charged(a, d)')
  <2>1. Charged(a, d)' \subseteq {q \in Requests : pc'[q] # "called"}
    BY DEF Charged
  <2>2. IsFiniteSet({q \in Requests : pc'[q] # "called"})
    BY DEF FinitelyManyCalled
  <2>3. IsFiniteSet(Charged(a, d)')
    BY <2>1, <2>2, FS_Subset
  <2> QED
    BY <1>4, <2>3, FS_Subset, FS_CardinalityType
<1>6. Cardinality(Charged(a, d)') >= DailyLimit
  BY <1>3, <1>5, ChargesFinite, Sizes
<1> QED
  BY <1>1, <1>2, <1>6 DEF Charged, Day

-----------------------------------------------------------------------------
(***************************************************************************)
(* The invariant is inductive.                                             *)
(***************************************************************************)
LEMMA InitIInv == Init => IInv
<1> SUFFICES ASSUME Init PROVE IInv
  OBVIOUS
<1>0. /\ now = 0 /\ \A r \in Requests : pc[r] = "called"
      /\ \A a \in Apps, d \in Days : counter[a][d] = 0 /\ expiry[a][d] = Never /\ returned[a][d] = 0
  BY DEF Init
<1>1. TypeOK
  <2>1. 0 \in Ticks /\ Never \in Nat
    BY Sizes, NeverIsATime DEF Ticks
  <2> HIDE DEF Never, Ticks
  <2> QED
    BY <2>1 DEF Init, TypeOK
<1>2. FinitelyManyCalled
  <2>1. {r \in Requests : pc[r] # "called"} = {}
    BY <1>0
  <2> QED
    BY <2>1, FS_EmptySet DEF FinitelyManyCalled
<1>3. LiveDated /\ Punctual /\ WindowHolds /\ RefusedOnlyWhenSpent
  BY <1>0 DEF LiveDated, Punctual, WindowHolds, RefusedOnlyWhenSpent
<1>4. \A a \in Apps, d \in Days : Charged(a, d) = {} /\ ChargedEarly(a, d) = {}
  BY <1>0 DEF Charged, ChargedEarly
<1>5. KeysOutliveDays
  <2> SUFFICES ASSUME NEW a \in Apps, NEW d \in Days PROVE expiry[a][d] >= LastSecond(d)
    BY DEF KeysOutliveDays
  <2>1. LastSecond(d) \in Nat /\ LastSecond(d) < Never /\ Never \in Nat /\ expiry[a][d] = Never
    BY <1>0, LastSeconds, NeverIsATime
  <2> HIDE DEF Never
  <2> QED
    BY <2>1
<1>6. CounterCovers /\ EarlyWithinLimit /\ CounterEarned
  <2>1. \A a \in Apps, d \in Days :
          Cardinality(Charged(a, d)) = 0 /\ Cardinality(ChargedEarly(a, d)) = 0
    BY <1>4, FS_EmptySet
  <2> QED
    BY <1>0, <2>1, Sizes DEF CounterCovers, EarlyWithinLimit, CounterEarned
<1>7. BurstInstantsBounded
  <2>1. \A a \in Apps, live \in BOOLEAN, t \in Ticks : Recent(a, live, t) = {}
    BY <1>0 DEF Recent, Instants, PastBurst
  <2>2. \A live \in BOOLEAN : BurstLimit[live] \in Nat
    BY QuotaAssumption
  <2> QED
    BY <2>1, <2>2, FS_EmptySet DEF BurstInstantsBounded, Recent, Instants
<1> QED
  BY <1>1, <1>2, <1>3, <1>5, <1>6, <1>7 DEF IInv

LEMMA NextIInv ==
  ASSUME IInv, [Next]_vars
  PROVE  IInv'
<1>1. TypeOK' /\ FinitelyManyCalled' /\ LiveDated'
  BY StepTypes, CalledKept, DatedKept DEF IInv
<1>2. Punctual' /\ WindowHolds' /\ BurstInstantsBounded'
  BY <1>1, PunctualKept, WindowKept, BurstKept DEF IInv
<1>3. KeysOutliveDays' /\ CounterCovers' /\ EarlyWithinLimit'
  BY KeysKept, EarlyKept DEF IInv
<1>4. CounterEarned' /\ RefusedOnlyWhenSpent'
  BY <1>1, EarnedKept, RefusedKept DEF IInv
<1> QED
  BY <1>1, <1>2, <1>3, <1>4 DEF IInv

LEMMA AlwaysIInv == Spec => []IInv
<1>1. IInv /\ UNCHANGED vars => IInv'
  BY NextIInv
<1> QED
  BY InitIInv, NextIInv, <1>1, PTL DEF Spec

-----------------------------------------------------------------------------
(***************************************************************************)
(* Type correctness: in particular no day of a counter and no time of a    *)
(* script lies outside the model's clock.                                  *)
(***************************************************************************)
THEOREM TypeCorrect == Spec => []TypeOK
<1>1. IInv => TypeOK
  BY DEF IInv
<1> QED
  BY AlwaysIInv, <1>1, PTL

(***************************************************************************)
(* _check_burst: in every window shortened by the delay of a script, at    *)
(* most the burst limit's number of instants let calls of a kind through,  *)
(* in whatever order the scripts run.                                      *)
(***************************************************************************)
THEOREM BurstsBounded == Spec => []BurstInstantsBounded
<1>1. IInv => BurstInstantsBounded
  BY DEF IInv
<1> QED
  BY AlwaysIInv, <1>1, PTL

(***************************************************************************)
(* _check_and_increment_daily: until the last second of a day no           *)
(* application is charged more than its limit and what was given back.     *)
(***************************************************************************)
THEOREM LimitHoldsUntilLastSecond == Spec => []DailyLimitUntilLastSecond
<1>1. IInv => DailyLimitUntilLastSecond
  BY DEF IInv, EarlyWithinLimit, DailyLimitUntilLastSecond, ChargedEarly, LastSecond
<1> QED
  BY AlwaysIInv, <1>1, PTL

(***************************************************************************)
(* _check_and_increment_daily: whoever is refused for the daily quota has  *)
(* been allowed that many calls on that day, whatever expired, was         *)
(* refunded or was reset in between.                                       *)
(***************************************************************************)
THEOREM RefusalsEarned == Spec => []RefusedOnlyWhenSpent
<1>1. IInv => RefusedOnlyWhenSpent
  BY DEF IInv
<1> QED
  BY AlwaysIInv, <1>1, PTL
=============================================================================
