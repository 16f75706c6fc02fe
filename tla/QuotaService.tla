---------------------------- MODULE QuotaService ----------------------------
(***************************************************************************)
(* QuotaService.check_and_consume (services/quota_service.py) for one      *)
(* service: the burst window, a Redis sorted set, and the daily counter,   *)
(* each changed by one atomic Lua script.  The clock is read by the API    *)
(* process before each script is sent, so a script runs with an old time.  *)
(*                                                                         *)
(*   called -> stamped -> dated -> allowed -> refunded                     *)
(*                     -> limited   -> exhausted                           *)
(*                                                                         *)
(* A day has DayLength ticks, the last of which is the second 23:59:59.    *)
(***************************************************************************)
EXTENDS Integers, FiniteSets

CONSTANTS
  Apps,
  Requests,    \* calls: [id, app, live]
  BurstLimit,  \* _burst_limit of a live and of a sandbox key
  Window,      \* _BURST_WINDOW_MS, in ticks
  DailyLimit,  \* _daily_limit
  DayLength,
  LastTick,    \* bound: the clock stops here
  MaxDelay     \* bound: ticks between reading the clock and running a script

Ticks == 0 .. LastTick
Days == 0 .. LastTick \div DayLength
Never == LastTick + DayLength + 1   \* a key without a TTL

ASSUME QuotaAssumption ==
  /\ Requests \subseteq [id : Nat, app : Apps, live : BOOLEAN]
  /\ BurstLimit \in [BOOLEAN -> Nat]
  /\ {Window, DayLength} \subseteq Nat \ {0}
  /\ {DailyLimit, LastTick, MaxDelay} \subseteq Nat

VARIABLES
  now,      \* the clock, the same for Redis and the API processes
  window,   \* rate:{app}:{service}: the members, all alike but for their time
  counter,  \* quota:{app}:{service}:{day}; a missing key reads as 0
  expiry,   \* when that key expires
  pc,       \* where each call is
  stamp,    \* _now_ms of each call
  date,     \* _daily_key and _midnight_unix of each call, as the time they were read at
  charged,  \* when the daily script of each call ran
  returned  \* units that refunds and resets gave back on each day

vars == <<now, window, counter, expiry, pc, stamp, date, charged, returned>>

Day(t) == t \div DayLength

Init ==
  /\ now = 0
  /\ window = [a \in Apps |-> {}]
  /\ counter = [a \in Apps |-> [d \in Days |-> 0]]
  /\ expiry = [a \in Apps |-> [d \in Days |-> Never]]
  /\ pc = [r \in Requests |-> "called"]
  /\ stamp = [r \in Requests |-> 0]
  /\ date = [r \in Requests |-> 0]
  /\ charged = [r \in Requests |-> 0]
  /\ returned = [a \in Apps |-> [d \in Days |-> 0]]

Goto(r, from, to) ==
  /\ pc[r] = from
  /\ pc' = [pc EXCEPT ![r] = to]

(***************************************************************************)
(* Variants with a plausible mistake, used to show that the properties     *)
(* notice it; no specification contains them.                              *)
(***************************************************************************)
\* The window slides by whole windows instead of continuously.
FixedWindow(a, t) == {m \in window[a] : m \div Window = t \div Window}

\* time.mktime on a machine west of Greenwich: the key dies before the day does.
LocalMidnight(t) == Day(t) * DayLength + DayLength \div 2

\* The clock is taken in another unit than the window.
StampInMilliseconds(r) ==
  /\ Goto(r, "called", "stamped")
  /\ stamp' = [stamp EXCEPT ![r] = now * 1000]
  /\ UNCHANGED <<now, window, counter, expiry, date, charged, returned>>

\* The call that takes the last unit is refused.
ExhaustedEarly(r) ==
  /\ counter[r.app][Day(date[r])] + 1 >= DailyLimit
  /\ Goto(r, "dated", "exhausted")
  /\ UNCHANGED <<now, window, counter, expiry, stamp, date, charged, returned>>

(***************************************************************************)
(* Layer 1: _check_burst reads the clock and runs _BURST_LUA.              *)
(***************************************************************************)
\* Calls are numbered in the order in which they read the clock.
Stamp(r) ==
  /\ \A m \in Requests : m.id < r.id => pc[m] # "called"
  /\ Goto(r, "called", "stamped")
  /\ stamp' = [stamp EXCEPT ![r] = now]
  /\ UNCHANGED <<now, window, counter, expiry, date, charged, returned>>

\* ZREMRANGEBYSCORE of everything up to the start of the window.
Trimmed(a, t) == {m \in window[a] : m > t - Window}

BurstExceeded(r) ==
  /\ Cardinality(Trimmed(r.app, stamp[r])) >= BurstLimit[r.live]
  /\ Goto(r, "stamped", "limited")
  /\ window' = [window EXCEPT ![r.app] = Trimmed(r.app, stamp[r])]
  /\ UNCHANGED <<now, counter, expiry, stamp, date, charged, returned>>

\* ZADD of a member made of the time and the application: equal times are one member.
\* A live call reads the date at once; a sandbox call is done.
BurstRecorded(r) ==
  /\ Cardinality(Trimmed(r.app, stamp[r])) < BurstLimit[r.live]
  /\ Goto(r, "stamped", IF r.live THEN "dated" ELSE "allowed")
  /\ window' = [window EXCEPT ![r.app] = Trimmed(r.app, stamp[r]) \cup {stamp[r]}]
  /\ date' = [date EXCEPT ![r] = now]
  /\ UNCHANGED <<now, counter, expiry, stamp, charged, returned>>

(***************************************************************************)
(* Layer 2: _check_and_increment_daily, for live keys.                     *)
(***************************************************************************)
\* _midnight_unix: 23:59:59 of the day, the last tick.
Midnight(t) == (Day(t) + 1) * DayLength - 1

\* EXPIREAT, on the first increment only; a time that has come deletes the key.
Consume(r) ==
  LET d == Day(date[r])
      count == counter[r.app][d] + 1
      first == count = 1
      gone == first /\ Midnight(date[r]) <= now IN
  /\ counter[r.app][d] < DailyLimit
  /\ Goto(r, "dated", "allowed")
  /\ counter' = [counter EXCEPT ![r.app][d] = IF gone THEN 0 ELSE count]
  /\ expiry' = [expiry EXCEPT ![r.app][d] =
                  IF gone THEN Never ELSE IF first THEN Midnight(date[r]) ELSE @]
  /\ charged' = [charged EXCEPT ![r] = now]
  /\ UNCHANGED <<now, window, stamp, date, returned>>

Exhausted(r) ==
  /\ counter[r.app][Day(date[r])] >= DailyLimit
  /\ Goto(r, "dated", "exhausted")
  /\ UNCHANGED <<now, window, counter, expiry, stamp, date, charged, returned>>

\* _quota_rollback of the calling service: DECR of the counter of that moment.
Refund(r) ==
  /\ r.live
  /\ Goto(r, "allowed", "refunded")
  /\ counter' = [counter EXCEPT ![r.app][Day(now)] = @ - 1]
  /\ returned' = [returned EXCEPT ![r.app][Day(now)] = @ + 1]
  /\ UNCHANGED <<now, window, expiry, stamp, date, charged>>

\* reset_daily_quota: the counter of that moment is deleted.
Reset(a) ==
  LET d == Day(now) IN
  /\ counter[a][d] # 0
  /\ counter' = [counter EXCEPT ![a][d] = 0]
  /\ expiry' = [expiry EXCEPT ![a][d] = Never]
  /\ returned' = [returned EXCEPT ![a][d] = IF counter[a][d] > 0 THEN @ + counter[a][d] ELSE @]
  /\ UNCHANGED <<now, window, pc, stamp, date, charged>>

(***************************************************************************)
(* Time passes, and Redis drops the keys that have expired.                *)
(***************************************************************************)
Waiting(r) ==
  \/ pc[r] = "stamped" /\ now - stamp[r] >= MaxDelay
  \/ pc[r] = "dated" /\ now - date[r] >= MaxDelay

Tick ==
  /\ now < LastTick
  /\ \A r \in Requests : ~Waiting(r)
  /\ now' = now + 1
  /\ counter' = [a \in Apps |-> [d \in Days |->
                   IF expiry[a][d] <= now' THEN 0 ELSE counter[a][d]]]
  /\ expiry' = [a \in Apps |-> [d \in Days |->
                  IF expiry[a][d] <= now' THEN Never ELSE expiry[a][d]]]
  /\ UNCHANGED <<window, pc, stamp, date, charged, returned>>

Next ==
  \/ Tick
  \/ \E r \in Requests :
       \/ Stamp(r) \/ BurstExceeded(r) \/ BurstRecorded(r)
       \/ Consume(r) \/ Exhausted(r) \/ Refund(r)
  \/ \E a \in Apps : Reset(a)

Spec == Init /\ [][Next]_vars

-----------------------------------------------------------------------------
\* The domains of the variables.
TypeOK ==
  /\ now \in Ticks
  /\ window \in [Apps -> SUBSET Ticks]
  /\ counter \in [Apps -> [Days -> Int]]
  /\ expiry \in [Apps -> [Days -> Nat]]
  /\ pc \in [Requests -> {"called", "stamped", "limited", "dated",
                          "exhausted", "allowed", "refunded"}]
  /\ {stamp, date, charged} \subseteq [Requests -> Ticks]
  /\ returned \in [Apps -> [Days -> Nat]]

(***************************************************************************)
(* At most BurstLimit instants let calls of a kind through in every window *)
(* shortened by the delay of a script: a late script runs after a younger  *)
(* one has trimmed the set, so nothing holds of the full window.           *)
(***************************************************************************)
PastBurst(a, live) ==
  {r \in Requests : /\ r.app = a /\ r.live = live
                    /\ pc[r] \notin {"called", "stamped", "limited"}}

BurstInstantsBounded ==
  \A a \in Apps, live \in BOOLEAN, t \in Ticks :
    Cardinality({s \in {stamp[r] : r \in PastBurst(a, live)} : t - (Window - MaxDelay) < s /\ s <= t})
      <= BurstLimit[live]

(***************************************************************************)
(* Before the last second of a day, an application is charged at most      *)
(* DailyLimit calls, plus the units that were given back on that day.       *)
(***************************************************************************)
Charged(a, d) ==
  {r \in Requests : /\ r.app = a /\ r.live /\ pc[r] \in {"allowed", "refunded"}
                    /\ Day(date[r]) = d}

DailyLimitUntilLastSecond ==
  \A a \in Apps, d \in Days :
    Cardinality({r \in Charged(a, d) : charged[r] < (d + 1) * DayLength - 1})
      <= DailyLimit + returned[a][d]

(***************************************************************************)
(* A call is refused for its daily quota only on a day on which the        *)
(* application really was allowed that many calls: yesterday's calls do    *)
(* not count.                                                              *)
(***************************************************************************)
RefusedOnlyWhenSpent ==
  \A r \in Requests :
    pc[r] = "exhausted" => Cardinality(Charged(r.app, Day(date[r]))) >= DailyLimit

-----------------------------------------------------------------------------
(***************************************************************************)
(* The inductive invariant behind the three properties.                    *)
(***************************************************************************)
\* Only finitely many calls have begun at any time.
FinitelyManyCalled == IsFiniteSet({r \in Requests : pc[r] # "called"})

\* Only live calls are dated, and nothing but the daily script lets a live call through.
LiveDated ==
  \A r \in Requests : pc[r] \in {"dated", "exhausted", "refunded"} => r.live

\* A script runs within its delay of the time it is sent with.
Punctual ==
  \A r \in Requests :
    pc[r] = "stamped" => stamp[r] <= now /\ now <= stamp[r] + MaxDelay

\* Whatever let a call through within the last window is still in the sorted set: a script
\* trims by a time that has come.
WindowHolds ==
  \A r \in Requests :
    pc[r] \notin {"called", "stamped", "limited"} /\ stamp[r] > now - Window
      => stamp[r] \in window[r.app]

LastSecond(d) == (d + 1) * DayLength - 1

\* No key dies before the last second of its day.
KeysOutliveDays == \A a \in Apps, d \in Days : expiry[a][d] >= LastSecond(d)

ChargedEarly(a, d) == {r \in Charged(a, d) : charged[r] < LastSecond(d)}

\* Until then the counter and what was given back account for every charge.
CounterCovers ==
  \A a \in Apps, d \in Days :
    now < LastSecond(d) => Cardinality(ChargedEarly(a, d)) <= counter[a][d] + returned[a][d]

EarlyWithinLimit ==
  \A a \in Apps, d \in Days :
    Cardinality(ChargedEarly(a, d)) <= DailyLimit + returned[a][d]

\* A counter never exceeds the charges of its day.
CounterEarned ==
  \A a \in Apps, d \in Days : counter[a][d] <= Cardinality(Charged(a, d))

IInv ==
  /\ TypeOK
  /\ FinitelyManyCalled
  /\ LiveDated
  /\ Punctual
  /\ WindowHolds
  /\ BurstInstantsBounded
  /\ KeysOutliveDays
  /\ CounterCovers
  /\ EarlyWithinLimit
  /\ CounterEarned
  /\ RefusedOnlyWhenSpent
=============================================================================
