--------------------------- MODULE NumberService ----------------------------
(***************************************************************************)
(* NumberService.verify (services/number_service.py): a cached answer, a   *)
(* recent row written back into the cache, or a new verification, which    *)
(* costs a unit and is committed before it is cached.  Neither the cache   *)
(* key nor the look-up of a recent row tells live from sandbox keys.       *)
(*                                                                         *)
(*   ready -> called -> done                                               *)
(*            called -> missed -> found -> done                            *)
(*                      missed -> fresh -> charged -> stored -> done       *)
(***************************************************************************)
EXTENDS Integers, FiniteSets

CONSTANTS
  Apps, Numbers,  \* applications, numbers in E.164
  Requests,
  Call,           \* what each request asks for: [app, number, live]
  NoRow,
  Ttl,            \* _CACHE_TTL_SECONDS
  Recency,        \* _RECENT_WINDOW_SECONDS
  LastTick,       \* bound: the clock stops here
  MaxDelay        \* bound: how long a request takes

Slots == Apps \X Numbers

ASSUME NumberAssumption ==
  /\ Call \in [Requests -> [app : Apps, number : Numbers, live : BOOLEAN]]
  /\ NoRow \notin Requests
  /\ Ttl \in Nat \ {0}   \* Redis refuses a SETEX of no time
  /\ {Recency, LastTick, MaxDelay} \subseteq Nat

VARIABLES
  now,      \* the clock of all processes
  cache,    \* number:{app}:{e164}: the verification it holds and when it expires
  rows,     \* number_verifications, by the requests that made them
  charged,  \* live requests that have consumed a unit
  pc,       \* where each request is
  started,  \* begin of the transaction, which is created_at of the row
  since,    \* the time from which a row is recent
  answer,   \* the verification a request is answered with
  age,      \* history: its age when it was read
  before    \* history: the rows that existed when this one looked for a recent row

vars == <<now, cache, rows, charged, pc, started, since, answer, age, before>>

Slot(r) == <<Call[r].app, Call[r].number>>

Init ==
  /\ now = 0
  /\ cache = [s \in Slots |-> [row |-> NoRow, until |-> 0]]
  /\ rows = {} /\ charged = {}
  /\ pc = [r \in Requests |-> "ready"]
  /\ started = [r \in Requests |-> 0]
  /\ since = [r \in Requests |-> 0]
  /\ answer = [r \in Requests |-> NoRow]
  /\ age = [r \in Requests |-> 0]
  /\ before = [r \in Requests |-> {}]

Goto(r, from, to) ==
  /\ pc[r] = from
  /\ pc' = [pc EXCEPT ![r] = to]

(***************************************************************************)
(* Variants with a plausible mistake, used to show that the properties     *)
(* notice it; no specification contains them.                              *)
(***************************************************************************)
\* The entry is written without a TTL.
SetexForever(r, row) ==
  cache' = [cache EXCEPT ![Slot(r)] = [row |-> row, until |-> LastTick + 1]]

\* Rows are told apart by the type of the key.
RecentOfKind(r) ==
  {v \in rows : Slot(v) = Slot(r) /\ Call[v].live = Call[r].live /\ started[v] >= since[r]}

-----------------------------------------------------------------------------
\* The look-up of the API key begins the transaction.
Begin(r) ==
  /\ Goto(r, "ready", "called")
  /\ started' = [started EXCEPT ![r] = now]
  /\ UNCHANGED <<now, cache, rows, charged, since, answer, age, before>>

Reply(r, row) ==
  /\ answer' = [answer EXCEPT ![r] = row]
  /\ age' = [age EXCEPT ![r] = now - started[row]]

Held(r) == cache[Slot(r)].row # NoRow /\ now < cache[Slot(r)].until

\* Tier 1.
CacheHit(r) ==
  /\ Goto(r, "called", "done")
  /\ Held(r)
  /\ Reply(r, cache[Slot(r)].row)
  /\ UNCHANGED <<now, cache, rows, charged, started, since, before>>

CacheMiss(r) ==
  /\ Goto(r, "called", "missed")
  /\ ~Held(r)
  /\ since' = [since EXCEPT ![r] = now - Recency]
  /\ UNCHANGED <<now, cache, rows, charged, started, answer, age, before>>

\* get_recent_for_msisdn.
Recent(r) == {v \in rows : Slot(v) = Slot(r) /\ started[v] >= since[r]}

\* Tier 2: the latest of the recent rows.
FindRecent(r) ==
  /\ Goto(r, "missed", "found")
  /\ \E v \in Recent(r) :
       /\ \A w \in Recent(r) : started[w] <= started[v]
       /\ Reply(r, v)
  /\ UNCHANGED <<now, cache, rows, charged, started, since, before>>

Setex(r, row) ==
  cache' = [cache EXCEPT ![Slot(r)] = [row |-> row, until |-> now + Ttl]]

Rehydrate(r) ==
  /\ Goto(r, "found", "done")
  /\ Setex(r, answer[r])
  /\ UNCHANGED <<now, rows, charged, started, since, answer, age, before>>

FindNone(r) ==
  /\ Goto(r, "missed", "fresh")
  /\ Recent(r) = {}
  /\ before' = [before EXCEPT ![r] = rows]
  /\ UNCHANGED <<now, cache, rows, charged, started, since, answer, age>>

\* Sandbox keys are exempt from the daily quota.
Charge(r) == charged' = charged \cup {s \in {r} : Call[s].live}

\* Tier 3.
Consume(r) ==
  /\ Goto(r, "fresh", "charged")
  /\ Charge(r)
  /\ UNCHANGED <<now, cache, rows, started, since, answer, age, before>>

Persist(r) ==
  /\ Goto(r, "charged", "stored")
  /\ rows' = rows \cup {r}
  /\ UNCHANGED <<now, cache, charged, started, since, answer, age, before>>

CacheResult(r) ==
  /\ Goto(r, "stored", "done")
  /\ Setex(r, r)
  /\ Reply(r, r)
  /\ UNCHANGED <<now, rows, charged, started, since, before>>

\* Quota refuses, Redis or the database fails, or the process dies.
Fail(r) ==
  /\ pc[r] \notin {"ready", "done"}
  /\ pc' = [pc EXCEPT ![r] = "done"]
  /\ answer' = [answer EXCEPT ![r] = NoRow]
  /\ UNCHANGED <<now, cache, rows, charged, started, since, age, before>>

Verify(r) ==
  \/ Begin(r) \/ CacheHit(r) \/ CacheMiss(r)
  \/ FindRecent(r) \/ Rehydrate(r)
  \/ FindNone(r) \/ Consume(r) \/ Persist(r) \/ CacheResult(r)
  \/ Fail(r)

Tick ==
  /\ now < LastTick
  /\ \A r \in Requests : pc[r] \notin {"ready", "done"} => now - started[r] < MaxDelay
  /\ now' = now + 1
  /\ UNCHANGED <<cache, rows, charged, pc, started, since, answer, age, before>>

Next ==
  \/ Tick
  \/ \E r \in Requests : Verify(r)

Spec == Init /\ [][Next]_vars

-----------------------------------------------------------------------------
(***************************************************************************)
(* "Results are cached in Redis for 5 minutes" (domain/number.py:6), and a *)
(* row of the last five minutes is cached again: an answer is always a     *)
(* committed verification of that number for that application, which was   *)
(* paid for if it was live, and never older than both periods together.    *)
(***************************************************************************)
AnswersFresh ==
  \A r \in Requests : answer[r] # NoRow =>
    /\ answer[r] \in rows
    /\ Slot(answer[r]) = Slot(r)
    /\ Call[answer[r]].live => answer[r] \in charged
    /\ age[r] < Recency + MaxDelay + Ttl

(***************************************************************************)
(* "No quota consumed" for what was verified in the last five minutes      *)
(* (number_service.py:5-9): a number is verified twice within that time    *)
(* only by requests that overlap, a request's own duration aside.          *)
(***************************************************************************)
VerifiedOnce ==
  \A r, s \in rows :
    r # s /\ Slot(r) = Slot(s) =>
      \/ r \notin before[s] /\ s \notin before[r]
      \/ started[s] - started[r] > Recency - MaxDelay
      \/ started[r] - started[s] > Recency - MaxDelay

-----------------------------------------------------------------------------
(***************************************************************************)
(* The inductive invariant behind both properties.                         *)
(***************************************************************************)
Row == Requests \cup {NoRow}
Entry == [row : Row, until : Nat]

\* The domains of the variables.
TypeOK ==
  /\ now \in Nat
  /\ cache \in [Slots -> Entry]
  /\ {rows, charged} \subseteq SUBSET Requests
  /\ pc \in [Requests -> {"ready", "called", "missed", "found", "fresh", "charged", "stored", "done"}]
  /\ started \in [Requests -> Nat]
  /\ {since, age} \subseteq [Requests -> Int]
  /\ answer \in [Requests -> Row]
  /\ before \in [Requests -> SUBSET Requests]

Running(r) == pc[r] \notin {"ready", "done"}

\* A running request is no older than its delay; it looks back from a time within that.
Timely ==
  \A r \in Requests :
    /\ Running(r) => started[r] <= now /\ now <= started[r] + MaxDelay
    /\ Running(r) /\ pc[r] # "called" =>
         started[r] <= since[r] + Recency /\ since[r] + Recency <= started[r] + MaxDelay

\* What the place of a request says of its row and its unit.
RowsInPlace ==
  \A r \in Requests :
    /\ pc[r] \in {"charged", "stored"} /\ Call[r].live => r \in charged
    /\ pc[r] = "stored" => r \in rows
    /\ r \in rows => pc[r] \in {"stored", "done"} /\ (Call[r].live => r \in charged)

\* A row that was found is a recent one.
FoundRecent ==
  \A r \in Requests : pc[r] = "found" => answer[r] # NoRow /\ started[answer[r]] >= since[r]

Oldest == Recency + MaxDelay + Ttl

\* An entry of the cache is a committed row of its slot, and is gone before the row is too old.
CacheFresh ==
  \A s \in Slots : cache[s].row # NoRow =>
    /\ cache[s].row \in rows
    /\ Slot(cache[s].row) = s
    /\ cache[s].until <= started[cache[s].row] + Oldest

\* The rows a request has seen and not used are too old for it.
SeenTooOld ==
  \A s \in Requests :
    /\ pc[s] = "ready" => before[s] = {}
    /\ \A r \in before[s] :
         r \in rows /\ (Slot(r) = Slot(s) => started[s] - started[r] > Recency - MaxDelay)

IInv ==
  /\ TypeOK
  /\ Timely
  /\ RowsInPlace
  /\ AnswersFresh
  /\ FoundRecent
  /\ CacheFresh
  /\ SeenTooOld
=============================================================================
