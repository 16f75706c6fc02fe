----------------------------- MODULE UssdService -----------------------------
(***************************************************************************)
(* USSDService (services/ussd_service.py): a session lives in two stores,  *)
(* a Redis key with a TTL, which decides whether it is alive, and a row of *)
(* ussd_sessions with a state and an expires_at.  start, advance, end and  *)
(* cleanup write them in different orders, one store after the other.      *)
(*                                                                         *)
(*   start:    called -> keying -> inserting -> ok | undoing -> failed     *)
(*   advance:  called -> keying -> fetching -> accepted -> ok              *)
(*                                          -> orphaned -> refused         *)
(*   end:      called -> deleting -> marking -> ok                         *)
(*   any step: crashed; lost, for an advance whose session was found open  *)
(*                                                                         *)
(* Times are kept as the ticks that remain, so that a behaviour may last   *)
(* for ever.  The menu position and the session data are left out; of the  *)
(* step_history, which only Redis keeps, the steps it has are modelled.    *)
(***************************************************************************)
EXTENDS Integers, FiniteSets

CONSTANTS
  Sessions,  \* session ids: random, so nobody knows one before its start commits
  Calls,     \* [id, op, session, live]: live is the kind of the API key used
  Cleaners,  \* loops over cleanup_expired_sessions
  TTL,       \* _SESSION_TTL_SECONDS, in ticks
  BatchSize  \* batch_size of cleanup_expired_sessions

USSDState == {"ACTIVE", "ENDED", "TIMEOUT"}

ASSUME UssdAssumption ==
  /\ Calls \subseteq [id : Nat, op : {"start", "advance", "end"},
                      session : Sessions, live : BOOLEAN]
  /\ \A c, d \in Calls : c.op = "start" /\ d.op = "start" /\ c.session = d.session => c = d
  /\ {TTL, BatchSize} \subseteq Nat \ {0}

VARIABLES
  ttl,    \* what remains of ussd:{kind}:{session}; 0: there is no such key
  row,    \* ussd_sessions.state, "none" before the INSERT is committed
  left,   \* what remains until expires_at; -1: it has passed
  pc,     \* where each call is
  fresh,  \* what remains until the expires_at a call has computed
  batch,  \* what each cleaner has selected
  steps,  \* step_history last written to the key: the advances whose step is in it
  base,   \* step_history each call has read
  before, \* history: the advances that had written when this one read
  wrote   \* history: the advances that have written the key

stepVars == <<steps, base, before, wrote>>
vars == <<ttl, row, left, pc, fresh, batch, stepVars>>

\* _redis_key: the API key that is used decides the prefix.
Slot(c) == <<c.session, c.live>>

Init ==
  /\ ttl = [k \in Sessions \X BOOLEAN |-> 0]
  /\ row = [s \in Sessions |-> "none"]
  /\ left = [s \in Sessions |-> -1]
  /\ pc = [c \in Calls |-> "called"]
  /\ fresh = [c \in Calls |-> -1]
  /\ batch = [w \in Cleaners |-> {}]
  /\ steps = [k \in Sessions \X BOOLEAN |-> {}]
  /\ base = [c \in Calls |-> {}]
  /\ before = [c \in Calls |-> {}]
  /\ wrote = {}

Goto(c, from, to) ==
  /\ pc[c] = from
  /\ pc' = [pc EXCEPT ![c] = to]

Known(s) == row[s] # "none"

(***************************************************************************)
(* Variants with a plausible mistake, used to show that the properties     *)
(* notice it; no specification contains them.                              *)
(***************************************************************************)
\* An advance keeps the TTL the key has (SET with KEEPTTL).
SetKeyKeepsTtl(c) ==
  /\ Goto(c, "keying", IF c.op = "start" THEN "inserting" ELSE "fetching")
  /\ ttl' = [ttl EXCEPT ![Slot(c)] = IF c.op = "start" THEN TTL ELSE @]
  /\ UNCHANGED <<row, left, fresh, batch, stepVars>>

\* An advance writes the key without what was in it ({**current_state} left out).
SetKeyAnew(c) ==
  /\ Goto(c, "keying", IF c.op = "start" THEN "inserting" ELSE "fetching")
  /\ ttl' = [ttl EXCEPT ![Slot(c)] = TTL]
  /\ steps' = [steps EXCEPT ![Slot(c)] = IF c.op = "start" THEN {} ELSE {c}]
  /\ wrote' = IF c.op = "start" THEN wrote ELSE wrote \cup {c}
  /\ UNCHANGED <<row, left, fresh, batch, base, before>>

\* A failed start leaves its key to the TTL.
UndoNothing(c) ==
  /\ Goto(c, "undoing", "failed")
  /\ UNCHANGED <<ttl, row, left, fresh, batch, stepVars>>

\* The key in Redis is all that counts: get_by_session_id in the place of
\* get_active_by_session_id.
FetchAnyState(c) ==
  /\ Goto(c, "fetching", IF Known(c.session) THEN "accepted" ELSE "orphaned")
  /\ UNCHANGED <<ttl, row, left, fresh, batch, stepVars>>

(***************************************************************************)
(* start_session: the key, then the row; a failed INSERT deletes the key.  *)
(***************************************************************************)
\* expires_at is computed before the SETEX is sent.
Begin(c) ==
  /\ c.op = "start"
  /\ Goto(c, "called", "keying")
  /\ fresh' = [fresh EXCEPT ![c] = TTL]
  /\ UNCHANGED <<ttl, row, left, batch, stepVars>>

\* SETEX, of a start and of an advance, which may bring a deleted key back.
SetKey(c) ==
  /\ Goto(c, "keying", IF c.op = "start" THEN "inserting" ELSE "fetching")
  /\ ttl' = [ttl EXCEPT ![Slot(c)] = TTL]
  /\ steps' = [steps EXCEPT ![Slot(c)] = IF c.op = "start" THEN {} ELSE base[c] \cup {c}]
  /\ wrote' = IF c.op = "start" THEN wrote ELSE wrote \cup {c}
  /\ UNCHANGED <<row, left, fresh, batch, base, before>>

Insert(c) ==
  /\ Goto(c, "inserting", "ok")
  /\ row' = [row EXCEPT ![c.session] = "ACTIVE"]
  /\ left' = [left EXCEPT ![c.session] = fresh[c]]
  /\ UNCHANGED <<ttl, fresh, batch, stepVars>>

InsertFails(c) ==
  /\ Goto(c, "inserting", "undoing")
  /\ UNCHANGED <<ttl, row, left, fresh, batch, stepVars>>

Undo(c) ==
  /\ Goto(c, "undoing", "failed")
  /\ ttl' = [ttl EXCEPT ![Slot(c)] = 0]
  /\ UNCHANGED <<row, left, fresh, batch, stepVars>>

(***************************************************************************)
(* advance_session: the key is the gate; it is written again (SetKey)      *)
(* before the row is looked at.                                            *)
(***************************************************************************)
Gate(c) ==
  /\ c.op = "advance" /\ Known(c.session)
  /\ Goto(c, "called", IF ttl[Slot(c)] > 0 THEN "keying" ELSE "refused")
  /\ fresh' = [fresh EXCEPT ![c] = TTL]
  /\ base' = [base EXCEPT ![c] = IF ttl[Slot(c)] > 0 THEN steps[Slot(c)] ELSE {}]
  /\ before' = [before EXCEPT ![c] = wrote]
  /\ UNCHANGED <<ttl, row, left, batch, steps, wrote>>

Fetch(c) ==
  /\ Goto(c, "fetching", IF row[c.session] = "ACTIVE" THEN "accepted" ELSE "orphaned")
  /\ UNCHANGED <<ttl, row, left, fresh, batch, stepVars>>

DropKey(c) ==
  /\ Goto(c, "orphaned", "refused")
  /\ ttl' = [ttl EXCEPT ![Slot(c)] = 0]
  /\ UNCHANGED <<row, left, fresh, batch, stepVars>>

\* advance_step and commit: expires_at is written, the state is not.
Advance(c) ==
  /\ Goto(c, "accepted", "ok")
  /\ left' = [left EXCEPT ![c.session] = fresh[c]]
  /\ UNCHANGED <<ttl, row, fresh, batch, stepVars>>

(***************************************************************************)
(* end_session: the row is looked at, the key deleted, the row written.    *)
(***************************************************************************)
Find(c) ==
  /\ c.op = "end" /\ Known(c.session)
  /\ Goto(c, "called", IF row[c.session] = "ACTIVE" THEN "deleting" ELSE "refused")
  /\ UNCHANGED <<ttl, row, left, fresh, batch, stepVars>>

Delete(c) ==
  /\ Goto(c, "deleting", "marking")
  /\ ttl' = [ttl EXCEPT ![Slot(c)] = 0]
  /\ UNCHANGED <<row, left, fresh, batch, stepVars>>

MarkEnded(c) ==
  /\ Goto(c, "marking", "ok")
  /\ row' = [row EXCEPT ![c.session] = "ENDED"]
  /\ UNCHANGED <<ttl, left, fresh, batch, stepVars>>

\* A call dies, or Redis or the database fails it, and nothing is undone.
Crash(c) ==
  /\ pc[c] \in {"keying", "inserting", "undoing", "fetching", "accepted", "orphaned",
                "deleting", "marking"}
  /\ pc' = [pc EXCEPT ![c] = IF @ = "accepted" THEN "lost" ELSE "crashed"]
  /\ UNCHANGED <<ttl, row, left, fresh, batch, stepVars>>

(***************************************************************************)
(* cleanup_expired_sessions: a batch of expired ACTIVE rows is selected,   *)
(* then written without looking at state or expires_at again.              *)
(***************************************************************************)
Expired == {s \in Sessions : row[s] = "ACTIVE" /\ left[s] < 0}

Select(w) ==
  /\ batch[w] = {}
  /\ \E picked \in SUBSET Expired :
       /\ picked # {}
       /\ Cardinality(picked) = BatchSize \/ (picked = Expired /\ Cardinality(picked) < BatchSize)
       /\ batch' = [batch EXCEPT ![w] = picked]
  /\ UNCHANGED <<ttl, row, left, pc, fresh, stepVars>>

Timeout(w) ==
  /\ batch[w] # {}
  /\ row' = [s \in Sessions |-> IF s \in batch[w] THEN "TIMEOUT" ELSE row[s]]
  /\ batch' = [batch EXCEPT ![w] = {}]
  /\ UNCHANGED <<ttl, left, pc, fresh, stepVars>>

CleanerCrash(w) ==
  /\ batch[w] # {}
  /\ batch' = [batch EXCEPT ![w] = {}]
  /\ UNCHANGED <<ttl, row, left, pc, fresh, stepVars>>

(***************************************************************************)
(* Time passes: keys run out, and expires_at comes nearer.                 *)
(***************************************************************************)
Sooner(n) == IF n < 0 THEN n ELSE n - 1

Tick ==
  /\ ttl' = [k \in DOMAIN ttl |-> IF ttl[k] = 0 THEN 0 ELSE ttl[k] - 1]
  /\ left' = [s \in Sessions |-> Sooner(left[s])]
  /\ fresh' = [c \in Calls |-> Sooner(fresh[c])]
  /\ UNCHANGED <<row, pc, batch, stepVars>>

-----------------------------------------------------------------------------
Serve(c) ==
  \/ Begin(c) \/ SetKey(c) \/ Insert(c) \/ InsertFails(c) \/ Undo(c)
  \/ Gate(c) \/ Fetch(c) \/ DropKey(c) \/ Advance(c)
  \/ Find(c) \/ Delete(c) \/ MarkEnded(c)

Next ==
  \/ \E c \in Calls : Serve(c) \/ Crash(c)
  \/ \E w \in Cleaners : Select(w) \/ Timeout(w) \/ CleanerCrash(w)
  \/ Tick

Spec == Init /\ [][Next]_vars

-----------------------------------------------------------------------------
\* The domains of the variables.
StepTypes ==
  /\ steps \in [Sessions \X BOOLEAN -> SUBSET Calls]
  /\ {base, before} \subseteq [Calls -> SUBSET Calls]
  /\ wrote \subseteq Calls

TypeOK ==
  /\ ttl \in [Sessions \X BOOLEAN -> 0 .. TTL]
  /\ row \in [Sessions -> {"none"} \cup USSDState]
  /\ left \in [Sessions -> -1 .. TTL]
  /\ pc \in [Calls -> {"called", "keying", "inserting", "undoing", "fetching", "accepted",
                       "orphaned", "deleting", "marking", "ok", "refused", "failed",
                       "crashed", "lost"}]
  /\ fresh \in [Calls -> -1 .. TTL]
  /\ batch \in [Cleaners -> SUBSET Sessions]
  /\ StepTypes

(***************************************************************************)
(* The service implements the abstract lifecycle: although an advance can  *)
(* bring the key of a closed session back and cleanup overwrites rows, a   *)
(* closed session is never reopened and takes no further input.            *)
(***************************************************************************)
Lifecycle == INSTANCE UssdLifecycle WITH
  phase <- [s \in Sessions |->
              IF row[s] = "none" THEN "none" ELSE IF row[s] = "ACTIVE" THEN "open" ELSE "closed"],
  accepted <- {c \in Calls : c.op = "advance" /\ pc[c] \in {"accepted", "ok", "lost"}}

ImplementsUssdLifecycle == Lifecycle!Spec

(***************************************************************************)
(* A session is not lost to Redis before its time: while its row is ACTIVE *)
(* and expires_at is to come, its key exists, unless a call of end has     *)
(* deleted it and not marked the row yet.                                  *)
(***************************************************************************)
EndUnderWay(s) ==
  \E c \in Calls : c.op = "end" /\ c.session = s /\ pc[c] \in {"marking", "crashed"}

OpenSessionHasKey ==
  \A s \in Sessions :
    row[s] = "ACTIVE" /\ left[s] > 0 /\ ~EndUnderWay(s)
      => \E live \in BOOLEAN : ttl[<<s, live>>] > 0

(***************************************************************************)
(* "If the Postgres write fails, the Redis entry is cleaned up so no       *)
(* orphaned Redis key remains" (services/ussd_service.py:85-86): a key     *)
(* without a row belongs to a start that runs or that has crashed.         *)
(***************************************************************************)
NoOrphanKey ==
  \A s \in Sessions, live \in BOOLEAN :
    ttl[<<s, live>>] > 0 /\ row[s] = "none" =>
      \E c \in Calls : /\ c.op = "start" /\ Slot(c) = <<s, live>>
                       /\ pc[c] \in {"inserting", "undoing", "crashed"}

(***************************************************************************)
(* advance_session writes the whole state back with its step appended: a   *)
(* step that was written to a key is still in its step_history, however    *)
(* often the key was deleted and brought back, unless another advance of   *)
(* that key overlapped it, neither having read what the other wrote.       *)
(***************************************************************************)
Disturbed(c, rivals) ==
  \E d \in rivals \ {c} : Slot(d) = Slot(c) /\ c \notin before[d] /\ d \notin before[c]

StepsKept == \A c \in wrote : c \in steps[Slot(c)] \/ Disturbed(c, wrote)

-----------------------------------------------------------------------------
(***************************************************************************)
(* The inductive invariant behind these properties.                        *)
(***************************************************************************)

\* Each place belongs to one kind of call.
PlacesOfCalls ==
  \A c \in Calls :
    /\ pc[c] \in {"inserting", "undoing", "failed"} => c.op = "start"
    /\ pc[c] \in {"fetching", "accepted", "orphaned", "lost"} => c.op = "advance"
    /\ pc[c] \in {"deleting", "marking"} => c.op = "end"
    /\ pc[c] = "keying" => c.op \in {"start", "advance"}

\* The row of a session exists once its start has succeeded, and only then.
StartMakesRow ==
  \A c \in Calls : c.op = "start" /\ pc[c] # "ok" => row[c.session] = "none"

\* Whoever works on a session knows its row; what is selected or marked has one.
OthersFindRow ==
  /\ \A c \in Calls : c.op # "start" /\ pc[c] # "called" => Known(c.session)
  /\ \A w \in Cleaners : \A s \in batch[w] : Known(s)

\* An advance drops the key of a closed session only.
OrphansAreClosed ==
  \A c \in Calls : pc[c] = "orphaned" => row[c.session] # "ACTIVE"

\* A key outlives the expires_at in the row, and the one a call is about to write.
KeyOutlivesRow ==
  \A s \in Sessions :
    row[s] = "ACTIVE" /\ ~EndUnderWay(s) => \E live \in BOOLEAN : left[s] <= ttl[<<s, live>>]

KeyOutlivesCall ==
  \A c \in Calls :
    \/ pc[c] = "inserting"
    \/ /\ pc[c] \in {"fetching", "accepted"}
       /\ row[c.session] = "ACTIVE" /\ ~EndUnderWay(c.session)
    => fresh[c] <= ttl[Slot(c)]

\* What holds of the stores and the calls, whatever the time.
Stores ==
  /\ TypeOK
  /\ PlacesOfCalls
  /\ StartMakesRow
  /\ OthersFindRow
  /\ OrphansAreClosed
  /\ NoOrphanKey

IInv == Stores /\ KeyOutlivesRow /\ KeyOutlivesCall

\* An advance has written once it is past its SETEX, and has read what others wrote.
WrittenInPlace ==
  \A c \in Calls :
    /\ c \in wrote => pc[c] \notin {"called", "keying"} /\ c.op = "advance"
    /\ before[c] \subseteq wrote

\* What an advance is about to write back has the steps it could know of.
BaseKept ==
  \A d \in Calls : d.op = "advance" /\ pc[d] = "keying" =>
    \A c \in before[d] : Slot(c) = Slot(d) => c \in base[d] \/ Disturbed(c, before[d])

StepsInv == WrittenInPlace /\ BaseKept /\ StepsKept

=============================================================================
