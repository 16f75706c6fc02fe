--------------------------- MODULE PaymentService ---------------------------
(***************************************************************************)
(* PaymentService (services/payment_service.py): initiate, deduplicated by *)
(* idempotency key and by business reference, and the status transitions   *)
(* mark_pending, mark_completed, mark_failed and reverse_transaction, each *)
(* of which reads the status in one statement and writes it in another,    *)
(* with no row lock in between.                                            *)
(*                                                                         *)
(* A payment is named by the call of initiate that created it.  Callers of *)
(* the transitions are outside the repository: any call may come at any    *)
(* time, concurrently with the others.                                     *)
(***************************************************************************)
EXTENDS Integers, FiniteSets

CONSTANTS
  Apps, Keys, NoKey, References,
  Requests,     \* calls of initiate: [id, app, key, reference, live]
  Transitions,  \* calls of mark_* and reverse_transaction: [id, verb, payment]
  Nobody

PaymentStatus == {"INITIATED", "PENDING", "COMPLETED", "FAILED", "REVERSED"}
Terminal == {"COMPLETED", "FAILED", "REVERSED"}

\* The status each transition expects to find, and the one it writes.
Expected == [pending |-> "INITIATED", completed |-> "PENDING", failed |-> "PENDING",
             reversed |-> "COMPLETED"]
Target == [pending |-> "PENDING", completed |-> "COMPLETED", failed |-> "FAILED",
           reversed |-> "REVERSED"]

ASSUME PaymentAssumption ==
  /\ Requests \subseteq [id : Nat, app : Apps, key : Keys \cup {NoKey},
                         reference : References, live : BOOLEAN]
  /\ Transitions \subseteq [id : Nat, verb : DOMAIN Target, payment : Requests]
  /\ NoKey \notin Keys
  /\ Nobody \notin Requests

VARIABLES
  row,    \* payment_transactions: "none", "flushed" or a committed status
  cache,  \* idempotency:{app}:payments:{key} -> the payment of the response
  quota,  \* units of the application: all its quota:{app}:payments:{day} counters
  pc,     \* where each call of initiate is
  reply,  \* the payment named by its response
  step,   \* where each transition is
  seen    \* the status each transition read

tableVars == <<row, cache, quota>>
initiateVars == <<pc, reply>>
transitionVars == <<step, seen>>
vars == <<tableVars, initiateVars, transitionVars>>

Active == {"metering", "checking", "writing", "refetching", "refunding", "caching",
           "committing", "returning", "resolving"}
Over == {"replied", "rejected", "conflict", "crashed"}

Init ==
  /\ row = [r \in Requests |-> "none"]
  /\ cache = [s \in Apps \X Keys |-> Nobody]
  /\ quota = [a \in Apps |-> 0]
  /\ pc = [r \in Requests |-> "received"]
  /\ reply = [r \in Requests |-> Nobody]
  /\ step = [t \in Transitions |-> "called"]
  /\ seen = [t \in Transitions |-> "none"]

Durable(r) == row[r] \in PaymentStatus

Goto(r, from, to) ==
  /\ pc[r] = from
  /\ pc' = [pc EXCEPT ![r] = to]

Answer(r, m) == reply' = [reply EXCEPT ![r] = m]

Advance(t, from, to) ==
  /\ step[t] = from
  /\ step' = [step EXCEPT ![t] = to]

SameKey(r, m) == r.key # NoKey /\ m.key = r.key

\* Units move only through check_and_consume and _quota_rollback.
AddUnits(a, n) == quota' = [quota EXCEPT ![a] = @ + n]

(***************************************************************************)
(* Variants with a plausible mistake, used to show that the properties     *)
(* notice it; no specification contains them.                              *)
(***************************************************************************)
\* The reference is looked up but its column has no unique index.
KeyRivals(r) == {m \in Requests \ {r} : SameKey(r, m) /\ row[m] # "none"}

\* The payment found by its reference alone is taken for the caller's own.
RefetchByReference(r) ==
  {m \in Requests : Durable(m) /\ m.app = r.app /\ m.reference = r.reference}

\* Only a repeated transition is refused.
LegalUnlessRepeated(status, verb) == status # Target[verb]

\* A refused reference returns the unit, whatever the kind of key.
RefuseRefunds(r) ==
  /\ \E m \in Requests : Durable(m) /\ m.app = r.app /\ m.reference = r.reference
  /\ Goto(r, "checking", "rejected")
  /\ AddUnits(r.app, -1)
  /\ UNCHANGED <<reply, row, cache, transitionVars>>

(***************************************************************************)
(* initiate, steps 1 to 3: idempotency cache, quota, validation.           *)
(***************************************************************************)
CacheHit(r) ==
  /\ r.key # NoKey
  /\ cache[<<r.app, r.key>>] # Nobody
  /\ Goto(r, "received", "replied")
  /\ Answer(r, cache[<<r.app, r.key>>])
  /\ UNCHANGED <<tableVars, transitionVars>>

CacheMiss(r) ==
  /\ r.key # NoKey => cache[<<r.app, r.key>>] = Nobody
  /\ Goto(r, "received", "metering")
  /\ UNCHANGED <<reply, tableVars, transitionVars>>

\* The burst window or the daily limit refuses the call.
QuotaRefused(r) ==
  /\ Goto(r, "metering", "rejected")
  /\ UNCHANGED <<reply, tableVars, transitionVars>>

\* A live call takes a unit, and loses it when its input is then refused.
Consume(r) ==
  /\ \E outcome \in {"checking", "rejected"} : Goto(r, "metering", outcome)
  /\ IF r.live THEN AddUnits(r.app, 1) ELSE UNCHANGED quota
  /\ UNCHANGED <<reply, row, cache, transitionVars>>

(***************************************************************************)
(* Step 4: the reference is looked up within the application.              *)
(***************************************************************************)
ReferenceTaken(r) == \E m \in Requests : Durable(m) /\ m.app = r.app /\ m.reference = r.reference

RefuseReference(r) ==
  /\ ReferenceTaken(r)
  /\ Goto(r, "checking", "rejected")
  /\ UNCHANGED <<reply, tableVars, transitionVars>>

AcceptReference(r) ==
  /\ ~ReferenceTaken(r)
  /\ Goto(r, "checking", "writing")
  /\ UNCHANGED <<reply, tableVars, transitionVars>>

(***************************************************************************)
(* Step 5: the INSERT, against two unique indexes that span applications.  *)
(* It waits for an open rival and fails on a committed one; the record of  *)
(* the idempotency key is then fetched in a new transaction.               *)
(***************************************************************************)
Rivals(r) ==
  {m \in Requests \ {r} : (SameKey(r, m) \/ m.reference = r.reference) /\ row[m] # "none"}

Insert(r) ==
  /\ Rivals(r) = {}
  /\ Goto(r, "writing", "caching")
  /\ row' = [row EXCEPT ![r] = "flushed"]
  /\ UNCHANGED <<reply, cache, quota, transitionVars>>

IntegrityError(r) ==
  /\ \E m \in Rivals(r) : Durable(m)
  /\ Goto(r, "writing", IF r.key = NoKey THEN "conflict" ELSE "refetching")
  /\ UNCHANGED <<reply, tableVars, transitionVars>>

Refetched(r) == {m \in Requests : Durable(m) /\ m.app = r.app /\ SameKey(r, m)}

DuplicateFound(r) ==
  /\ \E m \in Refetched(r) : Answer(r, m)
  /\ Goto(r, "refetching", "refunding")
  /\ UNCHANGED <<tableVars, transitionVars>>

\* No record of this application and key: the IntegrityError is re-raised.
Reraise(r) ==
  /\ Refetched(r) = {}
  /\ Goto(r, "refetching", "conflict")
  /\ UNCHANGED <<reply, tableVars, transitionVars>>

QuotaRollback(r) ==
  /\ Goto(r, "refunding", "replied")
  /\ AddUnits(r.app, -1)
  /\ UNCHANGED <<reply, row, cache, transitionVars>>

(***************************************************************************)
(* Steps 6 to 8: cache, commit, and the sandbox outcome, which goes from   *)
(* INITIATED to a terminal status without reading the row again.  Nothing  *)
(* is enqueued for a live payment.                                         *)
(***************************************************************************)
CacheResponse(r) ==
  /\ Goto(r, "caching", "committing")
  /\ cache' = IF r.key = NoKey THEN cache ELSE [cache EXCEPT ![<<r.app, r.key>>] = r]
  /\ UNCHANGED <<reply, row, quota, transitionVars>>

Commit(r) ==
  /\ Goto(r, "committing", IF r.live THEN "returning" ELSE "resolving")
  /\ row' = [row EXCEPT ![r] = "INITIATED"]
  /\ UNCHANGED <<reply, cache, quota, transitionVars>>

Return(r) ==
  /\ Goto(r, "returning", "replied")
  /\ Answer(r, r)
  /\ UNCHANGED <<tableVars, transitionVars>>

ResolveSandbox(r) ==
  /\ Goto(r, "resolving", "replied")
  /\ \E status \in {"COMPLETED", "FAILED"} : row' = [row EXCEPT ![r] = status]
  /\ Answer(r, r)
  /\ UNCHANGED <<cache, quota, transitionVars>>

(***************************************************************************)
(* The environment of initiate: a request dies and its open transaction is *)
(* rolled back; a cache entry reaches its TTL.                             *)
(***************************************************************************)
Crash(r) ==
  /\ pc[r] \in Active
  /\ pc' = [pc EXCEPT ![r] = "crashed"]
  /\ row' = IF row[r] = "flushed" THEN [row EXCEPT ![r] = "none"] ELSE row
  /\ reply' = [reply EXCEPT ![r] = Nobody]
  /\ UNCHANGED <<cache, quota, transitionVars>>

Expire(s) ==
  /\ cache[s] # Nobody
  /\ cache' = [cache EXCEPT ![s] = Nobody]
  /\ UNCHANGED <<row, quota, initiateVars, transitionVars>>

(***************************************************************************)
(* The transitions: _get_and_validate_transition reads the row; the write  *)
(* commits whatever has happened to the row since.                         *)
(***************************************************************************)
Legal(status, verb) == status \notin Terminal /\ status = Expected[verb]

Read(t) ==
  /\ Durable(t.payment)  \* nobody knows the id of a payment that is not committed
  /\ Advance(t, "called", IF Legal(row[t.payment], t.verb) THEN "validated" ELSE "refused")
  /\ seen' = [seen EXCEPT ![t] = row[t.payment]]
  /\ UNCHANGED <<tableVars, initiateVars>>

Write(t) ==
  /\ Advance(t, "validated", IF t.verb = "failed" THEN "refunding" ELSE "done")
  /\ row' = [row EXCEPT ![t.payment] = Target[t.verb]]
  /\ UNCHANGED <<cache, quota, initiateVars, seen>>

\* mark_failed returns a unit, for sandbox payments too.
Refund(t) ==
  /\ Advance(t, "refunding", "done")
  /\ AddUnits(t.payment.app, -1)
  /\ UNCHANGED <<row, cache, initiateVars, seen>>

TransitionCrash(t) ==
  /\ step[t] \in {"validated", "refunding"}
  /\ step' = [step EXCEPT ![t] = "crashed"]
  /\ UNCHANGED <<tableVars, initiateVars, seen>>

-----------------------------------------------------------------------------
Initiate(r) ==
  \/ CacheHit(r) \/ CacheMiss(r) \/ QuotaRefused(r) \/ Consume(r)
  \/ RefuseReference(r) \/ AcceptReference(r)
  \/ Insert(r) \/ IntegrityError(r) \/ DuplicateFound(r) \/ Reraise(r)
  \/ QuotaRollback(r) \/ CacheResponse(r) \/ Commit(r)
  \/ Return(r) \/ ResolveSandbox(r)

Transit(t) == Read(t) \/ Write(t) \/ Refund(t) \/ TransitionCrash(t)

Next ==
  \/ \E r \in Requests : Initiate(r) \/ Crash(r)
  \/ \E s \in Apps \X Keys : Expire(s)
  \/ \E t \in Transitions : Transit(t)

Spec == Init /\ [][Next]_vars

-----------------------------------------------------------------------------
(***************************************************************************)
(* A business reference is charged once, although two calls with different *)
(* idempotency keys can both pass the look-up of step 4 before either      *)
(* inserts.  The index spans the table: two applications cannot use one    *)
(* reference either, which is more than schemas/payment.py:86 promises.    *)
(***************************************************************************)
OnePaymentPerReference ==
  \A r, m \in Requests : r # m /\ Durable(r) /\ Durable(m) => r.reference # m.reference

(***************************************************************************)
(* initiate implements the abstract idempotent create, as SMSService.send  *)
(* does: one payment per idempotency key, and every answer names it.  The  *)
(* key is never given back, although utils/idempotency.py:10-12 and :101   *)
(* say that it is after 24 hours: a payment with another reference under   *)
(* an old key is answered with the old payment.                            *)
(***************************************************************************)
Create == INSTANCE IdempotentCreate WITH
  durable <- {r \in Requests : Durable(r)},
  answer <- [r \in Requests |-> IF pc[r] = "replied" THEN reply[r] ELSE Nobody]

ImplementsIdempotentCreate == Create!Spec

(***************************************************************************)
(* The writers of a payment overlap when two transitions went ahead on the *)
(* same status of it, or one did on a sandbox payment whose own request    *)
(* writes its outcome.                                                     *)
(***************************************************************************)
WentAhead(t) == step[t] \notin {"called", "refused"}

Overlapped(r) ==
  \/ \E t, u \in Transitions :
       /\ t # u /\ t.payment = r /\ u.payment = r
       /\ WentAhead(t) /\ WentAhead(u) /\ seen[t] = seen[u]
  \/ /\ ~r.live /\ pc[r] \in {"resolving", "replied"}
     /\ \E t \in Transitions : t.payment = r /\ WentAhead(t)

(***************************************************************************)
(* The status of a payment is final once it is terminal, but for the       *)
(* reversal of a completed one, as long as its writers do not overlap: no  *)
(* order of transitions, one after the other, takes it back.               *)
(***************************************************************************)
SettledUnlessOverlapped ==
  [][\A r \in Requests :
       row[r] \in Terminal /\ ~Overlapped(r)'
         => row'[r] = row[r] \/ (row[r] = "COMPLETED" /\ row'[r] = "REVERSED")]_vars

(***************************************************************************)
(* Every live payment that did not fail is paid for: a unit is given back  *)
(* at most once per FAILED payment.  The exceptions the code has are       *)
(* counted: duplicates of sandbox calls, and mark_failed on a sandbox      *)
(* payment or on one whose writers overlap.                                *)
(***************************************************************************)
Billable(a) ==
  {r \in Requests : r.app = a /\ r.live /\ Durable(r) /\ row[r] # "FAILED"}

SandboxDuplicates(a) ==
  {r \in Requests : r.app = a /\ ~r.live /\ reply[r] \notin {Nobody, r}}

UnearnedRefunds(a) ==
  {t \in Transitions : /\ t.payment.app = a /\ t.verb = "failed" /\ step[t] = "done"
                       /\ ~t.payment.live \/ Overlapped(t.payment)}

PaymentsPaid ==
  \A a \in Apps :
    Cardinality(Billable(a))
      <= quota[a] + Cardinality(SandboxDuplicates(a)) + Cardinality(UnearnedRefunds(a))

-----------------------------------------------------------------------------
(***************************************************************************)
(* The inductive invariant behind all four properties.                     *)
(***************************************************************************)
\* The domains of the variables.
TypeOK ==
  /\ row \in [Requests -> {"none", "flushed"} \cup PaymentStatus]
  /\ cache \in [Apps \X Keys -> Requests \cup {Nobody}]
  /\ quota \in [Apps -> Int]
  /\ pc \in [Requests -> {"received"} \cup Active \cup Over]
  /\ reply \in [Requests -> Requests \cup {Nobody}]
  /\ step \in [Transitions -> {"called", "validated", "refunding", "done", "refused", "crashed"}]
  /\ seen \in [Transitions -> {"none"} \cup PaymentStatus]

\* What the place of a call says of its row and its answer.
RowsFollowCalls ==
  \A r \in Requests :
    /\ pc[r] \in {"caching", "committing"} <=> row[r] = "flushed"
    /\ pc[r] \in {"returning", "resolving"} => Durable(r)
    /\ Durable(r) => \/ pc[r] \in {"returning", "resolving", "crashed"}
                     \/ pc[r] = "replied" /\ reply[r] = r
    /\ pc[r] \notin {"refunding", "replied"} => reply[r] = Nobody
    /\ reply[r] = r => pc[r] = "replied" /\ Durable(r)
    /\ pc[r] = "replied" => reply[r] # Nobody
    /\ pc[r] = "resolving" => ~r.live

\* The unique indexes hold for open rows as well.
RivalsExcluded ==
  \A r, m \in Requests :
    r # m /\ (SameKey(r, m) \/ r.reference = m.reference) /\ row[r] # "none" => row[m] = "none"

\* A call about to commit is the only one that may be cached for its key.
CommitterIsCached ==
  \A r \in Requests :
    pc[r] = "committing" /\ r.key # NoKey => cache[<<r.app, r.key>>] \in {Nobody, r}

\* What a slot holds is a payment of the slot, and the committed one if there is one.
HeldBy(s, m) ==
  /\ <<m.app, m.key>> = s
  /\ pc[m] # "received"
  /\ \A d \in Requests : Durable(d) /\ <<d.app, d.key>> = s => d = m

CacheHoldsSlot == \A s \in Apps \X Keys : cache[s] # Nobody => HeldBy(s, cache[s])

\* The duplicate that is about to be answered is committed under the key of the call.
DuplicateIsCommitted ==
  \A r \in Requests :
    pc[r] = "refunding" => /\ reply[r] \in Requests \ {r} /\ r.key # NoKey
                           /\ reply[r].app = r.app /\ reply[r].key = r.key
                           /\ Durable(reply[r])

\* A transition has read a committed row, and goes ahead only from a status that it may leave.
ReadsFound ==
  \A t \in Transitions :
    /\ step[t] # "called" => Durable(t.payment)
    /\ WentAhead(t) => seen[t] = Expected[t.verb] /\ seen[t] \notin Terminal
    /\ step[t] = "refunding" => t.verb = "failed"

\* Two transitions went ahead on the same status.
Contested(r) ==
  \E t, u \in Transitions :
    t # u /\ t.payment = r /\ u.payment = r /\ WentAhead(t) /\ WentAhead(u) /\ seen[t] = seen[u]

\* As long as there are none, the row is still what a transition has read when it writes,
SeenStands ==
  \A t \in Transitions :
    step[t] = "validated" =>
      \/ row[t.payment] = seen[t]
      \/ Contested(t.payment)
      \/ ~t.payment.live /\ pc[t.payment] = "replied"

\* a failure stays what it is,
FailureStands ==
  \A t \in Transitions :
    t.verb = "failed" /\ step[t] \in {"refunding", "done"} /\ t.payment.live =>
      row[t.payment] = "FAILED" \/ Contested(t.payment)

\* and what a sandbox call overwrites is its own INITIATED.
ResolvesInitiated ==
  \A r \in Requests :
    pc[r] = "resolving" =>
      row[r] = "INITIATED" \/ \E t \in Transitions : t.payment = r /\ WentAhead(t)

\* Units: a live call holds the one it took until it is given back or the call fails.
Holders(a) ==
  {r \in Requests : /\ r.app = a /\ r.live
                    /\ \/ Durable(r)
                       \/ pc[r] \in {"checking", "writing", "refetching", "refunding",
                                     "caching", "committing"}}

SandboxRefunds(a) ==
  {r \in Requests : r.app = a /\ ~r.live /\ pc[r] = "replied" /\ reply[r] # r}

FailureRefunds(a) ==
  {t \in Transitions : t.payment.app = a /\ t.verb = "failed" /\ step[t] = "done"}

UnitsHeld ==
  \A a \in Apps :
    Cardinality(Holders(a))
      <= quota[a] + Cardinality(SandboxRefunds(a)) + Cardinality(FailureRefunds(a))

\* Only finitely many calls have begun at any time.
FinitelyManyBegan ==
  /\ IsFiniteSet({r \in Requests : pc[r] # "received"})
  /\ IsFiniteSet({t \in Transitions : step[t] # "called"})

IInv ==
  /\ TypeOK
  /\ RowsFollowCalls
  /\ RivalsExcluded
  /\ CommitterIsCached
  /\ CacheHoldsSlot
  /\ DuplicateIsCommitted
  /\ ReadsFound
  /\ SeenStands
  /\ FailureStands
  /\ ResolvesInitiated
  /\ UnitsHeld
  /\ FinitelyManyBegan
=============================================================================
