-------------------------- MODULE IdempotentCreate --------------------------
(***************************************************************************)
(* What an idempotent create promises, whatever the cache, the quota and   *)
(* the transactions behind it do: an idempotency key has at most one       *)
(* durable record, a record is never dropped, a request is answered at     *)
(* most once, with a record of its own slot, and once the slot has a       *)
(* durable record every later answer names that one.                       *)
(*                                                                         *)
(* "Once" is for ever.  It is what the unique indexes of the tables give,  *)
(* and more than app/utils/idempotency.py:10-12 asks for: there a key may  *)
(* be reused for a new request when its cached response has expired.       *)
(***************************************************************************)
CONSTANTS Requests, NoKey, Nobody

VARIABLES
  durable,  \* the requests whose record is committed
  answer    \* what each request was told

Slot(r, m) == m = r \/ (r.key # NoKey /\ m.key = r.key /\ m.app = r.app)

Init ==
  /\ durable = {}
  /\ answer = [r \in Requests |-> Nobody]

Persist(r) ==
  /\ \A m \in durable : ~Slot(r, m)
  /\ durable' = durable \cup {r}
  /\ UNCHANGED answer

Answer(r, m) ==
  /\ answer[r] = Nobody
  /\ Slot(r, m)
  /\ m = r => r \in durable
  /\ \A d \in durable : Slot(r, d) => d = m
  /\ answer' = [answer EXCEPT ![r] = m]
  /\ UNCHANGED durable

Next == \E r \in Requests : Persist(r) \/ \E m \in Requests : Answer(r, m)

Spec == Init /\ [][Next]_<<durable, answer>>
=============================================================================
