------------------------------ MODULE MCPayments ------------------------------
(***************************************************************************)
(* Instances of PaymentService for TLC.                                    *)
(***************************************************************************)
EXTENDS PaymentService

CONSTANTS a1, k1, k2, ref1

Pay(id, app, key, reference, live) ==
  [id |-> id, app |-> app, key |-> key, reference |-> reference, live |-> live]

Move(id, verb, payment) == [id |-> id, verb |-> verb, payment |-> payment]

Live == Pay(1, a1, k1, ref1, TRUE)
Retry == Pay(2, a1, k1, ref1, TRUE)
SameReference == Pay(3, a1, k2, ref1, FALSE)

\* A retried live payment and a sandbox call that reuses its reference.
Calls == {Live, Retry, SameReference}

\* The provider's answers about the live payment, which contradict and repeat each other,
\* a failure of the sandbox payment, and a reversal.
Callbacks ==
  {Move(1, "pending", Live), Move(2, "completed", Live), Move(3, "failed", Live),
   Move(4, "reversed", Live), Move(5, "failed", Live), Move(6, "failed", SameReference)}
=============================================================================
