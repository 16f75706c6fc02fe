------------------------------- MODULE MCQuota -------------------------------
(***************************************************************************)
(* An instance of QuotaService for TLC: one application, a sandbox call    *)
(* and live calls, in days of four ticks.                                  *)
(***************************************************************************)
EXTENDS QuotaService

CONSTANT a1

Call(id, live) == [id |-> id, app |-> a1, live |-> live]
MixedCalls == {Call(1, TRUE), Call(2, FALSE), Call(3, TRUE), Call(4, TRUE)}
\* The live plan allows one call in a window, the sandbox two.
Limits == [live \in BOOLEAN |-> IF live THEN 1 ELSE 2]
=============================================================================
