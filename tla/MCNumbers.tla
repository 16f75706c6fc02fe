------------------------------ MODULE MCNumbers -----------------------------
(***************************************************************************)
(* An instance of NumberService for TLC: one number of one application,    *)
(* two live calls and a sandbox call.                                      *)
(***************************************************************************)
EXTENDS NumberService, TLC

CONSTANTS a, n

Ask(live) == [app |-> a, number |-> n, live |-> live]

Calls == (1 :> Ask(TRUE)) @@ (2 :> Ask(FALSE)) @@ (3 :> Ask(TRUE))
=============================================================================
