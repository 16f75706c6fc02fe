----------------------------- MODULE MCAccounts -----------------------------
(***************************************************************************)
(* An instance of Accounts for TLC: two administrators, one address that   *)
(* is free, and any four of the calls that two sessions of the first one,  *)
(* a logout and the two of them against each other can make.               *)
(***************************************************************************)
EXTENDS Accounts, TLC

CONSTANTS a, b, c

Ask(kind, user, admin, role) == [kind |-> kind, user |-> user, admin |-> admin, role |-> role]

Calls ==
  (1 :> Ask("login", a, a, "ADMIN")) @@ (2 :> Ask("refresh", a, a, "ADMIN")) @@
  (3 :> Ask("refresh", a, a, "ADMIN")) @@ (4 :> Ask("logout", a, a, "ADMIN")) @@
  (5 :> Ask("deactivate", a, b, "ADMIN")) @@ (6 :> Ask("role", b, a, "MANAGER")) @@
  (7 :> Ask("register", c, a, "MANAGER")) @@ (8 :> Ask("role", a, a, "MANAGER"))
=============================================================================
