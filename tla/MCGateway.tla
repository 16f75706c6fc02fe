----------------------------- MODULE MCGateway ------------------------------
(***************************************************************************)
(* An instance of Gateway for TLC: one application with its two keys, any  *)
(* two of eight requests.  The key that the first request mints begins     *)
(* like the application's own key of that type.                            *)
(***************************************************************************)
EXTENDS Gateway, TLC

CONSTANTS f, e1

Live == [by |-> f, sandbox |-> FALSE]
Sand == [by |-> f, sandbox |-> TRUE]

Ask(kind, key) ==
  [kind |-> kind, key |-> key, target |-> Live, email |-> e1,
   longId |-> kind = "work" /\ key = Sand]

Calls ==
  (1 :> Ask("create", Live)) @@ (2 :> Ask("rotate", Live)) @@ (3 :> Ask("rotate", Sand)) @@
  (4 :> Ask("revoke", Sand)) @@ (5 :> Ask("work", Live)) @@ (6 :> Ask("work", Sand)) @@
  (7 :> Ask("register", NoKey)) @@ (8 :> Ask("register", NoKey))

Prefixes == [k \in Keys |-> IF k.by = 1 THEN [k EXCEPT !.by = f] ELSE k]
=============================================================================
