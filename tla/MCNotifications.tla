--------------------------- MODULE MCNotifications --------------------------
(***************************************************************************)
(* Instances of NotificationService for TLC.                               *)
(***************************************************************************)
EXTENDS NotificationService

CONSTANTS a, b, k

Notify(id, app, key, channel, live) ==
  [id |-> id, app |-> app, key |-> key, channel |-> channel, live |-> live]

\* An e-mail and two retries of it, one with the sandbox key, a push notification without a
\* key, and an SMS of another application that uses the same key.
Calls ==
  {Notify(1, a, k, "EMAIL", TRUE), Notify(2, a, k, "EMAIL", TRUE), Notify(3, a, k, "EMAIL", FALSE),
   Notify(4, a, NoKey, "PUSH", TRUE), Notify(5, b, k, "SMS", TRUE)}
=============================================================================
