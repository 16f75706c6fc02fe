---------------------------- MODULE MCMonitoring ----------------------------
(***************************************************************************)
(* An instance of Monitoring for TLC: four rows of a history, or of the    *)
(* audit log, and three that are committed while it is read.               *)
(***************************************************************************)
EXTENDS Monitoring, TLC

CONSTANTS a, b, sms, ussd, none

Log(service, status, app, sandbox) ==
  [service |-> service, status |-> status, app |-> app, sandbox |-> sandbox]

Entries ==
  (1 :> Log(sms, 500, a, FALSE)) @@ (2 :> Log(none, 500, a, FALSE)) @@
  (3 :> Log(ussd, 404, b, FALSE)) @@ (4 :> Log(sms, 200, a, TRUE)) @@
  (5 :> Log(sms, 500, b, FALSE)) @@ (6 :> Log(ussd, 500, a, FALSE)) @@
  (7 :> Log(sms, 404, a, FALSE))
=============================================================================
