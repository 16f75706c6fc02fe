-------------------------------- MODULE MCSms --------------------------------
(***************************************************************************)
(* Instances of SmsPlatform for TLC.  Each scenario is a set of calls.     *)
(***************************************************************************)
EXTENDS SmsPlatform

CONSTANTS a1, a2, k1

Call(id, app, key, live) == [id |-> id, app |-> app, key |-> key, live |-> live]

\* Two live retries of one operation, a sandbox call with the same key, and another
\* application that happens to use the key.
Races == {Call(1, a1, k1, TRUE), Call(2, a1, k1, TRUE),
          Call(3, a1, k1, FALSE), Call(4, a2, k1, TRUE)}

\* A message with a key and one without, both live.
TwoMessages == {Call(1, a1, k1, TRUE), Call(2, a1, NoKey, TRUE)}
=============================================================================
