------------------------------- MODULE MCUssd -------------------------------
(***************************************************************************)
(* Instances of UssdService for TLC.                                       *)
(***************************************************************************)
EXTENDS UssdService

CONSTANT s1

Call(id, op, session, live) == [id |-> id, op |-> op, session |-> session, live |-> live]

\* A live session with two inputs, an end, and an end sent with a sandbox key.
Dialogue ==
  {Call(1, "start", s1, TRUE), Call(2, "advance", s1, TRUE), Call(3, "advance", s1, TRUE),
   Call(4, "end", s1, TRUE), Call(5, "end", s1, FALSE)}
=============================================================================
