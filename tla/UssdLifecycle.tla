---------------------------- MODULE UssdLifecycle ----------------------------
(***************************************************************************)
(* What the USSD service promises about a session, whatever its two stores *)
(* go through: it is opened once, closed for good, and takes the input of  *)
(* the subscriber only while it is open.                                   *)
(***************************************************************************)
CONSTANTS Sessions, Calls

VARIABLES
  phase,    \* "none", "open" or "closed"
  accepted  \* the calls whose input a session took

Init ==
  /\ phase = [s \in Sessions |-> "none"]
  /\ accepted = {}

Open(s) ==
  /\ phase[s] = "none"
  /\ phase' = [phase EXCEPT ![s] = "open"]
  /\ UNCHANGED accepted

Accept(c) ==
  /\ phase[c.session] = "open"
  /\ accepted' = accepted \cup {c}
  /\ UNCHANGED phase

\* Cleanup closes several sessions at once.
Close(closing) ==
  /\ \A s \in closing : phase[s] = "open"
  /\ phase' = [s \in Sessions |-> IF s \in closing THEN "closed" ELSE phase[s]]
  /\ UNCHANGED accepted

Next ==
  \/ \E s \in Sessions : Open(s)
  \/ \E c \in Calls : Accept(c)
  \/ \E closing \in SUBSET Sessions : Close(closing)

Spec == Init /\ [][Next]_<<phase, accepted>>
=============================================================================
