---------------------------- MODULE MCPureRules -----------------------------
(***************************************************************************)
(* An instance of PureRules for TLC: amounts on both sides of every tie,   *)
(* all messages of at most seven characters, all last digits.  The lengths *)
(* of messages are scaled down, the difference of single and part is kept. *)
(***************************************************************************)
EXTENDS PureRules

SomeAmounts == -6 .. 60
AllTexts == UNION {[1 .. n -> Kinds] : n \in 0 .. 7}
SomeSingle == [GSM7 |-> 5, UCS2 |-> 3]
SomePart == [GSM7 |-> 4, UCS2 |-> 2]
=============================================================================
