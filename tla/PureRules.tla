------------------------------ MODULE PureRules -----------------------------
(***************************************************************************)
(* The rules that are pure functions - the amount of a payment             *)
(* (utils/money.py), the segments of a message (sms_service.py), the       *)
(* outcomes of the providers and their copies in the services - asked for  *)
(* one input at a time, each compared with what it stands for.  The sum    *)
(* over the characters of a message takes a step for each of them.         *)
(***************************************************************************)
EXTENDS Integers, Sequences

CONSTANTS
  Amounts,       \* what clients send, in thousandths
  Capacity,      \* the column holds amounts below this many hundredths
  Texts,         \* messages, as sequences of kinds of characters
  Single, Part,  \* units of a single message and of a part of several, by encoding
  MaxSegments    \* _MAX_SEGMENTS

Kinds == {"basic", "extended", "other", "astral"}
Encodings == {"GSM7", "UCS2"}
NoDigit == -1
LastDigits == 0 .. 9 \cup {NoDigit}

ASSUME RulesAssumption ==
  /\ Amounts \subseteq Int
  /\ \A t \in Texts : t \in Seq(Kinds)
  /\ \A e \in Encodings : Single[e] \in Nat /\ Part[e] \in 2 .. Single[e]
  /\ {Capacity, MaxSegments} \subseteq Nat
  /\ MaxSegments < Part["GSM7"]   \* 8 and 153

VARIABLES
  question,  \* the input
  outcome,   \* whether the code has taken it
  answer,    \* what the code makes of it
  read,      \* characters of a message that the sum has passed
  length,    \* effective_length so far
  air        \* history: the units and the parts those characters take on the air

scan == <<read, length, air>>
ruleVars == <<question, outcome, answer, scan>>

RulesInit ==
  /\ question \in [of : {"amount"}, amount : Amounts]
               \cup [of : {"text"}, text : Texts]
               \cup [of : {"sandbox"}, digit : LastDigits]
  /\ outcome = "asked" /\ answer = 0
  /\ read = 0 /\ length = 0
  /\ air = [units |-> 0, parts |-> 1, used |-> 0]

-----------------------------------------------------------------------------
(***************************************************************************)
(* Amounts.                                                                *)
(***************************************************************************)
\* Variant with a plausible mistake: the default rounding of decimal, half to even.
HalfEven(t) ==
  LET down == t \div 10 IN
  IF t % 10 > 5 \/ (t % 10 = 5 /\ down % 2 = 1) THEN down + 1 ELSE down

\* quantize_amount: ROUND_HALF_UP, in hundredths.
Quantize(t) == (t + 5) \div 10

Positive(t) == t > 0

\* _validate_and_prepare_amount: the check comes before the rounding.
PrepareAmount ==
  /\ question.of = "amount" /\ outcome = "asked"
  /\ Positive(question.amount)
  /\ Quantize(question.amount) < Capacity
  /\ answer' = Quantize(question.amount)
  /\ outcome' = "taken"
  /\ UNCHANGED <<question, scan>>

\* validate_positive refuses, or Numeric(14, 2) overflows at the INSERT.
RefuseAmount ==
  /\ question.of = "amount" /\ outcome = "asked"
  /\ ~Positive(question.amount) \/ Quantize(question.amount) >= Capacity
  /\ outcome' = "refused"
  /\ UNCHANGED <<question, answer, scan>>

(***************************************************************************)
(* Segments.                                                               *)
(***************************************************************************)
Encoding(text) == IF \A i \in DOMAIN text : text[i] \in {"basic", "extended"} THEN "GSM7" ELSE "UCS2"

\* What a character adds to effective_length: len() counts code points.
Length(kind, e) == IF e = "GSM7" /\ kind = "extended" THEN 2 ELSE 1

\* What it takes on the air, in septets or UTF-16 units; a part is full when it does not fit.
AirUnits(kind, e) == IF kind = (IF e = "GSM7" THEN "extended" ELSE "astral") THEN 2 ELSE 1

Fill(filled, n, e) ==
  IF filled.used + n > Part[e]
  THEN [units |-> filled.units + n, parts |-> filled.parts + 1, used |-> n]
  ELSE [units |-> filled.units + n, parts |-> filled.parts, used |-> filled.used + n]

\* sum(... for ch in text), or len(text).
ReadCharacter ==
  /\ question.of = "text" /\ outcome = "asked"
  /\ read < Len(question.text)
  /\ read' = read + 1
  /\ LET e == Encoding(question.text)
         kind == question.text[read + 1]
     IN /\ length' = length + Length(kind, e)
        /\ air' = Fill(air, AirUnits(kind, e), e)
  /\ UNCHANGED <<question, outcome, answer>>

\* Variant with a plausible mistake: the parts are as long as a single message.
PartsOfSingle(n, e) == (n + Single[e] - 1) \div Single[e]

\* calculate_segments.
CalculateSegments(n, e) ==
  IF n <= Single[e] THEN 1 ELSE (n + Part[e] - 1) \div Part[e]

Segments == CalculateSegments(length, Encoding(question.text))

CountSegments ==
  /\ question.of = "text" /\ outcome = "asked"
  /\ read = Len(question.text)
  /\ Segments <= MaxSegments
  /\ answer' = Segments
  /\ outcome' = "taken"
  /\ UNCHANGED <<question, scan>>

TooLong ==
  /\ question.of = "text" /\ outcome = "asked"
  /\ read = Len(question.text)
  /\ Segments > MaxSegments
  /\ outcome' = "refused"
  /\ UNCHANGED <<question, answer, scan>>

(***************************************************************************)
(* Sandbox outcomes, by the last digit of the number.                      *)
(***************************************************************************)
Ok(status) == [success |-> TRUE, status |-> status]
Fail(status) == [success |-> FALSE, status |-> status]

SandboxSms(digit) == IF digit = 8 THEN Fail("FAILED") ELSE Ok("DELIVERED")
SandboxPayment(digit) == IF digit = 9 THEN Fail("FAILED") ELSE Ok("COMPLETED")

\* The services do not call these providers: each has a copy of the rule, with another
\* digit for a number without one.
Digit(digit, default) == IF digit = NoDigit THEN default ELSE digit

\* Variant with a plausible mistake: the digits of the two rules are exchanged.
FailsOnNine(digit) == IF Digit(digit, 0) = 9 THEN "FAILED" ELSE "DELIVERED"

SmsOutcome(digit) == IF Digit(digit, 0) = 8 THEN "FAILED" ELSE "DELIVERED"
PaymentOutcome(digit) == IF Digit(digit, 1) = 9 THEN "FAILED" ELSE "COMPLETED"

ResolveInSandbox ==
  /\ question.of = "sandbox" /\ outcome = "asked"
  /\ answer' = [sms |-> SmsOutcome(question.digit), payment |-> PaymentOutcome(question.digit)]
  /\ outcome' = "taken"
  /\ UNCHANGED <<question, scan>>

RulesNext ==
  \/ PrepareAmount \/ RefuseAmount
  \/ ReadCharacter \/ CountSegments \/ TooLong
  \/ ResolveInSandbox

RulesSpec == RulesInit /\ [][RulesNext]_ruleVars

-----------------------------------------------------------------------------
(***************************************************************************)
(* The amount of a payment: what is stored is the nearest hundredth, the   *)
(* larger one at a tie, and it is positive for every amount that rounding  *)
(* leaves positive.  Below half a hundredth a payment of 0.00 is stored.   *)
(***************************************************************************)
AmountsRounded ==
  question.of = "amount" /\ outcome = "taken" =>
    /\ 10 * answer - question.amount \in -4 .. 5
    /\ answer > 0 <=> question.amount >= 5

\* The kinds of the characters that have been read.
KindsRead == {question.text[i] : i \in 1 .. read}

OnAir == IF air.units <= Single[Encoding(question.text)] THEN 1 ELSE air.parts

(***************************************************************************)
(* calculate_segments: the parts that the message takes on the air, or one *)
(* fewer if an extended character meets the end of a part.  Characters     *)
(* beyond the basic plane, which take two units, are counted as one.       *)
(***************************************************************************)
SegmentsCounted ==
  question.of = "text" /\ outcome = "taken" =>
    /\ answer <= OnAir
    /\ "astral" \notin KindsRead => answer >= OnAir - 1
    /\ (Encoding(question.text) = "GSM7" => "extended" \notin KindsRead) /\ "astral" \notin KindsRead
         => answer = OnAir

(***************************************************************************)
(* The sandbox rules of the services are those of the sandbox providers.   *)
(***************************************************************************)
SandboxRulesAgree ==
  question.of = "sandbox" /\ outcome = "taken" =>
    /\ answer.sms = SandboxSms(question.digit).status
    /\ answer.payment = SandboxPayment(question.digit).status

-----------------------------------------------------------------------------
(***************************************************************************)
(* The inductive invariant behind the three properties: what was read so   *)
(* far, what the code and the air have made of it, and that a part which   *)
(* is full lacks one unit at most.                                         *)
(***************************************************************************)
Asked ==
  /\ question \in [of : {"amount"}, amount : Amounts]
               \cup [of : {"text"}, text : Texts]
               \cup [of : {"sandbox"}, digit : LastDigits]
  /\ outcome \in {"asked", "taken", "refused"}

\* Every character so far has taken one unit.
Plain ==
  /\ "astral" \notin KindsRead
  /\ Encoding(question.text) = "GSM7" => "extended" \notin KindsRead

Filled(e) ==
  /\ air \in [units : Nat, parts : Nat \ {0}, used : 0 .. Part[e]]
  /\ air.parts > 1 => air.used > 0
  /\ air.units <= (air.parts - 1) * Part[e] + air.used
  /\ air.units >= (air.parts - 1) * (Part[e] - 1) + air.used
  /\ Plain => air.units = (air.parts - 1) * Part[e] + air.used

Scanned ==
  question.of = "text" =>
    /\ read \in 0 .. Len(question.text)
    /\ length \in Nat /\ length <= air.units
    /\ "astral" \notin KindsRead => length = air.units
    /\ Filled(Encoding(question.text))
    /\ outcome = "taken" => answer = Segments /\ Segments <= MaxSegments

RulesInv ==
  /\ Asked
  /\ Scanned
  /\ AmountsRounded
  /\ SandboxRulesAgree
=============================================================================
