----------------------------- MODULE Histories ------------------------------
(***************************************************************************)
(* A client reads a history page by page while rows are inserted: six      *)
(* lists, each a SELECT of the count and one with OFFSET and LIMIT, which  *)
(* are two statements with a snapshot of their own.  Five services count   *)
(* first, the audit log lists first.  Rows are never deleted, and no route *)
(* passes a filter on a column that changes.                               *)
(*                                                                         *)
(* A row is its rank by created_at, the time at which its transaction      *)
(* began: a row may become visible after a younger one.                    *)
(***************************************************************************)
EXTENDS Integers, FiniteSets

CONSTANTS
  Rows,      \* numbers: the rows there may be, by created_at
  Existing,  \* those that are visible when the walk begins
  PageSize   \* page_size

ASSUME HistoriesAssumption ==
  /\ Rows \subseteq Nat /\ IsFiniteSet(Rows)
  /\ Existing \subseteq Rows
  /\ PageSize \in Nat \ {0}

VARIABLES
  list,     \* the history that is walked
  visible,  \* its committed rows
  page,     \* page of the request
  step,     \* where the request for that page is
  total,    \* the count it has read
  seen,     \* the rows the client has been shown
  late      \* history: rows that became visible between the two statements of this page

historyVars == <<list, visible, page, step, total, seen, late>>

Lists == {"sms", "payments", "ussd", "numbers", "notifications", "audit"}

HistoryInit(readings) ==
  /\ list \in readings
  /\ visible = Existing
  /\ page = 1 /\ step = "asked" /\ total = 0
  /\ seen = {} /\ late = {}

(***************************************************************************)
(* Variants with a plausible mistake, used to show that the properties     *)
(* notice it; no specification contains them.                              *)
(***************************************************************************)
\* Whole pages only.
WholePages(n) == IF n > 0 THEN n \div PageSize ELSE 1

-----------------------------------------------------------------------------
\* skip and limit of the request.
Skip == (page - 1) * PageSize

\* ORDER BY created_at DESC OFFSET skip LIMIT limit.
Newer(r) == Cardinality({x \in visible : x > r})
Page == {r \in visible : Skip <= Newer(r) /\ Newer(r) < Skip + PageSize}

\* _build_paginated: at least one page.
Pages(n) == IF n > 0 THEN (n + PageSize - 1) \div PageSize ELSE 1

HasNext(n) == page < Pages(n)

\* The answer: the client asks for the next page while there is one.
AnswerPage(n) ==
  /\ step' = IF HasNext(n) THEN "asked" ELSE "finished"
  /\ page' = IF HasNext(n) THEN page + 1 ELSE page

Count(from, to) ==
  /\ step = from /\ step' = to
  /\ total' = Cardinality(visible)
  /\ late' = {}
  /\ UNCHANGED <<list, visible, page, seen>>

CountThenList ==
  \/ Count("asked", "counted")
  \/ /\ step = "counted"
     /\ seen' = seen \cup Page
     /\ AnswerPage(total)
     /\ UNCHANGED <<list, visible, total, late>>

ListThenCount ==
  \/ /\ step = "asked" /\ step' = "listed"
     /\ seen' = seen \cup Page
     /\ late' = {}
     /\ UNCHANGED <<list, visible, page, total>>
  \/ /\ step = "listed"
     /\ total' = Cardinality(visible)
     /\ AnswerPage(total')
     /\ UNCHANGED <<list, visible, seen, late>>

SmsHistory == list = "sms" /\ CountThenList
PaymentHistory == list = "payments" /\ CountThenList
UssdSessions == list = "ussd" /\ CountThenList
NumberHistory == list = "numbers" /\ CountThenList
NotificationHistory == list = "notifications" /\ CountThenList
AuditLogs == list = "audit" /\ ListThenCount

\* A transaction of some other request commits.
Insert(r) ==
  /\ step # "finished"
  /\ r \notin visible
  /\ visible' = visible \cup {r}
  /\ late' = IF step = "asked" THEN late ELSE late \cup {r}
  /\ UNCHANGED <<list, page, step, total, seen>>

HistoryStep ==
  \/ SmsHistory \/ PaymentHistory \/ UssdSessions \/ NumberHistory \/ NotificationHistory
  \/ AuditLogs

-----------------------------------------------------------------------------
(***************************************************************************)
(* "Accepts identical filters [...] for consistent count/list pairs in     *)
(* paginated responses" (number_repo.py:156-157): a client that follows    *)
(* has_next has been shown every row that existed when it began, unless a  *)
(* row slipped between the count and the list of the last page - which the *)
(* order of the audit log makes impossible.                                *)
(***************************************************************************)
WalkShowsAll ==
  list \in Lists /\ step = "finished" /\ (list = "audit" \/ late = {}) => Existing \subseteq seen

-----------------------------------------------------------------------------
(***************************************************************************)
(* The inductive invariant behind it: a row that has not been shown has    *)
(* been pushed behind the pages that were listed, and the count is right   *)
(* as long as no row slips in.                                             *)
(***************************************************************************)
Behind(n) == \A r \in Existing \ seen : Newer(r) >= n

Walking ==
  /\ page \in Nat \ {0} /\ total \in Nat
  /\ Existing \subseteq visible /\ visible \subseteq Rows
  /\ late \subseteq visible

HistoryInv ==
  /\ Walking
  /\ list \in Lists =>
       /\ step \in {"asked", "counted"} => Behind(Skip)
       /\ step = "listed" => Behind(Skip + PageSize)
       /\ step = "counted" /\ late = {} => total = Cardinality(visible)
  /\ WalkShowsAll
=============================================================================
