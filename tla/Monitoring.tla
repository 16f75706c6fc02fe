----------------------------- MODULE Monitoring -----------------------------
(***************************************************************************)
(* GET /monitoring/dashboard (api/v1/endpoints/monitoring.py): four        *)
(* figures about one log, by four statements with a snapshot and a window  *)
(* of their own, while the audit middleware goes on appending rows.  The   *)
(* page walks of Histories are the other readings of the same run.         *)
(***************************************************************************)
EXTENDS Histories

CONSTANTS
  Services,   \* service types
  NoService,  \* a NULL service_type: health, keys, monitoring
  Entry,      \* each row of the log: [service, status, app, sandbox]
  Reader,     \* the application that asks
  LogLimit,   \* the recent entries a dashboard shows
  LastStart   \* bound: the window moves on to this row at most

ASSUME MonitoringAssumption ==
  /\ NoService \notin Services
  /\ DOMAIN Entry = Rows
  /\ \A r \in Rows : Entry[r].service \in Services \cup {NoService}
  /\ {LogLimit, LastStart} \subseteq Nat

VARIABLES
  since,    \* the rows from this one on are in the reporting window
  tallied,  \* history: the rows that the overview has tallied
  slid,     \* history: those that have left the window since
  report    \* the figures read so far

monitoringVars == <<historyVars, since, tallied, slid, report>>

MonitoringInit ==
  /\ HistoryInit(Lists \cup {"dashboard"})
  /\ since = 1 /\ tallied = {} /\ slid = {}
  /\ report = [calls |-> 0, errors |-> 0, byService |-> [s \in Services |-> 0],
               ownCalls |-> 0, ownErrors |-> 0, recent |-> {}]

\* The WHERE of every statement: created_at >= since, sandbox traffic left out.
Reported == {r \in visible : r >= since /\ ~Entry[r].sandbox}

(***************************************************************************)
(* Variants with a plausible mistake, used to show that the properties     *)
(* notice it; no specification contains them.                              *)
(***************************************************************************)
\* Every status from 400 on is an error of a service, as the schema describes it.
AllErrors(s) == {r \in Reported : Entry[r].service = s /\ Entry[r].status >= 400}

-----------------------------------------------------------------------------
Errors(rows) == {r \in rows : Entry[r].status >= 500}

Figure(from, to) ==
  /\ list = "dashboard"
  /\ step = from /\ step' = to
  /\ UNCHANGED <<list, visible, page, total, seen, since, slid>>

\* get_overview_stats: all applications.
Overview ==
  /\ Figure("asked", "overview")
  /\ report' = [report EXCEPT !.calls = Cardinality(Reported), !.errors = Cardinality(Errors(Reported))]
  /\ tallied' = Reported
  /\ late' = {}

\* get_stats_by_service groups the rows that have a service.  The calls of a service are
\* left out: the response looks for them under another name and always shows 0.
ServiceErrors(s) == Errors({r \in Reported : Entry[r].service = s})

ByService ==
  /\ Figure("overview", "services")
  /\ report' = [report EXCEPT !.byService = [s \in Services |-> Cardinality(ServiceErrors(s))]]
  /\ UNCHANGED <<late, tallied>>

\* get_calls_per_day: the rows of the application that asks, over all days.
Own(rows) == {r \in rows : Entry[r].app = Reader}

PerDay ==
  /\ Figure("services", "daily")
  /\ report' = [report EXCEPT !.ownCalls = Cardinality(Own(Reported)),
                              !.ownErrors = Cardinality(Errors(Own(Reported)))]
  /\ UNCHANGED <<late, tallied>>

\* list_recent: the newest rows of the application, from any time.
Listed == Own({r \in visible : ~Entry[r].sandbox})
Recent == {r \in Listed : Cardinality({x \in Listed : x > r}) < LogLimit}

RecentLogs ==
  /\ Figure("daily", "finished")
  /\ report' = [report EXCEPT !.recent = Recent]
  /\ UNCHANGED <<late, tallied>>

Dashboard == Overview \/ ByService \/ PerDay \/ RecentLogs

\* utcnow() moves on: the oldest row leaves the window.
Slide ==
  /\ list = "dashboard" /\ step # "finished"
  /\ since < LastStart
  /\ since' = since + 1
  /\ slid' = IF step = "asked" THEN slid ELSE slid \cup {r \in tallied : r = since}
  /\ UNCHANGED <<historyVars, tallied, report>>

MonitoringNext ==
  \/ HistoryStep /\ UNCHANGED <<since, tallied, slid, report>>
  \/ Dashboard
  \/ Slide
  \/ \E r \in Rows : Insert(r) /\ UNCHANGED <<since, tallied, slid, report>>

MonitoringSpec == MonitoringInit /\ [][MonitoringNext]_monitoringVars

-----------------------------------------------------------------------------
\* The errors of the services, one by one.
Classified == UNION {{s} \X (1 .. report.byService[s]) : s \in Services}

ServicesAgree ==
  LET others == {r \in Errors(tallied) : Entry[r].service = NoService}
      ofServices == report.errors - Cardinality(others)
  IN /\ ofServices - Cardinality(Errors(slid)) <= Cardinality(Classified)
     /\ Cardinality(Classified) <= ofServices + Cardinality(Errors(late))

OwnAgree ==
  /\ report.ownCalls <= report.calls + Cardinality(late)
  /\ report.ownErrors <= report.errors + Cardinality(Errors(late))

RecentAgree ==
  Cardinality(report.recent) >= (IF report.ownCalls < LogLimit THEN report.ownCalls ELSE LogLimit)

(***************************************************************************)
(* get_dashboard: the four figures differ by no more than the rows that    *)
(* were committed, and those that left the window, while it was built; and *)
(* every call of the day figures is among the recent entries, up to their  *)
(* limit.                                                                  *)
(***************************************************************************)
DashboardAgrees ==
  list = "dashboard" /\ step = "finished" => ServicesAgree /\ OwnAgree /\ RecentAgree

-----------------------------------------------------------------------------
(***************************************************************************)
(* The inductive invariant behind it: since the overview the window has    *)
(* changed by the rows of the two histories only.                          *)
(***************************************************************************)
Tallied ==
  /\ since \in Nat
  /\ slid \subseteq tallied /\ tallied \subseteq visible
  /\ report \in [calls : Nat, errors : Nat, byService : [Services -> Nat],
                 ownCalls : Nat, ownErrors : Nat, recent : SUBSET Rows]

WindowMoved ==
  /\ tallied \ slid \subseteq Reported
  /\ Reported \subseteq tallied \cup late
  /\ report.calls = Cardinality(tallied)
  /\ report.errors = Cardinality(Errors(tallied))

DashboardInv ==
  /\ Tallied
  /\ list = "dashboard" =>
       /\ step = "asked" => tallied = {}
       /\ step # "asked" => WindowMoved
       /\ step \in {"services", "daily", "finished"} =>
            Cardinality(Classified) \in Nat /\ ServicesAgree
       /\ step \in {"daily", "finished"} => OwnAgree
       /\ step = "daily" => report.ownCalls <= Cardinality(Listed)
  /\ DashboardAgrees

MonitoringInv == HistoryInv /\ DashboardInv
=============================================================================
