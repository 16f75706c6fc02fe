---------------------------- MODULE GatewayState ----------------------------
(***************************************************************************)
(* What the requests of the platform share on their way through the        *)
(* middlewares and the authentication of an API key: the rate-limit        *)
(* buckets in Redis, the tables client_applications and api_keys, and the  *)
(* audit log.                                                              *)
(*                                                                         *)
(*   sent -> stamped -> open -> routed -> loaded -> closing -> done        *)
(*                   -> closing                                            *)
(*                                                                         *)
(* An application and a key are named by the request that created them.    *)
(***************************************************************************)
EXTENDS Integers, FiniteSets

CONSTANTS
  Founders,  \* the applications that exist already, each with its two keys
  Emails,    \* owner addresses
  Requests,  \* numbers
  Call,      \* what each request asks for: [kind, key, target, email, longId]
  NoKey,     \* no Authorization header
  NoApp,     \* a NULL application_id
  Prefix,    \* the first twelve characters of each key
  Burst,     \* rate_limit_burst_free
  Window,    \* _WINDOW_SECONDS, in ticks
  MaxKeys,   \* _MAX_KEYS_PER_APPLICATION
  MaxCalls,  \* bound: requests that are sent at all
  MaxFlight, \* bound: requests under way at the same time
  LastTick,  \* bound: the clock stops here
  MaxDelay   \* bound: ticks between reading the clock and running the script

Kinds == {"work", "register", "create", "rotate", "revoke"}
Apps == Founders \cup Requests
Keys == [by : Apps, sandbox : BOOLEAN]
Ticks == 0 .. LastTick

ASSUME GatewayAssumption ==
  /\ Requests \subseteq Nat /\ NoApp \notin Apps /\ Founders \cap Requests = {}
  /\ Call \in [Requests -> [kind : Kinds, key : Keys \cup {NoKey}, target : Keys,
                           email : Emails, longId : BOOLEAN]]
  /\ \A r \in Requests :
       IF Call[r].kind = "register" THEN Call[r].key = NoKey
       ELSE /\ Call[r].key \in Keys
            /\ Call[r].key.by \in Requests => Call[Call[r].key.by].kind = "register"
  /\ NoKey \notin Keys
  /\ DOMAIN Prefix = Keys
  /\ {Burst, Window, MaxKeys, MaxCalls, MaxFlight, LastTick, MaxDelay} \subseteq Nat
  /\ MaxKeys >= 2   \* a registration mints two keys and counts none

VARIABLES
  now,      \* the clock of the API processes
  bucket,   \* ratelimit:{hash}: the members of all buckets, [key, at, by]
  counted,  \* history: the requests that the limiter has recorded
  apps,     \* client_applications
  issued,   \* api_keys
  revoked,  \* those with is_revoked
  pc,       \* where each request is
  stamp,    \* now_ms of each request
  held,     \* the requests whose request.state.api_key is set
  before,   \* history: the requests that had written when this one read what it decides on
  wrote,    \* history: the requests that have committed a change
  status,   \* the status of the answer, 0 until there is one
  rolled,   \* the requests whose transaction get_db has rolled back
  log       \* api_call_logs: [by, status, app]

keyVars == <<apps, issued, revoked>>
callVars == <<pc, stamp, held, before, wrote, status, rolled>>
vars == <<now, bucket, counted, keyVars, callVars, log>>

Init ==
  /\ now = 0
  /\ bucket = {} /\ counted = {}
  /\ apps = Founders
  /\ issued = [by : Founders, sandbox : BOOLEAN]
  /\ revoked = {}
  /\ pc = [r \in Requests |-> "sent"]
  /\ stamp = [r \in Requests |-> 0]
  /\ before = [r \in Requests |-> {}]
  /\ status = [r \in Requests |-> 0]
  /\ held = {} /\ wrote = {} /\ rolled = {}
  /\ log = {}

Goto(r, from, to) ==
  /\ pc[r] = from
  /\ pc' = [pc EXCEPT ![r] = to]

\* application_id: of the key that authenticated the request which minted a key.
Owner(k) == IF k.by \in Requests /\ Call[k.by].kind # "register" THEN Call[k.by].key.by ELSE k.by

Active(a) == {k \in issued \ revoked : Owner(k) = a}

\* The route returns: get_db commits, the response carries the status.
Answer(r, code) ==
  /\ status' = [status EXCEPT ![r] = code]
  /\ UNCHANGED rolled

\* The route raises with a transaction open: get_db rolls it back, which expires every
\* object of the session, the API key that the audit middleware will look at among them.
Raise(r, code) ==
  /\ status' = [status EXCEPT ![r] = code]
  /\ rolled' = rolled \cup {r}

\* Variant with a plausible mistake: the exception leaves the status of the audit unset.
UnhandledUnset == 0

\* Platform errors have no handler of their own: whatever status they name, it is 500.
Unhandled == 500
=============================================================================
