# The telecom platform in TLA+

The platform is a FastAPI service through which client applications send SMS,
initiate mobile-money payments, run USSD sessions, look up numbers and dispatch
notifications. API processes share one PostgreSQL database (READ COMMITTED, no
row locks) and one Redis (idempotency cache, quota counters, USSD state, rate
windows); SMS are delivered by Celery workers. Nothing serialises two requests
except a unique index or a single Redis command or Lua script, so what the
code guarantees rests on the order in which a request touches those stores.
That order is what this project models.

All paths below are relative to `src/app/`.

## Inventory

| Component | State it keeps | Operations | What is hard | What makes it correct |
|---|---|---|---|---|
| SMS service `services/sms_service.py` | `sms_messages` rows, cached responses | `send`: cache, quota, INSERT, cache write, commit, enqueue or sandbox outcome | races on one key; crash between the cache write and the commit, or the commit and the enqueue; cache expiry against a permanent unique key | one message per key, answers that agree, live messages paid, every call ends |
| SMS task `tasks/sms_tasks.py`, `core/celery_app.py` | row status, quota, task copies | deliver, retry, fail permanently, refund | lost workers and redelivery; status read before a network call and written after it | nothing accepted is stranded, bounded duplicate sends, final statuses, refunds that were paid |
| Idempotency cache `utils/idempotency.py` | Redis entries with a 24 h TTL | get, put, expire | not transactional with the row | agrees with the table |
| Quota `services/quota_service.py` | burst set, daily counter and its expiry | two Lua scripts, `reset_daily_quota`, the callers' DECR | clocks read before scripts run; the boundary of the day; DECR of another day | the window and the day's limit, no refusal for yesterday's calls |
| Payments `services/payment_service.py` | `payment_transactions` rows, cached responses, quota | `initiate`; `mark_pending`, `mark_completed`, `mark_failed`, `reverse_transaction` | two unique columns; status read and written without a lock | one payment per reference and key; terminal statuses stay; payments paid |
| USSD `services/ussd_service.py` | Redis session with a 180 s TTL, `ussd_sessions` row | start, advance, end, cleanup of expired rows | two stores written in different orders; cleanup writes what it selected without checking again | an ended session stays ended; the stores agree on what is alive |
| Accounts `services/auth_service.py`, `security/jwt.py` | `users` rows, refresh tokens | register, login, refresh, logout, change role, deactivate | check-then-write without locks; a token is its user and a second | a refresh token is exchanged once; sessions end; an administrator remains |
| Applications and API keys `services/auth_service.py`, `repositories/api_key_repo.py`, `api/deps.py` | `client_applications`, `api_keys` | authenticate, register, create, revoke, rotate | limit and owner looked up before the INSERT; a key read once per session | the limit, one owner per application, a key is spent once |
| Rate limit `middleware/rate_limit.py` | Redis window per token | admit, refuse, fail open | the clock is read before the script runs | the window |
| Audit `middleware/audit.py`, `services/audit_service.py` | append-only rows | append | written after the session of the request has ended | one truthful row per request |
| Numbers `services/number_service.py` | Redis entries, `number_verifications` rows | verify | two caches in series | bounded age, one verification per period, paid |
| Notifications `services/notification_service.py` | `notification_records` rows, cached responses, quota | dispatch | provider called before the commit; no handling of a duplicate key | one record per key; sent again only after a death |
| Histories and monitoring `list_*`, `api/v1/endpoints/monitoring.py` | none | pages, dashboard | several statements, each with a snapshot of its own | pages show every row; figures agree |
| Rules `utils/money.py`, `calculate_segments`, sandbox outcomes | none | pure functions | rounding, boundaries, copies that drift apart | their reference definitions |
| Permissions, `tasks/notification_tasks.py`, mock operators, health, shell | none of their own | - | - | - |

Interaction. A request passes the request-id, audit and rate-limit middlewares in that
order. Its route resolves the caller's API key and the database session
(`api/deps.py`; `get_db` commits after the route or rolls back on an
exception), and calls one service; on the way out the audit middleware writes a row in a session of its own. The services call the idempotency cache, then
the quota service, then their repository. `SMSService.send` publishes
`send_sms_task`; the task, in a worker process with its own synchronous session,
calls the provider, writes the row and decrements the quota counter. The tests
directory of the repository is empty; docstrings are the only statement of
intent, and the findings below quote them.

`PROJECT.json` lists every component with its status and every hazard at its line.

## Modules

| Module | Models |
|---|---|
| `IdempotentCreate` | abstract specification of an idempotent create: a record per key at most, never dropped, and later answers that name it |
| `SmsState` | what API processes and workers share: rows, cache, daily counters, the broker's queue as a bag of tasks |
| `SmsService` | `SMSService.send`, one action per step between two awaits, with crash, cache expiry and midnight |
| `SmsWorker` | `send_sms_task`, its retries, permanent failure, refund, every answer of the provider, and worker loss |
| `SmsPlatform` | both composed, fairness, the properties and the inductive invariants |
| `SmsProofs` | theorems about `SmsPlatform` |
| `PaymentService` | `PaymentService.initiate` and the four transitions |
| `PaymentProofs` | theorems about `PaymentService`, and about the rules of `PureRules`, the first of which is the amount of a payment |
| `QuotaService` | `check_and_consume` in detail, with time |
| `QuotaProofs` | theorems about `QuotaService` |
| `UssdLifecycle` | abstract specification of a session: opened once, closed for good, input only while open |
| `UssdService` | start, advance, end and cleanup over the Redis key with its step history and the row, with time |
| `UssdProofs` | theorems about `UssdService` |
| `GatewayState` | what requests share on their way to a route: rate-limit buckets, applications, keys, the audit log; how a route ends |
| `ApiKeys` | authentication of a key, registration of an application, creation, revocation and rotation of keys |
| `RateLimit` | the sliding window of `middleware/rate_limit.py` |
| `Gateway` | a request through rate limit, authentication, route, exception handlers and audit; the properties of all three |
| `GatewayProofs` | theorems about `Gateway`, and about the readings of the log and of the histories (`Monitoring`) |
| `Accounts` | users: registration, login, refresh, logout, roles, deactivation |
| `AccountProofs` | theorems about `Accounts` |
| `NumberService` | `NumberService.verify` with its three tiers and their ages |
| `NumberProofs` | theorems about `NumberService` |
| `NotificationService` | `NotificationService.dispatch` behind its route |
| `NotificationProofs` | theorems about `NotificationService` |
| `Histories` | page walks over six lists while rows are inserted |
| `Monitoring` | `GET /monitoring/dashboard` over the audit log (extends `Histories`, whose readings it shares a run with) |
| `PureRules` | amounts, SMS segments, sandbox outcomes, against reference definitions |
| `MCSms`, `MCPayments`, `MCQuota`, `MCUssd`, `MCGateway`, `MCAccounts`, `MCNumbers`, `MCNotifications`, `MCMonitoring`, `MCPureRules` | instances for TLC |

How to read an action. `pc[r]` is the await at which call `r` is suspended, and an
action is the code up to the next one. In `SmsService`:

    received -(cache GET)-> metering -(Lua + validation)-> writing -(INSERT)-> caching
      -(SETEX)-> committing -(COMMIT)-> enqueuing | resolving -(publish | outcome)-> replied
    writing -(IntegrityError)-> refunding -(DECR)-> replied

`row[r]` is the row that call `r` inserts: `"flushed"` while its transaction is
open, then its status. A row is named by its call, which stands for its uuid4.
`Crash(r)` covers whatever ends a request at an await (an exception from Redis, the
database or the broker, a cancelled handler, a dead process): the open transaction
is rolled back, what is in Redis stays. In `SmsWorker` a copy of a task leaves the
queue when a worker takes it (`Begin`) and comes back when the worker is lost before
its acknowledgement (`task_acks_late`, `task_reject_on_worker_lost`). The provider accepts (`Accepted`), fails or raises without having accepted (`Refused`), or raises
after it has accepted (`AnswerLost`); the task cannot tell the last two exceptions apart and retries. `unheard` and `redelivered` count what the code cannot prevent; no
action looks at them. In
`PaymentService` a transition is `Read` then `Write`, and `seen[t]` is the status it
validated. `UssdService` keeps times as the ticks that remain (`ttl` of the key, `left` of the row's
`expires_at`, `fresh` of the `expires_at` a call has computed), so its clock needs no bound; an UPDATE and
its commit are one action, because nobody sees the row in between. `Gateway`, `Accounts`, `NumberService` and
`NotificationService` read in the same way: `pc[r]` is the place of a request, and each module draws its
places at its head.

Three history variables recur: `before[r]` is what had been committed when call `r` read what it decides on, and `wrote` or
`rows` what has been committed since. Two calls *overlap* when neither is in the other's `before`. None of these services locks
what it has read, so overlapping calls may both go ahead; the properties say that nothing else can.

Abstractions, and what they keep:

- PostgreSQL makes an INSERT wait for an open transaction that holds the key and
  raises IntegrityError once that one commits. `Insert` is therefore disabled, not
  refused, while a rival row is `"flushed"`.
- In the SMS and payment modules the burst window is a choice (any call may be
  limited): the window is `QuotaService`'s subject. For payments the daily limit is a
  choice as well, and `quota[a]` is the sum of the application's counters over the days.
- `SmsState.quota` keeps the counters of days that are over, which Redis has
  expired. Nothing reads them; they make the balance of all units a sum. `QuotaTotal` counts that sum unit by
  unit, what is consumed less what is overdrawn, because a refund may make a counter negative.
- In `QuotaService` a missing key reads as 0, which is what GET and INCR do. The TTL of
  the burst set exceeds the window, so its expiry removes only members that the next
  script would remove. A refund is any DECR by the calling service after the call was
  allowed; a reset may come at any time (no route calls it).
- For USSD, the menu position and the session data are left out. `steps` is the step history in a key, as the set of advances
  whose step is in it: an advance computes the whole list from what it has read (`base`) and writes it back in the SETEX that brings
  the key back. What the deleted key held is kept in `steps`, where nobody reads it (`Gate`). Cleanup has no caller in the
  repository; `Cleaners` are the loops its docstring describes. With asyncpg its comparison of an aware `utcnow()` with the
  naive column may be refused by the driver; it is modelled as the statement the code writes.
- `Gateway`: every route that does not change keys is `"work"`, described by what it does to its session: it
  returns, its body does not validate (found after the dependencies have run, and without raising through them), it raises an
  HTTPException, it raises anything else, or it raises after its service has committed. What `get_db` rolls back it also
  expires, which is what the audit middleware stumbles over. Platform errors are answered with 500 because
  `core/error_handlers.py` is registered by nobody (`main.py` registers three handlers of its own).
- `Gateway`: `get_api_key` leaves the caller's key in the identity map of the session, so an operation on that same key
  (`LoadKey`) sees it as it was at the authentication. `before` is therefore not renewed there. `touch_last_used`, which
  the authentication calls, exists nowhere; the AttributeError is swallowed and the step has no effect.
- `Gateway`: an expired key and excessive scopes are one refusal, `RefuseKey`, which also stands for asyncpg refusing to compare
  an aware time with a naive column when active keys are counted. Two active keys with one prefix refuse both callers
  (`scalar_one_or_none`), which the instance provokes with `Prefix`.
- `RateLimit`: `/health` and the documentation paths are exempt in the code (an exempt prefix `/health` does not match
  `/api/v1/health`); an exempt request is one without a key here. The higher sandbox limit is for tokens with "sandbox" in them,
  which no key has.
- `Accounts`: a refresh token is its user and the second it expires in, minus the constant lifetime; RS256 is
  deterministic, so two tokens of one user and second are the same. An UPDATE names the columns that differ from the row as
  loaded: `clear_refresh_token` on a row that was loaded without a token writes nothing. `register_user`,
  `change_user_role` and `deactivate_user` have no route yet, and the logout route refuses every caller (it decodes the token
  with the path of the key); the service's methods are modelled as the routes will call them.
- `NumberService`: times are ticks, `created_at` is the start of the request's transaction. Neither the cache key nor the
  look-up of a recent row distinguishes live from sandbox keys, so a live call may be answered with a sandbox verification.
- `NotificationService`: a replayed response is a dict that the route reads like a record; it is answered with 500
  (`Replay` ends in `"errored"`), as is a duplicate key (`Duplicate`), whose unit is gone. `returned` is
  what `dispatch` itself returned. Live PUSH has no provider and is always FAILED; its unit is kept.
- `Histories`: a row is its rank by `created_at`; two rows with equal times have no order in the code and none here. The
  six lists have the same two shapes: five count and then list, the audit log lists and then counts.
- `Monitoring`: the window's start is read by each statement (`Slide`). The calls per service are left out: the rows say
  `call_count`, the response reads `total_calls`, so the reported number is always 0.
- `PureRules`: amounts are thousandths, messages are sequences of kinds of characters, with the limits 160/153 and 70/67
  scaled down to 5/4 and 3/2. The sum over the characters of a message takes a step for each (`ReadCharacter`), and the reference
  fills the parts alongside it. That a part has more units than a message may have segments (`MaxSegments < Part["GSM7"]`; 8
  and 153 in the code) is an assumption the second clause of `SegmentsCounted` needs: each part may lack one unit.
- Elsewhere text, amounts, numbers and formatting are left out: no property there depends on them.
- Input validation is a choice between accepted and refused, after the unit is spent,
  as in the code.

## Runs

Passing runs:

| Run | Instance | Shows |
|---|---|---|
| `sms_service` | four calls on one key: two live retries, a sandbox call, another application; two days; no worker | `CacheAgreesWithTable`, `LiveMessagesPaid`, refinement of `IdempotentCreate`, and that every served call ends (`RequestsEnd`) |
| `sms_delivery` | two live messages, one with a key; two workers; one retry; one worker loss; two days with one unit each | `NoMessageStranded`; `SendsAccounted`: every send after the first is due to a lost answer or to a copy that came back; `SettledOnce`; `LiveMessagesPaid`; `AcceptedIsResolved` |
| `payments` | one application and one reference: a live call, its retry with the same key, a sandbox call with another key; six transitions of what they create, `mark_failed` three times | one payment per reference, refinement of `IdempotentCreate`, payments paid, a settled payment stays settled unless its writers overlap |
| `quota` | three live calls and a sandbox one, a window of three ticks, days of four, delays of one, refunds and resets | the burst window and the daily limit under late scripts, and that yesterday's calls exhaust nothing |
| `ussd` | one session: start, two inputs, two ends (one with a sandbox key), a cleaner, TTL of two ticks | refinement of `UssdLifecycle`; `OpenSessionHasKey`; `NoOrphanKey`; `StepsKept`: only overlapping inputs lose a step |
| `gateway` | one application with a live and a sandbox key; any two of eight requests: create, rotate (two keys), revoke, other work (two keys), two registrations of one owner | `KeysBounded`, `KeySpentOnce`, `OwnersDistinct`: each may fail by overlapping calls only; `RateBounded`; `AuditTruthful` |
| `accounts` | two administrators; any four of login, two refreshes, logout, deactivation, two demotions, a registration | `TokenExchangedOnce`, `SessionsEnd`, `AdminsRemain`, each unless calls overlap |
| `numbers` | one number; two live calls and a sandbox call over seven ticks | `AnswersFresh`: an answer is committed, paid, of its own number and application, and younger than both periods; `VerifiedOnce` |
| `notifications` | an e-mail, its retry with a live and with a sandbox key, a push without a key, an SMS of another application with the same key | `SentAgainOnlyAfterDeath`; refinement of `IdempotentCreate` |
| `histories` | four rows on pages of two, three that are committed meanwhile anywhere in their order; the dashboard over the same rows with a window that slides twice | `WalkShowsAll`, `DashboardAgrees` |
| `values` | 67 amounts, 21 845 messages, eleven last digits | `AmountsRounded`, `SegmentsCounted`, `SandboxRulesAgree` |

`gateway_audit` refutes a sentence of the documentation (see Findings).

Bounds, and why they are enough:

- `Requests`. A race on the unique index needs two calls; the third (sandbox) and
  fourth (another application) are the other classes the code distinguishes. More calls
  of a class repeat what two of them do: a call interacts with others only through the row
  of its key, its cache slot and its application's counter.
- `LastDay = 1`: one midnight between any two steps. A refund only asks whether the day
  it runs on is the day that was charged.
- `MaxRetries = 1` (3 in the code): an attempt that retries and one that does not.
  A retry is otherwise the same step.
- `MaxCrashes = 1`: one lost worker already leaves two copies of a task that race. The bound is a
  guard of `WorkerCrash`. `wcrashes` counts the losses, and `redelivered` those that put a copy back between the provider's answer and
  the status; the properties are stated per loss. Lost answers need no bound: each uses up an attempt.
- `DailyLimit` for SMS: 1 in `sms_delivery`, where the second live call of a day is refused unless a failure has returned the unit, and both messages
  are on their way at once after midnight; 2 in `sms_service`, where the two live calls of one application may race on the same day.
- `LastTick = 6`, `DayLength = 4`, `MaxDelay = 1`: a full day, its last second (tick 3), and
  the next day up to the second before its end; a script runs at most one tick late, which suffices for it to
  run after midnight and after a younger call's script. Calls are numbered in the order they read
  the clock (`Stamp`), which loses no behaviour: scripts still run in any order. The burst
  limit of one live call in a window of three ticks is reached by the second call.
- USSD: one session, because a call touches the key and the row of its session only and cleanup writes each selected row alike;
  two inputs, which is what it takes to write `expires_at` and the key in different orders; a TTL of two ticks, so that
  a call can be overtaken by the clock before and after the expiry. The clock runs for ever.
- `gateway`: `MaxCalls = MaxFlight = 2`. Each property relates two requests; the eight that are offered are the classes the code
  tells apart, and every pair of them occurs, overlapping or in a row. `MaxKeys = 2` is reached by the founder's
  own two keys, `Burst = 1` by the first call; `MaxDelay = 1` lets a younger script trim the window first.
- `accounts`: `MaxCalls = 4` is a login, a refresh, its replay and a logout; `Life = 1` and `LastTick = 2` let a token expire and let
  two tokens be issued in one second and in different ones.
- `numbers`: `Ttl = Recency = 2` and `LastTick = 6`: a row can be found at the end of its period, cached again, and be
  served until the end of that one. `MaxDelay = 1` lets a request be overtaken by both expiries.
- `histories`: a page before and a page behind the row that appears; three new rows change the number of pages once or twice.
- `values`: seven characters are three parts of the scaled messages and a remainder, in both encodings.
- `LastTick` bounds the clock and every run but `ussd` stops when its calls have ended, hence
  `CHECK_DEADLOCK FALSE` there: such a system has nothing left to do. In `ussd` time never stops.

Each property of a passing run has a mutant in `PROJECT.json`: a mapped definition replaced by a
variant with a plausible mistake (the variants stand in each module under a heading of their own),
under which TLC finds the property violated.

## Fairness

`FairSpec` assumes weak fairness of two things. `ServeStarted(r)`: the event loop resumes
the coroutine of a request it has started; a request ends at an await or runs on. `WorkOn(w)`:
a worker that is up takes a task and finishes it; Celery's prefetch of one and
the broker give no worker a reason to idle while there is a task. Nothing makes a client call, a
cache entry expire, a process crash or a day pass. An INSERT that waits is not helped by
fairness of its own: `RequestsEnd` holds because the holder of the key commits, or crashes and rolls back.
The other specifications state no fairness and no liveness: a request that stops for ever is one whose
process has died, and their safety properties hold with it.

## Proofs

`SmsProofs` proves, for all sets of applications, keys, calls and workers, every daily limit,
number of days, retries and losses (assumptions `RequestsAssumption`, `BoundsAssumption`,
`MaxCrashesAssumption`: the shape of a call, and natural-number bounds):

| Theorem | Statement |
|---|---|
| `TypeCorrect` | `Spec => []TypeOK` |
| `CacheAgreement` | `Spec => []CacheAgreesWithTable` |
| `IdempotentSend` | `Spec => ImplementsIdempotentCreate` |
| `NothingStranded` | `Spec => []NoMessageStranded` |
| `EverySendAccounted` | `Spec => []SendsAccounted` |
| `SettledForGood` | `Spec => SettledOnce` |
| `LivePaid` | `Spec => []LiveMessagesPaid` |

`CacheAgreesWithTable` speaks only of committed rows, and is not inductive: the response enters
the cache before the commit. `IInv` (in `SmsPlatform`) adds what makes the
commit safe. `RowsFollowRequests` ties the row to the place of its request; `KeyHeldOnce` is the
unique index, over open rows as well; `CommitterIsCached` says that between the cache write and
the commit nobody else can put an answer in the slot, because a second writer needs
a row of its own. `CacheHoldsOwnSlot` and `DuplicateNamesRecord` are what the
refinement needs: an answer taken from the cache or from the duplicate's SELECT names a record of the same slot.
`WorkersHoldRecords` keeps workers from creating a status where no row is. A worker that is acknowledging
is not in it, because nothing it does afterwards touches the row.
The proof has a lemma per group of actions (steps before the row exists, status writes, INSERT,
duplicate, cache write, commit, final answer, crash, expiry), then
`ServiceKeepsIInv` and `WorkerKeepsIInv`, then `StepIInv`. `StepRefines` maps `Commit` to `Persist`, the
last step of a request to `Answer`, everything else to a stutter.

The delivery has an invariant of its own on top, `DeliveryInv`. A message is *carried* by the copies of its task in the
broker and by the workers that hold one and may still write a status. While a message is not settled, `CopiesBounded` counts its copies, its
workers and its sends together: publishing makes one copy, taking a task turns a copy into a worker, a retry turns it back, an accepted send uses it
up. A lost answer is a send that leaves the worker with its retry, and a lost worker adds a copy only after the provider has answered:
these are the two counters on the other side. Once the message is settled its copies do nothing, and `SettledBounded` counts only the workers that
had read PENDING before: at most one per redelivered copy. From the two come `EverySendAccounted` and `SettledForGood`; for the second,
a message without a redelivered copy has no carrier left when it is settled. `PendingIsCarried` is
`NoMessageStranded` without the worker that is done with a message, which would hide the next step's violation.

`LivePaid` is not about messages alone, because units are returned by requests (duplicates) and by workers (failures), at any
later day. `BooksInv` therefore counts *claims*: a request that took a unit, a copy of a task, a worker
that may still refund it, and a message that nobody carries any more and that did not fail. `ClaimsPaid` says that the
claims of an application never exceed its units, the lost workers and what sandbox duplicates returned; every step passes a claim on, or
gives it up with its unit. A copy that a lost worker puts back is a claim without a unit, which is why losses
are counted. The sets of requests may be infinite; the invariant says that finitely many have begun.

`UssdProofs` proves, for all sets of sessions, calls and cleaners, every TTL and every cleanup
batch size (`UssdAssumption`: the shape of a call, at most one start per session because each start
draws a fresh uuid4, and positive bounds):

| Theorem | Statement |
|---|---|
| `TypeCorrect` | `Spec => []TypeOK` |
| `OrphanKeys` | `Spec => []NoOrphanKey` |
| `SessionKeepsKey` | `Spec => []OpenSessionHasKey` |
| `ClosedForGood` | `Spec => ImplementsUssdLifecycle` |
| `StepsRemembered` | `Spec => []StepsKept` |

`OpenSessionHasKey` is not inductive: a row takes over an `expires_at` that a call has computed
earlier, on either side of its SETEX, while other calls write the key. `IInv` (in `UssdService`) therefore
says two things about the clock: `KeyOutlivesRow`, for the `expires_at` in the row, and `KeyOutlivesCall`,
for the one that a call still holds. Both are excused while an end of the session is under way, because
`end` deletes the key before it closes the row. The other conjuncts (`Stores`) say which row a call may find at each
place. `StutterIInv` aside, the proof has a lemma per conjunct and under it a case per action. In
the refinement the INSERT of a start maps to `Open`, the read of an ACTIVE row by an advance to `Accept`, the UPDATE of an end or a
cleanup to `Close`, everything else to a stutter.

Two inputs that read one step history write it back each with its own step, and one of them is lost; `StepsRemembered` says that
nothing else loses a step, not even a key that was deleted and brought back. `StepsInv` carries that from the gate to the SETEX:
what an advance is about to write back has every step written before it read, but for those that were lost by then (`BaseKept`), and
whatever was written since it has not read, nor has that read it (`WrittenInPlace`).

`NotificationProofs` proves, for all sets of applications, keys and requests and every daily limit
(`NotificationAssumption`: the shape of a request):

| Theorem | Statement |
|---|---|
| `SentOnce` | `Spec => []SentAgainOnlyAfterDeath` |
| `IdempotentDispatch` | `Spec => ImplementsIdempotentCreate` |

Unlike `SMSService.send`, `dispatch` calls the provider before it commits, and what makes that safe
is the unique index. `KeyHeldOnce` says that an open INSERT already excludes every other record of its key,
and `SentHasRecord` that whatever a provider was handed has such a record, unless its request has died. Together
they give `SentOnce`. For the refinement, `CommitterIsCached` and `CacheHoldsSlot` play the
part they play for SMS, and `ReturnsAtEnd` says that an answer is given once.

`GatewayProofs` proves, for all sets of requests, keys and founding applications, every clock and every
limit (`GatewayAssumption`: the shape of a call, natural-number bounds, and a limit of at least two keys, because a
registration mints two without counting; the code's limit is 10):

| Theorem | Statement |
|---|---|
| `TypeCorrect` | `Spec => []TypeOK` |
| `SpentOnce` | `Spec => []KeySpentOnce` |
| `OneApplicationPerOwner` | `Spec => []OwnersDistinct` |
| `TruthfulAudit` | `Spec => []AuditTruthful` |
| `RateHolds` | `Spec => []RateBounded` |
| `KeysLimited` | `Spec => []KeysBounded` |
| `WalksComplete` | `MonitoringSpec => []WalkShowsAll` |
| `FiguresAgree` | `MonitoringSpec => []DashboardAgrees` |

`before[r]` is the set of requests that had written when `r` read what it decides on. The
invariant (`IInv` in `Gateway`) says what such a read was worth: no request in `before[r]` has
spent the key that `r` spends (`TargetUnspent`), or registered the owner that `r` registers (`OwnerFree`). That makes two
writers overlap or be equal. A rotation of the own key reads nothing of its own: the row comes from the identity map as
it was at authentication. `OwnKeyUnspent` therefore carries the fact from
authentication to the route, and `SpentKeysRevoked` establishes it there. For the audit log,
`Places` and `Statuses` tie the status of an ended request to whether it has been authenticated.
`StepKinds` sorts the steps into reads, writes and the rest, so that the lemmas of
`KeySpentOnce` and `OwnersDistinct` have three cases each.

The other two have invariants of their own. For `RateHolds`, `RateInv` says that a script runs within its delay of the
clock it was sent with (`RatePunctual`) and that whatever was counted within the last window is still in the bucket
(`BucketHolds`): a script trims by a time that has come, even when it overtakes an older one. A request that is let through then
finds every counted request of a shortened window among the members it counts. For `KeysLimited`, `LimitInv` says
what a count or an active target that was read earlier is still worth: nothing is lost of it but what overlapping requests have minted
since (`CreationsCounted`, `RotationsCounted`, with `MintedSince`).

The last two hold for all finite sets of rows, page sizes, logs, services and limits (`HistoriesAssumption`, `MonitoringAssumption`: the shape of
an entry, a positive page size, and a NULL service that is none of the services). `HistoryInv` says where the rows are that a client has not been shown: behind
the pages that were listed (`Behind`), where an insertion pushes them further, never back. When there is no next page, the count
says that nothing is behind, if it is still right. For the dashboard, `DashboardInv` keeps the book of the window: since the overview it has
lost only rows in `slid` and gained only rows in `late` (`WindowMoved`), so each figure is that of the overview up to the two
(`ServicesAgree`, `OwnAgree`). `ClassCount` says that the errors of the services, summed service by service, are the errors of rows that have one;
`NewestCount` that a list of the newest rows is full or complete.

`PaymentProofs` proves, for all sets of applications, keys, references, calls and transitions
(`PaymentAssumption`: the shape of calls and transitions):

| Theorem | Statement |
|---|---|
| `ReferencePaidOnce` | `Spec => []OnePaymentPerReference` |
| `IdempotentInitiate` | `Spec => ImplementsIdempotentCreate` |
| `SettledForGood` | `Spec => SettledUnlessOverlapped` |
| `LivePaymentsPaid` | `Spec => []PaymentsPaid` |
| `AmountsExact` | `RulesSpec => []AmountsRounded` |
| `SegmentsExact` | `RulesSpec => []SegmentsCounted` |
| `SandboxAgrees` | `RulesSpec => []SandboxRulesAgree` |

Both unique columns are one conjunct of `IInv`: `RivalsExcluded` holds for open rows as well as for committed ones, so a
commit cannot make two payments of a reference or of a key. The refinement goes as for SMS; a payment that a transition moves
stays committed. `SettledForGood` needs to know what a status read earlier is worth: `SeenStands` says that it is
still in the row, unless two transitions went ahead on it (`Contested`) or the row is a sandbox call's own. For
`LivePaymentsPaid`, `UnitsHeld` counts the calls that hold a unit against units and refunds; a refund by `mark_failed` that
does not overlap is injected into the failed payments (`EarnedOnce`), so that what remains are the exceptions the property names.

The rules hold for all amounts, columns, messages and limits (`RulesAssumption`: integer amounts, messages of the four kinds of characters, and parts
of at least two units that are no longer than a single message). `RulesInv` follows the sum and the parts character by
character (`Scanned`, `Filled`): a full part lacks one unit at most, because no character takes more than two, and none when every
character takes one (`Plain`). `PartsCounted` is the arithmetic that makes the rounded-up quotient the number of parts.

`QuotaProofs` proves, for all sets of applications and calls, every limit, window, length of a day, clock and
delay (`QuotaAssumption`: the shape of a call, a positive window and day, natural-number bounds):

| Theorem | Statement |
|---|---|
| `TypeCorrect` | `Spec => []TypeOK` |
| `BurstsBounded` | `Spec => []BurstInstantsBounded` |
| `LimitHoldsUntilLastSecond` | `Spec => []DailyLimitUntilLastSecond` |
| `RefusalsEarned` | `Spec => []RefusedOnlyWhenSpent` |

For the window the argument is that of `RateHolds`, over instants instead of requests, because members with one time are one member of
the sorted set. For the day, `CounterCovers` says that counter and refunds together account for every charge made before the last
second, and it needs `KeysOutliveDays`: whatever a late script sets, no key dies before that second. `CounterEarned`
is the converse, that a counter never exceeds the charges of its day, whatever expires or is reset. The lemmas
about days and their seconds (`\div`, `%`) are stated once.

`AccountProofs` proves, for all sets of users and calls and every lifetime of a token
(`AccountsAssumption`: the shape of a call, natural-number bounds):

| Theorem | Statement |
|---|---|
| `TypeCorrect` | `Spec => []TypeOK` |
| `ExchangedOnce` | `Spec => []TokenExchangedOnce` |
| `SessionsEndForGood` | `Spec => []SessionsEnd` |
| `AdminsStay` | `Spec => []AdminsRemain`, if `Staff # {}`: a platform without an administrator never gets one |

Each property relates what a call read to what others have written since, and the invariant says of each what that reading
is worth. A stored hash has a creator that has committed (`TokensStored`); a token that was exchanged is stored or read
again only if it was created twice (`SpentTokens`, `OffersUnspent`); what is stored after a logout was created by a call the logout
had not seen (`LogoutsHold`), which includes the logout that found no token and writes nothing; nobody activates a user
again (`InactiveStays`); and the administrator a call acts for still is one, or an overlapping call has committed (`AdminStands`).

`NumberProofs` proves, for all sets of numbers, applications and requests, both periods and every clock
(`NumberAssumption`: the shape of a request, natural-number bounds, and a positive TTL, without which Redis refuses the SETEX):

| Theorem | Statement |
|---|---|
| `TypeCorrect` | `Spec => []TypeOK` |
| `AlwaysFresh` | `Spec => []AnswersFresh` |
| `VerifiedOnceEach` | `Spec => []VerifiedOnce` |

The two caches are in series, and what bounds the age of an answer is `CacheFresh`: an entry is gone before its row is older than
the recent period, a request and the TTL together, because a row that is cached again was recent for a request that was no
older than its delay (`Timely`, `FoundRecent`). `SeenTooOld` says that the rows a request saw and did not use were too old for it.

Every invariant that a run checks is proved, with the actions and refinements above. Only model-checked are the two properties of
liveness under fairness, `RequestsEnd` and `AcceptedIsResolved`: their proofs would reason about `ENABLED`, which this version of TLAPS
does not support.

## Findings

| Run | The code | The documentation |
|---|---|---|
| `gateway_audit` | a route that raises inside its transaction makes `get_db` roll back and detach the API key; reading its `application_id` raises in the audit middleware, which swallows it: no row | `middleware/audit.py:13`: "audit records are never lost due to business logic failures" |

`AuditTruthful` says what remains: every other answer has exactly one row, with the status the client saw.

Differences between the code and its comments that the models contain as they are, and that the passing properties
exclude or count:

- The 24-hour window of idempotency keys. `utils/idempotency.py:10-12` and `:101` say that a key may be reused for a new request once its
  cached response has expired, and `schemas/sms.py:86`, `schemas/payment.py:94`, `schemas/notification.py:80` and `:106` speak of the same 24 hours. The
  unique index knows no expiry. After it a new message is answered with the old one and nothing is sent
  (`services/sms_service.py:272-284`); a payment with a new reference is answered with the old payment and is not created
  (`services/payment_service.py:332-344`), one with the old reference is refused (`:139-147`); a notification is answered
  with 500 (`services/notification_service.py:118`). `ImplementsIdempotentCreate` asserts what the code does, one record per key for ever, in all three
  runs with `Expire` among the steps: this protects a late retry and is not the documented window.
- SMS: the response is cached before the commit, so after a crash in between a retry is answered with a message that does not
  exist (`schemas/sms.py:56-58`). It never disagrees with a message that is committed (`CacheAgreesWithTable`). The unique index
  spans applications: the second application to use a key gets an unhandled IntegrityError (`utils/idempotency.py:40-41`). The
  loser of a sandbox race decrements the live counter (`services/quota_service.py:249-250`); `LiveMessagesPaid` counts it. An answer from the
  cache is the dict of the first call and says PENDING for ever, where `schemas/sms.py:144-146` promises the current status; no property
  is about the status inside an answer. A message that was accepted but whose answer was lost may end as FAILED, with its unit
  returned, or be sent again (`tasks/sms_tasks.py:138-143`).
- Payments: COMPLETED is terminal before the expected status is looked at, so nothing can be reversed
  (`services/payment_service.py:20, 247`). Nothing hands a live payment to a provider. The index on the reference spans the table, so two
  applications cannot use one reference, where `schemas/payment.py:86` says "once per application".
- Quota: the counter expires at 23:59:59 and the last second of the day has no limit (`services/quota_service.py:93, 347`). A member of
  the burst set is called "unique per request" (`:218-221`) but names a millisecond and the application, so the calls of one application in one
  millisecond count as one; `BurstInstantsBounded` bounds the instants.
- USSD: cleanup marks what it selected without looking again; a session advanced meanwhile is TIMEOUT with its key alive
  (`services/ussd_service.py:267`). Of two overlapping inputs one is missing from the step history (`:173`).
- Accounts: "the old refresh_token is permanently invalid" (`services/auth_service.py:217`) but for overlapping
  refreshes and for tokens of one second; "always at least one Admin" (`:263`) but for overlapping calls.
- Numbers: an answer of tier 2 says `from_cache: false` although no unit was consumed (`schemas/number.py:5-6`).
- Notifications: a replay and a duplicate key are answered with 500.
- Monitoring: errors of a service are counted from 500 on, the schema says 400. The recent logs of the dashboard are those of the caller's
  application, where `schemas/monitoring.py:265, 279` says "across all applications".
- Segments: a part is missing from the count when an extended character meets the end of a part; characters beyond the
  basic plane count as one unit instead of two. Amounts below 0.005 are stored as 0.00.

## Plan

1. SMS chain, workers, quota, payments, USSD, with proofs for SMS and USSD: done.
2. Gateway (keys, rate limit, audit), accounts, numbers, notifications, histories, monitoring, rules: done.
3. Proofs about every service that keeps state, one module each: done. Each invariant a theorem rests on was first
   model-checked on the component's instance.
4. The step history of a USSD session, and proofs about the rules and the readings: done.
5. Possible next: one abstract sliding window that the buckets of `RateLimit` and the burst set of `QuotaService` both implement.

A module that is proved about uses no RECURSIVE operator; none of the modules here does.

## Not modelled, and why

Getters and summaries of one statement (`get_message`, `get_record`, delivery matrices, usage, health) decide nothing and are left out;
the lists and the dashboard, which are several statements, are modelled. The mock operators of `providers/mock_live.py` are random
stand-ins for systems outside the repository; their callers are modelled against every outcome of the interface: accepted, failed, or an exception before or after
the message was accepted. Cryptography
and password hashing are libraries; access tokens are stateless. `security/permissions.py` is imported by nothing, and no route uses the
role checks of `api/deps.py`. `tasks/notification_tasks.py` and the sandbox branch of `send_sms_task` have no caller;
the notification task acts on PENDING rows only, and no such row is ever committed. MSISDN forms, configuration, logging, wiring and
error formatting keep no state and carry no property. `utils/pagination.py` is used by no route; `Histories` models the pages that the routes compute.
