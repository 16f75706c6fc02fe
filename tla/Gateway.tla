------------------------------ MODULE Gateway ------------------------------
(***************************************************************************)
(* A request through the whole application: request id, audit, rate limit, *)
(* authentication, route, the end of the database session, the exception   *)
(* handlers, and the audit row written on the way out (main.py:create_app, *)
(* api/deps.py, middleware/).                                              *)
(***************************************************************************)
EXTENDS ApiKeys, RateLimit

routeUnchanged == UNCHANGED <<now, bucket, counted, keyVars, stamp, held, before, wrote, log>>

-----------------------------------------------------------------------------
(***************************************************************************)
(* Variants with a plausible mistake, used to show that the properties     *)
(* notice it; no specification contains them.                              *)
(***************************************************************************)
\* The row names the application of the key that was presented.
RowOfToken(r) ==
  [by |-> r, status |-> status[r], app |-> IF Call[r].key = NoKey THEN NoApp ELSE App(r)]

-----------------------------------------------------------------------------
(***************************************************************************)
(* Any other route, by what it does to the session and to the answer.  A   *)
(* service commits itself; get_db commits whatever is left.                *)
(***************************************************************************)
Serve(r) ==
  /\ Goto(r, "routed", "closing")
  /\ Call[r].kind = "work"
  /\ Answer(r, 200)
  /\ routeUnchanged

\* A body that does not validate is found after the dependencies have run and without
\* raising through them.
InvalidBody(r) ==
  /\ Goto(r, IF Call[r].kind = "register" THEN "open" ELSE "routed", "closing")
  /\ Answer(r, 422)
  /\ routeUnchanged

\* An HTTPException of the route has a handler, inside the middlewares.
RaiseHttp(r) ==
  /\ Goto(r, "routed", "closing")
  /\ Call[r].kind = "work"
  /\ Raise(r, 404)
  /\ routeUnchanged

\* A platform error or any other exception: ServerErrorMiddleware answers, outside all
\* middlewares, which see the exception pass.
RaiseOther(r) ==
  /\ Goto(r, "routed", "closing")
  /\ Call[r].kind = "work"
  /\ Raise(r, Unhandled)
  /\ routeUnchanged

\* Raised when the service has committed and nothing has begun since: rollback finds no
\* transaction and expires nothing.
RaiseCommitted(r) ==
  /\ Goto(r, "routed", "closing")
  /\ Call[r].kind = "work"
  /\ Answer(r, Unhandled)
  /\ routeUnchanged

\* The database fails or the client goes away while a write is under way.
WriteFails(r) ==
  /\ Goto(r, "loaded", "closing")
  /\ Raise(r, Unhandled)
  /\ routeUnchanged

-----------------------------------------------------------------------------
(***************************************************************************)
(* AuditMiddleware: one row in a session of its own, before the response   *)
(* leaves.                                                                 *)
(***************************************************************************)
\* An expired and detached API key raises when its application_id is read.
Readable(r) == ~(r \in held /\ r \in rolled)

Row(r) == [by |-> r, status |-> status[r], app |-> IF r \in held THEN App(r) ELSE NoApp]

Record(r) ==
  /\ Goto(r, "closing", "done")
  /\ ~Call[r].longId /\ Readable(r)
  /\ log' = log \cup {Row(r)}
  /\ UNCHANGED <<now, bucket, counted, keyVars, stamp, held, before, wrote, status, rolled>>

\* The exception is swallowed, the response goes out, the row is lost.
KeyDetached(r) ==
  /\ Goto(r, "closing", "done")
  /\ ~Readable(r)
  /\ routeUnchanged
  /\ UNCHANGED <<status, rolled>>

\* A client's request id may have 128 characters, the column has 36: the INSERT fails.
RecordFails(r) ==
  /\ Goto(r, "closing", "unlogged")
  /\ Call[r].longId /\ Readable(r)
  /\ routeUnchanged
  /\ UNCHANGED <<status, rolled>>

RouteStep(r) ==
  \/ Serve(r) \/ InvalidBody(r) \/ RaiseHttp(r) \/ RaiseOther(r) \/ RaiseCommitted(r)
  \/ WriteFails(r)

AuditStep(r) == Record(r) \/ KeyDetached(r) \/ RecordFails(r)

Handle(r) == RateStep(r) \/ KeyStep(r) \/ RouteStep(r) \/ AuditStep(r)

\* Nothing makes a request go on: one that stops is one whose process died.
Next ==
  \/ Tick
  \/ \E r \in Requests : Handle(r)

Spec == Init /\ [][Next]_vars

-----------------------------------------------------------------------------
\* The domains of the variables.
TypeOK ==
  /\ now \in Ticks
  /\ bucket \subseteq [key : Keys, at : Ticks, by : Requests]
  /\ counted \subseteq Requests
  /\ apps \subseteq Apps
  /\ issued \subseteq Keys /\ revoked \subseteq issued
  /\ pc \in [Requests -> {"sent", "stamped", "open", "routed", "loaded",
                          "closing", "done", "unlogged"}]
  /\ stamp \in [Requests -> Ticks]
  /\ {held, wrote, rolled} \subseteq SUBSET Requests
  /\ before \in [Requests -> SUBSET Requests]
  /\ status \in [Requests -> {0, 200, 201, 204, 401, 404, 422, 429, 500}]
  /\ log \subseteq [by : Requests, status : 200 .. 599, app : Apps \cup {NoApp}]

\* Two requests overlap if neither had written when the other one read.
Overlap(r, s) == r \notin before[s] /\ s \notin before[r]

(***************************************************************************)
(* The limit of create_api_key: an application has more active keys than   *)
(* MaxKeys only by as many as were minted in an overlap, although          *)
(* rotations are not counted at all.                                       *)
(***************************************************************************)
Minters(a) == {r \in Requests : r \in wrote /\ Call[r].kind \in {"create", "rotate"} /\ App(r) = a}

Surplus(a) == {r \in Minters(a) : \E s \in Minters(a) \ {r} : Overlap(r, s)}

KeysBounded ==
  \A a \in apps :
    Cardinality(Active(a)) <= MaxKeys + Cardinality(Surplus(a))

(***************************************************************************)
(* rotate_api_key and revoke_api_key: a key is replaced or revoked by one  *)
(* request; a second one succeeds only if they overlap.                    *)
(***************************************************************************)
Spenders(k) == {r \in Requests : r \in wrote /\ Call[r].kind \in {"rotate", "revoke"} /\ Call[r].target = k}

KeySpentOnce ==
  \A k \in Keys : \A r, s \in Spenders(k) : r = s \/ Overlap(r, s)

(***************************************************************************)
(* register_application: one application per owner, although no index says *)
(* so, unless two registrations overlap.                                   *)
(***************************************************************************)
OwnersDistinct ==
  \A a, b \in apps \cap Requests :
    Call[a].email = Call[b].email => a = b \/ Overlap(a, b)

(***************************************************************************)
(* The rate limit: at most Limit requests of a token are counted in every  *)
(* window shortened by the delay of a script.                              *)
(***************************************************************************)
RateBounded ==
  \A r \in counted :
    Cardinality({s \in counted : /\ Call[s].key = Call[r].key
                                 /\ stamp[r] - (Window - MaxDelay) < stamp[s]
                                 /\ stamp[s] <= stamp[r]}) <= Limit(Call[r].key)

(***************************************************************************)
(* The audit log: a request that was answered has one row, with the status *)
(* the client saw and the application that was authenticated, unless its   *)
(* key was detached by a rollback or its request id does not fit.          *)
(***************************************************************************)
AuditTruthful ==
  \A r \in Requests :
    LET rows == {l \in log : l.by = r} IN
    IF pc[r] = "done" /\ ~(r \in held /\ r \in rolled)
    THEN rows = {[by |-> r, status |-> status[r],
                  app |-> IF status[r] \in {401, 429} \/ Call[r].key = NoKey THEN NoApp ELSE App(r)]}
    ELSE rows = {}

-----------------------------------------------------------------------------
(***************************************************************************)
(* "audit records are never lost due to business logic failures"           *)
(* (middleware/audit.py:13).                                               *)
(***************************************************************************)
FailuresAreAudited == \A r \in Requests : pc[r] = "done" => \E l \in log : l.by = r

-----------------------------------------------------------------------------
(***************************************************************************)
(* The inductive invariant behind KeySpentOnce, OwnersDistinct and         *)
(* AuditTruthful.                                                          *)
(***************************************************************************)
Ended == {"closing", "done", "unlogged"}
Spends(r) == Call[r].kind \in {"rotate", "revoke"}
Registers(r) == Call[r].kind = "register"

\* What the place of a request says of its key.
Places ==
  \A r \in Requests :
    /\ pc[r] \in {"sent", "stamped", "open"} => r \notin held
    /\ pc[r] = "stamped" => Call[r].key # NoKey
    /\ pc[r] = "routed" => r \in held /\ Call[r].key \in issued
    /\ pc[r] = "loaded" => /\ Registers(r) \/ r \in held
                           /\ Spends(r) => Call[r].target \in issued
    /\ r \in held => Call[r].key # NoKey
    /\ r \in wrote => pc[r] \in Ended

\* An answer is 401 or 429 exactly if a request with a key has not been authenticated.
Statuses ==
  \A r \in Requests : pc[r] \in Ended =>
    /\ status[r] # 0
    /\ r \notin held <=> status[r] \in {401, 429} \/ Call[r].key = NoKey

\* What has been written can be read, and what a request has found was not written before.
SpentKeysRevoked == \A r \in wrote : Spends(r) => Call[r].target \in revoked

OwnKeyUnspent ==
  \A r \in Requests : pc[r] = "routed" =>
    \A s \in before[r] : Spends(s) => Call[s].target # Call[r].key

TargetUnspent ==
  \A r \in Requests : Spends(r) /\ (pc[r] = "loaded" \/ r \in wrote) =>
    \A s \in before[r] : Spends(s) => Call[s].target # Call[r].target

RegisteredWrote == apps \cap Requests = {r \in wrote : Registers(r)}

OwnerFree ==
  \A r \in Requests : Registers(r) /\ (pc[r] = "loaded" \/ r \in wrote) =>
    \A s \in before[r] : Registers(s) => Call[s].email # Call[r].email

IInv ==
  /\ TypeOK
  /\ Places
  /\ Statuses
  /\ SpentKeysRevoked
  /\ OwnKeyUnspent
  /\ TargetUnspent
  /\ RegisteredWrote
  /\ OwnerFree
  /\ AuditTruthful

-----------------------------------------------------------------------------
(***************************************************************************)
(* What RateBounded needs besides: a script runs within its delay, and     *)
(* whatever was counted within the last window is still in its bucket.     *)
(***************************************************************************)
RatePunctual ==
  \A r \in Requests : pc[r] = "stamped" => stamp[r] <= now /\ now <= stamp[r] + MaxDelay

CountedPassed == \A r \in counted : pc[r] \notin {"sent", "stamped"}

Member(r) == [key |-> Call[r].key, at |-> stamp[r], by |-> r]

BucketHolds == \A r \in counted : stamp[r] > now - Window => Member(r) \in bucket

RateInv ==
  /\ RatePunctual
  /\ CountedPassed
  /\ BucketHolds
  /\ IsFiniteSet(bucket) /\ IsFiniteSet(counted)
  /\ RateBounded

(***************************************************************************)
(* What KeysBounded needs besides: a creation has counted one key fewer    *)
(* than there may be, plus whoever has minted since; a rotation has found  *)
(* its target active, unless somebody has minted since.                    *)
(***************************************************************************)
Mints(r) == Call[r].kind \in {"create", "rotate"}

OwnedBy(a) == {k \in issued : Owner(k) = a}

\* A key belongs to an application that exists, and whoever mints has authenticated.
KeysOwned ==
  /\ \A k \in issued : Owner(k) \in apps
  /\ \A r \in held : Call[r].key \in issued
  /\ \A r \in wrote : Mints(r) => r \in held
  /\ \A r \in Requests : before[r] \subseteq wrote
  /\ \A a \in apps : IsFiniteSet(OwnedBy(a))
  /\ IsFiniteSet(wrote)

MintedSince(r) == {m \in Minters(App(r)) : m \notin before[r]}

CreationsCounted ==
  \A r \in Requests : pc[r] = "loaded" /\ Call[r].kind = "create" =>
    Cardinality(Active(App(r))) < MaxKeys + Cardinality(MintedSince(r))

RotationsCounted ==
  \A r \in Requests :
    /\ Call[r].kind = "rotate"
    /\ pc[r] = "loaded" \/ (pc[r] = "routed" /\ Call[r].target = Call[r].key)
    => \/ MintedSince(r) # {}
       \/ Cardinality(Active(App(r)) \cup {Call[r].target}) <= MaxKeys + Cardinality(Surplus(App(r)))

LimitInv ==
  /\ KeysOwned
  /\ CreationsCounted
  /\ RotationsCounted
  /\ KeysBounded
=============================================================================
