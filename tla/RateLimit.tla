----------------------------- MODULE RateLimit -----------------------------
(***************************************************************************)
(* middleware/rate_limit.py: a sliding window per token, kept in Redis and *)
(* changed by one Lua script, in front of every request that carries a     *)
(* token.  Without Redis every request passes.                             *)
(***************************************************************************)
EXTENDS GatewayState

rateUnchanged == UNCHANGED <<keyVars, held, before, wrote, rolled, log>>

\* The sandbox limit is for tokens with the word "sandbox" in them, and the tokens are
\* tp_live_ or tp_sand_ and hexadecimal digits: it is never used.
Limit(k) == Burst

(***************************************************************************)
(* Variants with a plausible mistake, used to show that the properties     *)
(* notice it; no specification contains them.                              *)
(***************************************************************************)
\* The window slides by whole windows instead of continuously.
InFixedWindow(k, t) == {m \in bucket : m.key = k /\ m.at \div Window = t \div Window}

-----------------------------------------------------------------------------
CanSend ==
  LET sent == {r \in Requests : pc[r] # "sent"} IN
  /\ Cardinality(sent) < MaxCalls
  /\ Cardinality({r \in sent : pc[r] \notin {"done", "unlogged"}}) < MaxFlight

\* dispatch up to the script: no token means no limit.
PassUnlimited(r) ==
  /\ Goto(r, "sent", "open")
  /\ CanSend
  /\ Call[r].key = NoKey
  /\ UNCHANGED <<now, bucket, counted, stamp, status>>
  /\ rateUnchanged

Stamp(r) ==
  /\ Goto(r, "sent", "stamped")
  /\ CanSend
  /\ Call[r].key # NoKey
  /\ stamp' = [stamp EXCEPT ![r] = now]
  /\ UNCHANGED <<now, bucket, counted, status>>
  /\ rateUnchanged

\* ZREMRANGEBYSCORE: what is left of a bucket at a time.
InWindow(k, t) == {m \in bucket : m.key = k /\ m.at > t - Window}

Others(k) == {m \in bucket : m.key # k}

\* A member is a uuid4, so that equal times are different members.
Admit(r) ==
  LET left == InWindow(Call[r].key, stamp[r]) IN
  /\ Goto(r, "stamped", "open")
  /\ Cardinality(left) < Limit(Call[r].key)
  /\ bucket' = Others(Call[r].key) \cup left \cup {[key |-> Call[r].key, at |-> stamp[r], by |-> r]}
  /\ counted' = counted \cup {r}
  /\ UNCHANGED <<now, stamp, status>>
  /\ rateUnchanged

\* The 429 is answered here: neither the authentication nor the route runs.
TooMany(r) ==
  LET left == InWindow(Call[r].key, stamp[r]) IN
  /\ Goto(r, "stamped", "closing")
  /\ Cardinality(left) >= Limit(Call[r].key)
  /\ bucket' = Others(Call[r].key) \cup left
  /\ status' = [status EXCEPT ![r] = 429]
  /\ UNCHANGED <<now, counted, stamp>>
  /\ rateUnchanged

FailOpen(r) ==
  /\ Goto(r, "stamped", "open")
  /\ UNCHANGED <<now, bucket, counted, stamp, status>>
  /\ rateUnchanged

RateStep(r) == PassUnlimited(r) \/ Stamp(r) \/ Admit(r) \/ TooMany(r) \/ FailOpen(r)

\* Behind the limiter nobody reads the clock: it stands while a request is there.
Tick ==
  /\ \A r \in Requests : pc[r] \in {"sent", "stamped", "done", "unlogged"}
  /\ now < LastTick
  /\ \A r \in Requests : pc[r] = "stamped" => now - stamp[r] < MaxDelay
  /\ now' = now + 1
  /\ UNCHANGED <<bucket, counted, keyVars, callVars, log>>
=============================================================================
