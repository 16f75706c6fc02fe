------------------------------ MODULE ApiKeys ------------------------------
(***************************************************************************)
(* Applications and their API keys (services/auth_service.py): look-up by  *)
(* prefix, registration, creation, revocation, rotation.  Each operation   *)
(* reads, decides, and writes in one transaction without a lock on what it *)
(* has read.                                                               *)
(***************************************************************************)
EXTENDS GatewayState

readUnchanged == UNCHANGED <<now, bucket, counted, keyVars, stamp, wrote, log>>
writeUnchanged == UNCHANGED <<now, bucket, counted, stamp, held, before, log>>

App(r) == Owner(Call[r].key)

\* The row that a request inserts.
Minted(r, sandbox) == [by |-> r, sandbox |-> sandbox]

-----------------------------------------------------------------------------
(***************************************************************************)
(* Variants with a plausible mistake, used to show that the properties     *)
(* notice it; no specification contains them.                              *)
(***************************************************************************)
\* The count leaves the key being used out.
CountsOthers(r) == Cardinality(Active(App(r)) \ {Call[r].key}) < MaxKeys

\* A revoked key is found all the same.
UsableIfOwned(r) == Call[r].target \in issued /\ Owner(Call[r].target) = App(r)

\* The address is not looked up.
LookUpNothing(r) ==
  /\ Goto(r, "open", "loaded")
  /\ Call[r].kind = "register"
  /\ before' = [before EXCEPT ![r] = wrote]
  /\ UNCHANGED <<held, status, rolled>>
  /\ readUnchanged

-----------------------------------------------------------------------------
(***************************************************************************)
(* get_api_key: the row is looked up by the prefix, among active keys.     *)
(***************************************************************************)
SamePrefix(k) == {j \in issued \ revoked : Prefix[j] = Prefix[k]}

\* The own key of the caller is now in the identity map of the session: a later get of it
\* reads nothing.
Authenticate(r) ==
  /\ Goto(r, "open", "routed")
  /\ Call[r].key # NoKey
  /\ SamePrefix(Call[r].key) = {Call[r].key}
  /\ held' = held \cup {r}
  /\ before' = [before EXCEPT ![r] = wrote]
  /\ UNCHANGED <<status, rolled>>
  /\ readUnchanged

\* No row, the hash of another key, or two rows, which scalar_one_or_none refuses.
Unauthorized(r) ==
  /\ Goto(r, "open", "closing")
  /\ Call[r].key # NoKey
  /\ SamePrefix(Call[r].key) # {Call[r].key}
  /\ Raise(r, 401)
  /\ UNCHANGED <<held, before>>
  /\ readUnchanged

-----------------------------------------------------------------------------
(***************************************************************************)
(* register_application.                                                   *)
(***************************************************************************)
OwnersOf(e) == {a \in apps \cap Requests : Call[a].email = e}

LookUpOwner(r) ==
  /\ Goto(r, "open", "loaded")
  /\ Call[r].kind = "register"
  /\ OwnersOf(Call[r].email) = {}
  /\ before' = [before EXCEPT ![r] = wrote]
  /\ UNCHANGED <<held, status, rolled>>
  /\ readUnchanged

\* One owner is an AuthenticationError, several a MultipleResultsFound.
OwnerTaken(r) ==
  /\ Goto(r, "open", "closing")
  /\ Call[r].kind = "register"
  /\ OwnersOf(Call[r].email) # {}
  /\ Raise(r, Unhandled)
  /\ UNCHANGED <<held, before>>
  /\ readUnchanged

\* The application, its live and its sandbox key: three INSERTs and one commit.
Register(r) ==
  /\ Goto(r, "loaded", "closing")
  /\ Call[r].kind = "register"
  /\ apps' = apps \cup {r}
  /\ issued' = issued \cup {Minted(r, FALSE), Minted(r, TRUE)}
  /\ wrote' = wrote \cup {r}
  /\ Answer(r, 201)
  /\ UNCHANGED revoked
  /\ writeUnchanged

-----------------------------------------------------------------------------
(***************************************************************************)
(* create_api_key.                                                         *)
(***************************************************************************)
BelowLimit(r) == Cardinality(Active(App(r))) < MaxKeys

CountKeys(r) ==
  /\ Goto(r, "routed", "loaded")
  /\ Call[r].kind = "create"
  /\ BelowLimit(r)
  /\ before' = [before EXCEPT ![r] = wrote]
  /\ UNCHANGED <<held, status, rolled>>
  /\ readUnchanged

\* Too many keys, scopes beyond the plan, or a count that the driver refuses.
RefuseKey(r) ==
  /\ Goto(r, "routed", "closing")
  /\ Call[r].kind = "create"
  /\ Raise(r, Unhandled)
  /\ UNCHANGED <<held, before>>
  /\ readUnchanged

Create(r) ==
  /\ Goto(r, "loaded", "closing")
  /\ Call[r].kind = "create"
  /\ \E sandbox \in BOOLEAN : issued' = issued \cup {Minted(r, sandbox)}
  /\ wrote' = wrote \cup {r}
  /\ Answer(r, 201)
  /\ UNCHANGED <<apps, revoked>>
  /\ writeUnchanged

-----------------------------------------------------------------------------
(***************************************************************************)
(* revoke_api_key and rotate_api_key.                                      *)
(***************************************************************************)
Usable(r) == Call[r].target \in issued \ revoked /\ Owner(Call[r].target) = App(r)

\* The row of the own key comes from the identity map, as it was when it authenticated.
LoadKey(r) ==
  /\ Goto(r, "routed", "loaded")
  /\ Call[r].kind \in {"revoke", "rotate"}
  /\ Call[r].target = Call[r].key \/ Usable(r)
  /\ before' = [before EXCEPT ![r] = IF Call[r].target = Call[r].key THEN @ ELSE wrote]
  /\ UNCHANGED <<held, status, rolled>>
  /\ readUnchanged

\* Not found, of another application, or already revoked.
RefuseTarget(r) ==
  /\ Goto(r, "routed", "closing")
  /\ Call[r].kind \in {"revoke", "rotate"}
  /\ Call[r].target # Call[r].key /\ ~Usable(r)
  /\ Raise(r, Unhandled)
  /\ UNCHANGED <<held, before>>
  /\ readUnchanged

Revoke(r) ==
  /\ Goto(r, "loaded", "closing")
  /\ Call[r].kind = "revoke"
  /\ revoked' = revoked \cup {Call[r].target}
  /\ wrote' = wrote \cup {r}
  /\ Answer(r, 204)
  /\ UNCHANGED <<apps, issued>>
  /\ writeUnchanged

\* The replacement has the type of the old key and no limit; both rows are one commit.
Rotate(r) ==
  /\ Goto(r, "loaded", "closing")
  /\ Call[r].kind = "rotate"
  /\ revoked' = revoked \cup {Call[r].target}
  /\ issued' = issued \cup {Minted(r, Call[r].target.sandbox)}
  /\ wrote' = wrote \cup {r}
  /\ Answer(r, 200)
  /\ UNCHANGED apps
  /\ writeUnchanged

KeyStep(r) ==
  \/ Authenticate(r) \/ Unauthorized(r)
  \/ LookUpOwner(r) \/ OwnerTaken(r) \/ Register(r)
  \/ CountKeys(r) \/ RefuseKey(r) \/ Create(r)
  \/ LoadKey(r) \/ RefuseTarget(r) \/ Revoke(r) \/ Rotate(r)
=============================================================================
