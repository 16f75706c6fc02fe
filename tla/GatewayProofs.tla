---------------------------- MODULE GatewayProofs ----------------------------
(***************************************************************************)
(* Theorems about Gateway, for every set of applications and requests,     *)
(* every assignment of prefixes and all limits, windows and delays, and    *)
(* about the readings of the log and of the histories (Monitoring), for    *)
(* all rows and page sizes.                                                *)
(***************************************************************************)
EXTENDS Gateway, Monitoring, FiniteSetTheorems, FunctionTheorems, TLAPS

(***************************************************************************)
(* What a request is made of.                                              *)
(***************************************************************************)
LEMMA CallFields ==
  ASSUME NEW r \in Requests
  PROVE  /\ r \in Apps
         /\ Call[r].kind \in Kinds
         /\ Call[r].key \in Keys \cup {NoKey}
         /\ Call[r].target \in Keys
         /\ Call[r].kind = "register" <=> Call[r].key = NoKey
BY GatewayAssumption DEF Apps

(***************************************************************************)
(* The application of an authenticated request.                            *)
(***************************************************************************)
LEMMA AppType ==
  ASSUME NEW r \in Requests, Call[r].key # NoKey
  PROVE  App(r) \in Apps
BY CallFields, GatewayAssumption DEF App, Owner, Apps, Keys

(***************************************************************************)
(* A new key is a key.                                                     *)
(***************************************************************************)
LEMMA MintedType ==
  ASSUME NEW r \in Requests, NEW b \in BOOLEAN
  PROVE  Minted(r, b) \in Keys
BY CallFields DEF Minted, Keys

(***************************************************************************)
(* A step of the limiter keeps the types.                                  *)
(***************************************************************************)
LEMMA RateTypes ==
  ASSUME TypeOK, Places, NEW r \in Requests, RateStep(r)
  PROVE  TypeOK'
<1> USE DEF TypeOK, Goto, rateUnchanged, keyVars
<1>1. CASE PassUnlimited(r) \/ Stamp(r) \/ FailOpen(r)
  BY <1>1 DEF PassUnlimited, Stamp, FailOpen
<1>2. CASE Admit(r)
  <2>1. bucket' \subseteq [key : Keys, at : Ticks, by : Requests]
    <3>1. Call[r].key \in Keys
      BY <1>2, CallFields DEF Admit, Places
    <3> QED
      BY <1>2, <3>1 DEF Admit, Others, InWindow
  <2> QED
    BY <1>2, <2>1 DEF Admit
<1>3. CASE TooMany(r)
  BY <1>3 DEF TooMany, Others, InWindow
<1> QED
  BY <1>1, <1>2, <1>3 DEF RateStep

(***************************************************************************)
(* A step of the key operations keeps the types.                           *)
(***************************************************************************)
LEMMA KeyTypes ==
  ASSUME TypeOK, Places, NEW r \in Requests, KeyStep(r)
  PROVE  TypeOK'
<1> USE DEF TypeOK, Goto, readUnchanged, writeUnchanged, keyVars
<1>1. CASE \/ Authenticate(r) \/ Unauthorized(r) \/ LookUpOwner(r) \/ OwnerTaken(r)
           \/ CountKeys(r) \/ RefuseKey(r) \/ LoadKey(r) \/ RefuseTarget(r)
  BY <1>1 DEF Authenticate, Unauthorized, LookUpOwner, OwnerTaken, CountKeys, RefuseKey, LoadKey,
              RefuseTarget, Raise, Unhandled
<1>2. CASE Register(r)
  <2>1. Minted(r, FALSE) \in Keys /\ Minted(r, TRUE) \in Keys /\ r \in Apps
    BY CallFields, MintedType
  <2>2. apps' \subseteq Apps
    BY <1>2, <2>1 DEF Register
  <2>3. issued' \subseteq Keys /\ revoked' \subseteq issued'
    <3>1. issued' = issued \cup {Minted(r, FALSE), Minted(r, TRUE)} /\ revoked' = revoked
      BY <1>2 DEF Register
    <3>2. issued \subseteq Keys /\ revoked \subseteq issued
      OBVIOUS
    <3> HIDE DEF TypeOK
    <3> QED
      BY <2>1, <3>1, <3>2
  <2>4. pc' \in [Requests -> {"sent", "stamped", "open", "routed", "loaded",
                             "closing", "done", "unlogged"}]
    BY <1>2 DEF Register
  <2>5. status' \in [Requests -> {0, 200, 201, 204, 401, 404, 422, 429, 500}]
    BY <1>2 DEF Register, Answer
  <2>6. {held', wrote', rolled'} \subseteq SUBSET Requests
    BY <1>2 DEF Register, Answer
  <2> QED
    BY <1>2, <2>2, <2>3, <2>4, <2>5, <2>6 DEF Register
<1>3. CASE Create(r)
  BY <1>3, MintedType DEF Create, Answer
<1>4. CASE Revoke(r) \/ Rotate(r)
  <2>1. Call[r].target \in issued /\ Call[r].target.sandbox \in BOOLEAN
    BY <1>4, CallFields DEF Revoke, Rotate, Places, Spends, Keys
  <2> QED
    BY <1>4, <2>1, MintedType DEF Revoke, Rotate, Answer
<1> QED
  BY <1>1, <1>2, <1>3, <1>4 DEF KeyStep

(***************************************************************************)
(* The row of the audit log.                                               *)
(***************************************************************************)
LEMMA RowType ==
  ASSUME TypeOK, Places, Statuses, NEW r \in Requests, pc[r] = "closing"
  PROVE  Row(r) \in [by : Requests, status : 200 .. 599, app : Apps \cup {NoApp}]
<1>1. status[r] \in 200 .. 599
  BY DEF TypeOK, Statuses, Ended
<1>2. r \in held => App(r) \in Apps
  BY AppType DEF Places
<1> QED
  BY <1>1, <1>2 DEF Row

(***************************************************************************)
(* Every step keeps the types.                                             *)
(***************************************************************************)
LEMMA StepTypes ==
  ASSUME IInv, [Next]_vars
  PROVE  TypeOK'
<1> USE DEF TypeOK, Goto, routeUnchanged, keyVars
<1>0. TypeOK /\ Places /\ Statuses
  BY DEF IInv
<1>1. ASSUME NEW r \in Requests, RouteStep(r) PROVE TypeOK'
  BY <1>0, <1>1 DEF RouteStep, Serve, InvalidBody, RaiseHttp, RaiseOther, RaiseCommitted, WriteFails,
               Answer, Raise, Unhandled
<1>2. ASSUME NEW r \in Requests, AuditStep(r) PROVE TypeOK'
  BY <1>0, <1>2, RowType DEF AuditStep, Record, KeyDetached, RecordFails
<1>3. ASSUME Tick PROVE TypeOK'
  BY <1>0, <1>3, GatewayAssumption DEF Tick, callVars, Ticks
<1>4. CASE UNCHANGED vars
  BY <1>0, <1>4 DEF vars, callVars
<1> QED
  BY <1>0, <1>1, <1>2, <1>3, <1>4, RateTypes, KeyTypes DEF Next, Handle

-----------------------------------------------------------------------------
(***************************************************************************)
(* The key that a request has authenticated with was active.               *)
(***************************************************************************)
LEMMA AuthenticatedActive ==
  ASSUME NEW r \in Requests, Authenticate(r)
  PROVE  Call[r].key \in issued \ revoked
BY DEF Authenticate, SamePrefix

(***************************************************************************)
(* Every step leaves the places of the other requests alone.               *)
(***************************************************************************)
LEMMA StepPlaces ==
  ASSUME IInv, [Next]_vars
  PROVE  Places'
<1> USE DEF Places, Goto, keyVars, Ended, Spends, Registers
<1>0. /\ Places
      /\ pc \in [Requests -> {"sent", "stamped", "open", "routed", "loaded",
                             "closing", "done", "unlogged"}]
  BY DEF IInv, TypeOK
<1>1. ASSUME NEW r \in Requests, RateStep(r) PROVE Places'
  BY <1>0, <1>1
     DEF RateStep, PassUnlimited, Stamp, Admit, TooMany, FailOpen, rateUnchanged
<1>2. ASSUME NEW r \in Requests, Authenticate(r) PROVE Places'
  BY <1>0, <1>2, AuthenticatedActive DEF Authenticate, readUnchanged
<1>3. ASSUME NEW r \in Requests, LookUpOwner(r) \/ CountKeys(r) PROVE Places'
  BY <1>0, <1>3 DEF LookUpOwner, CountKeys, readUnchanged
<1>4. ASSUME NEW r \in Requests, LoadKey(r) PROVE Places'
  BY <1>0, <1>4 DEF LoadKey, Usable, readUnchanged
<1>5. ASSUME NEW r \in Requests,
             Unauthorized(r) \/ OwnerTaken(r) \/ RefuseKey(r) \/ RefuseTarget(r)
      PROVE  Places'
  BY <1>0, <1>5 DEF Unauthorized, OwnerTaken, RefuseKey, RefuseTarget, readUnchanged
<1>6. ASSUME NEW r \in Requests, Register(r) \/ Create(r) \/ Revoke(r) \/ Rotate(r)
      PROVE  Places'
  <2>1. issued \subseteq issued' /\ wrote' = wrote \cup {r} /\ UNCHANGED held
    BY <1>6 DEF Register, Create, Revoke, Rotate, writeUnchanged
  <2>2. pc[r] = "loaded" /\ pc' = [pc EXCEPT ![r] = "closing"]
    BY <1>6 DEF Register, Create, Revoke, Rotate
  <2> QED
    BY <1>0, <2>1, <2>2
<1>7. ASSUME NEW r \in Requests, RouteStep(r) PROVE Places'
  BY <1>0, <1>7 DEF RouteStep, Serve, InvalidBody, RaiseHttp, RaiseOther, RaiseCommitted,
                    WriteFails, routeUnchanged
<1>8. ASSUME NEW r \in Requests, AuditStep(r) PROVE Places'
  BY <1>0, <1>8 DEF AuditStep, Record, KeyDetached, RecordFails, routeUnchanged
<1>9. CASE Tick \/ UNCHANGED vars
  BY <1>0, <1>9 DEF Tick, vars, callVars
<1> QED
  BY <1>1, <1>2, <1>3, <1>4, <1>5, <1>6, <1>7, <1>8, <1>9 DEF Next, Handle, KeyStep

(***************************************************************************)
(* The answers of the limiter and of a failed authentication are the only  *)
(* ones of requests that are not authenticated.                            *)
(***************************************************************************)
LEMMA StepStatuses ==
  ASSUME IInv, [Next]_vars
  PROVE  Statuses'
<1> USE DEF Statuses, Goto, Ended
<1>0. /\ Statuses /\ Places
      /\ pc \in [Requests -> {"sent", "stamped", "open", "routed", "loaded",
                             "closing", "done", "unlogged"}]
      /\ status \in [Requests -> {0, 200, 201, 204, 401, 404, 422, 429, 500}]
  BY DEF IInv, TypeOK
<1> DEFINE Moves(r, to) == /\ pc[r] \notin Ended /\ pc' = [pc EXCEPT ![r] = to]
           Answers(r, code) == status' = [status EXCEPT ![r] = code]
<1>1. ASSUME NEW r \in Requests, NEW to \in {"stamped", "open", "routed", "loaded"}, Moves(r, to),
             UNCHANGED status, held' = held \cup {r} \/ UNCHANGED held
      PROVE  Statuses'
  BY <1>0, <1>1
<1>2. ASSUME NEW r \in Requests, NEW code, Moves(r, "closing"), Answers(r, code), UNCHANGED held,
             code # 0, r \notin held <=> code \in {401, 429} \/ Call[r].key = NoKey
      PROVE  Statuses'
  BY <1>0, <1>2
<1>3. ASSUME NEW r \in Requests, RateStep(r) PROVE Statuses'
  <2>1. CASE TooMany(r)
    BY <1>0, <1>2, <2>1 DEF TooMany, Places, rateUnchanged
  <2>2. CASE PassUnlimited(r) \/ Stamp(r) \/ Admit(r) \/ FailOpen(r)
    BY <1>0, <1>1, <2>2 DEF PassUnlimited, Stamp, Admit, FailOpen, rateUnchanged
  <2> QED
    BY <1>3, <2>1, <2>2 DEF RateStep
<1>4. ASSUME NEW r \in Requests, KeyStep(r) PROVE Statuses'
  <2>1. CASE Authenticate(r) \/ LookUpOwner(r) \/ CountKeys(r) \/ LoadKey(r)
    BY <1>0, <1>1, <2>1 DEF Authenticate, LookUpOwner, CountKeys, LoadKey
  <2>2. CASE Unauthorized(r)
    BY <1>0, <1>2, <2>2 DEF Unauthorized, Raise, Places
  <2>3. CASE OwnerTaken(r) \/ RefuseKey(r) \/ RefuseTarget(r)
    BY <1>0, <1>2, <2>3, CallFields
       DEF OwnerTaken, RefuseKey, RefuseTarget, Raise, Unhandled, Places
  <2>4. CASE Register(r)
    BY <1>0, <1>2, <2>4, CallFields DEF Register, Answer, writeUnchanged, Places
  <2>5. CASE Create(r) \/ Revoke(r) \/ Rotate(r)
    <3>1. r \in held
      BY <1>0, <2>5 DEF Create, Revoke, Rotate, Places, Registers
    <3>2. Call[r].key # NoKey
      BY <1>0, <3>1 DEF Places
    <3> QED
      BY <1>0, <1>2, <2>5, <3>1, <3>2 DEF Create, Revoke, Rotate, Answer, writeUnchanged
  <2> QED
    BY <1>4, <2>1, <2>2, <2>3, <2>4, <2>5 DEF KeyStep
<1>5. ASSUME NEW r \in Requests, RouteStep(r) PROVE Statuses'
  <2>1. PICK code \in {200, 404, 422, 500} : Answers(r, code)
    BY <1>5 DEF RouteStep, Serve, InvalidBody, RaiseHttp, RaiseOther, RaiseCommitted, WriteFails,
                Answer, Raise, Unhandled
  <2>2. Moves(r, "closing") /\ UNCHANGED held
    BY <1>0, <1>5 DEF RouteStep, Serve, InvalidBody, RaiseHttp, RaiseOther, RaiseCommitted,
                      WriteFails, routeUnchanged
  <2>3. r \notin held <=> Call[r].key = NoKey
    BY <1>0, <1>5, CallFields
       DEF RouteStep, Serve, InvalidBody, RaiseHttp, RaiseOther, RaiseCommitted, WriteFails,
           Places, Registers
  <2>4. code # 0 /\ (r \notin held <=> code \in {401, 429} \/ Call[r].key = NoKey)
    BY <2>3
  <2> HIDE DEF Moves, Answers, Statuses
  <2> QED
    BY <1>2, <2>1, <2>2, <2>4
<1>6. ASSUME NEW r \in Requests, AuditStep(r) PROVE Statuses'
  BY <1>0, <1>6 DEF AuditStep, Record, KeyDetached, RecordFails, routeUnchanged
<1>7. CASE Tick \/ UNCHANGED vars
  BY <1>0, <1>7 DEF Tick, vars, callVars
<1> QED
  BY <1>3, <1>4, <1>5, <1>6, <1>7 DEF Next, Handle

-----------------------------------------------------------------------------
(***************************************************************************)
(* What a step may change of the tables and of what requests have read:    *)
(* nothing, or a request reads, or a request that has read writes.         *)
(***************************************************************************)
Reads(r) ==
  /\ UNCHANGED <<keyVars, wrote>>
  /\ Authenticate(r) \/ LookUpOwner(r) \/ CountKeys(r) \/ LoadKey(r)

Writes(r) ==
  /\ pc[r] = "loaded" /\ pc' = [pc EXCEPT ![r] = "closing"]
  /\ wrote' = wrote \cup {r}
  /\ UNCHANGED <<before, held>>
  /\ Register(r) \/ Create(r) \/ Revoke(r) \/ Rotate(r)

Idles ==
  /\ UNCHANGED <<keyVars, wrote, before, held>>
  /\ \A q \in Requests : pc'[q] \in {"routed", "loaded"} => pc'[q] = pc[q]

LEMMA StepKinds ==
  ASSUME IInv, [Next]_vars
  PROVE  Idles \/ \E r \in Requests : Reads(r) \/ Writes(r)
<1> USE DEF Goto, keyVars
<1>0. pc \in [Requests -> {"sent", "stamped", "open", "routed", "loaded",
                          "closing", "done", "unlogged"}]
  BY DEF IInv, TypeOK
<1>1. ASSUME NEW r \in Requests, RateStep(r) PROVE Idles
  BY <1>0, <1>1
     DEF RateStep, PassUnlimited, Stamp, Admit, TooMany, FailOpen, rateUnchanged, Idles
<1>2. ASSUME NEW r \in Requests, KeyStep(r) PROVE Idles \/ Reads(r) \/ Writes(r)
  <2>1. CASE Authenticate(r) \/ LookUpOwner(r) \/ CountKeys(r) \/ LoadKey(r)
    BY <2>1 DEF Authenticate, LookUpOwner, CountKeys, LoadKey, readUnchanged, Reads
  <2>2. CASE Unauthorized(r) \/ OwnerTaken(r) \/ RefuseKey(r) \/ RefuseTarget(r)
    BY <1>0, <2>2
       DEF Unauthorized, OwnerTaken, RefuseKey, RefuseTarget, readUnchanged, Idles
  <2>3. CASE Register(r) \/ Create(r) \/ Revoke(r) \/ Rotate(r)
    BY <2>3 DEF Register, Create, Revoke, Rotate, writeUnchanged, Writes
  <2> QED
    BY <1>2, <2>1, <2>2, <2>3 DEF KeyStep
<1>3. ASSUME NEW r \in Requests, RouteStep(r) PROVE Idles
  BY <1>0, <1>3 DEF RouteStep, Serve, InvalidBody, RaiseHttp, RaiseOther, RaiseCommitted,
                    WriteFails, routeUnchanged, Idles
<1>4. ASSUME NEW r \in Requests, AuditStep(r) PROVE Idles
  BY <1>0, <1>4 DEF AuditStep, Record, KeyDetached, RecordFails, routeUnchanged, Idles
<1>5. CASE Tick \/ UNCHANGED vars
  BY <1>5 DEF Tick, vars, callVars, Idles
<1> QED
  BY <1>1, <1>2, <1>3, <1>4, <1>5 DEF Next, Handle

(***************************************************************************)
(* A key that has been spent is revoked, and a request that spends a key   *)
(* has read before any other had spent it.                                 *)
(***************************************************************************)
LEMMA StepSpent ==
  ASSUME IInv, [Next]_vars
  PROVE  SpentKeysRevoked' /\ OwnKeyUnspent' /\ TargetUnspent'
<1> USE DEF SpentKeysRevoked, OwnKeyUnspent, TargetUnspent, Spends, Goto
<1> DEFINE Unspent == SpentKeysRevoked' /\ OwnKeyUnspent' /\ TargetUnspent'
<1>0. /\ SpentKeysRevoked /\ OwnKeyUnspent /\ TargetUnspent /\ Places
      /\ wrote \subseteq Requests
      /\ before \in [Requests -> SUBSET Requests]
      /\ pc \in [Requests -> {"sent", "stamped", "open", "routed", "loaded",
                             "closing", "done", "unlogged"}]
  BY DEF IInv, TypeOK
<1>1. CASE Idles
  BY <1>0, <1>1 DEF Idles, keyVars
<1>2. ASSUME NEW r \in Requests, Reads(r) PROVE Unspent
  <2>0. r \notin wrote /\ UNCHANGED <<wrote, revoked, issued>>
    BY <1>0, <1>2 DEF Reads, keyVars, Authenticate, LookUpOwner, CountKeys, LoadKey, Places, Ended
  <2>1. CASE Authenticate(r)
    <3>1. \A s \in wrote : Call[s].kind \in {"rotate", "revoke"} => Call[s].target # Call[r].key
      BY <1>0, <2>1, AuthenticatedActive
    <3> QED
      BY <1>0, <2>0, <2>1, <3>1 DEF Authenticate
  <2>2. CASE LookUpOwner(r) \/ CountKeys(r)
    BY <1>0, <2>0, <2>2 DEF LookUpOwner, CountKeys
  <2>3. CASE LoadKey(r)
    <3>1. \A s \in before'[r] : Call[s].kind \in {"rotate", "revoke"} => Call[s].target # Call[r].target
      BY <1>0, <2>3 DEF LoadKey, Usable
    <3>2. /\ pc' = [pc EXCEPT ![r] = "loaded"]
          /\ \A q \in Requests \ {r} : before'[q] = before[q]
      BY <1>0, <2>3 DEF LoadKey
    <3> QED
      BY <1>0, <2>0, <3>1, <3>2
  <2> QED
    BY <1>2, <2>1, <2>2, <2>3 DEF Reads
<1>3. ASSUME NEW r \in Requests, Writes(r) PROVE Unspent
  <2>1. /\ pc[r] = "loaded" /\ pc' = [pc EXCEPT ![r] = "closing"]
        /\ wrote' = wrote \cup {r} /\ UNCHANGED before
    BY <1>3 DEF Writes
  <2>2. revoked \subseteq revoked'
        /\ (Call[r].kind \in {"rotate", "revoke"} => Call[r].target \in revoked')
    BY <1>3 DEF Writes, Register, Create, Revoke, Rotate
  <2> QED
    BY <1>0, <2>1, <2>2
<1> QED
  BY <1>1, <1>2, <1>3, StepKinds

(***************************************************************************)
(* A registration has read before any other of its owner had written.      *)
(***************************************************************************)
LEMMA StepOwners ==
  ASSUME IInv, [Next]_vars
  PROVE  RegisteredWrote' /\ OwnerFree'
<1> USE DEF RegisteredWrote, OwnerFree, Registers, Goto
<1> DEFINE Free == RegisteredWrote' /\ OwnerFree'
<1>0. /\ RegisteredWrote /\ OwnerFree /\ Places
      /\ wrote \subseteq Requests
      /\ before \in [Requests -> SUBSET Requests]
      /\ pc \in [Requests -> {"sent", "stamped", "open", "routed", "loaded",
                             "closing", "done", "unlogged"}]
  BY DEF IInv, TypeOK
<1>1. CASE Idles
  BY <1>0, <1>1 DEF Idles, keyVars
<1>2. ASSUME NEW r \in Requests, Reads(r) PROVE Free
  <2>0. r \notin wrote /\ UNCHANGED <<wrote, apps>>
    BY <1>0, <1>2 DEF Reads, keyVars, Authenticate, LookUpOwner, CountKeys, LoadKey, Places, Ended
  <2>1. CASE LookUpOwner(r)
    <3>1. \A s \in wrote : Call[s].kind = "register" => Call[s].email # Call[r].email
      BY <1>0, <2>1 DEF LookUpOwner, OwnersOf
    <3> QED
      BY <1>0, <2>0, <2>1, <3>1 DEF LookUpOwner
  <2>2. CASE Authenticate(r) \/ CountKeys(r) \/ LoadKey(r)
    <3>1. /\ Call[r].kind # "register" \/ pc'[r] = "routed"
          /\ \A q \in Requests \ {r} : before'[q] = before[q] /\ pc'[q] = pc[q]
      BY <1>0, <2>2 DEF Authenticate, CountKeys, LoadKey
    <3> QED
      BY <1>0, <2>0, <3>1
  <2> QED
    BY <1>2, <2>1, <2>2 DEF Reads
<1>3. ASSUME NEW r \in Requests, Writes(r) PROVE Free
  <2>1. /\ pc[r] = "loaded" /\ pc' = [pc EXCEPT ![r] = "closing"]
        /\ wrote' = wrote \cup {r} /\ UNCHANGED before
    BY <1>3 DEF Writes
  <2>2. apps' = IF Call[r].kind = "register" THEN apps \cup {r} ELSE apps
    BY <1>3 DEF Writes, Register, Create, Revoke, Rotate
  <2> QED
    BY <1>0, <2>1, <2>2
<1> QED
  BY <1>1, <1>2, <1>3, StepKinds

-----------------------------------------------------------------------------
(***************************************************************************)
(* A row is written when the request ends, and says what it was answered.  *)
(***************************************************************************)
LEMMA StepAudit ==
  ASSUME IInv, [Next]_vars
  PROVE  AuditTruthful'
<1> USE DEF Goto, Ended
<1>0. /\ AuditTruthful /\ Places /\ Statuses
      /\ pc \in [Requests -> {"sent", "stamped", "open", "routed", "loaded",
                             "closing", "done", "unlogged"}]
      /\ status \in [Requests -> {0, 200, 201, 204, 401, 404, 422, 429, 500}]
  BY DEF IInv, TypeOK
<1> DEFINE RowsOf(q) == {l \in log : l.by = q}
           Kept(q) == q \in held /\ q \in rolled
           Truth(q) == [by |-> q, status |-> status[q],
                        app |-> IF status[q] \in {401, 429} \/ Call[q].key = NoKey
                                THEN NoApp ELSE App(q)]
<1>1. \A q \in Requests : RowsOf(q) = IF pc[q] = "done" /\ ~Kept(q) THEN {Truth(q)} ELSE {}
  BY <1>0 DEF AuditTruthful
<1>2. ASSUME NEW r \in Requests, pc[r] \notin {"done"}, pc'[r] \notin {"done"}, UNCHANGED log,
             \A q \in Requests \ {r} :
               /\ pc'[q] = pc[q] /\ status'[q] = status[q]
               /\ q \in held' <=> q \in held
               /\ q \in rolled' <=> q \in rolled
      PROVE  AuditTruthful'
  <2> SUFFICES ASSUME NEW q \in Requests
               PROVE  RowsOf(q)' = IF pc'[q] = "done" /\ ~Kept(q)' THEN {Truth(q)'} ELSE {}
    BY DEF AuditTruthful
  <2>1. RowsOf(q)' = RowsOf(q)
    BY <1>2
  <2>2. CASE q = r
    BY <1>1, <1>2, <2>1, <2>2
  <2>3. CASE q # r
    <3>1. Kept(q)' = Kept(q) /\ Truth(q)' = Truth(q) /\ pc'[q] = pc[q]
      BY <1>2, <2>3 DEF App, Owner
    <3> QED
      BY <1>1, <2>1, <3>1
  <2> QED
    BY <2>2, <2>3
<1>3. ASSUME NEW r \in Requests, RateStep(r) \/ KeyStep(r) \/ RouteStep(r) PROVE AuditTruthful'
  <2>1. /\ pc[r] # "done" /\ pc'[r] # "done"
        /\ UNCHANGED log
        /\ \A q \in Requests \ {r} :
             /\ pc'[q] = pc[q] /\ status'[q] = status[q]
             /\ q \in held' <=> q \in held
             /\ q \in rolled' <=> q \in rolled
    <3>1. CASE RateStep(r)
      BY <1>0, <3>1
         DEF RateStep, PassUnlimited, Stamp, Admit, TooMany, FailOpen, rateUnchanged
    <3>2. CASE KeyStep(r)
      <4>1. CASE Authenticate(r) \/ LookUpOwner(r) \/ CountKeys(r) \/ LoadKey(r)
        BY <1>0, <4>1 DEF Authenticate, LookUpOwner, CountKeys, LoadKey, readUnchanged
      <4>2. CASE Unauthorized(r) \/ OwnerTaken(r) \/ RefuseKey(r) \/ RefuseTarget(r)
        BY <1>0, <4>2
           DEF Unauthorized, OwnerTaken, RefuseKey, RefuseTarget, Answer, Raise, readUnchanged
      <4>3. CASE Register(r) \/ Create(r) \/ Revoke(r) \/ Rotate(r)
        <5>1. /\ pc[r] = "loaded" /\ pc' = [pc EXCEPT ![r] = "closing"]
              /\ \E code \in {200, 201, 204} : status' = [status EXCEPT ![r] = code]
              /\ UNCHANGED <<held, rolled, log>>
          BY <4>3 DEF Register, Create, Revoke, Rotate, Answer, writeUnchanged
        <5> QED
          BY <1>0, <5>1
      <4> QED
        BY <3>2, <4>1, <4>2, <4>3 DEF KeyStep
    <3>3. CASE RouteStep(r)
      BY <1>0, <3>3
         DEF RouteStep, Serve, InvalidBody, RaiseHttp, RaiseOther, RaiseCommitted, WriteFails,
             Answer, Raise, routeUnchanged
    <3> QED
      BY <1>3, <3>1, <3>2, <3>3
  <2> QED
    BY <1>2, <2>1
<1>4. ASSUME NEW r \in Requests, AuditStep(r) PROVE AuditTruthful'
  <2>0. /\ pc[r] = "closing" /\ UNCHANGED <<held, rolled, status>>
        /\ \A q \in Requests \ {r} : pc'[q] = pc[q]
    BY <1>0, <1>4 DEF AuditStep, Record, KeyDetached, RecordFails, routeUnchanged
  <2>1. CASE Record(r)
    <3>1. Row(r) = Truth(r) /\ Row(r).by = r
      BY <1>0, <2>0 DEF Row, Statuses
    <3>2. RowsOf(r) = {} /\ ~Kept(r) /\ pc'[r] = "done"
      BY <1>0, <1>1, <2>0, <2>1 DEF Record, Readable
    <3>3. /\ RowsOf(r)' = {Truth(r)}
          /\ \A q \in Requests \ {r} : RowsOf(q)' = RowsOf(q)
      BY <2>1, <3>1, <3>2 DEF Record
    <3>4. \A q \in Requests : Truth(q)' = Truth(q) /\ Kept(q)' = Kept(q)
      BY <2>0 DEF App, Owner
    <3>5. \A q \in Requests :
            RowsOf(q)' = IF pc'[q] = "done" /\ ~Kept(q)' THEN {Truth(q)'} ELSE {}
      BY <1>1, <2>0, <3>2, <3>3, <3>4
    <3> QED
      BY <3>5 DEF AuditTruthful
  <2>2. CASE KeyDetached(r) \/ RecordFails(r)
    <3>1. UNCHANGED log /\ (pc'[r] = "done" => Kept(r))
      BY <1>0, <2>2 DEF KeyDetached, RecordFails, Readable, routeUnchanged
    <3>2. \A q \in Requests : Truth(q)' = Truth(q) /\ Kept(q)' = Kept(q) /\ RowsOf(q)' = RowsOf(q)
      BY <2>0, <3>1 DEF App, Owner
    <3>3. \A q \in Requests :
            RowsOf(q)' = IF pc'[q] = "done" /\ ~Kept(q)' THEN {Truth(q)'} ELSE {}
      BY <1>1, <2>0, <3>1, <3>2
    <3> QED
      BY <3>3 DEF AuditTruthful
  <2> QED
    BY <1>4, <2>1, <2>2 DEF AuditStep
<1>5. CASE Tick \/ UNCHANGED vars
  <2>1. UNCHANGED <<pc, status, held, rolled, log>>
    BY <1>5 DEF Tick, vars, callVars
  <2> QED
    BY <1>0, <2>1 DEF AuditTruthful, App, Owner
<1> QED
  BY <1>3, <1>4, <1>5 DEF Next, Handle

(***************************************************************************)
(* IInv is inductive.                                                      *)
(***************************************************************************)
LEMMA Inductive == Spec => []IInv
<1>1. Init => IInv
  <2> SUFFICES ASSUME Init PROVE IInv
    OBVIOUS
  <2> USE DEF Init
  <2>1. TypeOK
    BY GatewayAssumption DEF TypeOK, Keys, Apps, Ticks
  <2>2. RegisteredWrote
    BY GatewayAssumption DEF RegisteredWrote
  <2> QED
    BY <2>1, <2>2
       DEF IInv, Places, Statuses, Ended, SpentKeysRevoked, OwnKeyUnspent, TargetUnspent,
           OwnerFree, AuditTruthful
<1>2. IInv /\ [Next]_vars => IInv'
  BY StepTypes, StepPlaces, StepStatuses, StepSpent, StepOwners, StepAudit DEF IInv
<1> QED
  BY <1>1, <1>2, PTL DEF Spec

(***************************************************************************)
(* The gateway keeps its types.                                            *)
(***************************************************************************)
THEOREM TypeCorrect == Spec => []TypeOK
<1>1. IInv => TypeOK
  BY DEF IInv
<1> QED
  BY <1>1, Inductive, PTL

(***************************************************************************)
(* A key is rotated or revoked once, unless two requests overlap, although *)
(* the key that a request uses itself is not read again.                   *)
(***************************************************************************)
THEOREM SpentOnce == Spec => []KeySpentOnce
<1>1. IInv => KeySpentOnce
  BY DEF IInv, TypeOK, TargetUnspent, Spends, KeySpentOnce, Spenders, Overlap
<1> QED
  BY <1>1, Inductive, PTL

(***************************************************************************)
(* An owner has one registered application, unless two registrations       *)
(* overlap.                                                                *)
(***************************************************************************)
THEOREM OneApplicationPerOwner == Spec => []OwnersDistinct
<1>1. IInv => OwnersDistinct
  BY DEF IInv, TypeOK, RegisteredWrote, OwnerFree, Registers, OwnersDistinct, Overlap
<1> QED
  BY <1>1, Inductive, PTL

(***************************************************************************)
(* Every request that was answered and whose key was not detached has one  *)
(* row, and the row is true.                                               *)
(***************************************************************************)
THEOREM TruthfulAudit == Spec => []AuditTruthful
<1>1. IInv => AuditTruthful
  BY DEF IInv
<1> QED
  BY <1>1, Inductive, PTL

-----------------------------------------------------------------------------
(***************************************************************************)
(* What a step does to the limiter: a request reads the clock, its script  *)
(* runs, time passes, or nothing.                                          *)
(***************************************************************************)
RateIdle ==
  /\ UNCHANGED <<now, bucket, counted, stamp>>
  /\ \A q \in Requests : /\ pc'[q] = "stamped" => pc[q] = "stamped"
                         /\ pc[q] \notin {"sent", "stamped"} => pc'[q] \notin {"sent", "stamped"}

LEMMA RateSteps ==
  ASSUME IInv, [Next]_vars
  PROVE  \/ \E r \in Requests : Stamp(r) \/ Admit(r) \/ TooMany(r)
         \/ Tick
         \/ RateIdle
<1> USE DEF Goto, RateIdle
<1>0. pc \in [Requests -> {"sent", "stamped", "open", "routed", "loaded",
                          "closing", "done", "unlogged"}]
  BY DEF IInv, TypeOK
<1>1. ASSUME NEW r \in Requests, PassUnlimited(r) \/ FailOpen(r) PROVE RateIdle
  BY <1>0, <1>1 DEF PassUnlimited, FailOpen
<1>2. ASSUME NEW r \in Requests, KeyStep(r) PROVE RateIdle
  <2>1. CASE Authenticate(r) \/ LookUpOwner(r) \/ CountKeys(r) \/ LoadKey(r)
    BY <1>0, <2>1 DEF Authenticate, LookUpOwner, CountKeys, LoadKey, readUnchanged
  <2>2. CASE Unauthorized(r) \/ OwnerTaken(r) \/ RefuseKey(r) \/ RefuseTarget(r)
    BY <1>0, <2>2 DEF Unauthorized, OwnerTaken, RefuseKey, RefuseTarget, readUnchanged
  <2>3. CASE Register(r) \/ Create(r) \/ Revoke(r) \/ Rotate(r)
    BY <1>0, <2>3 DEF Register, Create, Revoke, Rotate, writeUnchanged
  <2> QED
    BY <1>2, <2>1, <2>2, <2>3 DEF KeyStep
<1>3. ASSUME NEW r \in Requests, RouteStep(r) PROVE RateIdle
  BY <1>0, <1>3 DEF RouteStep, Serve, InvalidBody, RaiseHttp, RaiseOther, RaiseCommitted,
                    WriteFails, routeUnchanged
<1>4. ASSUME NEW r \in Requests, AuditStep(r) PROVE RateIdle
  BY <1>0, <1>4 DEF AuditStep, Record, KeyDetached, RecordFails, routeUnchanged
<1>5. CASE UNCHANGED vars
  BY <1>5 DEF vars, callVars
<1> QED
  BY <1>1, <1>2, <1>3, <1>4, <1>5 DEF Next, Handle, RateStep

(***************************************************************************)
(* A script runs within its delay, and a counted request is past it.       *)
(***************************************************************************)
LEMMA StepPunctual ==
  ASSUME IInv, RatePunctual, CountedPassed, [Next]_vars
  PROVE  RatePunctual' /\ CountedPassed'
<1> USE DEF RatePunctual, CountedPassed, Goto
<1>0. /\ pc \in [Requests -> {"sent", "stamped", "open", "routed", "loaded",
                             "closing", "done", "unlogged"}]
      /\ now \in Nat /\ MaxDelay \in Nat /\ counted \subseteq Requests
      /\ stamp \in [Requests -> Ticks] /\ \A q \in Requests : stamp[q] \in Nat
  BY GatewayAssumption DEF IInv, TypeOK, Ticks
<1>1. ASSUME NEW r \in Requests, Stamp(r) PROVE RatePunctual' /\ CountedPassed'
  BY <1>0, <1>1 DEF Stamp
<1>2. ASSUME NEW r \in Requests, Admit(r) \/ TooMany(r) PROVE RatePunctual' /\ CountedPassed'
  BY <1>0, <1>2 DEF Admit, TooMany
<1>3. CASE Tick
  <2>1. \A q \in Requests : pc[q] = "stamped" => now + 1 <= stamp[q] + MaxDelay
    BY <1>0, <1>3 DEF Tick
  <2>2. now' = now + 1 /\ UNCHANGED <<pc, stamp, counted>>
    BY <1>3 DEF Tick, callVars
  <2> QED
    BY <1>0, <2>1, <2>2
<1>4. CASE RateIdle
  BY <1>0, <1>4 DEF RateIdle
<1> QED
  BY <1>1, <1>2, <1>3, <1>4, RateSteps

(***************************************************************************)
(* What a script removes from a bucket is a window old at least.           *)
(***************************************************************************)
LEMMA StepBucket ==
  ASSUME IInv, RatePunctual, CountedPassed, BucketHolds, [Next]_vars
  PROVE  BucketHolds'
<1> USE DEF Goto
<1>0. /\ now \in Nat /\ Window \in Nat /\ counted \subseteq Requests
      /\ stamp \in [Requests -> Ticks] /\ \A q \in Requests : stamp[q] \in Nat
  BY GatewayAssumption DEF IInv, TypeOK, Ticks
<1>1. ASSUME NEW r \in Requests, Stamp(r) PROVE BucketHolds'
  <2>1. r \notin counted /\ UNCHANGED <<now, bucket, counted>>
    BY <1>1 DEF Stamp, CountedPassed
  <2>2. \A q \in counted : stamp'[q] = stamp[q]
    BY <1>0, <1>1, <2>1 DEF Stamp
  <2> QED
    BY <2>1, <2>2 DEF BucketHolds, Member
<1>2. ASSUME NEW r \in Requests, Admit(r) \/ TooMany(r) PROVE BucketHolds'
  <2>1. /\ stamp[r] <= now
        /\ UNCHANGED <<now, stamp>>
        /\ Others(Call[r].key) \cup InWindow(Call[r].key, stamp[r]) \subseteq bucket'
        /\ counted' = counted \/ (counted' = counted \cup {r} /\ Member(r) \in bucket')
    BY <1>2 DEF Admit, TooMany, RatePunctual, Member
  <2>2. ASSUME NEW q \in counted, stamp[q] > now - Window
        PROVE  Member(q) \in bucket'
    <3>1. Member(q) \in bucket
      BY <2>2 DEF BucketHolds
    <3>2. stamp[q] > stamp[r] - Window
      BY <1>0, <2>1, <2>2
    <3>3. Member(q).key = Call[q].key /\ Member(q).at = stamp[q]
      BY DEF Member
    <3> QED
      BY <2>1, <3>1, <3>2, <3>3 DEF Others, InWindow
  <2>3. \A q \in Requests : Member(q)' = Member(q)
    BY <2>1 DEF Member
  <2> QED
    BY <1>0, <2>1, <2>2, <2>3 DEF BucketHolds
<1>3. CASE Tick
  <2>1. now' = now + 1 /\ UNCHANGED <<bucket, counted, stamp>>
    BY <1>3 DEF Tick, callVars
  <2>2. ASSUME NEW q \in counted, stamp[q] > now' - Window
        PROVE  Member(q) \in bucket
    BY <1>0, <2>1, <2>2 DEF BucketHolds
  <2> QED
    BY <2>1, <2>2 DEF BucketHolds, Member
<1>4. CASE RateIdle
  BY <1>4 DEF RateIdle, BucketHolds, Member
<1> QED
  BY <1>1, <1>2, <1>3, <1>4, RateSteps

\* The counted requests of a token in the window that ends with a request.
Within(r) ==
  {s \in counted : /\ Call[s].key = Call[r].key
                   /\ stamp[r] - (Window - MaxDelay) < stamp[s]
                   /\ stamp[s] <= stamp[r]}

(***************************************************************************)
(* Every counted request of the token of a new one, in a window that holds *)
(* the new one, is a member that its script finds.                         *)
(***************************************************************************)
LEMMA WindowFits ==
  ASSUME IInv, RateInv, NEW n \in Requests, Admit(n), NEW r \in counted \cup {n},
         Call[n].key = Call[r].key,
         stamp[r] - (Window - MaxDelay) < stamp[n], stamp[n] <= stamp[r]
  PROVE  IsFiniteSet(Within(r)) /\ Cardinality(Within(r)) < Limit(Call[r].key)
<1> DEFINE left == InWindow(Call[n].key, stamp[n])
           f == [s \in Within(r) |-> Member(s)]
<1>0. /\ now \in Nat /\ Window \in Nat /\ MaxDelay \in Nat /\ counted \subseteq Requests
      /\ \A q \in Requests : stamp[q] \in Nat
      /\ stamp[n] <= now /\ now <= stamp[n] + MaxDelay
  BY GatewayAssumption DEF IInv, TypeOK, Ticks, RateInv, RatePunctual, Admit, Goto
<1>1. ASSUME NEW s \in Within(r) PROVE Member(s) \in left
  <2>1. s \in counted /\ Call[s].key = Call[n].key /\ stamp[r] - (Window - MaxDelay) < stamp[s]
    BY DEF Within
  <2>2. stamp[s] > now - Window /\ stamp[s] > stamp[n] - Window
    BY <1>0, <2>1
  <2>3. Member(s) \in bucket
    BY <2>1, <2>2 DEF RateInv, BucketHolds
  <2> QED
    BY <2>1, <2>2, <2>3 DEF Member, InWindow
<1>2. f \in Injection(Within(r), left)
  <2>1. f \in [Within(r) -> left]
    BY <1>1
  <2>2. \A s, t \in Within(r) : f[s] = f[t] => s = t
    BY DEF Member
  <2> HIDE DEF f
  <2> QED
    BY <2>1, <2>2 DEF Injection, IsInjective
<1>3. IsFiniteSet(left) /\ Cardinality(left) < Limit(Call[r].key)
  <2>1. left \subseteq bucket
    BY DEF InWindow
  <2>2. Cardinality(left) < Limit(Call[r].key)
    BY DEF Admit, Limit
  <2> QED
    BY <2>1, <2>2, FS_Subset DEF RateInv
<1> HIDE DEF left, f
<1>4. /\ IsFiniteSet(Within(r)) /\ Cardinality(Within(r)) <= Cardinality(left)
  BY <1>2, <1>3, FS_Injection
<1>5. Cardinality(Within(r)) \in Nat /\ Cardinality(left) \in Nat /\ Limit(Call[r].key) \in Nat
  BY <1>3, <1>4, FS_CardinalityType, GatewayAssumption DEF Limit
<1> QED
  BY <1>3, <1>4, <1>5

(***************************************************************************)
(* No window gets fuller than the limit.                                   *)
(***************************************************************************)
LEMMA StepRate ==
  ASSUME IInv, RateInv, [Next]_vars
  PROVE  RateBounded' /\ IsFiniteSet(bucket') /\ IsFiniteSet(counted')
<1> USE DEF Goto
<1>0. /\ counted \subseteq Requests /\ stamp \in [Requests -> Ticks]
      /\ IsFiniteSet(bucket) /\ IsFiniteSet(counted) /\ CountedPassed
      /\ \A r \in counted : Cardinality(Within(r)) <= Limit(Call[r].key)
  BY DEF IInv, TypeOK, RateInv, RateBounded, Within
<1> DEFINE Fits == \A r \in counted' : Cardinality(Within(r)') <= Limit(Call[r].key)
<1>1. Fits => RateBounded'
  BY DEF RateBounded, Within, Limit
<1>2. ASSUME UNCHANGED counted, \A q \in counted : stamp'[q] = stamp[q] PROVE Fits
  <2>1. \A r \in counted : Within(r)' = Within(r)
    BY <1>2 DEF Within
  <2> QED
    BY <1>0, <1>2, <2>1
<1>3. ASSUME NEW n \in Requests, Admit(n) PROVE Fits
  <2>1. UNCHANGED stamp /\ counted' = counted \cup {n} /\ n \notin counted
    BY <1>0, <1>3 DEF Admit, CountedPassed
  <2> SUFFICES ASSUME NEW r \in counted \cup {n}
               PROVE  Cardinality(Within(r)') <= Limit(Call[r].key)
    BY <2>1
  <2>2. PICK W : W = Within(r)'
    OBVIOUS
  <2>3. Limit(Call[r].key) \in Nat
    BY GatewayAssumption DEF Limit
  <2>4. CASE /\ Call[n].key = Call[r].key
             /\ stamp[r] - (Window - MaxDelay) < stamp[n] /\ stamp[n] <= stamp[r]
    <3>1. W = Within(r) \cup {n} /\ n \notin Within(r)
      BY <2>1, <2>2, <2>4 DEF Within
    <3>2. IsFiniteSet(Within(r)) /\ Cardinality(Within(r)) < Limit(Call[r].key)
      BY <1>3, <2>4, WindowFits
    <3>3. Cardinality(Within(r) \cup {n}) = Cardinality(Within(r)) + 1
      BY <3>1, <3>2, FS_AddElement
    <3>4. Cardinality(Within(r)) \in Nat
      BY <3>2, FS_CardinalityType
    <3>5. Cardinality(W) <= Limit(Call[r].key)
      BY <2>3, <3>1, <3>2, <3>3, <3>4
    <3> QED
      BY <2>2, <3>5
  <2>5. CASE ~(/\ Call[n].key = Call[r].key
               /\ stamp[r] - (Window - MaxDelay) < stamp[n] /\ stamp[n] <= stamp[r])
    <3>1. W = Within(r)
      BY <2>1, <2>2, <2>5 DEF Within
    <3>2. CASE r \in counted
      BY <1>0, <2>2, <3>1, <3>2
    <3>3. CASE r = n
      <4>1. stamp[n] \in Nat /\ Window \in Nat /\ MaxDelay \in Nat
        BY <1>0, GatewayAssumption DEF Ticks
      <4>2. \A s \in counted : stamp[s] \in Nat
        BY <1>0 DEF Ticks
      <4>3. Within(r) = {}
        BY <2>5, <3>3, <4>1, <4>2 DEF Within
      <4> QED
        BY <2>2, <2>3, <3>1, <4>3, FS_EmptySet
    <3> QED
      BY <3>2, <3>3
  <2> QED
    BY <2>4, <2>5
<1>4. ASSUME NEW r \in Requests, Stamp(r) PROVE UNCHANGED <<counted, bucket>> /\ \A q \in counted : stamp'[q] = stamp[q]
  BY <1>0, <1>4 DEF Stamp, CountedPassed
<1>5. CASE Tick \/ RateIdle
  <2>1. UNCHANGED <<counted, bucket, stamp>>
    BY <1>5 DEF Tick, RateIdle, callVars
  <2>2. Fits
    BY <1>2, <2>1
  <2> HIDE DEF Fits
  <2> QED
    BY <1>0, <1>1, <2>1, <2>2
<1>6. ASSUME NEW r \in Requests, Admit(r) PROVE IsFiniteSet(bucket') /\ IsFiniteSet(counted')
  <2>1. /\ counted' = counted \cup {r}
        /\ bucket' \subseteq bucket \cup {[key |-> Call[r].key, at |-> stamp[r], by |-> r]}
    BY <1>6 DEF Admit, Others, InWindow
  <2>2. IsFiniteSet(bucket \cup {[key |-> Call[r].key, at |-> stamp[r], by |-> r]})
    BY <1>0, FS_AddElement
  <2>3. IsFiniteSet(bucket')
    BY <2>1, <2>2, FS_Subset
  <2> QED
    BY <1>0, <2>1, <2>3, FS_AddElement
<1>7. ASSUME NEW r \in Requests, TooMany(r)
      PROVE  UNCHANGED <<counted, stamp>> /\ IsFiniteSet(bucket')
  <2>1. UNCHANGED <<counted, stamp>> /\ bucket' \subseteq bucket
    BY <1>7 DEF TooMany, Others, InWindow
  <2> QED
    BY <1>0, <2>1, FS_Subset
<1> HIDE DEF Fits
<1> QED
  BY <1>0, <1>1, <1>2, <1>3, <1>4, <1>5, <1>6, <1>7, RateSteps

(***************************************************************************)
(* In every window, shortened by the delay of a script, at most Limit      *)
(* requests of a token are counted, although the clock is read before the  *)
(* script runs and scripts run in any order.                               *)
(***************************************************************************)
THEOREM RateHolds == Spec => []RateBounded
<1>1. Init => RateInv
  BY FS_EmptySet
     DEF Init, RateInv, RatePunctual, CountedPassed, BucketHolds, RateBounded
<1>2. IInv /\ RateInv /\ [Next]_vars => RateInv'
  BY StepPunctual, StepBucket, StepRate DEF RateInv
<1>3. RateInv => RateBounded
  BY DEF RateInv
<1> QED
  BY <1>1, <1>2, <1>3, Inductive, PTL DEF Spec

-----------------------------------------------------------------------------
(***************************************************************************)
(* Sizes of sets that differ in one element.                               *)
(***************************************************************************)
LEMMA Shrunk ==
  ASSUME NEW S, IsFiniteSet(S), NEW T, T \subseteq S
  PROVE  /\ IsFiniteSet(T)
         /\ Cardinality(T) \in Nat /\ Cardinality(S) \in Nat
         /\ Cardinality(T) <= Cardinality(S)
<1>1. IsFiniteSet(T) /\ Cardinality(T) <= Cardinality(S)
  BY FS_Subset
<1> QED
  BY <1>1, FS_CardinalityType

LEMMA GrownByOne ==
  ASSUME NEW S, IsFiniteSet(S), NEW T, NEW m, T \subseteq S \cup {m}
  PROVE  /\ IsFiniteSet(T)
         /\ Cardinality(T) \in Nat /\ Cardinality(S) \in Nat
         /\ Cardinality(T) <= Cardinality(S) + 1
<1>1. IsFiniteSet(S \cup {m})
  BY FS_AddElement
<1>2. Cardinality(S \cup {m}) = IF m \in S THEN Cardinality(S) ELSE Cardinality(S) + 1
  BY FS_AddElement
<1>3. /\ IsFiniteSet(T)
      /\ Cardinality(T) \in Nat /\ Cardinality(S \cup {m}) \in Nat
      /\ Cardinality(T) <= Cardinality(S \cup {m})
  BY <1>1, Shrunk
<1>4. Cardinality(S) \in Nat
  BY FS_CardinalityType
<1> QED
  BY <1>2, <1>3, <1>4

LEMMA PairBound ==
  ASSUME NEW x, NEW y, NEW T, T \subseteq {x, y}
  PROVE  IsFiniteSet(T) /\ Cardinality(T) \in Nat /\ Cardinality(T) <= 2
<1>1. PICK S : S = {x}
  OBVIOUS
<1>2. IsFiniteSet(S) /\ Cardinality(S) = 1
  BY <1>1, FS_Singleton
<1>3. T \subseteq S \cup {y}
  BY <1>1
<1> QED
  BY <1>2, <1>3, GrownByOne

LEMMA Swapped ==
  ASSUME NEW S, IsFiniteSet(S), NEW T, NEW x \in S, NEW m, T \subseteq (S \ {x}) \cup {m}
  PROVE  /\ IsFiniteSet(T)
         /\ Cardinality(T) \in Nat /\ Cardinality(S) \in Nat
         /\ Cardinality(T) <= Cardinality(S)
<1>1. IsFiniteSet(S \ {x})
  BY FS_RemoveElement
<1>2. Cardinality(S \ {x}) = Cardinality(S) - 1
  BY FS_RemoveElement
<1>3. /\ IsFiniteSet(T) /\ Cardinality(T) \in Nat
      /\ Cardinality(T) <= Cardinality(S \ {x}) + 1
  BY <1>1, GrownByOne
<1>4. Cardinality(S) \in Nat
  BY FS_CardinalityType
<1> QED
  BY <1>2, <1>3, <1>4

LEMMA Enlarged ==
  ASSUME NEW S, IsFiniteSet(S), NEW T, IsFiniteSet(T), NEW m \in T, m \notin S, S \subseteq T
  PROVE  /\ Cardinality(T) \in Nat /\ Cardinality(S) \in Nat
         /\ Cardinality(S) + 1 <= Cardinality(T)
<1>1. Cardinality(S \cup {m}) = Cardinality(S) + 1
  BY FS_AddElement
<1>2. /\ Cardinality(S \cup {m}) \in Nat /\ Cardinality(T) \in Nat
      /\ Cardinality(S \cup {m}) <= Cardinality(T)
  BY Shrunk
<1>3. Cardinality(S) \in Nat
  BY FS_CardinalityType
<1> QED
  BY <1>1, <1>2, <1>3

-----------------------------------------------------------------------------
(***************************************************************************)
(* A key that is minted belongs to the application that asked for it.      *)
(***************************************************************************)
LEMMA MintedOwner ==
  ASSUME NEW r \in Requests, NEW b \in BOOLEAN
  PROVE  /\ Mints(r) => Owner(Minted(r, b)) = App(r)
         /\ Registers(r) => Owner(Minted(r, b)) = r
<1>1. Minted(r, b).by = r
  BY DEF Minted
<1>2. CASE Mints(r)
  <2>1. Call[r].kind # "register" /\ Call[r].key \in Keys
    BY <1>2, GatewayAssumption DEF Mints
  <2>2. Call[r].key.by \in Requests => Call[Call[r].key.by].kind = "register"
    BY <2>1, GatewayAssumption
  <2> QED
    BY <1>1, <1>2, <2>1, <2>2 DEF Owner, App, Registers
<1>3. CASE Registers(r)
  BY <1>1, <1>3 DEF Owner, Registers, Mints
<1> QED
  BY <1>2, <1>3

(***************************************************************************)
(* The application of an authenticated request exists.                     *)
(***************************************************************************)
LEMMA AppExists ==
  ASSUME KeysOwned, NEW r \in held
  PROVE  App(r) \in apps
BY DEF KeysOwned, App

(***************************************************************************)
(* What is counted is finite.                                              *)
(***************************************************************************)
LEMMA FiniteCounts ==
  ASSUME KeysOwned
  PROVE  /\ \A a : IsFiniteSet(OwnedBy(a)) /\ IsFiniteSet(Active(a)) /\ IsFiniteSet(Surplus(a))
         /\ \A r : IsFiniteSet(MintedSince(r))
<1>1. ASSUME NEW a PROVE IsFiniteSet(OwnedBy(a)) /\ IsFiniteSet(Active(a)) /\ IsFiniteSet(Surplus(a))
  <2>1. IsFiniteSet(OwnedBy(a))
    <3>1. CASE a \in apps
      BY <3>1 DEF KeysOwned
    <3>2. CASE a \notin apps
      <4>1. OwnedBy(a) = {}
        BY <3>2 DEF KeysOwned, OwnedBy
      <4> QED
        BY <4>1, FS_EmptySet
    <3> QED
      BY <3>1, <3>2
  <2>2. Active(a) \subseteq OwnedBy(a)
    BY DEF Active, OwnedBy
  <2>3. Surplus(a) \subseteq wrote
    BY DEF Surplus, Minters
  <2>4. IsFiniteSet(wrote)
    BY DEF KeysOwned
  <2> QED
    BY <2>1, <2>2, <2>3, <2>4, Shrunk
<1>2. ASSUME NEW r PROVE IsFiniteSet(MintedSince(r))
  <2>1. MintedSince(r) \subseteq wrote
    BY DEF MintedSince, Minters
  <2>2. IsFiniteSet(wrote)
    BY DEF KeysOwned
  <2> QED
    BY <2>1, <2>2, Shrunk
<1> QED
  BY <1>1, <1>2

(***************************************************************************)
(* A request that writes has not written before, and is authenticated      *)
(* unless it registers.                                                    *)
(***************************************************************************)
LEMMA WriterPlace ==
  ASSUME IInv, NEW r \in Requests, Writes(r)
  PROVE  r \notin wrote /\ (Mints(r) => r \in held) /\ (Registers(r) => r \notin apps)
BY DEF IInv, Places, Ended, RegisteredWrote, Writes, Mints, Registers

(***************************************************************************)
(* The keys that a writing request adds: none, or of its application.      *)
(***************************************************************************)
LEMMA KeysAdded ==
  ASSUME IInv, NEW r \in Requests, Writes(r)
  PROVE  \/ Registers(r) /\ apps' = apps \cup {r} /\ revoked' = revoked
            /\ issued' = issued \cup {Minted(r, FALSE), Minted(r, TRUE)}
         \/ Mints(r) /\ apps' = apps /\ revoked \subseteq revoked'
            /\ \E b \in BOOLEAN : issued' = issued \cup {Minted(r, b)}
         \/ Call[r].kind = "revoke" /\ apps' = apps /\ revoked \subseteq revoked' /\ issued' = issued
<1>1. Call[r].target.sandbox \in BOOLEAN
  BY CallFields DEF Keys
<1> QED
  BY <1>1 DEF Writes, Register, Create, Revoke, Rotate, Registers, Mints

(***************************************************************************)
(* Keys keep belonging to applications that exist.                         *)
(***************************************************************************)
LEMMA StepOwned ==
  ASSUME IInv, KeysOwned, [Next]_vars
  PROVE  KeysOwned'
<1>0. /\ before \in [Requests -> SUBSET Requests] /\ held \subseteq Requests /\ wrote \subseteq Requests
  BY DEF IInv, TypeOK
<1>1. CASE Idles
  BY <1>1 DEF Idles, keyVars, KeysOwned, Owner, OwnedBy, Mints
<1>2. ASSUME NEW r \in Requests, Reads(r) PROVE KeysOwned'
  <2>1. UNCHANGED <<apps, issued, wrote>> /\ (held' = held \/ (held' = held \cup {r} /\ Call[r].key \in issued))
    BY <1>2, AuthenticatedActive
       DEF Reads, keyVars, Authenticate, LookUpOwner, CountKeys, LoadKey
  <2>2. \A q \in Requests : before'[q] \subseteq wrote
    BY <1>0, <1>2 DEF KeysOwned, Reads, Authenticate, LookUpOwner, CountKeys, LoadKey
  <2>3. \A a \in apps : OwnedBy(a)' = OwnedBy(a)
    BY <2>1 DEF OwnedBy, Owner
  <2> QED
    BY <2>1, <2>2, <2>3 DEF KeysOwned, Mints, Owner
<1>3. ASSUME NEW r \in Requests, Writes(r) PROVE KeysOwned'
  <2>1. /\ wrote' = wrote \cup {r} /\ before' = before /\ held' = held
        /\ issued \subseteq issued' /\ apps \subseteq apps'
        /\ issued' \subseteq issued \cup {Minted(r, FALSE), Minted(r, TRUE)}
        /\ \A k \in issued' : k \in issued \/ Owner(k) \in apps'
    <3>1. Mints(r) => App(r) \in apps
      BY <1>3, WriterPlace, AppExists
    <3>2. \A b \in BOOLEAN : /\ Mints(r) => Owner(Minted(r, b)) = App(r)
                             /\ Registers(r) => Owner(Minted(r, b)) = r
      BY MintedOwner
    <3>3. /\ issued \subseteq issued' /\ apps \subseteq apps'
          /\ issued' \subseteq issued \cup {Minted(r, FALSE), Minted(r, TRUE)}
          /\ \A k \in issued' : k \in issued \/ Owner(k) \in apps'
      <4>1. CASE /\ Registers(r) /\ apps' = apps \cup {r}
                 /\ issued' = issued \cup {Minted(r, FALSE), Minted(r, TRUE)}
        BY <3>2, <4>1
      <4>2. CASE /\ Mints(r) /\ apps' = apps
                 /\ \E b \in BOOLEAN : issued' = issued \cup {Minted(r, b)}
        BY <3>1, <3>2, <4>2
      <4>3. CASE apps' = apps /\ issued' = issued
        BY <4>3
      <4> QED
        BY <1>3, <4>1, <4>2, <4>3, KeysAdded
    <3> QED
      BY <1>3, <3>3 DEF Writes
  <2>2. \A k \in issued' : Owner(k) \in apps'
    BY <2>1 DEF KeysOwned
  <2>3. ASSUME NEW a PROVE IsFiniteSet(OwnedBy(a)')
    <3>1. IsFiniteSet(OwnedBy(a) \cup {Minted(r, FALSE)})
      BY FiniteCounts, FS_AddElement
    <3>2. OwnedBy(a)' \subseteq (OwnedBy(a) \cup {Minted(r, FALSE)}) \cup {Minted(r, TRUE)}
      BY <2>1 DEF OwnedBy, Owner
    <3> QED
      BY <3>1, <3>2, GrownByOne
  <2>4. IsFiniteSet(wrote')
    BY <2>1, FS_AddElement DEF KeysOwned
  <2>5. \A q \in wrote' : Mints(q) => q \in held'
    BY <1>3, <2>1, WriterPlace DEF KeysOwned
  <2> QED
    BY <2>1, <2>2, <2>3, <2>4, <2>5 DEF KeysOwned, Owner, Mints
<1> QED
  BY <1>1, <1>2, <1>3, StepKinds

-----------------------------------------------------------------------------
(***************************************************************************)
(* Who has written stays so and has read for good: an overlap stays one.   *)
(***************************************************************************)
LEMMA WrittenStay ==
  ASSUME IInv, [Next]_vars
  PROVE  /\ wrote \subseteq wrote'
         /\ \A s \in wrote : before'[s] = before[s]
<1>0. before \in [Requests -> SUBSET Requests] /\ wrote \subseteq Requests /\ Places
  BY DEF IInv, TypeOK
<1>1. CASE Idles
  BY <1>1 DEF Idles
<1>2. ASSUME NEW r \in Requests, Reads(r)
      PROVE  wrote' = wrote /\ \A s \in wrote : before'[s] = before[s]
  <2>1. r \notin wrote
    BY <1>0, <1>2 DEF Reads, Authenticate, LookUpOwner, CountKeys, LoadKey, Goto, Places, Ended
  <2>2. \A s \in Requests \ {r} : before'[s] = before[s]
    BY <1>0, <1>2 DEF Reads, Authenticate, LookUpOwner, CountKeys, LoadKey
  <2> QED
    BY <1>0, <1>2, <2>1, <2>2 DEF Reads
<1>3. ASSUME NEW r \in Requests, Writes(r)
      PROVE  wrote \subseteq wrote' /\ before' = before
  BY <1>3 DEF Writes
<1> QED
  BY <1>1, <1>2, <1>3, StepKinds

LEMMA SurplusGrows ==
  ASSUME IInv, [Next]_vars, NEW a
  PROVE  Surplus(a) \subseteq Surplus(a)'
<1> SUFFICES ASSUME NEW r \in Surplus(a)
             PROVE  r \in Surplus(a)'
  OBVIOUS
<1>1. PICK s \in Minters(a) \ {r} : r \in Minters(a) /\ r \notin before[s] /\ s \notin before[r]
  BY DEF Surplus, Overlap
<1>2. r \in wrote /\ s \in wrote
  BY <1>1 DEF Minters
<1>3. r \in Minters(a)' /\ s \in Minters(a)'
  BY <1>1, WrittenStay DEF Minters, App, Owner
<1>4. r \notin before'[s] /\ s \notin before'[r]
  BY <1>1, <1>2, WrittenStay
<1> QED
  BY <1>1, <1>3, <1>4 DEF Surplus, Overlap

(***************************************************************************)
(* What a step does to the active keys of an application: it has at most   *)
(* one more, and then the application's own request has minted it.         *)
(***************************************************************************)
LEMMA ActiveGrows ==
  ASSUME IInv, KeysOwned, NEW r \in Requests, Writes(r), NEW a \in apps
  PROVE  \/ Active(a)' \subseteq Active(a)
         \/ /\ Mints(r) /\ App(r) = a
            /\ \E m : Active(a)' \subseteq Active(a) \cup {m}
<1>1. CASE /\ Registers(r) /\ revoked' = revoked
           /\ issued' = issued \cup {Minted(r, FALSE), Minted(r, TRUE)}
  <2>1. Owner(Minted(r, FALSE)) # a /\ Owner(Minted(r, TRUE)) # a
    BY <1>1, MintedOwner, WriterPlace
  <2>2. \A k : Owner(k)' = Owner(k)
    BY DEF Owner
  <2> QED
    BY <1>1, <2>1 DEF Active, Owner
<1>2. CASE Mints(r) /\ revoked \subseteq revoked' /\ \E b \in BOOLEAN : issued' = issued \cup {Minted(r, b)}
  <2>1. PICK b \in BOOLEAN : issued' = issued \cup {Minted(r, b)}
    BY <1>2
  <2>2. Owner(Minted(r, b)) = App(r)
    BY <1>2, MintedOwner
  <2>3. Active(a)' \subseteq Active(a) \cup {Minted(r, b)}
    BY <1>2, <2>1 DEF Active, Owner
  <2>4. App(r) # a => Minted(r, b) \notin Active(a)'
    BY <2>2 DEF Active, Owner
  <2> QED
    BY <1>2, <2>3, <2>4
<1>3. CASE revoked \subseteq revoked' /\ issued' = issued
  BY <1>3 DEF Active, Owner
<1> QED
  BY <1>1, <1>2, <1>3, KeysAdded

(***************************************************************************)
(* A minting request is in an overlap with everyone who has minted since   *)
(* it read, and for anyone still under way it is one who has minted since. *)
(***************************************************************************)
LEMMA MintingOverlaps ==
  ASSUME IInv, KeysOwned, NEW r \in Requests, Writes(r), Mints(r)
  PROVE  /\ r \notin Surplus(App(r)) /\ r \notin MintedSince(r)
         /\ MintedSince(r) # {} => MintedSince(r) \cup {r} \subseteq Surplus(App(r))'
<1>1. r \notin wrote /\ wrote' = wrote \cup {r} /\ before' = before /\ wrote \subseteq Requests
  BY WriterPlace DEF Writes, IInv, TypeOK
<1>2. r \notin Surplus(App(r)) /\ r \notin MintedSince(r)
  BY <1>1 DEF Surplus, MintedSince, Minters
<1>3. PICK a : a = App(r)
  OBVIOUS
<1>4. r \in Minters(a)'
  BY <1>1, <1>3 DEF Minters, Mints, App, Owner
<1>5. ASSUME NEW m \in MintedSince(r) PROVE m \in Surplus(a)' /\ r \in Surplus(a)'
  <2>1. m \in Minters(a) /\ m \notin before[r] /\ m \in wrote /\ m # r /\ m \in Requests
    BY <1>1, <1>3 DEF MintedSince, Minters
  <2>2. r \notin before[m]
    BY <1>1, <2>1 DEF KeysOwned
  <2>3. m \in Minters(a)'
    BY <1>1, <2>1 DEF Minters, App, Owner
  <2>4. m \notin before'[r] /\ r \notin before'[m]
    BY <1>1, <2>1, <2>2
  <2> QED
    BY <1>4, <2>1, <2>3, <2>4 DEF Surplus, Overlap
<1>6. PICK S : S = Surplus(a)'
  OBVIOUS
<1>7. Surplus(App(r))' = Surplus(a)'
  BY <1>3 DEF App, Owner
<1> QED
  BY <1>2, <1>5, <1>7

LEMMA MintedStays ==
  ASSUME IInv, KeysOwned, NEW r \in Requests, Writes(r), NEW q \in Requests
  PROVE  /\ MintedSince(q) \subseteq MintedSince(q)'
         /\ Mints(r) /\ App(r) = App(q) => r \in MintedSince(q)' /\ r \notin MintedSince(q)
<1>1. r \notin wrote /\ wrote' = wrote \cup {r} /\ before' = before /\ before[q] \subseteq wrote
  BY WriterPlace DEF Writes, KeysOwned
<1>2. PICK a : a = App(q)
  OBVIOUS
<1>3. MintedSince(q) = {m \in Minters(a) : m \notin before[q]}
  BY <1>2 DEF MintedSince
<1>4. MintedSince(q)' = {m \in Minters(a)' : m \notin before'[q]}
  BY <1>2 DEF MintedSince, App, Owner
<1>5. Minters(a) \subseteq Minters(a)' /\ r \notin Minters(a)
  BY <1>1 DEF Minters, App, Owner
<1>6. Mints(r) /\ App(r) = a => r \in Minters(a)'
  BY <1>1 DEF Minters, Mints, App, Owner
<1> QED
  BY <1>1, <1>2, <1>3, <1>4, <1>5, <1>6

-----------------------------------------------------------------------------
(***************************************************************************)
(* KeysBounded: one more active key is one that was counted, or one more   *)
(* request in an overlap.                                                  *)
(***************************************************************************)
LEMMA StepKeysBounded ==
  ASSUME IInv, LimitInv, [Next]_vars, KeysOwned'
  PROVE  KeysBounded'
<1>0. KeysOwned /\ MaxKeys \in Nat /\ MaxKeys >= 2
  BY GatewayAssumption DEF LimitInv
<1> SUFFICES ASSUME NEW a \in apps', NEW A, A = Active(a)', NEW S, S = Surplus(a)'
             PROVE  Cardinality(A) <= MaxKeys + Cardinality(S)
  BY DEF KeysBounded
<1>1. /\ IsFiniteSet(Active(a)) /\ Cardinality(Active(a)) \in Nat
      /\ IsFiniteSet(Surplus(a)) /\ Cardinality(Surplus(a)) \in Nat
  BY <1>0, FiniteCounts, FS_CardinalityType
<1>2. IsFiniteSet(S) /\ Cardinality(S) \in Nat
  <2>1. IsFiniteSet(wrote')
    BY DEF KeysOwned
  <2>2. S \subseteq wrote'
    BY DEF Surplus, Minters
  <2> QED
    BY <2>1, <2>2, Shrunk
<1>3. Surplus(a) \subseteq S /\ Cardinality(Surplus(a)) <= Cardinality(S)
  BY <1>2, SurplusGrows, Shrunk
<1>4. a \in apps => Cardinality(Active(a)) <= MaxKeys + Cardinality(Surplus(a))
  BY DEF LimitInv, KeysBounded
<1>5. ASSUME a \in apps, A \subseteq Active(a) PROVE Cardinality(A) <= MaxKeys + Cardinality(S)
  <2>1. Cardinality(A) \in Nat /\ Cardinality(A) <= Cardinality(Active(a))
    BY <1>1, <1>5, Shrunk
  <2> QED
    BY <1>0, <1>1, <1>2, <1>3, <1>4, <1>5, <2>1
<1>6. ASSUME NEW r \in Requests, Writes(r), Mints(r), App(r) = a, a \in apps,
             NEW m, A \subseteq Active(a) \cup {m}
      PROVE  Cardinality(A) <= MaxKeys + Cardinality(S)
  <2>1. Cardinality(A) \in Nat /\ Cardinality(A) <= Cardinality(Active(a)) + 1
    BY <1>1, <1>6, GrownByOne
  <2>2. /\ r \notin Surplus(a) /\ r \notin MintedSince(r)
        /\ MintedSince(r) # {} => MintedSince(r) \cup {r} \subseteq Surplus(App(r))'
    BY <1>0, <1>6, MintingOverlaps
  <2>3. MintedSince(r) # {} => r \in S /\ MintedSince(r) \subseteq S
    BY <1>6, <2>2 DEF App, Owner
  <2>4. IsFiniteSet(MintedSince(r)) /\ Cardinality(MintedSince(r)) \in Nat
    BY <1>0, FiniteCounts, FS_CardinalityType
  <2>5. MintedSince(r) = {} => Cardinality(MintedSince(r)) = 0
    BY FS_EmptySet
  <2>6. pc[r] = "loaded"
    BY <1>6 DEF Writes
  <2>7. CASE Call[r].kind = "create"
    <3>1. Cardinality(Active(a)) < MaxKeys + Cardinality(MintedSince(r))
      BY <1>6, <2>6, <2>7 DEF LimitInv, CreationsCounted
    <3>2. MintedSince(r) # {} => Cardinality(MintedSince(r)) <= Cardinality(S)
      BY <1>2, <2>3, Shrunk
    <3> QED
      BY <1>0, <1>1, <1>2, <2>1, <2>4, <2>5, <3>1, <3>2
  <2>8. CASE Call[r].kind = "rotate" /\ MintedSince(r) # {}
    <3>1. Cardinality(Surplus(a)) + 1 <= Cardinality(S)
      BY <1>1, <1>2, <1>3, <2>2, <2>3, <2>8, Enlarged
    <3> QED
      BY <1>0, <1>1, <1>2, <1>4, <1>6, <2>1, <3>1
  <2>9. CASE Call[r].kind = "rotate" /\ MintedSince(r) = {}
    <3> DEFINE T == Call[r].target
               B == Active(a) \cup {T}
    <3>1. Cardinality(B) <= MaxKeys + Cardinality(Surplus(a))
      BY <1>6, <2>6, <2>9 DEF LimitInv, RotationsCounted
    <3>2. A \subseteq (B \ {T}) \cup {Minted(r, T.sandbox)}
      BY <1>6, <2>9 DEF Writes, Register, Create, Revoke, Rotate, Active, Owner
    <3>3. IsFiniteSet(B)
      BY <1>1, FS_AddElement
    <3>4. T \in B
      OBVIOUS
    <3> HIDE DEF B, T
    <3>5. Cardinality(A) \in Nat /\ Cardinality(B) \in Nat /\ Cardinality(A) <= Cardinality(B)
      BY <3>2, <3>3, <3>4, Swapped
    <3> QED
      BY <1>0, <1>1, <1>2, <1>3, <3>1, <3>5
  <2> QED
    BY <1>6, <2>7, <2>8, <2>9 DEF Mints
<1>7. CASE Idles \/ \E r \in Requests : Reads(r)
  <2>1. UNCHANGED keyVars
    BY <1>7 DEF Idles, Reads
  <2>2. a \in apps /\ A = Active(a)
    BY <2>1 DEF keyVars, Active, Owner
  <2> QED
    BY <1>5, <2>2
<1>8. ASSUME NEW r \in Requests, Writes(r) PROVE Cardinality(A) <= MaxKeys + Cardinality(S)
  <2>1. CASE a \in apps
    <3>1. CASE A \subseteq Active(a)
      BY <1>5, <2>1, <3>1
    <3>2. CASE Mints(r) /\ App(r) = a /\ \E m : A \subseteq Active(a) \cup {m}
      BY <1>6, <1>8, <2>1, <3>2
    <3> QED
      BY <1>0, <1>8, <2>1, <3>1, <3>2, ActiveGrows
  <2>2. CASE a \notin apps
    <3>1. a = r /\ issued' = issued \cup {Minted(r, FALSE), Minted(r, TRUE)}
      BY <1>8, <2>2, KeysAdded
    <3>2. \A k \in issued : Owner(k) # a
      BY <1>0, <2>2 DEF KeysOwned
    <3>3. A \subseteq {Minted(r, FALSE), Minted(r, TRUE)}
      BY <3>1, <3>2 DEF Active, Owner
    <3>4. Cardinality(A) \in Nat /\ Cardinality(A) <= 2
      BY <3>3, PairBound
    <3> QED
      BY <1>0, <1>2, <3>4
  <2> QED
    BY <2>1, <2>2
<1> QED
  BY <1>7, <1>8, StepKinds

(***************************************************************************)
(* What a creation has counted stays true until it writes.                 *)
(***************************************************************************)
LEMMA StepCreations ==
  ASSUME IInv, LimitInv, [Next]_vars, KeysOwned'
  PROVE  CreationsCounted'
<1>0. /\ KeysOwned /\ MaxKeys \in Nat
      /\ before \in [Requests -> SUBSET Requests]
      /\ pc \in [Requests -> {"sent", "stamped", "open", "routed", "loaded",
                             "closing", "done", "unlogged"}]
  BY GatewayAssumption DEF LimitInv, IInv, TypeOK
<1> SUFFICES ASSUME NEW q \in Requests, pc'[q] = "loaded", Call[q].kind = "create",
                    NEW a, a = App(q), NEW A, A = Active(a)', NEW M, M = MintedSince(q)'
             PROVE  Cardinality(A) < MaxKeys + Cardinality(M)
  BY DEF CreationsCounted, App, Owner
<1>1. /\ IsFiniteSet(Active(a)) /\ Cardinality(Active(a)) \in Nat
      /\ IsFiniteSet(MintedSince(q)) /\ Cardinality(MintedSince(q)) \in Nat
  BY <1>0, FiniteCounts, FS_CardinalityType
<1>2. IsFiniteSet(M) /\ Cardinality(M) \in Nat
  <2>1. IsFiniteSet(wrote')
    BY DEF KeysOwned
  <2>2. M \subseteq wrote'
    BY DEF MintedSince, Minters
  <2> QED
    BY <2>1, <2>2, Shrunk
<1>3. pc[q] = "loaded" => Cardinality(Active(a)) < MaxKeys + Cardinality(MintedSince(q))
  BY DEF LimitInv, CreationsCounted
<1>4. CASE Idles
  <2>1. pc[q] = "loaded" /\ A = Active(a) /\ M = MintedSince(q)
    BY <1>4 DEF Idles, keyVars, Active, Owner, MintedSince, Minters, App
  <2> QED
    BY <1>3, <2>1
<1>5. ASSUME NEW r \in Requests, Reads(r) PROVE Cardinality(A) < MaxKeys + Cardinality(M)
  <2>1. A = Active(a) /\ wrote' = wrote
    BY <1>5 DEF Reads, keyVars, Active, Owner
  <2>2. CASE q # r
    <3>1. pc[q] = "loaded" /\ before'[q] = before[q]
      BY <1>0, <1>5, <2>2 DEF Reads, Authenticate, LookUpOwner, CountKeys, LoadKey, Goto
    <3>2. M = MintedSince(q)
      BY <2>1, <3>1 DEF MintedSince, Minters, App, Owner
    <3> QED
      BY <1>3, <2>1, <3>1, <3>2
  <2>3. CASE q = r
    <3>1. CountKeys(r)
      BY <1>0, <1>5, <2>3 DEF Reads, Authenticate, LookUpOwner, LoadKey, Goto
    <3>2. Cardinality(A) < MaxKeys
      BY <2>1, <2>3, <3>1 DEF CountKeys, BelowLimit
    <3> QED
      BY <1>0, <1>1, <1>2, <2>1, <3>2
  <2> QED
    BY <2>2, <2>3
<1>6. ASSUME NEW r \in Requests, Writes(r) PROVE Cardinality(A) < MaxKeys + Cardinality(M)
  <2>1. q # r /\ pc[q] = "loaded"
    BY <1>0, <1>6 DEF Writes
  <2>2. a \in apps
    <3>1. q \in held
      BY <2>1 DEF IInv, Places, Registers
    <3> QED
      BY <1>0, <3>1, AppExists
  <2>3. MintedSince(q) \subseteq M /\ Cardinality(MintedSince(q)) <= Cardinality(M)
    BY <1>0, <1>2, <1>6, MintedStays, Shrunk
  <2>4. CASE A \subseteq Active(a)
    <3>1. Cardinality(A) \in Nat /\ Cardinality(A) <= Cardinality(Active(a))
      BY <1>1, <2>4, Shrunk
    <3> QED
      BY <1>0, <1>1, <1>2, <1>3, <2>1, <2>3, <3>1
  <2>5. CASE Mints(r) /\ App(r) = a /\ \E m : A \subseteq Active(a) \cup {m}
    <3>1. Cardinality(A) \in Nat /\ Cardinality(A) <= Cardinality(Active(a)) + 1
      BY <1>1, <2>5, GrownByOne
    <3>2. r \in M /\ r \notin MintedSince(q)
      BY <1>0, <1>6, <2>5, MintedStays
    <3>3. Cardinality(MintedSince(q)) + 1 <= Cardinality(M)
      BY <1>1, <1>2, <2>3, <3>2, Enlarged
    <3> QED
      BY <1>0, <1>1, <1>2, <1>3, <2>1, <3>1, <3>3
  <2> QED
    BY <1>0, <1>6, <2>2, <2>4, <2>5, ActiveGrows
<1> QED
  BY <1>4, <1>5, <1>6, StepKinds

(***************************************************************************)
(* What a rotation has found stays true until it writes.                   *)
(***************************************************************************)
LEMMA StepRotations ==
  ASSUME IInv, LimitInv, [Next]_vars, KeysOwned'
  PROVE  RotationsCounted'
<1>0. /\ KeysOwned /\ MaxKeys \in Nat /\ Places
      /\ before \in [Requests -> SUBSET Requests]
      /\ pc \in [Requests -> {"sent", "stamped", "open", "routed", "loaded",
                             "closing", "done", "unlogged"}]
  BY GatewayAssumption DEF LimitInv, IInv, TypeOK
<1> SUFFICES ASSUME NEW q \in Requests, Call[q].kind = "rotate",
                    pc'[q] = "loaded" \/ (pc'[q] = "routed" /\ Call[q].target = Call[q].key),
                    NEW a, a = App(q), NEW A, A = Active(a)', NEW S, S = Surplus(a)',
                    NEW M, M = MintedSince(q)'
             PROVE  M # {} \/ Cardinality(A \cup {Call[q].target}) <= MaxKeys + Cardinality(S)
  BY DEF RotationsCounted, App, Owner
<1> DEFINE T == Call[q].target
           Bounded == M # {} \/ Cardinality(A \cup {T}) <= MaxKeys + Cardinality(S)
           Finding == pc[q] = "loaded" \/ (pc[q] = "routed" /\ T = Call[q].key)
<1>1. /\ IsFiniteSet(Active(a)) /\ Cardinality(Active(a)) \in Nat
      /\ IsFiniteSet(Surplus(a)) /\ Cardinality(Surplus(a)) \in Nat
      /\ IsFiniteSet(Active(a) \cup {T})
  <2>1. IsFiniteSet(Active(a)) /\ IsFiniteSet(Surplus(a))
    BY <1>0, FiniteCounts
  <2> QED
    BY <2>1, FS_CardinalityType, FS_AddElement
<1>2. IsFiniteSet(S) /\ Cardinality(S) \in Nat
  <2>1. IsFiniteSet(wrote')
    BY DEF KeysOwned
  <2>2. S \subseteq wrote'
    BY DEF Surplus, Minters
  <2> QED
    BY <2>1, <2>2, Shrunk
<1>3. Cardinality(Surplus(a)) <= Cardinality(S)
  BY <1>2, SurplusGrows, Shrunk
<1>4. Finding => \/ MintedSince(q) # {}
                 \/ Cardinality(Active(a) \cup {T}) <= MaxKeys + Cardinality(Surplus(a))
  BY DEF LimitInv, RotationsCounted
<1>5. ASSUME Finding, A \subseteq Active(a), MintedSince(q) \subseteq M PROVE Bounded
  <2>1. A \cup {T} \subseteq Active(a) \cup {T}
    BY <1>5
  <2>2. /\ Cardinality(A \cup {T}) \in Nat /\ Cardinality(Active(a) \cup {T}) \in Nat
        /\ Cardinality(A \cup {T}) <= Cardinality(Active(a) \cup {T})
    BY <1>1, <2>1, Shrunk
  <2>3. CASE MintedSince(q) # {}
    BY <1>5, <2>3
  <2>4. CASE Cardinality(Active(a) \cup {T}) <= MaxKeys + Cardinality(Surplus(a))
    <3>1. Cardinality(A \cup {T}) <= MaxKeys + Cardinality(S)
      BY <1>0, <1>1, <1>2, <1>3, <2>2, <2>4
    <3> QED
      BY <3>1
  <2> HIDE DEF Bounded
  <2> QED
    BY <1>4, <1>5, <2>3, <2>4
<1>6. ASSUME a \in apps, A = Active(a), T \in Active(a) PROVE Bounded
  <2>1. A \cup {T} \subseteq Active(a)
    BY <1>6
  <2>2. Cardinality(Active(a)) <= MaxKeys + Cardinality(Surplus(a))
    BY <1>6 DEF LimitInv, KeysBounded
  <2>3. /\ Cardinality(A \cup {T}) \in Nat /\ Cardinality(Active(a)) \in Nat
        /\ Cardinality(A \cup {T}) <= Cardinality(Active(a))
    BY <1>1, <2>1, Shrunk
  <2>4. Cardinality(A \cup {T}) <= MaxKeys + Cardinality(S)
    BY <1>0, <1>1, <1>2, <1>3, <2>2, <2>3
  <2> QED
    BY <2>4
<1>7. CASE Idles
  <2>1. Finding /\ A = Active(a) /\ M = MintedSince(q)
    BY <1>7 DEF Idles, keyVars, Active, Owner, MintedSince, Minters, App
  <2> HIDE DEF Bounded, Finding
  <2>2. Bounded
    BY <1>5, <2>1
  <2> QED
    BY <2>2 DEF Bounded
<1>8. ASSUME NEW r \in Requests, Reads(r) PROVE Bounded
  <2>1. A = Active(a) /\ UNCHANGED <<apps, issued, revoked, wrote>>
    BY <1>8 DEF Reads, keyVars, Active, Owner
  <2>2. ASSUME Finding, before'[q] = before[q] PROVE Bounded
    <3>1. M = MintedSince(q)
      BY <2>1, <2>2 DEF MintedSince, Minters, App, Owner
    <3> HIDE DEF Bounded, Finding
    <3> QED
      BY <1>5, <2>1, <2>2, <3>1
  <2>3. CASE q # r
    <3>1. Finding /\ before'[q] = before[q]
      BY <1>0, <1>8, <2>3 DEF Reads, Authenticate, LookUpOwner, CountKeys, LoadKey, Goto
    <3> HIDE DEF Bounded, Finding
    <3> QED
      BY <2>2, <3>1
  <2>4. CASE q = r /\ Authenticate(r)
    <3>1. Call[r].key \in issued \ revoked
      BY <2>4, AuthenticatedActive
    <3>2. T = Call[r].key
      BY <1>0, <2>4 DEF Authenticate, Goto
    <3>3. a \in apps /\ T \in Active(a)
      BY <1>0, <2>4, <3>1, <3>2 DEF KeysOwned, App, Active
    <3> HIDE DEF Bounded, T
    <3> QED
      BY <1>6, <2>1, <3>3
  <2>5. CASE q = r /\ LoadKey(r)
    <3>1. pc[r] = "routed" /\ r \in held
      BY <1>0, <2>5 DEF LoadKey, Goto, Places
    <3>2. CASE T = Call[r].key
      <4>1. Finding /\ before'[q] = before[q]
        BY <1>0, <2>5, <3>1, <3>2 DEF LoadKey
      <4> HIDE DEF Bounded, Finding
      <4> QED
        BY <2>2, <4>1
    <3>3. CASE T # Call[r].key
      <4>1. T \in Active(a)
        BY <2>5, <3>3 DEF LoadKey, Usable, Active
      <4>2. a \in apps
        BY <1>0, <2>5, <3>1, AppExists
      <4> HIDE DEF Bounded, T
      <4> QED
        BY <1>6, <2>1, <4>1, <4>2
    <3> QED
      BY <3>2, <3>3
  <2>6. q = r => Authenticate(r) \/ LoadKey(r)
    BY <1>8 DEF Reads, LookUpOwner, CountKeys
  <2> HIDE DEF Bounded
  <2> QED
    BY <2>3, <2>4, <2>5, <2>6
<1>9. ASSUME NEW r \in Requests, Writes(r) PROVE Bounded
  <2>1. Finding /\ q # r
    BY <1>0, <1>9 DEF Writes
  <2>2. a \in apps
    <3>1. q \in held
      BY <1>0, <2>1 DEF Places, Registers
    <3> QED
      BY <1>0, <3>1, AppExists
  <2>3. MintedSince(q) \subseteq M /\ (Mints(r) /\ App(r) = a => r \in M)
    BY <1>0, <1>9, MintedStays
  <2>4. A \subseteq Active(a) \/ (Mints(r) /\ App(r) = a)
    BY <1>0, <1>9, <2>2, ActiveGrows
  <2>5. CASE Mints(r) /\ App(r) = a
    BY <2>3, <2>5
  <2>6. CASE A \subseteq Active(a)
    <3> HIDE DEF Bounded, Finding
    <3> QED
      BY <1>5, <2>1, <2>3, <2>6
  <2> HIDE DEF Bounded
  <2> QED
    BY <2>4, <2>5, <2>6
<1> HIDE DEF Bounded
<1>10. Bounded
  BY <1>7, <1>8, <1>9, StepKinds DEF Bounded
<1> QED
  BY <1>10 DEF Bounded

(***************************************************************************)
(* An application has more than MaxKeys active keys only by as many as its *)
(* requests have minted in an overlap: the count of create_api_key is read *)
(* before the INSERT and rotate_api_key does not count at all.             *)
(***************************************************************************)
THEOREM KeysLimited == Spec => []KeysBounded
<1>1. Init => LimitInv
  <2> SUFFICES ASSUME Init PROVE LimitInv
    OBVIOUS
  <2>1. ASSUME NEW k \in issued PROVE Owner(k) = k.by /\ k.by \in Founders
    BY <2>1, GatewayAssumption DEF Init, Owner
  <2>2. ASSUME NEW a
        PROVE  /\ IsFiniteSet(OwnedBy(a)) /\ IsFiniteSet(Active(a))
               /\ Cardinality(Active(a)) \in Nat /\ Cardinality(Active(a)) <= 2
    <3> DEFINE L == [by |-> a, sandbox |-> FALSE]
               D == [by |-> a, sandbox |-> TRUE]
    <3>1. OwnedBy(a) \subseteq {L, D}
      BY <2>1 DEF OwnedBy, Init
    <3>2. Active(a) \subseteq {L, D}
      BY <2>1 DEF Active, Init
    <3> HIDE DEF L, D
    <3> QED
      BY <3>1, <3>2, PairBound
  <2>3. \A a : Surplus(a) = {}
    BY DEF Surplus, Minters, Init
  <2>4. KeysOwned
    BY <2>1, <2>2, FS_EmptySet DEF KeysOwned, Init
  <2>5. KeysBounded
    <3>1. Cardinality({}) = 0 /\ MaxKeys \in Nat /\ MaxKeys >= 2
      BY FS_EmptySet, GatewayAssumption
    <3> QED
      BY <2>2, <2>3, <3>1 DEF KeysBounded
  <2> QED
    BY <2>4, <2>5 DEF LimitInv, CreationsCounted, RotationsCounted, Init
<1>2. IInv /\ LimitInv /\ [Next]_vars => LimitInv'
  <2> SUFFICES ASSUME IInv, LimitInv, [Next]_vars PROVE LimitInv'
    OBVIOUS
  <2>1. KeysOwned'
    BY StepOwned DEF LimitInv
  <2> QED
    BY <2>1, StepCreations, StepRotations, StepKeysBounded DEF LimitInv
<1>3. LimitInv => KeysBounded
  BY DEF LimitInv
<1> QED
  BY <1>1, <1>2, <1>3, Inductive, PTL DEF Spec
-----------------------------------------------------------------------------
(***************************************************************************)
(* A set within a finite one.                                              *)
(***************************************************************************)
LEMMA PartCount ==
  ASSUME NEW T, IsFiniteSet(T), NEW S, S \subseteq T
  PROVE  /\ IsFiniteSet(S) /\ Cardinality(S) \in Nat /\ Cardinality(T) \in Nat
         /\ Cardinality(S) <= Cardinality(T)
BY FS_Subset, FS_CardinalityType

(***************************************************************************)
(* A set that two finite ones cover.                                       *)
(***************************************************************************)
LEMMA CoverCount ==
  ASSUME NEW T, IsFiniteSet(T), NEW U, IsFiniteSet(U), NEW S, S \subseteq T \cup U
  PROVE  /\ IsFiniteSet(S) /\ Cardinality(S) \in Nat
         /\ Cardinality(T) \in Nat /\ Cardinality(U) \in Nat
         /\ Cardinality(S) <= Cardinality(T) + Cardinality(U)
<1>1. /\ IsFiniteSet(T \cup U) /\ IsFiniteSet(T \cap U)
      /\ Cardinality(T \cup U) = Cardinality(T) + Cardinality(U) - Cardinality(T \cap U)
  BY FS_Union, FS_Intersection
<1>2. /\ Cardinality(T) \in Nat /\ Cardinality(U) \in Nat /\ Cardinality(T \cap U) \in Nat
  BY <1>1, FS_CardinalityType
<1>3. /\ IsFiniteSet(S) /\ Cardinality(S) \in Nat /\ Cardinality(S) <= Cardinality(T \cup U)
  BY <1>1, PartCount
<1> QED
  BY <1>1, <1>2, <1>3

(***************************************************************************)
(* The rows that may be visible, and those newer than a row.               *)
(***************************************************************************)
LEMMA NewerType ==
  ASSUME NEW V, V \subseteq Rows, NEW r
  PROVE  /\ IsFiniteSet(V) /\ Cardinality(V) \in Nat
         /\ Cardinality({x \in V : x > r}) \in Nat
<1>1. IsFiniteSet(V)
  BY HistoriesAssumption, FS_Subset
<1>2. {x \in V : x > r} \subseteq V
  OBVIOUS
<1> QED
  BY <1>1, <1>2, PartCount

(***************************************************************************)
(* A row moves behind others only; it is behind fewer rows than there are. *)
(***************************************************************************)
LEMMA NewerGrows ==
  ASSUME NEW V, NEW W, W \subseteq Rows, V \subseteq W, NEW r \in V
  PROVE  /\ Cardinality({x \in V : x > r}) <= Cardinality({x \in W : x > r})
         /\ Cardinality({x \in V : x > r}) < Cardinality(V)
<1>1. {x \in V : x > r} \subseteq {x \in W : x > r} /\ IsFiniteSet({x \in W : x > r})
  <2>1. {x \in W : x > r} \subseteq Rows
    OBVIOUS
  <2> QED
    BY <2>1, HistoriesAssumption, FS_Subset
<1>2. Cardinality({x \in V : x > r}) <= Cardinality({x \in W : x > r})
  BY <1>1, PartCount
<1>3. {x \in V : x > r} \subseteq V \ {r}
  <2>1. r \in Nat
    BY HistoriesAssumption
  <2> QED
    BY <2>1
<1>4. IsFiniteSet(V) /\ IsFiniteSet(V \ {r}) /\ Cardinality(V \ {r}) = Cardinality(V) - 1
  <2>1. IsFiniteSet(V)
    BY HistoriesAssumption, FS_Subset
  <2> QED
    BY <2>1, FS_RemoveElement
<1>5. /\ Cardinality({x \in V : x > r}) <= Cardinality(V \ {r})
      /\ Cardinality({x \in V : x > r}) \in Nat /\ Cardinality(V) \in Nat
  BY <1>3, <1>4, PartCount, FS_CardinalityType
<1> QED
  BY <1>2, <1>4, <1>5

(***************************************************************************)
(* One page more.                                                          *)
(***************************************************************************)
LEMMA OneMore ==
  ASSUME NEW k \in Int, NEW n \in Int
  PROVE  k * n = (k - 1) * n + n
OBVIOUS

(***************************************************************************)
(* The rows before a page and those up to its end.                         *)
(***************************************************************************)
LEMMA PageEnds ==
  ASSUME NEW k \in Nat \ {0}, page = k
  PROVE  /\ Skip \in Nat /\ Skip + PageSize \in Nat
         /\ k * PageSize = Skip + PageSize
<1>1. PageSize \in Nat /\ k - 1 \in Nat /\ k \in Int
  BY HistoriesAssumption
<1>2. (k - 1) * PageSize \in Nat
  BY <1>1
<1>3. k * PageSize = (k - 1) * PageSize + PageSize
  BY <1>1, OneMore
<1> QED
  BY <1>1, <1>2, <1>3 DEF Skip

(***************************************************************************)
(* The last page reaches the end of what was counted.                      *)
(***************************************************************************)
LEMMA LastPage ==
  ASSUME NEW n \in Nat, NEW k \in Nat \ {0}, page = k, ~HasNext(n)
  PROVE  n <= Skip + PageSize
<1>1. PageSize \in Nat /\ PageSize > 0 /\ Skip \in Nat /\ Skip + PageSize = k * PageSize
  BY HistoriesAssumption, PageEnds
<1>2. CASE n > 0
  <2> DEFINE q == (n + PageSize - 1) \div PageSize
  <2>1. q \in Int /\ n + PageSize - 1 < (q + 1) * PageSize
    BY <1>1
  <2>2. q <= k
    BY <1>2, <2>1 DEF HasNext, Pages
  <2> HIDE DEF q
  <2>3. (k - q) * PageSize >= 0
    BY <1>1, <2>1, <2>2
  <2>4. (k - q) * PageSize = k * PageSize - q * PageSize
    BY <1>1, <2>1
  <2>5. (q + 1) * PageSize = q * PageSize + PageSize
    BY <1>1, <2>1
  <2>6. q * PageSize \in Int
    BY <1>1, <2>1
  <2> QED
    BY <1>1, <2>1, <2>3, <2>4, <2>5, <2>6
<1> QED
  BY <1>1, <1>2

(***************************************************************************)
(* Listing a page leaves unseen only what is behind it.                    *)
(***************************************************************************)
LEMMA PageShown ==
  ASSUME Walking, Behind(Skip), seen' = seen \cup Page, visible' = visible
  PROVE  \A r \in Existing \ seen' : Newer(r) >= Skip + PageSize
<1> SUFFICES ASSUME NEW r \in Existing \ seen' PROVE Newer(r) >= Skip + PageSize
  OBVIOUS
<1>1. r \in visible /\ r \notin Page /\ r \in Existing \ seen
  BY DEF Walking
<1>2. Newer(r) >= Skip
  BY <1>1 DEF Behind
<1>3. Newer(r) \in Nat
  BY NewerType DEF Walking, Newer
<1>4. Skip \in Nat /\ Skip + PageSize \in Nat
  BY PageEnds DEF Walking
<1> QED
  BY <1>1, <1>2, <1>3, <1>4 DEF Page

(***************************************************************************)
(* When there is no next page, everything counted has been shown.          *)
(***************************************************************************)
LEMMA AllShown ==
  ASSUME Walking, NEW S, \A r \in Existing \ S : Newer(r) >= Skip + PageSize,
         ~HasNext(Cardinality(visible))
  PROVE  Existing \subseteq S
<1> SUFFICES ASSUME NEW r \in Existing \ S PROVE FALSE
  OBVIOUS
<1>1. Newer(r) \in Nat /\ Cardinality(visible) \in Nat
  BY NewerType DEF Walking, Newer
<1>2. Cardinality(visible) <= Skip + PageSize
  BY <1>1, LastPage DEF Walking
<1>3. Newer(r) < Cardinality(visible)
  BY NewerGrows DEF Walking, Newer
<1>4. Newer(r) >= Skip + PageSize
  OBVIOUS
<1>5. Skip + PageSize \in Nat
  BY PageEnds DEF Walking
<1> QED
  BY <1>1, <1>2, <1>3, <1>4, <1>5

(***************************************************************************)
(* The answer leads to the next page or ends the walk.                     *)
(***************************************************************************)
LEMMA AnswerPageMoves ==
  ASSUME Walking, NEW n, AnswerPage(n)
  PROVE  /\ page' \in Nat \ {0}
         /\ HasNext(n) => step' = "asked" /\ Skip' = Skip + PageSize
         /\ ~HasNext(n) => step' = "finished" /\ page' = page
<1>1. page \in Nat \ {0}
  BY DEF Walking
<1>2. HasNext(n) => step' = "asked" /\ page' = page + 1
  BY DEF AnswerPage
<1>3. ~HasNext(n) => step' = "finished" /\ page' = page
  BY DEF AnswerPage
<1>4. page * PageSize = Skip + PageSize
  BY <1>1, PageEnds
<1>5. ASSUME HasNext(n) PROVE Skip' = Skip + PageSize
  <2>1. page' - 1 = page
    BY <1>1, <1>2, <1>5
  <2>2. Skip' = page * PageSize
    BY <2>1 DEF Skip
  <2> QED
    BY <1>4, <2>2
<1> QED
  BY <1>1, <1>2, <1>3, <1>5

(***************************************************************************)
(* Walks that count first.                                                 *)
(***************************************************************************)
LEMMA CountFirst ==
  ASSUME HistoryInv, CountThenList, list \in Lists, list # "audit"
  PROVE  HistoryInv'
<1> USE DEF HistoryInv
<1>1. CASE Count("asked", "counted")
  <2>1. /\ step = "asked" /\ step' = "counted" /\ total' = Cardinality(visible) /\ late' = {}
        /\ list' = list /\ visible' = visible /\ page' = page /\ seen' = seen
    BY <1>1 DEF Count
  <2>2. Cardinality(visible) \in Nat
    BY NewerType DEF Walking
  <2>3. Walking'
    BY <2>1, <2>2 DEF Walking
  <2>4. Behind(Skip)'
    BY <2>1 DEF Behind, Skip, Newer
  <2> QED
    BY <2>1, <2>3, <2>4 DEF WalkShowsAll
<1>2. CASE /\ step = "counted" /\ seen' = seen \cup Page /\ AnswerPage(total)
           /\ UNCHANGED <<list, visible, total, late>>
  <2>1. Walking
    OBVIOUS
  <2>2. \A r \in Existing \ seen' : Newer(r) >= Skip + PageSize
    BY <1>2, PageShown
  <2>3. /\ page' \in Nat \ {0}
        /\ HasNext(total) => step' = "asked" /\ Skip' = Skip + PageSize
        /\ ~HasNext(total) => step' = "finished" /\ page' = page
    BY <1>2, AnswerPageMoves
  <2>4. Walking'
    BY <1>2, <2>3 DEF Walking
  <2>5. CASE HasNext(total)
    <3>1. step' = "asked" /\ Skip' = Skip + PageSize
      BY <2>3, <2>5
    <3>2. Behind(Skip)'
      BY <1>2, <2>2, <3>1 DEF Behind, Newer
    <3> QED
      BY <2>4, <3>1, <3>2 DEF WalkShowsAll
  <2>6. CASE ~HasNext(total)
    <3>1. step' = "finished"
      BY <2>3, <2>6
    <3>2. late = {} => Existing \subseteq seen'
      <4>1. late = {} => total = Cardinality(visible)
        BY <1>2
      <4> QED
        BY <2>1, <2>2, <2>6, <4>1, AllShown
    <3>3. WalkShowsAll'
      BY <1>2, <3>2 DEF WalkShowsAll
    <3> QED
      BY <2>4, <3>1, <3>3
  <2> QED
    BY <2>5, <2>6
<1> QED
  BY <1>1, <1>2 DEF CountThenList

(***************************************************************************)
(* The walk that lists first.                                              *)
(***************************************************************************)
LEMMA ListFirst ==
  ASSUME HistoryInv, ListThenCount, list \in Lists
  PROVE  HistoryInv'
<1> USE DEF HistoryInv
<1>1. CASE /\ step = "asked" /\ step' = "listed" /\ seen' = seen \cup Page /\ late' = {}
           /\ UNCHANGED <<list, visible, page, total>>
  <2>1. \A r \in Existing \ seen' : Newer(r) >= Skip + PageSize
    BY <1>1, PageShown
  <2>2. Behind(Skip + PageSize)'
    BY <1>1, <2>1 DEF Behind, Newer, Skip
  <2>3. Walking'
    BY <1>1 DEF Walking
  <2> QED
    BY <1>1, <2>2, <2>3 DEF WalkShowsAll
<1>2. CASE /\ step = "listed" /\ total' = Cardinality(visible) /\ AnswerPage(total')
           /\ UNCHANGED <<list, visible, seen, late>>
  <2> DEFINE n == Cardinality(visible)
  <2>1. Walking /\ n \in Nat
    BY NewerType DEF Walking
  <2>2. \A r \in Existing \ seen : Newer(r) >= Skip + PageSize
    BY <1>2 DEF Behind
  <2>3. /\ page' \in Nat \ {0}
        /\ HasNext(n) => step' = "asked" /\ Skip' = Skip + PageSize
        /\ ~HasNext(n) => step' = "finished" /\ page' = page
    <3>1. AnswerPage(n)
      BY <1>2
    <3> QED
      BY <2>1, <3>1, AnswerPageMoves
  <2>4. Walking'
    BY <1>2, <2>1, <2>3 DEF Walking
  <2>5. CASE HasNext(n)
    <3>1. step' = "asked" /\ Skip' = Skip + PageSize
      BY <2>3, <2>5
    <3>2. Behind(Skip)'
      BY <1>2, <2>2, <3>1 DEF Behind, Newer
    <3> QED
      BY <2>4, <3>1, <3>2 DEF WalkShowsAll
  <2>6. CASE ~HasNext(n)
    <3>1. step' = "finished"
      BY <2>3, <2>6
    <3>2. Existing \subseteq seen
      BY <2>1, <2>2, <2>6, AllShown
    <3>3. WalkShowsAll'
      BY <1>2, <3>2 DEF WalkShowsAll
    <3> QED
      BY <2>4, <3>1, <3>3
  <2> QED
    BY <2>5, <2>6
<1> QED
  BY <1>1, <1>2 DEF ListThenCount

(***************************************************************************)
(* A row that becomes visible pushes the others behind, if anything.       *)
(***************************************************************************)
LEMMA InsertWalks ==
  ASSUME HistoryInv, NEW x \in Rows, Insert(x)
  PROVE  HistoryInv'
<1> USE DEF HistoryInv
<1>1. /\ step # "finished" /\ visible' = visible \cup {x} /\ late' = (IF step = "asked" THEN late ELSE late \cup {x})
      /\ list' = list /\ page' = page /\ step' = step /\ total' = total /\ seen' = seen
  BY DEF Insert
<1>2. Walking'
  BY <1>1 DEF Walking
<1>3. ASSUME NEW n \in Nat, Behind(n), NEW r \in Existing \ seen PROVE Newer(r)' >= n
  <2>1. r \in visible /\ visible \subseteq visible' /\ visible' \subseteq Rows
    BY <1>1, <1>2 DEF Walking
  <2>2. Cardinality({y \in visible : y > r}) <= Cardinality({y \in visible' : y > r})
    BY <2>1, NewerGrows
  <2>3. Cardinality({y \in visible : y > r}) \in Nat /\ Cardinality({y \in visible' : y > r}) \in Nat
    <3>1. visible \subseteq Rows
      BY DEF Walking
    <3> QED
      BY <2>1, <3>1, NewerType
  <2>4. Cardinality({y \in visible : y > r}) >= n
    BY <1>3 DEF Behind, Newer
  <2> QED
    BY <2>2, <2>3, <2>4 DEF Newer
<1>4. Skip \in Nat /\ Skip + PageSize \in Nat /\ Skip' = Skip
  BY <1>1, PageEnds DEF Walking, Skip
<1>5. Behind(Skip) => Behind(Skip)'
  BY <1>1, <1>3, <1>4 DEF Behind
<1>6. Behind(Skip + PageSize) => Behind(Skip + PageSize)'
  BY <1>1, <1>3, <1>4 DEF Behind
<1>7. step = "counted" => late' # {}
  BY <1>1
<1> QED
  BY <1>1, <1>2, <1>5, <1>6, <1>7 DEF WalkShowsAll

\* One unit for each of n[c], for each c.
Units(C, n) == UNION {{c} \X (1 .. n[c]) : c \in C}

(***************************************************************************)
(* A finite set, counted by classes.                                       *)
(***************************************************************************)
LEMMA ClassCount ==
  ASSUME NEW C, NEW E, IsFiniteSet(E), NEW class \in [E -> C],
         NEW part, \A c \in C : part[c] \subseteq E,
         \A x \in E, c \in C : x \in part[c] <=> class[x] = c,
         NEW n, \A c \in C : n[c] = Cardinality(part[c])
  PROVE  Cardinality(Units(C, n)) = Cardinality(E)
<1> DEFINE Of(c) == {x \in E : class[x] = c}
           place == [c \in C |-> CHOOSE b : b \in Bijection(Of(c), 1 .. n[c])]
           unit == [x \in E |-> <<class[x], place[class[x]][x]>>]
<1>0. \A c \in C : Of(c) = part[c] /\ n[c] = Cardinality(Of(c))
  OBVIOUS
<1>1. \A c \in C : place[c] \in Bijection(Of(c), 1 .. n[c])
  <2> TAKE c \in C
  <2>1. IsFiniteSet(Of(c))
    <3>1. Of(c) \subseteq E
      OBVIOUS
    <3> QED
      BY <3>1, FS_Subset
  <2>2. ExistsBijection(1 .. n[c], Of(c))
    <3>1. n[c] = Cardinality(Of(c))
      BY <1>0
    <3> QED
      BY <2>1, <3>1, FS_CardinalityType
  <2>3. Bijection(Of(c), 1 .. n[c]) # {}
    BY <2>2, Fun_ExistsBijSymmetric, Fun_ExistsBij
  <2> QED
    BY <2>3
<1>2. \A c \in C : /\ place[c] \in [Of(c) -> 1 .. n[c]]
                  /\ \A x, y \in Of(c) : place[c][x] = place[c][y] => x = y
  <2> TAKE c \in C
  <2> DEFINE S == Of(c)
             T == 1 .. n[c]
             f == place[c]
  <2>1. f \in Bijection(S, T)
    BY <1>1
  <2> HIDE DEF S, T, f
  <2>2. f \in [S -> T] /\ \A x, y \in S : f[x] = f[y] => x = y
    BY <2>1, Fun_BijectionProperties
  <2> QED
    BY <2>2 DEF S, T, f
<1> HIDE DEF place
<1>3. unit \in [E -> Units(C, n)]
  <2> SUFFICES ASSUME NEW x \in E PROVE <<class[x], place[class[x]][x]>> \in Units(C, n)
    OBVIOUS
  <2>1. class[x] \in C /\ x \in Of(class[x])
    OBVIOUS
  <2>2. PICK c \in C : c = class[x]
    BY <2>1
  <2>3. place[c][x] \in 1 .. n[c]
    <3> DEFINE S == Of(c)
               T == 1 .. n[c]
    <3>1. place[c] \in [S -> T] /\ x \in S
      BY <1>2, <2>1, <2>2
    <3> HIDE DEF S, T
    <3>2. place[c][x] \in T
      BY <3>1
    <3> QED
      BY <3>2 DEF T
  <2>4. <<c, place[c][x]>> \in Units(C, n)
    BY <2>3 DEF Units
  <2> QED
    BY <2>2, <2>4
<1>4. \A x, y \in E : unit[x] = unit[y] => x = y
  <2> SUFFICES ASSUME NEW x \in E, NEW y \in E, unit[x] = unit[y] PROVE x = y
    OBVIOUS
  <2>1. PICK c \in C : c = class[x]
    OBVIOUS
  <2>2. c = class[y] /\ place[c][x] = place[c][y]
    BY <2>1
  <2>3. x \in Of(c) /\ y \in Of(c)
    BY <2>1, <2>2
  <2>4. \A v, w \in Of(c) : place[c][v] = place[c][w] => v = w
    BY <1>2
  <2> HIDE DEF Of
  <2> QED
    BY <2>2, <2>3, <2>4
<1>5. \A u \in Units(C, n) : \E x \in E : unit[x] = u
  <2> TAKE u \in Units(C, n)
  <2>1. PICK c \in C : u \in {c} \X (1 .. n[c])
    BY DEF Units
  <2>2. PICK i \in 1 .. n[c] : u = <<c, i>>
    BY <2>1
  <2>3. \E x \in Of(c) : place[c][x] = i
    <3> DEFINE S == Of(c)
               T == 1 .. n[c]
    <3>1. place[c] \in Bijection(S, T) /\ i \in T
      BY <1>1
    <3> HIDE DEF S, T
    <3>2. \E x \in S : place[c][x] = i
      BY <3>1, Fun_BijectionProperties
    <3> QED
      BY <3>2 DEF S
  <2>4. PICK x \in Of(c) : place[c][x] = i
    BY <2>3
  <2> QED
    BY <2>2, <2>4
<1>6. unit \in Bijection(E, Units(C, n))
  <2> HIDE DEF unit
  <2> QED
    BY <1>3, <1>4, <1>5, Fun_IsBij
<1>7. ExistsBijection(E, Units(C, n))
  BY <1>6, Fun_ExistsBij
<1> QED
  BY <1>7, FS_Bijection

(***************************************************************************)
(* The newest of a finite set of numbers, up to a limit: as many as the    *)
(* limit, or all of them.                                                  *)
(***************************************************************************)
LEMMA NewestCount ==
  ASSUME NEW S, S \subseteq Nat, IsFiniteSet(S), NEW n \in Nat
  PROVE  LET top == {r \in S : Cardinality({x \in S : x > r}) < n}
         IN  Cardinality(top) >= n \/ top = S
<1> DEFINE Above(r) == {x \in S : x > r}
           top == {r \in S : Cardinality(Above(r)) < n}
           Rest == {Above(r) : r \in S \ top}
<1> SUFFICES ASSUME top # S PROVE Cardinality(top) >= n
  OBVIOUS
<1>1. Rest \subseteq FiniteSubsetsOf(S) /\ Rest # {}
  <2>1. \A r \in S : Above(r) \subseteq S /\ IsFiniteSet(Above(r))
    BY FS_Subset
  <2> QED
    BY <2>1 DEF FiniteSubsetsOf
<1>2. PICK m \in S \ top : \A r \in S \ top : <<Above(r), Above(m)>> \notin StrictSubsetOrdering(S)
  <2>1. PICK A \in Rest : \A B \in Rest : <<B, A>> \notin StrictSubsetOrdering(S)
    <3> HIDE DEF Rest
    <3> QED
      BY <1>1, FS_StrictSubsetOrderingWellFounded, WFMin
  <2> QED
    BY <2>1
<1>3. Above(m) \subseteq top
  <2> SUFFICES ASSUME NEW r \in S \ top, r > m PROVE FALSE
    OBVIOUS
  <2>1. m \in S /\ r \in S /\ m \in Nat /\ r \in Nat /\ S \subseteq Nat
    OBVIOUS
  <2> HIDE DEF top
  <2>2. Above(r) \subseteq Above(m) /\ r \in Above(m) /\ r \notin Above(r)
    <3>1. r \in Above(m)
      BY <2>1
    <3>2. r \notin Above(r)
      BY <2>1
    <3>3. ASSUME NEW x \in Above(r) PROVE x \in Above(m)
      <4>1. x \in S /\ x > r /\ x \in Nat
        BY <2>1
      <4>2. x > m
        BY <2>1, <4>1
      <4> QED
        BY <4>1, <4>2
    <3> QED
      BY <3>1, <3>2, <3>3
  <2>3. Above(r) \in SUBSET S /\ Above(m) \in SUBSET S /\ Above(r) # Above(m)
    BY <2>2
  <2>4. <<Above(r), Above(m)>> \in StrictSubsetOrdering(S)
    <3> HIDE DEF Above
    <3> QED
      BY <2>2, <2>3 DEF StrictSubsetOrdering
  <2> QED
    BY <1>2, <2>4
<1>4. IsFiniteSet(top) /\ IsFiniteSet(Above(m)) /\ Cardinality(Above(m)) <= Cardinality(top)
  <2>1. top \subseteq S
    OBVIOUS
  <2>2. IsFiniteSet(top)
    BY <2>1, FS_Subset
  <2> HIDE DEF top, Above
  <2> QED
    BY <1>3, <2>2, PartCount
<1>5. ~(Cardinality(Above(m)) < n)
  OBVIOUS
<1>6. Cardinality(Above(m)) \in Nat /\ Cardinality(top) \in Nat
  BY <1>4, FS_CardinalityType
<1> HIDE DEF top, Above
<1> QED
  BY <1>4, <1>5, <1>6

(***************************************************************************)
(* Rows of the log, their errors, and those of the application that asks.  *)
(***************************************************************************)
LEMMA RowCount ==
  ASSUME NEW S, S \subseteq Rows
  PROVE  /\ S \subseteq Nat /\ IsFiniteSet(S) /\ Cardinality(S) \in Nat
         /\ Errors(S) \subseteq S /\ IsFiniteSet(Errors(S)) /\ Cardinality(Errors(S)) \in Nat
         /\ Own(S) \subseteq S /\ IsFiniteSet(Own(S)) /\ Cardinality(Own(S)) \in Nat
<1>1. S \subseteq Nat /\ Errors(S) \subseteq S /\ Own(S) \subseteq S
  BY HistoriesAssumption DEF Errors, Own
<1> QED
  BY <1>1, HistoriesAssumption, FS_Subset, FS_CardinalityType

(***************************************************************************)
(* The rows of the window are visible.                                     *)
(***************************************************************************)
LEMMA WindowRows ==
  ASSUME Walking, Tallied
  PROVE  /\ visible \subseteq Rows /\ Reported \subseteq visible /\ Reported \subseteq Rows
         /\ tallied \subseteq Rows /\ slid \subseteq Rows /\ late \subseteq Rows
         /\ Listed \subseteq visible
BY DEF Walking, Tallied, Reported, Listed, Own

(***************************************************************************)
(* The figure by service stays within its bounds while they move apart.    *)
(***************************************************************************)
LEMMA BoundsWiden ==
  ASSUME Walking, Tallied, ServicesAgree, Cardinality(Classified) \in Nat,
         report' = report, tallied' = tallied, late \subseteq late', slid \subseteq slid',
         late' \subseteq Rows, slid' \subseteq Rows
  PROVE  ServicesAgree' /\ Cardinality(Classified)' \in Nat
<1> DEFINE others == Cardinality({r \in Errors(tallied) : Entry[r].service = NoService})
           c == Cardinality(Classified)
<1>1. c' = c /\ others' = others
  BY DEF Classified, Errors
<1>2. report.errors \in Nat /\ others \in Nat
  <2>1. {r \in Errors(tallied) : Entry[r].service = NoService} \subseteq Rows
    BY WindowRows, RowCount
  <2> QED
    BY <2>1, RowCount DEF Tallied
<1>3. /\ Cardinality(Errors(late)) <= Cardinality(Errors(late'))
      /\ Cardinality(Errors(slid)) <= Cardinality(Errors(slid'))
      /\ Cardinality(Errors(late)) \in Nat /\ Cardinality(Errors(late')) \in Nat
      /\ Cardinality(Errors(slid)) \in Nat /\ Cardinality(Errors(slid')) \in Nat
  <2>1. /\ Errors(late) \subseteq Errors(late') /\ Errors(slid) \subseteq Errors(slid')
    BY DEF Errors
  <2>2. IsFiniteSet(Errors(late')) /\ IsFiniteSet(Errors(slid'))
    BY RowCount
  <2> QED
    BY <2>1, <2>2, PartCount
<1>4. /\ report.errors - others - Cardinality(Errors(slid)) <= c
      /\ c <= report.errors - others + Cardinality(Errors(late))
  BY DEF ServicesAgree
<1>5. /\ Errors(late)' = Errors(late') /\ Errors(slid)' = Errors(slid')
  BY DEF Errors
<1>6. /\ report'.errors - others' - Cardinality(Errors(slid')) <= c'
      /\ c' <= report'.errors - others' + Cardinality(Errors(late'))
  <2> HIDE DEF others, c
  <2>1. c \in Nat
    BY DEF c
  <2> QED
    BY <1>1, <1>2, <1>3, <1>4, <2>1
<1> QED
  BY <1>1, <1>5, <1>6 DEF ServicesAgree

(***************************************************************************)
(* get_overview_stats starts the bookkeeping.                              *)
(***************************************************************************)
LEMMA OverviewStarts ==
  ASSUME Walking, DashboardInv, Overview
  PROVE  DashboardInv'
<1>1. /\ list = "dashboard" /\ step = "asked" /\ step' = "overview" /\ list' = list
      /\ visible' = visible /\ since' = since /\ slid' = slid /\ tallied' = Reported /\ late' = {}
      /\ report' = [report EXCEPT !.calls = Cardinality(Reported), !.errors = Cardinality(Errors(Reported))]
  BY DEF Overview, Figure
<1>2. slid = {}
  BY <1>1 DEF DashboardInv, Tallied
<1>3. Reported' = Reported
  BY <1>1 DEF Reported
<1>4. Tallied
  BY DEF DashboardInv
<1>5. Cardinality(Reported) \in Nat /\ Cardinality(Errors(Reported)) \in Nat
  BY <1>4, WindowRows, RowCount
<1>6. Tallied' /\ report'.calls = Cardinality(Reported) /\ report'.errors = Cardinality(Errors(Reported))
  BY <1>1, <1>2, <1>4, <1>5, WindowRows DEF Tallied
<1>7. Errors(tallied)' = Errors(Reported)
  BY <1>1 DEF Errors
<1>8. WindowMoved'
  BY <1>1, <1>2, <1>3, <1>6, <1>7 DEF WindowMoved
<1> QED
  BY <1>1, <1>6, <1>8 DEF DashboardInv, DashboardAgrees

(***************************************************************************)
(* The errors of the services: every row of the window that has a service  *)
(* is counted for one of them.                                             *)
(***************************************************************************)
LEMMA ServicesCounted ==
  ASSUME Walking, Tallied, report'.byService = [s \in Services |-> Cardinality(ServiceErrors(s))]
  PROVE  Cardinality(Classified)' =
           Cardinality({r \in Errors(Reported) : Entry[r].service \in Services})
<1> DEFINE E == {r \in Errors(Reported) : Entry[r].service \in Services}
           class == [r \in E |-> Entry[r].service]
           n == report'.byService
<1>1. IsFiniteSet(E) /\ class \in [E -> Services]
  <2>1. E \subseteq Rows
    BY WindowRows, RowCount
  <2> QED
    BY <2>1, RowCount
<1> DEFINE part == [s \in Services |-> ServiceErrors(s)]
<1>2. /\ \A s \in Services : part[s] \subseteq E
      /\ \A r \in E, s \in Services : r \in part[s] <=> class[r] = s
  BY DEF ServiceErrors, Errors
<1>3. \A s \in Services : n[s] = Cardinality(part[s])
  OBVIOUS
<1>4. Cardinality(Units(Services, n)) = Cardinality(E)
  <2> HIDE DEF n, class, E, part
  <2> QED
    BY <1>1, <1>2, <1>3, ClassCount
<1> QED
  BY <1>4 DEF Classified, Units

(***************************************************************************)
(* get_stats_by_service: its window differs from that of the overview by   *)
(* the rows of the two histories.                                          *)
(***************************************************************************)
LEMMA ServicesBounded ==
  ASSUME Walking, Tallied, WindowMoved
  PROVE  LET n == Cardinality({r \in Errors(Reported) : Entry[r].service \in Services})
             others == Cardinality({r \in Errors(tallied) : Entry[r].service = NoService})
         IN  /\ n \in Nat
             /\ report.errors - others - Cardinality(Errors(slid)) <= n
             /\ n <= report.errors - others + Cardinality(Errors(late))
<1> DEFINE E == {r \in Errors(Reported) : Entry[r].service \in Services}
           A == Errors(tallied)
           O == {r \in A : Entry[r].service = NoService}
<1>1. /\ E \subseteq Rows /\ A \subseteq Rows /\ O \subseteq A /\ A \ O \subseteq Rows
      /\ Errors(slid) \subseteq Rows /\ Errors(late) \subseteq Rows
  BY WindowRows, RowCount
<1>2. E \subseteq (A \ O) \cup Errors(late)
  <2>1. Reported \subseteq tallied \cup late
    BY DEF WindowMoved
  <2> QED
    BY <2>1, MonitoringAssumption DEF Errors
<1>3. A \ O \subseteq E \cup Errors(slid)
  <2>1. tallied \ slid \subseteq Reported
    BY DEF WindowMoved
  <2> SUFFICES ASSUME NEW r \in A \ O, r \notin Errors(slid) PROVE r \in E
    OBVIOUS
  <2>2. r \in Rows /\ Entry[r].service \in Services
    BY <1>1, MonitoringAssumption
  <2> QED
    BY <2>1, <2>2 DEF Errors
<1>4. /\ IsFiniteSet(E) /\ IsFiniteSet(A) /\ IsFiniteSet(O) /\ IsFiniteSet(A \ O)
      /\ IsFiniteSet(Errors(slid)) /\ IsFiniteSet(Errors(late))
  <2> HIDE DEF E, A, O
  <2>1. O \subseteq Rows
    BY <1>1
  <2> QED
    BY <1>1, <2>1, RowCount
<1>5. report.errors = Cardinality(A)
  BY DEF WindowMoved
<1> HIDE DEF E, A, O
<1>6. Cardinality(A \ O) = Cardinality(A) - Cardinality(O)
  <2>1. Cardinality(A \ O) = Cardinality(A) - Cardinality(A \cap O)
    BY <1>4, FS_Difference
  <2>2. A \cap O = O
    BY <1>1
  <2> QED
    BY <2>1, <2>2
<1>7. /\ Cardinality(E) \in Nat /\ Cardinality(A) \in Nat /\ Cardinality(O) \in Nat
      /\ Cardinality(Errors(slid)) \in Nat /\ Cardinality(Errors(late)) \in Nat
  BY <1>4, FS_CardinalityType
<1>8. Cardinality(E) <= Cardinality(A \ O) + Cardinality(Errors(late))
  BY <1>2, <1>4, CoverCount
<1>9. Cardinality(A \ O) <= Cardinality(E) + Cardinality(Errors(slid))
  BY <1>3, <1>4, CoverCount
<1>10. /\ Cardinality(E) \in Nat
       /\ report.errors - Cardinality(O) - Cardinality(Errors(slid)) <= Cardinality(E)
       /\ Cardinality(E) <= report.errors - Cardinality(O) + Cardinality(Errors(late))
  BY <1>5, <1>6, <1>7, <1>8, <1>9
<1> QED
  BY <1>10 DEF E, O, A

(***************************************************************************)
(* get_stats_by_service.                                                   *)
(***************************************************************************)
LEMMA ByServiceKeeps ==
  ASSUME Walking, DashboardInv, ByService
  PROVE  DashboardInv'
<1>1. /\ list = "dashboard" /\ step = "overview" /\ step' = "services" /\ list' = list
      /\ visible' = visible /\ since' = since /\ slid' = slid /\ tallied' = tallied /\ late' = late
      /\ report' = [report EXCEPT !.byService = [s \in Services |-> Cardinality(ServiceErrors(s))]]
  BY DEF ByService, Figure
<1>2. Tallied /\ WindowMoved
  BY <1>1 DEF DashboardInv
<1>3. /\ report'.byService = [s \in Services |-> Cardinality(ServiceErrors(s))]
      /\ report'.errors = report.errors /\ report'.calls = report.calls
  BY <1>1, <1>2 DEF Tallied
<1>4. \A s \in Services : Cardinality(ServiceErrors(s)) \in Nat
  <2> TAKE s \in Services
  <2>1. {r \in Reported : Entry[r].service = s} \subseteq Rows
    BY <1>2, WindowRows
  <2> QED
    BY <2>1, RowCount DEF ServiceErrors
<1>5. Tallied'
  BY <1>1, <1>2, <1>4 DEF Tallied
<1>6. WindowMoved'
  BY <1>1, <1>2, <1>3 DEF WindowMoved, Reported, Errors
<1>7. Cardinality(Classified)' = Cardinality({r \in Errors(Reported) : Entry[r].service \in Services})
  BY <1>2, <1>3, ServicesCounted
<1>8. ServicesAgree' /\ Cardinality(Classified)' \in Nat
  BY <1>1, <1>2, <1>3, <1>7, ServicesBounded DEF ServicesAgree, Errors
<1> QED
  BY <1>1, <1>5, <1>6, <1>8 DEF DashboardInv, DashboardAgrees

(***************************************************************************)
(* A step that leaves the figure by service alone.                         *)
(***************************************************************************)
LEMMA SameFigure ==
  ASSUME ServicesAgree, Cardinality(Classified) \in Nat,
         report'.byService = report.byService, report'.errors = report.errors,
         UNCHANGED <<tallied, slid, late>>
  PROVE  ServicesAgree' /\ Cardinality(Classified)' \in Nat
BY DEF ServicesAgree, Classified, Errors

(***************************************************************************)
(* get_calls_per_day: the calls of one application are among those of all. *)
(***************************************************************************)
LEMMA PerDayKeeps ==
  ASSUME Walking, DashboardInv, PerDay
  PROVE  DashboardInv'
<1>1. /\ list = "dashboard" /\ step = "services" /\ step' = "daily" /\ list' = list
      /\ visible' = visible /\ since' = since /\ slid' = slid /\ tallied' = tallied /\ late' = late
      /\ report' = [report EXCEPT !.ownCalls = Cardinality(Own(Reported)),
                                 !.ownErrors = Cardinality(Errors(Own(Reported)))]
  BY DEF PerDay, Figure
<1>2. Tallied /\ WindowMoved /\ ServicesAgree /\ Cardinality(Classified) \in Nat
  BY <1>1 DEF DashboardInv
<1>3. /\ report'.ownCalls = Cardinality(Own(Reported))
      /\ report'.ownErrors = Cardinality(Errors(Own(Reported)))
      /\ report'.byService = report.byService
      /\ report'.errors = report.errors /\ report'.calls = report.calls
  BY <1>1, <1>2 DEF Tallied
<1>4. /\ tallied \subseteq Rows /\ late \subseteq Rows /\ Own(Reported) \subseteq Rows
      /\ Own(Reported) \subseteq tallied \cup late
  BY <1>2, WindowRows, RowCount DEF WindowMoved
<1>5. /\ Cardinality(Own(Reported)) \in Nat
      /\ Cardinality(Own(Reported)) <= Cardinality(tallied) + Cardinality(late)
  BY <1>4, RowCount, CoverCount
<1>6. /\ Cardinality(Errors(Own(Reported))) \in Nat
      /\ Cardinality(Errors(Own(Reported))) <= Cardinality(Errors(tallied)) + Cardinality(Errors(late))
  <2>1. Errors(Own(Reported)) \subseteq Errors(tallied) \cup Errors(late)
    BY <1>4 DEF Errors
  <2>2. IsFiniteSet(Errors(tallied)) /\ IsFiniteSet(Errors(late))
    BY <1>4, RowCount
  <2> QED
    BY <2>1, <2>2, CoverCount
<1>7. Tallied'
  BY <1>1, <1>2, <1>5, <1>6 DEF Tallied
<1>8. WindowMoved'
  BY <1>1, <1>2, <1>3 DEF WindowMoved, Reported, Errors
<1>9. ServicesAgree' /\ Cardinality(Classified)' \in Nat
  BY <1>1, <1>2, <1>3, SameFigure
<1>10. OwnAgree'
  <2>1. report.calls = Cardinality(tallied) /\ report.errors = Cardinality(Errors(tallied))
    BY <1>2 DEF WindowMoved
  <2>2. Errors(late)' = Errors(late)
    BY <1>1 DEF Errors
  <2> QED
    BY <1>1, <1>3, <1>5, <1>6, <2>1, <2>2 DEF OwnAgree
<1>11. (report.ownCalls <= Cardinality(Listed))'
  <2>1. Listed' = Listed
    BY <1>1 DEF Listed, Own
  <2>2. Own(Reported) \subseteq Listed /\ Listed \subseteq Rows
    BY <1>2, WindowRows DEF Own, Reported, Listed
  <2>3. IsFiniteSet(Listed)
    BY <2>2, RowCount
  <2>4. Cardinality(Own(Reported)) <= Cardinality(Listed)
    BY <2>2, <2>3, PartCount
  <2> QED
    BY <1>3, <2>1, <2>4
<1> QED
  BY <1>1, <1>7, <1>8, <1>9, <1>10, <1>11 DEF DashboardInv, DashboardAgrees

(***************************************************************************)
(* list_recent: the newest of the rows that get_calls_per_day has counted, *)
(* and of those that came since.                                           *)
(***************************************************************************)
LEMMA RecentKeeps ==
  ASSUME Walking, DashboardInv, RecentLogs
  PROVE  DashboardInv'
<1>1. /\ list = "dashboard" /\ step = "daily" /\ step' = "finished" /\ list' = list
      /\ visible' = visible /\ since' = since /\ slid' = slid /\ tallied' = tallied /\ late' = late
      /\ report' = [report EXCEPT !.recent = Recent]
  BY DEF RecentLogs, Figure
<1>2. /\ Tallied /\ WindowMoved /\ ServicesAgree /\ Cardinality(Classified) \in Nat
      /\ OwnAgree /\ report.ownCalls <= Cardinality(Listed)
  BY <1>1 DEF DashboardInv
<1>3. /\ report'.recent = Recent /\ report'.byService = report.byService
      /\ report'.errors = report.errors /\ report'.calls = report.calls
      /\ report'.ownCalls = report.ownCalls /\ report'.ownErrors = report.ownErrors
      /\ report.ownCalls \in Nat
  BY <1>1, <1>2 DEF Tallied
<1>4. Listed \subseteq Nat /\ IsFiniteSet(Listed) /\ Listed \subseteq Rows
      /\ Cardinality(Listed) \in Nat
  BY <1>2, WindowRows, RowCount
<1>5. Recent \subseteq Listed /\ Cardinality(Recent) \in Nat
  <2>1. Recent \subseteq Listed
    BY DEF Recent
  <2> QED
    BY <1>4, <2>1, PartCount
<1>6. Cardinality(Recent) >= LogLimit \/ Recent = Listed
  BY <1>4, NewestCount, MonitoringAssumption DEF Recent
<1>7. RecentAgree'
  BY <1>2, <1>3, <1>4, <1>5, <1>6, MonitoringAssumption DEF RecentAgree
<1>8. Tallied'
  BY <1>1, <1>2, <1>4, <1>5 DEF Tallied
<1>9. WindowMoved'
  BY <1>1, <1>2, <1>3 DEF WindowMoved, Reported, Errors
<1>10. ServicesAgree' /\ Cardinality(Classified)' \in Nat
  BY <1>1, <1>2, <1>3, SameFigure
<1>11. OwnAgree'
  BY <1>1, <1>2, <1>3 DEF OwnAgree, Errors
<1> QED
  BY <1>1, <1>7, <1>8, <1>9, <1>10, <1>11 DEF DashboardInv, DashboardAgrees

(***************************************************************************)
(* The window moves on: the row that leaves it is in the history, or has   *)
(* come since the overview.                                                *)
(***************************************************************************)
LEMMA SlideKeeps ==
  ASSUME Walking, DashboardInv, Slide
  PROVE  DashboardInv'
<1>1. /\ list = "dashboard" /\ step # "finished" /\ since' = since + 1
      /\ slid' = IF step = "asked" THEN slid ELSE slid \cup {r \in tallied : r = since}
      /\ UNCHANGED <<historyVars, tallied, report>>
  BY DEF Slide
<1>2. /\ list' = list /\ step' = step /\ visible' = visible /\ late' = late
      /\ tallied' = tallied /\ report' = report
  BY <1>1 DEF historyVars
<1>3. Tallied
  BY DEF DashboardInv
<1>4. slid \subseteq slid' /\ slid' \subseteq tallied
  BY <1>1, <1>3 DEF Tallied
<1>5. Tallied'
  BY <1>1, <1>2, <1>3, <1>4 DEF Tallied
<1>6. late' \subseteq Rows /\ slid' \subseteq Rows
  BY <1>2, <1>3, <1>4, WindowRows
<1>7. CASE step = "asked"
  BY <1>1, <1>2, <1>5, <1>7 DEF DashboardInv, DashboardAgrees
<1>8. CASE step # "asked"
  <2>1. WindowMoved
    BY <1>1, <1>8 DEF DashboardInv
  <2>2. Reported' \subseteq Reported
    <3>1. visible \subseteq Nat /\ since \in Nat
      BY <1>3, RowCount DEF Walking, Tallied
    <3> SUFFICES ASSUME NEW r \in Reported' PROVE r \in Reported
      OBVIOUS
    <3>2. r \in visible /\ r >= since + 1 /\ ~Entry[r].sandbox
      BY <1>1, <1>2 DEF Reported
    <3>3. r >= since
      BY <3>1, <3>2
    <3> QED
      BY <3>2, <3>3 DEF Reported
  <2>3. tallied \ slid' \subseteq Reported'
    <3> SUFFICES ASSUME NEW r \in tallied \ slid' PROVE r \in Reported'
      OBVIOUS
    <3>1. r \in Reported /\ r # since
      BY <1>1, <1>4, <1>8, <2>1 DEF WindowMoved
    <3>2. r \in Nat /\ since \in Nat
      BY <1>3, <3>1, WindowRows, RowCount DEF Tallied
    <3> QED
      BY <1>1, <1>2, <3>1, <3>2 DEF Reported
  <2>4. WindowMoved'
    BY <1>2, <2>1, <2>2, <2>3 DEF WindowMoved, Errors
  <2>5. ASSUME step \in {"services", "daily", "finished"}
        PROVE  ServicesAgree' /\ Cardinality(Classified)' \in Nat
    <3>1. ServicesAgree /\ Cardinality(Classified) \in Nat
      BY <1>1, <2>5 DEF DashboardInv
    <3> QED
      BY <1>2, <1>3, <1>4, <1>6, <3>1, BoundsWiden
  <2>6. ASSUME step \in {"daily", "finished"} PROVE OwnAgree'
    BY <1>1, <1>2, <2>6 DEF DashboardInv, OwnAgree, Errors
  <2>7. step = "daily" => (report.ownCalls <= Cardinality(Listed))'
    BY <1>1, <1>2 DEF DashboardInv, Listed, Own
  <2> QED
    BY <1>1, <1>2, <1>5, <1>8, <2>4, <2>5, <2>6, <2>7 DEF DashboardInv, DashboardAgrees
<1> QED
  BY <1>7, <1>8

(***************************************************************************)
(* A row of some other request: after the overview it goes into the        *)
(* history, whether the window takes it or not.                            *)
(***************************************************************************)
LEMMA InsertKeeps ==
  ASSUME Walking, DashboardInv, NEW x \in Rows, Insert(x),
         UNCHANGED <<since, tallied, slid, report>>
  PROVE  DashboardInv'
<1>1. /\ step # "finished" /\ visible' = visible \cup {x}
      /\ late' = IF step = "asked" THEN late ELSE late \cup {x}
      /\ list' = list /\ step' = step
      /\ since' = since /\ tallied' = tallied /\ slid' = slid /\ report' = report
  BY DEF Insert
<1>2. Tallied
  BY DEF DashboardInv
<1>3. Tallied'
  BY <1>1, <1>2 DEF Tallied
<1>4. late \subseteq late' /\ late' \subseteq Rows /\ slid' \subseteq Rows
  BY <1>1, <1>2, WindowRows
<1>5. CASE list # "dashboard" \/ step = "asked"
  BY <1>1, <1>3, <1>5 DEF DashboardInv, DashboardAgrees
<1>6. CASE list = "dashboard" /\ step # "asked"
  <2>1. WindowMoved
    BY <1>6 DEF DashboardInv
  <2>2. Reported \subseteq Reported' /\ Reported' \subseteq Reported \cup {x} /\ late' = late \cup {x}
    BY <1>1, <1>6 DEF Reported
  <2>3. WindowMoved'
    BY <1>1, <2>1, <2>2 DEF WindowMoved, Errors
  <2>4. ASSUME step \in {"services", "daily", "finished"}
        PROVE  ServicesAgree' /\ Cardinality(Classified)' \in Nat
    <3>1. ServicesAgree /\ Cardinality(Classified) \in Nat
      BY <1>6, <2>4 DEF DashboardInv
    <3> QED
      BY <1>1, <1>2, <1>4, <3>1, BoundsWiden
  <2>5. ASSUME step \in {"daily", "finished"} PROVE OwnAgree'
    <3>1. OwnAgree
      BY <1>6, <2>5 DEF DashboardInv
    <3>2. /\ Cardinality(late) <= Cardinality(late') /\ Cardinality(late) \in Nat
          /\ Cardinality(late') \in Nat
      BY <1>4, RowCount, PartCount
    <3>3. /\ Cardinality(Errors(late)) <= Cardinality(Errors(late'))
          /\ Cardinality(Errors(late)) \in Nat /\ Cardinality(Errors(late')) \in Nat
      <4>1. Errors(late) \subseteq Errors(late') /\ IsFiniteSet(Errors(late'))
        BY <1>4, RowCount DEF Errors
      <4> QED
        BY <4>1, PartCount
    <3>4. /\ report.calls \in Nat /\ report.errors \in Nat
          /\ report.ownCalls \in Nat /\ report.ownErrors \in Nat
      BY <1>2 DEF Tallied
    <3>5. Errors(late)' = Errors(late')
      BY DEF Errors
    <3> QED
      BY <1>1, <3>1, <3>2, <3>3, <3>4, <3>5 DEF OwnAgree
  <2>6. ASSUME step = "daily" PROVE (report.ownCalls <= Cardinality(Listed))'
    <3>1. report.ownCalls <= Cardinality(Listed) /\ report.ownCalls \in Nat
      BY <1>2, <1>6, <2>6 DEF DashboardInv, Tallied
    <3>2. Listed \subseteq Listed' /\ Listed' \subseteq Rows
      BY <1>1, <1>2, WindowRows DEF Listed, Own, Walking
    <3>3. Cardinality(Listed) <= Cardinality(Listed') /\ Cardinality(Listed) \in Nat
          /\ Cardinality(Listed') \in Nat
      <4>1. IsFiniteSet(Listed')
        BY <3>2, RowCount
      <4> QED
        BY <3>2, <4>1, PartCount
    <3> QED
      BY <1>1, <3>1, <3>3
  <2> QED
    BY <1>1, <1>3, <1>6, <2>3, <2>4, <2>5, <2>6 DEF DashboardInv, DashboardAgrees
<1> QED
  BY <1>5, <1>6

(***************************************************************************)
(* A reading begins with the rows that exist.                              *)
(***************************************************************************)
LEMMA ReadingStarts ==
  ASSUME MonitoringInit
  PROVE  MonitoringInv
<1>1. /\ visible = Existing /\ page = 1 /\ step = "asked" /\ total = 0 /\ seen = {} /\ late = {}
      /\ since = 1 /\ tallied = {} /\ slid = {}
      /\ report = [calls |-> 0, errors |-> 0, byService |-> [s \in Services |-> 0],
                  ownCalls |-> 0, ownErrors |-> 0, recent |-> {}]
  BY DEF MonitoringInit, HistoryInit
<1>2. Walking
  BY <1>1, HistoriesAssumption DEF Walking
<1>3. Behind(Skip)
  <2>1. Skip = 0
    BY <1>1, HistoriesAssumption DEF Skip
  <2>2. \A r \in Existing : Newer(r) \in Nat
    BY <1>2, NewerType DEF Newer, Walking
  <2> QED
    BY <2>1, <2>2 DEF Behind
<1>4. HistoryInv
  BY <1>1, <1>2, <1>3 DEF HistoryInv, WalkShowsAll
<1>5. Tallied
  BY <1>1 DEF Tallied
<1>6. DashboardInv
  BY <1>1, <1>5 DEF DashboardInv, DashboardAgrees
<1> QED
  BY <1>4, <1>6 DEF MonitoringInv

(***************************************************************************)
(* The steps of a walk do not touch the dashboard.                         *)
(***************************************************************************)
LEMMA WalkKeeps ==
  ASSUME MonitoringInv, HistoryStep, UNCHANGED <<since, tallied, slid, report>>
  PROVE  MonitoringInv'
<1> USE DEF MonitoringInv
<1>1. \/ list \in Lists /\ list # "audit" /\ CountThenList
      \/ list = "audit" /\ ListThenCount
  BY DEF HistoryStep, SmsHistory, PaymentHistory, UssdSessions, NumberHistory,
         NotificationHistory, AuditLogs, Lists
<1>2. HistoryInv'
  BY <1>1, CountFirst, ListFirst DEF Lists
<1>3. list # "dashboard" /\ list' = list /\ visible' = visible
  BY <1>1 DEF Lists, CountThenList, ListThenCount, Count
<1>4. Tallied'
  BY <1>3 DEF DashboardInv, Tallied
<1>5. DashboardInv'
  BY <1>3, <1>4 DEF DashboardInv, DashboardAgrees
<1> QED
  BY <1>2, <1>5

(***************************************************************************)
(* The steps of the dashboard do not touch the walks.                      *)
(***************************************************************************)
LEMMA DashboardWalks ==
  ASSUME HistoryInv, Dashboard \/ Slide
  PROVE  HistoryInv'
<1>1. /\ list = "dashboard" /\ list' = list /\ visible' = visible /\ page' = page /\ total' = total
      /\ late' \in {late, {}}
  BY DEF Dashboard, Overview, ByService, PerDay, RecentLogs, Figure, Slide, historyVars
<1>2. list' \notin Lists
  BY <1>1 DEF Lists
<1>3. Walking'
  BY <1>1 DEF HistoryInv, Walking
<1> QED
  BY <1>2, <1>3 DEF HistoryInv, WalkShowsAll

(***************************************************************************)
(* Every step of a reading.                                                *)
(***************************************************************************)
LEMMA ReadingStep ==
  ASSUME MonitoringInv, [MonitoringNext]_monitoringVars
  PROVE  MonitoringInv'
<1>1. HistoryInv /\ DashboardInv /\ Walking
  BY DEF MonitoringInv, HistoryInv
<1>2. CASE HistoryStep /\ UNCHANGED <<since, tallied, slid, report>>
  BY <1>2, WalkKeeps
<1>3. CASE Dashboard
  BY <1>1, <1>3, DashboardWalks, OverviewStarts, ByServiceKeeps, PerDayKeeps, RecentKeeps
     DEF Dashboard, MonitoringInv
<1>4. CASE Slide
  BY <1>1, <1>4, DashboardWalks, SlideKeeps DEF MonitoringInv
<1>5. ASSUME NEW x \in Rows, Insert(x), UNCHANGED <<since, tallied, slid, report>>
      PROVE  MonitoringInv'
  BY <1>1, <1>5, InsertWalks, InsertKeeps DEF MonitoringInv
<1>6. CASE UNCHANGED monitoringVars
  <2>1. /\ list' = list /\ visible' = visible /\ page' = page /\ step' = step /\ total' = total
        /\ seen' = seen /\ late' = late /\ since' = since /\ tallied' = tallied /\ slid' = slid
        /\ report' = report
    BY <1>6 DEF monitoringVars, historyVars
  <2>2. HistoryInv'
    BY <1>1, <2>1 DEF HistoryInv, Walking, WalkShowsAll, Behind, Newer, Skip
  <2>3. DashboardInv'
    BY <1>1, <2>1 DEF DashboardInv, DashboardAgrees, Tallied, WindowMoved, Reported, Errors, Own,
                      Listed, Classified, ServicesAgree, OwnAgree, RecentAgree
  <2> QED
    BY <2>2, <2>3 DEF MonitoringInv
<1> QED
  BY <1>2, <1>3, <1>4, <1>5, <1>6 DEF MonitoringNext

(***************************************************************************)
(* The invariant of the readings.                                          *)
(***************************************************************************)
LEMMA ReadingInductive == MonitoringSpec => []MonitoringInv
<1>1. MonitoringInit => MonitoringInv
  BY ReadingStarts
<1>2. MonitoringInv /\ [MonitoringNext]_monitoringVars => MonitoringInv'
  BY ReadingStep
<1> QED
  BY <1>1, <1>2, PTL DEF MonitoringSpec

(***************************************************************************)
(* A client that follows has_next through one of the six histories has     *)
(* been shown every row that existed when it began, however many rows are  *)
(* inserted meanwhile and wherever - unless one slips between the count    *)
(* and the list of the last page.                                          *)
(***************************************************************************)
THEOREM WalksComplete == MonitoringSpec => []WalkShowsAll
<1>1. MonitoringInv => WalkShowsAll
  BY DEF MonitoringInv, HistoryInv
<1> QED
  BY <1>1, ReadingInductive, PTL

(***************************************************************************)
(* get_dashboard: the four figures, which four statements have read, agree *)
(* up to the rows committed and those that left the window meanwhile, for  *)
(* every log and all services.                                             *)
(***************************************************************************)
THEOREM FiguresAgree == MonitoringSpec => []DashboardAgrees
<1>1. MonitoringInv => DashboardAgrees
  BY DEF MonitoringInv, DashboardInv
<1> QED
  BY <1>1, ReadingInductive, PTL

=============================================================================
