---------------------------- MODULE AccountProofs ----------------------------
(***************************************************************************)
(* Theorems about Accounts, for every set of users, every assignment of    *)
(* calls, and every lifetime of a token.                                   *)
(***************************************************************************)
EXTENDS Accounts, FiniteSetTheorems, TLAPS

(***************************************************************************)
(* What a call asks for.                                                   *)
(***************************************************************************)
LEMMA CallFields ==
  ASSUME NEW r \in Requests
  PROVE  /\ Call[r].kind \in Kinds /\ Call[r].role \in UserRole
         /\ Call[r].user \in Users /\ Call[r].admin \in Users
BY AccountsAssumption

LEMMA EmptyRow == Absent \in Row
BY DEF Absent, Row, UserRole, Second

(***************************************************************************)
(* An UPDATE changes the columns that differ from the row as it was        *)
(* loaded.                                                                 *)
(***************************************************************************)
LEMMA Updated ==
  ASSUME TypeOK, NEW r \in Requests, NEW new \in Row, Update(r, new)
  PROVE  LET u == Call[r].user IN
         /\ users' \in [Users -> Row]
         /\ \A v \in Users \ {u} : users'[v] = users[v]
         /\ users'[u].exists = IF new.exists # loaded[r].exists THEN new.exists ELSE users[u].exists
         /\ users'[u].active = IF new.active # loaded[r].active THEN new.active ELSE users[u].active
         /\ users'[u].role = IF new.role # loaded[r].role THEN new.role ELSE users[u].role
         /\ users'[u].hash = IF new.hash # loaded[r].hash THEN new.hash ELSE users[u].hash
<1> DEFINE u == Call[r].user
           row == [c \in DOMAIN Absent |-> IF new[c] # loaded[r][c] THEN new[c] ELSE users[u][c]]
<1>1. u \in Users /\ users[u] \in Row /\ loaded[r] \in Row
  BY CallFields DEF TypeOK
<1>2. DOMAIN Absent = {"exists", "active", "role", "hash"}
  BY DEF Absent
<1>3. row = [exists |-> IF new.exists # loaded[r].exists THEN new.exists ELSE users[u].exists,
             active |-> IF new.active # loaded[r].active THEN new.active ELSE users[u].active,
             role |-> IF new.role # loaded[r].role THEN new.role ELSE users[u].role,
             hash |-> IF new.hash # loaded[r].hash THEN new.hash ELSE users[u].hash]
  BY <1>2
<1>4. users' = [users EXCEPT ![u] = row]
  BY DEF Update
<1> HIDE DEF row, u
<1>5. row \in Row
  BY <1>1, <1>3 DEF Row
<1>6. users' \in [Users -> Row] /\ users'[u] = row /\ \A v \in Users \ {u} : users'[v] = users[v]
  BY <1>1, <1>4, <1>5 DEF TypeOK
<1> QED
  BY <1>3, <1>6 DEF u

-----------------------------------------------------------------------------
(***************************************************************************)
(* Every step keeps the types.                                             *)
(***************************************************************************)
LEMMA StepTypes ==
  ASSUME TypeOK, CallsInPlace, [Next]_vars
  PROVE  TypeOK'
<1> USE DEF Goto, Second
<1>0. /\ now \in Nat
      /\ users \in [Users -> Row]
      /\ pc \in [Requests -> {"ready", "read", "issued", "written", "done"}]
      /\ loaded \in [Requests -> Row]
      /\ offer \in [Requests -> Second] /\ issued \in [Requests -> Second]
      /\ clients \subseteq [user : Users, at : Nat]
      /\ before \in [Requests -> SUBSET Requests]
      /\ wrote \subseteq Requests
  BY DEF TypeOK
<1>1. ASSUME NEW r \in Requests,
             EmailFree(r) \/ LoadForLogin(r) \/ LoadForLogout(r) \/ LoadTarget(r)
      PROVE  TypeOK'
  BY <1>0, <1>1, CallFields DEF EmailFree, LoadForLogin, LoadForLogout, LoadTarget, Load, TypeOK
<1>2. ASSUME NEW r \in Requests, LoadForRefresh(r) PROVE TypeOK'
  <2>1. offer' \in [Requests -> Second]
    BY <1>0, <1>2 DEF LoadForRefresh
  <2> QED
    BY <1>0, <1>2, <2>1, CallFields DEF LoadForRefresh, Load, TypeOK
<1>3. ASSUME NEW r \in Requests, Insert(r) PROVE TypeOK'
  <2>1. Registered(r) \in Row
    BY CallFields DEF Registered, Row
  <2> QED
    BY <1>0, <1>3, <2>1, CallFields DEF Insert, TypeOK
<1>4. ASSUME NEW r \in Requests, Issue(r) PROVE TypeOK'
  BY <1>0, <1>4 DEF Issue, TypeOK
<1>5. ASSUME NEW r \in Requests, Store(r) PROVE TypeOK'
  <2>1. [loaded[r] EXCEPT !.hash = issued[r]] \in Row
    BY <1>0 DEF Row
  <2>2. users' \in [Users -> Row]
    BY <1>5, <2>1, Updated DEF Store
  <2> QED
    BY <1>0, <1>5, <2>2 DEF Store, TypeOK
<1>6. ASSUME NEW r \in Requests, Deliver(r) PROVE TypeOK'
  <2>1. issued[r] \in Nat
    BY <1>0, <1>6 DEF Deliver, CallsInPlace
  <2> QED
    BY <1>0, <1>6, <2>1, CallFields DEF Deliver, TypeOK
<1>7. ASSUME NEW r \in Requests, Logout(r) \/ ChangeRole(r) \/ Deactivate(r) PROVE TypeOK'
  <2>1. /\ [loaded[r] EXCEPT !.hash = Cleared(r)] \in Row
        /\ [loaded[r] EXCEPT !.role = Call[r].role] \in Row
        /\ [loaded[r] EXCEPT !.hash = Cleared(r), !.active = FALSE] \in Row
    <3>1. loaded[r] \in Row /\ Call[r].role \in UserRole /\ Cleared(r) \in Second
      BY <1>0, CallFields DEF Cleared
    <3>2. [loaded[r] EXCEPT !.hash = Cleared(r)] \in Row
      BY <3>1 DEF Row
    <3>3. [loaded[r] EXCEPT !.role = Call[r].role] \in Row
      BY <3>1 DEF Row
    <3>4. [loaded[r] EXCEPT !.hash = Cleared(r), !.active = FALSE] \in Row
      BY <3>1 DEF Row
    <3> QED
      BY <3>2, <3>3, <3>4
  <2>2. users' \in [Users -> Row]
    <3>1. CASE Logout(r)
      BY <3>1, <2>1, Updated DEF Logout
    <3>2. CASE ChangeRole(r)
      BY <3>2, <2>1, Updated DEF ChangeRole
    <3>3. CASE Deactivate(r)
      BY <3>3, <2>1, Updated DEF Deactivate
    <3> QED
      BY <1>7, <3>1, <3>2, <3>3
  <2> QED
    BY <1>0, <1>7, <2>2 DEF Logout, ChangeRole, Deactivate, TypeOK
<1>8. CASE Tick \/ UNCHANGED vars
  BY <1>0, <1>8 DEF Tick, vars, TypeOK
<1> QED
  BY <1>1, <1>2, <1>3, <1>4, <1>5, <1>6, <1>7, <1>8 DEF Next, Serve

-----------------------------------------------------------------------------
\* What the invariant needs to know of a step: a call reads its row, creates a token,
\* rewrites its row, or nothing of that kind happens.
Reads(r) ==
  /\ pc[r] = "ready" /\ pc' = [pc EXCEPT ![r] = "read"]
  /\ loaded' = [loaded EXCEPT ![r] = users[Call[r].user]]
  /\ before' = [before EXCEPT ![r] = wrote]
  /\ \A q \in Requests \ {r} : offer'[q] = offer[q]
  /\ Issuing(r) => users[Call[r].user].active
  /\ Call[r].kind = "refresh" => /\ offer'[r] = users[Call[r].user].hash
                                 /\ users[Call[r].user].hash # None
  /\ Administrative(r) => users[Call[r].user].exists /\ MayAdminister(r)
  /\ UNCHANGED <<users, issued, wrote>>

Creates(r) ==
  /\ pc[r] = "read" /\ pc' = [pc EXCEPT ![r] = "issued"]
  /\ Issuing(r)
  /\ issued' = [issued EXCEPT ![r] = now]
  /\ UNCHANGED <<users, loaded, offer, before, wrote>>

RowInserted(r, old, new) == Call[r].kind = "register" /\ ~old.exists /\ new = Registered(r)

RowUpdated(r, old, new) ==
  /\ Call[r].kind # "register"
  /\ new.exists = old.exists
  /\ IF Call[r].kind = "deactivate"
     THEN ~new.active \/ (~loaded[r].active /\ new.active = old.active)
     ELSE new.active = old.active
  /\ new.role = old.role \/ Call[r].kind = "role"
  /\ CASE Issuing(r) -> \/ new.hash = issued[r] /\ loaded[r].hash # issued[r]
                        \/ new.hash = old.hash /\ loaded[r].hash = issued[r]
       [] Call[r].kind = "role" -> new.hash = old.hash
       [] OTHER -> new.hash = None \/ (new.hash = old.hash /\ loaded[r].hash = None)

Writes(r) ==
  /\ pc[r] = IF Issuing(r) THEN "issued" ELSE "read"
  /\ pc' = [pc EXCEPT ![r] = IF Issuing(r) THEN "written" ELSE "done"]
  /\ wrote' = wrote \cup {r}
  /\ \A u \in Users \ {Call[r].user} : users'[u] = users[u]
  /\ \/ RowInserted(r, users[Call[r].user], users'[Call[r].user])
     \/ RowUpdated(r, users[Call[r].user], users'[Call[r].user])
  /\ UNCHANGED <<loaded, offer, issued, before>>

Idles ==
  /\ \A q \in Requests : pc'[q] = pc[q] \/ (pc[q] = "written" /\ pc'[q] = "done")
  /\ UNCHANGED <<users, loaded, offer, issued, before, wrote>>

(***************************************************************************)
(* Every step is one of these.                                             *)
(***************************************************************************)
LEMMA StepKinds ==
  ASSUME TypeOK, CallsInPlace, [Next]_vars
  PROVE  Idles \/ \E r \in Requests : Reads(r) \/ Creates(r) \/ Writes(r)
<1> USE DEF Goto
<1>0. /\ users \in [Users -> Row]
      /\ pc \in [Requests -> {"ready", "read", "issued", "written", "done"}]
      /\ loaded \in [Requests -> Row]
      /\ offer \in [Requests -> Second] /\ issued \in [Requests -> Second]
      /\ clients \subseteq [user : Users, at : Nat]
  BY DEF TypeOK
<1>1. ASSUME NEW r \in Requests,
             EmailFree(r) \/ LoadForLogin(r) \/ LoadForLogout(r) \/ LoadTarget(r)
      PROVE  Reads(r)
  BY <1>1 DEF EmailFree, LoadForLogin, LoadForLogout, LoadTarget, Load, Reads, Issuing, Administrative
<1>2. ASSUME NEW r \in Requests, LoadForRefresh(r) PROVE Reads(r)
  <2>1. PICK t \in clients : /\ t.user = Call[r].user /\ Acceptable(r, t)
                             /\ offer' = [offer EXCEPT ![r] = t.at]
    BY <1>2 DEF LoadForRefresh
  <2>2. t.at \in Nat /\ users[Call[r].user].hash = t.at
    BY <1>0, <2>1 DEF Acceptable
  <2>3. offer'[r] = t.at /\ \A q \in Requests \ {r} : offer'[q] = offer[q]
    BY <1>0, <2>1
  <2> QED
    BY <1>2, <2>2, <2>3 DEF LoadForRefresh, Load, Reads, Issuing, Administrative, None
<1>3. ASSUME NEW r \in Requests, Issue(r) PROVE Creates(r)
  BY <1>3 DEF Issue, Creates
<1>4. ASSUME NEW r \in Requests, Insert(r) PROVE Writes(r)
  BY <1>0, <1>4, CallFields DEF Insert, Writes, RowInserted, Issuing
<1>5. ASSUME NEW r \in Requests, Store(r) PROVE Writes(r)
  <2> DEFINE new == [loaded[r] EXCEPT !.hash = issued[r]]
  <2>1. new \in Row /\ new.exists = loaded[r].exists /\ new.active = loaded[r].active
        /\ new.role = loaded[r].role /\ new.hash = issued[r]
    BY <1>0 DEF Row
  <2>2. Update(r, new) /\ Issuing(r)
    BY <1>0, <1>5 DEF Store, CallsInPlace
  <2> HIDE DEF new
  <2>3. RowUpdated(r, users[Call[r].user], users'[Call[r].user])
    BY <2>1, <2>2, Updated DEF RowUpdated, Issuing
  <2> QED
    BY <1>5, <2>1, <2>2, <2>3, Updated DEF Store, Writes
<1>6. ASSUME NEW r \in Requests, Logout(r) PROVE Writes(r)
  <2> DEFINE new == [loaded[r] EXCEPT !.hash = Cleared(r)]
  <2>1. new \in Row /\ new.exists = loaded[r].exists /\ new.active = loaded[r].active
        /\ new.role = loaded[r].role /\ new.hash = None
    BY <1>0 DEF Row, Cleared, Second
  <2>2. Update(r, new) /\ Call[r].kind = "logout"
    BY <1>6 DEF Logout
  <2> HIDE DEF new
  <2>3. RowUpdated(r, users[Call[r].user], users'[Call[r].user])
    BY <2>1, <2>2, Updated DEF RowUpdated, Issuing
  <2> QED
    BY <1>6, <2>1, <2>2, <2>3, Updated DEF Logout, Writes, Issuing
<1>7. ASSUME NEW r \in Requests, ChangeRole(r) PROVE Writes(r)
  <2> DEFINE new == [loaded[r] EXCEPT !.role = Call[r].role]
  <2>1. new \in Row /\ new.exists = loaded[r].exists /\ new.active = loaded[r].active
        /\ new.hash = loaded[r].hash
    BY <1>0, CallFields DEF Row
  <2>2. Update(r, new) /\ Call[r].kind = "role"
    BY <1>7 DEF ChangeRole
  <2> HIDE DEF new
  <2>3. RowUpdated(r, users[Call[r].user], users'[Call[r].user])
    BY <2>1, <2>2, Updated DEF RowUpdated, Issuing
  <2> QED
    BY <1>7, <2>1, <2>2, <2>3, Updated DEF ChangeRole, Writes, Issuing
<1>8. ASSUME NEW r \in Requests, Deactivate(r) PROVE Writes(r)
  <2> DEFINE new == [loaded[r] EXCEPT !.hash = Cleared(r), !.active = FALSE]
  <2>1. new \in Row /\ new.exists = loaded[r].exists /\ new.active = FALSE
        /\ new.role = loaded[r].role /\ new.hash = None
    BY <1>0 DEF Row, Cleared, Second
  <2>2. Update(r, new) /\ Call[r].kind = "deactivate"
    BY <1>8 DEF Deactivate
  <2> HIDE DEF new
  <2>3. loaded[r].active \in BOOLEAN
    BY <1>0 DEF Row
  <2>4. RowUpdated(r, users[Call[r].user], users'[Call[r].user])
    BY <2>1, <2>2, <2>3, Updated DEF RowUpdated, Issuing
  <2> QED
    BY <1>8, <2>1, <2>2, <2>4, Updated DEF Deactivate, Writes, Issuing
<1>9. ASSUME NEW r \in Requests, Deliver(r) PROVE Idles
  BY <1>0, <1>9 DEF Deliver, Idles
<1>10. CASE Tick \/ UNCHANGED vars
  BY <1>10 DEF Tick, vars, Idles
<1> QED
  BY <1>1, <1>2, <1>3, <1>4, <1>5, <1>6, <1>7, <1>8, <1>9, <1>10 DEF Next, Serve

StepKind == Idles \/ \E r \in Requests : Reads(r) \/ Creates(r) \/ Writes(r)

(***************************************************************************)
(* What no step takes back: a commit, what a call has read and presented,  *)
(* a token that was created.                                               *)
(***************************************************************************)
LEMMA Kept ==
  ASSUME TypeOK, CallsInPlace, StepKind
  PROVE  /\ wrote \subseteq wrote'
         /\ \A q \in Requests : issued[q] # None => issued'[q] = issued[q]
         /\ \A q \in Requests : Loaded(q) => /\ Loaded(q)'
                                             /\ loaded'[q] = loaded[q] /\ offer'[q] = offer[q]
                                             /\ before'[q] = before[q]
         /\ \A q \in Requests : ~Loaded(q) => q \notin wrote /\ q \notin wrote'
<1>0. /\ pc \in [Requests -> {"ready", "read", "issued", "written", "done"}]
      /\ loaded \in [Requests -> Row]
      /\ offer \in [Requests -> Second] /\ issued \in [Requests -> Second]
      /\ before \in [Requests -> SUBSET Requests]
  BY DEF TypeOK
<1>1. \A q \in Requests : /\ ~Loaded(q) => q \notin wrote
                          /\ pc[q] = "read" => issued[q] = None
  BY DEF CallsInPlace, Loaded
<1>2. ASSUME Idles
      PROVE  /\ wrote' = wrote /\ issued' = issued
             /\ loaded' = loaded /\ offer' = offer /\ before' = before
             /\ \A q \in Requests : Loaded(q) <=> Loaded(q)'
  <2>1. \A q \in Requests : Loaded(q) <=> Loaded(q)'
    BY <1>0, <1>2 DEF Idles, Loaded
  <2> QED
    BY <1>2, <2>1 DEF Idles
<1>3. ASSUME NEW r \in Requests, Reads(r)
      PROVE  /\ wrote' = wrote /\ issued' = issued
             /\ \A q \in Requests : Loaded(q) => /\ Loaded(q)'
                                                 /\ loaded'[q] = loaded[q] /\ offer'[q] = offer[q]
                                                 /\ before'[q] = before[q]
  BY <1>0, <1>3 DEF Reads, Loaded
<1>4. ASSUME NEW r \in Requests, Creates(r)
      PROVE  /\ wrote' = wrote /\ loaded' = loaded /\ offer' = offer /\ before' = before
             /\ \A q \in Requests : Loaded(q) <=> Loaded(q)'
             /\ \A q \in Requests : issued[q] # None => issued'[q] = issued[q]
  <2>1. \A q \in Requests : Loaded(q) <=> Loaded(q)'
    BY <1>0, <1>4 DEF Creates, Loaded
  <2>2. \A q \in Requests : issued[q] # None => issued'[q] = issued[q]
    <3>1. issued[r] = None /\ issued' = [issued EXCEPT ![r] = now]
      BY <1>1, <1>4 DEF Creates
    <3> QED
      BY <1>0, <3>1
  <2> QED
    BY <1>4, <2>1, <2>2 DEF Creates
<1>5. ASSUME NEW r \in Requests, Writes(r)
      PROVE  /\ wrote' = wrote \cup {r} /\ loaded' = loaded /\ offer' = offer /\ before' = before
             /\ issued' = issued
             /\ \A q \in Requests : Loaded(q) <=> Loaded(q)'
             /\ Loaded(r)
  <2>1. \A q \in Requests : Loaded(q) <=> Loaded(q)'
    <3>1. /\ pc[r] # "ready"
          /\ pc' = [pc EXCEPT ![r] = IF Issuing(r) THEN "written" ELSE "done"]
      BY <1>5 DEF Writes
    <3>2. pc'[r] # "ready" /\ \A q \in Requests : q # r => pc'[q] = pc[q]
      BY <1>0, <3>1
    <3> QED
      BY <3>1, <3>2 DEF Loaded
  <2>2. Loaded(r)
    BY <1>5 DEF Writes, Loaded
  <2> QED
    BY <1>5, <2>1, <2>2 DEF Writes
<1>6. CASE \E r \in Requests : Writes(r)
  BY <1>1, <1>5, <1>6 DEF Loaded
<1>7. CASE \E r \in Requests : Creates(r)
  BY <1>1, <1>4, <1>7 DEF Loaded
<1>8. CASE \E r \in Requests : Reads(r)
  BY <1>1, <1>3, <1>8 DEF Loaded
<1>9. CASE Idles
  BY <1>1, <1>2, <1>9 DEF Loaded
<1> QED
  BY <1>6, <1>7, <1>8, <1>9 DEF StepKind

(***************************************************************************)
(* A call that has just begun has read its row.                            *)
(***************************************************************************)
LEMMA JustRead ==
  ASSUME TypeOK, StepKind, NEW r \in Requests, ~Loaded(r), Loaded(r)'
  PROVE  Reads(r) /\ loaded'[r] = users[Call[r].user] /\ before'[r] = wrote
<1>0. /\ pc \in [Requests -> {"ready", "read", "issued", "written", "done"}]
      /\ loaded \in [Requests -> Row]
      /\ before \in [Requests -> SUBSET Requests]
  BY DEF TypeOK
<1>1. pc[r] = "ready" /\ pc'[r] # "ready"
  BY DEF Loaded
<1>2. ~Idles /\ \A q \in Requests : ~Creates(q) /\ ~Writes(q)
  BY <1>0, <1>1 DEF Idles, Creates, Writes
<1>3. \A q \in Requests : Reads(q) => q = r
  BY <1>0, <1>1 DEF Reads
<1>4. Reads(r)
  BY <1>2, <1>3 DEF StepKind
<1> QED
  BY <1>0, <1>4 DEF Reads

(***************************************************************************)
(* A row that is written: who wrote it, and what was in it.                *)
(***************************************************************************)
LEMMA RowWritten ==
  ASSUME TypeOK, CallsInPlace, StepKind
  PROVE  \/ users' = users /\ wrote' = wrote
         \/ \E r \in Requests : /\ Writes(r) /\ r \notin wrote
                                /\ Call[r].user \in Users
                                /\ \A u \in Users : u # Call[r].user => users'[u] = users[u]
<1>1. ASSUME NEW r \in Requests, Writes(r) PROVE r \notin wrote
  BY <1>1 DEF Writes, CallsInPlace
<1> QED
  BY <1>1, CallFields DEF StepKind, Idles, Reads, Creates, Writes

-----------------------------------------------------------------------------
(***************************************************************************)
(* CallsInPlace.                                                           *)
(***************************************************************************)
LEMMA PlacesKept ==
  ASSUME TypeOK, CallsInPlace, StepKind, TypeOK'
  PROVE  CallsInPlace'
<1>0. /\ pc \in [Requests -> {"ready", "read", "issued", "written", "done"}]
      /\ loaded \in [Requests -> Row]
      /\ users \in [Users -> Row]
      /\ offer \in [Requests -> Second] /\ issued \in [Requests -> Second]
      /\ before \in [Requests -> SUBSET Requests]
      /\ now \in Nat
  BY DEF TypeOK
<1>1. CASE Idles
  BY <1>0, <1>1 DEF Idles, CallsInPlace, Loaded
<1>2. ASSUME NEW r \in Requests, Reads(r), NEW q \in Requests
      PROVE  /\ pc'[q] \in {"ready", "read"} => issued'[q] = None
             /\ pc'[q] \in {"issued", "written"} => Issuing(q) /\ issued'[q] # None
             /\ q \in wrote' => pc'[q] \in {"written", "done"} /\ (Issuing(q) => issued'[q] # None)
             /\ before'[q] \subseteq wrote'
             /\ Loaded(q)' /\ Call[q].kind = "refresh" => offer'[q] # None /\ offer'[q] = loaded'[q].hash
  BY <1>0, <1>2 DEF Reads, CallsInPlace, Loaded
<1>3. ASSUME NEW r \in Requests, Creates(r) PROVE CallsInPlace'
  <2>1. now # None
    BY <1>0 DEF None
  <2> QED
    BY <1>0, <1>3, <2>1 DEF Creates, CallsInPlace, Loaded
<1>4. ASSUME NEW r \in Requests, Writes(r) PROVE CallsInPlace'
  <2>1. /\ wrote' = wrote \cup {r}
        /\ pc[r] = IF Issuing(r) THEN "issued" ELSE "read"
        /\ pc' = [pc EXCEPT ![r] = IF Issuing(r) THEN "written" ELSE "done"]
        /\ UNCHANGED <<loaded, offer, issued, before>>
    BY <1>4 DEF Writes
  <2> QED
    BY <1>0, <2>1 DEF CallsInPlace, Loaded
<1> QED
  BY <1>1, <1>2, <1>3, <1>4 DEF StepKind, CallsInPlace

(***************************************************************************)
(* FinitelyManyBegan.                                                      *)
(***************************************************************************)
LEMMA BegunKept ==
  ASSUME TypeOK, FinitelyManyBegan, StepKind
  PROVE  FinitelyManyBegan'
<1> DEFINE Begun == {r \in Requests : Loaded(r)}
<1>0. pc \in [Requests -> {"ready", "read", "issued", "written", "done"}]
  BY DEF TypeOK
<1>1. IsFiniteSet(Begun)
  BY DEF FinitelyManyBegan
<1>2. ASSUME NEW r \in Requests, Reads(r) \/ Creates(r) \/ Writes(r)
      PROVE  Begun' \subseteq Begun \cup {r}
  BY <1>0, <1>2 DEF Reads, Creates, Writes, Loaded
<1>3. CASE Idles
  <2>1. Begun' \subseteq Begun
    BY <1>3 DEF Idles, Loaded
  <2> HIDE DEF Begun
  <2>2. IsFiniteSet(Begun')
    BY <1>1, <2>1, FS_Subset
  <2> QED
    BY <2>2 DEF FinitelyManyBegan, Begun
<1>4. ASSUME NEW r \in Requests, Reads(r) \/ Creates(r) \/ Writes(r) PROVE FinitelyManyBegan'
  <2> HIDE DEF Begun
  <2>1. IsFiniteSet(Begun \cup {r})
    BY <1>1, FS_AddElement
  <2>2. IsFiniteSet(Begun')
    BY <1>2, <1>4, <2>1, FS_Subset
  <2> QED
    BY <2>2 DEF FinitelyManyBegan, Begun
<1> QED
  BY <1>3, <1>4 DEF StepKind

-----------------------------------------------------------------------------
(***************************************************************************)
(* TokensStored.                                                           *)
(***************************************************************************)
LEMMA StoredKept ==
  ASSUME TypeOK, CallsInPlace, TokensStored, StepKind
  PROVE  TokensStored'
<1>1. \A u \in Users : users[u].hash # None =>
        \E i \in wrote : Call[i].user = u /\ issued[i] = users[u].hash
  BY DEF TokensStored, IssuersOf
<1>2. \A r \in Requests : Loaded(r) /\ loaded[r].hash # None =>
        \E i \in before[r] : i \in Requests /\ Call[i].user = Call[r].user /\ issued[i] = loaded[r].hash
  BY DEF TokensStored, IssuersOf
<1>3. /\ wrote \subseteq Requests /\ before \in [Requests -> SUBSET Requests]
      /\ \A q \in Requests : issued[q] # None => issued'[q] = issued[q]
      /\ wrote \subseteq wrote'
  BY Kept DEF TypeOK
<1>4. ASSUME NEW u \in Users, users'[u].hash # None
      PROVE  \E i \in wrote' : Call[i].user = u /\ i \in Requests /\ issued'[i] = users'[u].hash
  <2>1. CASE users'[u].hash = users[u].hash
    <3>1. PICK i \in wrote : Call[i].user = u /\ issued[i] = users[u].hash
      BY <1>1, <1>4, <2>1
    <3> QED
      BY <1>3, <1>4, <2>1, <3>1
  <2>2. CASE users'[u].hash # users[u].hash
    <3>1. PICK r \in Requests : Writes(r) /\ \A v \in Users : v # Call[r].user => users'[v] = users[v]
      BY <2>2, RowWritten
    <3>2. u = Call[r].user
      BY <2>2, <3>1
    <3>3. ~RowInserted(r, users[u], users'[u])
      BY <1>4 DEF RowInserted, Registered
    <3>4. RowUpdated(r, users[u], users'[u])
      BY <3>1, <3>2, <3>3 DEF Writes
    <3>5. Issuing(r) /\ users'[u].hash = issued[r]
      BY <1>4, <2>2, <3>4 DEF RowUpdated
    <3> QED
      BY <3>1, <3>2, <3>5 DEF Writes
  <2> QED
    BY <2>1, <2>2
<1>5. ASSUME NEW r \in Requests, Loaded(r)', loaded'[r].hash # None
      PROVE  \E i \in before'[r] : i \in Requests /\ Call[i].user = Call[r].user
                                   /\ issued'[i] = loaded'[r].hash
  <2>1. CASE Loaded(r)
    <3>1. loaded'[r] = loaded[r] /\ before'[r] = before[r]
      BY <2>1, Kept
    <3>2. PICK i \in before[r] : i \in Requests /\ Call[i].user = Call[r].user /\ issued[i] = loaded[r].hash
      BY <1>2, <1>5, <2>1, <3>1
    <3> QED
      BY <1>3, <1>5, <3>1, <3>2
  <2>2. CASE ~Loaded(r)
    <3>1. loaded'[r] = users[Call[r].user] /\ before'[r] = wrote
      BY <1>5, <2>2, JustRead
    <3>2. PICK i \in wrote : Call[i].user = Call[r].user /\ issued[i] = users[Call[r].user].hash
      BY <1>1, <1>5, <3>1, CallFields
    <3> QED
      BY <1>3, <1>5, <3>1, <3>2
  <2> QED
    BY <2>1, <2>2
<1> QED
  BY <1>4, <1>5 DEF TokensStored, IssuersOf

-----------------------------------------------------------------------------
(***************************************************************************)
(* A token that was created twice stays so.                                *)
(***************************************************************************)
LEMMA TwiceKept ==
  ASSUME TypeOK, CallsInPlace, StepKind, NEW u \in Users, NEW at \in Nat, CreatedTwice(u, at)
  PROVE  CreatedTwice(u, at)'
<1>1. PICK i \in Requests, j \in Requests :
        i # j /\ Call[i].user = u /\ Call[j].user = u /\ issued[i] = at /\ issued[j] = at
  BY DEF CreatedTwice, IssuersOf
<1>2. at # None
  BY DEF None
<1>3. issued'[i] = at /\ issued'[j] = at
  BY <1>1, <1>2, Kept
<1> QED
  BY <1>1, <1>3 DEF CreatedTwice, IssuersOf

(***************************************************************************)
(* Of two calls that created one token, one that has committed and one     *)
(* that has not, both did.                                                 *)
(***************************************************************************)
LEMMA TwoIssuers ==
  ASSUME TypeOK, StepKind, CallsInPlace, NEW u \in Users, NEW at \in Nat,
         NEW i \in wrote, i \in IssuersOf(u, at), NEW x \in Requests \ wrote, x \in IssuersOf(u, at)
  PROVE  CreatedTwice(u, at)'
<1>1. at # None
  BY DEF None
<1>2. issued'[i] = at /\ issued'[x] = at
  BY <1>1, Kept DEF IssuersOf
<1> QED
  BY <1>2 DEF CreatedTwice, IssuersOf

(***************************************************************************)
(* SpentTokens: a token is stored again only by a call that created it,    *)
(* and that call is not the one which created it first.                    *)
(***************************************************************************)
LEMMA SpentKept ==
  ASSUME TypeOK, CallsInPlace, TokensStored, SpentTokens, StepKind, TypeOK'
  PROVE  SpentTokens'
<1>0. /\ users \in [Users -> Row] /\ users' \in [Users -> Row] /\ wrote \subseteq Requests
      /\ loaded \in [Requests -> Row] /\ offer \in [Requests -> Second]
      /\ before \in [Requests -> SUBSET Requests]
  BY DEF TypeOK
<1> SUFFICES ASSUME NEW u \in Users, NEW r \in wrote',
                    Call[r].kind = "refresh", Call[r].user = u, offer'[r] = users'[u].hash
             PROVE  CreatedTwice(u, users[u].hash)'
  BY DEF SpentTokens, Refreshed
<1>1. r \in Requests /\ Loaded(r)
  BY Kept DEF TypeOK
<1>2. /\ offer'[r] = offer[r]
      /\ offer[r] = loaded[r].hash /\ offer[r] # None
  BY <1>1, Kept DEF CallsInPlace
<1>3. PICK at \in Nat : at = users'[u].hash /\ at = offer[r]
  <2>1. offer[r] \in Nat
    BY <1>0, <1>1, <1>2 DEF Second
  <2> QED
    BY <1>2, <2>1
<1>4. PICK i \in before[r] : i \in IssuersOf(u, at)
  BY <1>1, <1>2, <1>3 DEF TokensStored
<1>5. SUFFICES CreatedTwice(u, at)'
  BY <1>3 DEF CreatedTwice, IssuersOf
<1>6. i \in wrote
  BY <1>1 DEF CallsInPlace
<1>7. CASE users'[u].hash = users[u].hash /\ r \in wrote
  <2>1. CreatedTwice(u, at)
    BY <1>2, <1>3, <1>7 DEF SpentTokens, Refreshed
  <2> QED
    BY <2>1, TwiceKept
<1>8. CASE ~(users'[u].hash = users[u].hash /\ r \in wrote)
  <2>1. PICK x \in Requests : /\ Writes(x) /\ x \notin wrote
                              /\ \A v \in Users : v # Call[x].user => users'[v] = users[v]
    BY <1>8, RowWritten
  <2>2. wrote' = wrote \cup {x}
    BY <2>1 DEF Writes
  <2>3. Call[x].user = u
    <3>1. CASE users'[u].hash # users[u].hash
      BY <2>1, <3>1
    <3>2. CASE r \notin wrote
      BY <2>2, <3>2
    <3> QED
      BY <1>8, <3>1, <3>2
  <2>4. at # None /\ users'[u].hash # None
    BY <1>3 DEF None
  <2>5. ~RowInserted(x, users[u], users'[u])
    BY <2>4 DEF RowInserted, Registered
  <2>6. RowUpdated(x, users[u], users'[u])
    BY <2>1, <2>3, <2>5 DEF Writes
  <2>7. issued[x] = at
    <3>1. CASE users'[u].hash # users[u].hash
      BY <1>3, <2>4, <2>6, <3>1 DEF RowUpdated
    <3>2. CASE users'[u].hash = users[u].hash
      <4>1. r = x
        BY <1>8, <2>2, <3>2
      <4>2. Issuing(x) /\ loaded[x].hash = at
        BY <1>2, <1>3, <4>1 DEF Issuing
      <4>3. \/ users'[u].hash = issued[x]
            \/ loaded[x].hash = issued[x]
        BY <2>6, <4>2 DEF RowUpdated, Issuing
      <4> QED
        BY <1>3, <4>2, <4>3
    <3> QED
      BY <3>1, <3>2
  <2>8. x \in IssuersOf(u, at) /\ x \in Requests \ wrote
    BY <2>1, <2>3, <2>7 DEF IssuersOf
  <2> QED
    BY <1>4, <1>6, <2>8, TwoIssuers
<1> QED
  BY <1>7, <1>8

(***************************************************************************)
(* OffersUnspent: a refresh presents what was stored when it read.         *)
(***************************************************************************)
LEMMA UnspentKept ==
  ASSUME TypeOK, CallsInPlace, SpentTokens, OffersUnspent, StepKind, TypeOK', CallsInPlace'
  PROVE  OffersUnspent'
<1>0. /\ before \in [Requests -> SUBSET Requests] /\ wrote \subseteq Requests
      /\ offer \in [Requests -> Second] /\ offer' \in [Requests -> Second]
      /\ \A q \in wrote : Loaded(q)
  BY Kept DEF TypeOK
<1> SUFFICES ASSUME NEW s \in Requests, Loaded(s)', Call[s].kind = "refresh",
                    NEW r \in before'[s], Call[r].kind = "refresh", Call[r].user = Call[s].user,
                    offer'[r] = offer'[s]
             PROVE  CreatedTwice(Call[s].user, offer[s])'
  BY DEF OffersUnspent, Refreshed
<1>1. PICK at \in Nat : at = offer'[s]
  BY <1>0 DEF CallsInPlace, Second
<1>2. PICK u \in Users : u = Call[s].user
  BY CallFields
<1>3. SUFFICES CreatedTwice(u, at)'
  BY <1>1, <1>2 DEF CreatedTwice, IssuersOf
<1>4. CASE Loaded(s)
  <2>1. before'[s] = before[s] /\ offer'[s] = offer[s]
    BY <1>4, Kept
  <2>2. r \in wrote
    BY <1>4, <2>1 DEF CallsInPlace
  <2>3. offer'[r] = offer[r]
    BY <1>0, <2>2, Kept
  <2>4. CreatedTwice(Call[s].user, offer[s])
    BY <1>4, <2>1, <2>3 DEF OffersUnspent, Refreshed
  <2>5. CreatedTwice(u, at)
    BY <1>1, <1>2, <2>1, <2>4
  <2> QED
    BY <2>5, TwiceKept
<1>5. CASE ~Loaded(s)
  <2>1. before'[s] = wrote /\ offer'[s] = users[u].hash
    BY <1>2, <1>5, JustRead DEF Reads
  <2>2. offer'[r] = offer[r]
    BY <1>0, <2>1, Kept
  <2>3. CreatedTwice(u, users[u].hash)
    BY <1>2, <2>1, <2>2 DEF SpentTokens, Refreshed
  <2>4. CreatedTwice(u, at)
    BY <1>1, <2>1, <2>3
  <2> QED
    BY <2>4, TwiceKept
<1> QED
  BY <1>4, <1>5

(***************************************************************************)
(* A younger token stays younger.                                          *)
(***************************************************************************)
LEMMA YoungerKept ==
  ASSUME TypeOK, CallsInPlace, StepKind, NEW e \in Requests, Loaded(e), NEW at \in Nat,
         YoungerThan(e, at)
  PROVE  YoungerThan(e, at)'
<1>1. PICK i \in Requests : Call[i].user = Call[e].user /\ issued[i] = at /\ i \notin before[e]
  BY DEF YoungerThan, IssuersOf
<1>2. at # None
  BY DEF None
<1>3. issued'[i] = at /\ before'[e] = before[e]
  BY <1>1, <1>2, Kept
<1> QED
  BY <1>1, <1>3 DEF YoungerThan, IssuersOf

(***************************************************************************)
(* LogoutsHold: a logout that clears the hash leaves nothing, one that     *)
(* found none leaves what was stored since it read, and whoever stores     *)
(* later had not committed when it read.                                   *)
(***************************************************************************)
LEMMA LogoutsKept ==
  ASSUME TypeOK, CallsInPlace, LogoutsHold, StepKind, TypeOK', CallsInPlace'
  PROVE  LogoutsHold'
<1>0. /\ users' \in [Users -> Row] /\ loaded \in [Requests -> Row]
      /\ pc \in [Requests -> {"ready", "read", "issued", "written", "done"}]
      /\ \A q \in wrote : q \in Requests /\ Loaded(q)
  BY Kept DEF TypeOK
<1> SUFFICES ASSUME NEW e \in Requests, Call[e].kind = "logout",
                    users'[Call[e].user].hash # None,
                    e \in wrote' \/ (pc'[e] = "read" /\ loaded'[e].hash = None)
             PROVE  YoungerThan(e, users[Call[e].user].hash)'
  BY DEF LogoutsHold
<1>1. PICK u \in Users : u = Call[e].user
  BY CallFields
<1>2. PICK at \in Nat : at = users'[u].hash
  BY <1>0, <1>1 DEF Row, Second
<1>3. SUFFICES YoungerThan(e, at)'
  BY <1>1, <1>2 DEF YoungerThan, IssuersOf
<1>4. at # None /\ ~Issuing(e)
  BY <1>2 DEF None, Issuing
<1>5. Loaded(e)'
  BY DEF CallsInPlace, Loaded
<1>6. Loaded(e)
  <2>1. SUFFICES ASSUME ~Loaded(e) PROVE FALSE
    OBVIOUS
  <2>2. Reads(e) /\ loaded'[e] = users[u]
    BY <1>1, <1>5, <2>1, JustRead
  <2>3. users' = users /\ wrote' = wrote
    BY <2>2 DEF Reads
  <2> QED
    BY <1>0, <1>1, <2>1, <2>2, <2>3
<1>7. before'[e] = before[e] /\ loaded'[e] = loaded[e]
  BY <1>6, Kept
<1>8. e \in wrote' /\ e \notin wrote => Writes(e)
  BY DEF StepKind, Idles, Reads, Creates, Writes
<1>9. e \notin wrote' => pc[e] = "read"
  <2>1. ASSUME e \notin wrote', pc[e] # "read" PROVE FALSE
    <3>1. pc'[e] = "read" /\ pc[e] # "ready"
      BY <1>6, <2>1 DEF Loaded
    <3> QED
      BY <1>0, <2>1, <3>1 DEF StepKind, Idles, Reads, Creates, Writes
  <2> QED
    BY <2>1
<1>10. CASE users'[u].hash = users[u].hash
  <2>1. e \in wrote \/ (pc[e] = "read" /\ loaded[e].hash = None)
    <3>1. CASE e \in wrote' /\ e \notin wrote
      <4>1. RowUpdated(e, users[u], users'[u]) /\ pc[e] = "read"
        BY <1>1, <1>4, <1>8, <3>1 DEF Writes, RowInserted
      <4> QED
        BY <1>2, <1>4, <4>1 DEF RowUpdated
    <3>2. CASE e \notin wrote'
      BY <1>7, <1>9, <3>2
    <3> QED
      BY <3>1, <3>2
  <2>2. YoungerThan(e, at)
    BY <1>1, <1>2, <1>10, <2>1 DEF LogoutsHold
  <2> QED
    BY <1>6, <2>2, YoungerKept
<1>11. CASE users'[u].hash # users[u].hash
  <2>1. PICK x \in Requests : /\ Writes(x) /\ x \notin wrote
                              /\ \A v \in Users : v # Call[x].user => users'[v] = users[v]
    BY <1>11, RowWritten
  <2>2. Call[x].user = u
    BY <1>11, <2>1
  <2>3. users'[u].hash # None
    BY <1>2, <1>4
  <2>4. ~RowInserted(x, users[u], users'[u])
    BY <2>3 DEF RowInserted, Registered
  <2>5. RowUpdated(x, users[u], users'[u])
    BY <2>1, <2>2, <2>4 DEF Writes
  <2>6. users'[u].hash = issued[x]
    BY <1>11, <2>3, <2>5 DEF RowUpdated
  <2>7. x \notin before[e]
    BY <2>1 DEF CallsInPlace
  <2>8. YoungerThan(e, at)
    BY <1>1, <1>2, <2>2, <2>6, <2>7 DEF YoungerThan, IssuersOf
  <2> QED
    BY <1>6, <2>8, YoungerKept
<1> QED
  BY <1>10, <1>11

(***************************************************************************)
(* OffersAfterLogout: a refresh presents what was stored when it read.     *)
(***************************************************************************)
LEMMA OffersKept ==
  ASSUME TypeOK, CallsInPlace, LogoutsHold, OffersAfterLogout, StepKind, TypeOK', CallsInPlace'
  PROVE  OffersAfterLogout'
<1>0. /\ offer' \in [Requests -> Second] /\ before \in [Requests -> SUBSET Requests]
      /\ \A q \in wrote : q \in Requests /\ Loaded(q)
  BY Kept DEF TypeOK
<1> SUFFICES ASSUME NEW r \in Requests, Loaded(r)', Call[r].kind = "refresh",
                    NEW e \in before'[r], Call[e].kind = "logout", Call[e].user = Call[r].user
             PROVE  YoungerThan(e, offer[r])'
  BY DEF OffersAfterLogout
<1>1. PICK at \in Nat : at = offer'[r]
  BY <1>0 DEF CallsInPlace, Second
<1>2. SUFFICES YoungerThan(e, at)'
  BY <1>1 DEF YoungerThan, IssuersOf
<1>3. CASE Loaded(r)
  <2>1. before'[r] = before[r] /\ offer'[r] = offer[r]
    BY <1>3, Kept
  <2>2. e \in wrote /\ YoungerThan(e, at)
    BY <1>1, <1>3, <2>1 DEF CallsInPlace, OffersAfterLogout
  <2> QED
    BY <1>0, <2>2, YoungerKept
<1>4. CASE ~Loaded(r)
  <2>1. before'[r] = wrote /\ offer'[r] = users[Call[r].user].hash
    BY <1>4, JustRead DEF Reads
  <2>2. users[Call[r].user].hash # None
    BY <1>4, JustRead DEF Reads
  <2>3. e \in wrote /\ e \in Requests /\ Loaded(e)
    BY <1>0, <2>1
  <2>4. YoungerThan(e, at)
    BY <1>1, <2>1, <2>2, <2>3 DEF LogoutsHold
  <2> QED
    BY <2>3, <2>4, YoungerKept
<1> QED
  BY <1>3, <1>4

-----------------------------------------------------------------------------
(***************************************************************************)
(* What may become of a row: it does not go, it is not activated, and only *)
(* an administrative call takes an administrator away.                     *)
(***************************************************************************)
LEMMA RowMoves ==
  ASSUME TypeOK, TypeOK', CallsInPlace, ActiveExists, StepKind, NEW u \in Users
  PROVE  /\ users[u].exists => /\ users'[u].exists
                               /\ users'[u].active => users[u].active
         /\ users'[u].active => users'[u].exists
         /\ IsAdmin(u) => \/ IsAdmin(u)'
                          \/ \E x \in Requests : Writes(x) /\ Administrative(x) /\ Call[x].user = u
<1>0. users[u] \in Row /\ users'[u] \in Row /\ (users[u].active => users[u].exists)
  BY DEF TypeOK, ActiveExists
<1>1. CASE users'[u] = users[u]
  BY <1>0, <1>1 DEF IsAdmin
<1>2. CASE users'[u] # users[u]
  <2>1. PICK x \in Requests : /\ Writes(x)
                              /\ \A v \in Users : v # Call[x].user => users'[v] = users[v]
    BY <1>2, RowWritten
  <2>2. Call[x].user = u
    BY <1>2, <2>1
  <2>3. CASE RowInserted(x, users[u], users'[u])
    <3>1. ~users[u].exists /\ users'[u].exists
      BY <2>3 DEF RowInserted, Registered
    <3> QED
      BY <1>0, <3>1 DEF IsAdmin
  <2>4. CASE RowUpdated(x, users[u], users'[u])
    <3>1. /\ users'[u].exists = users[u].exists
          /\ Call[x].kind \notin {"role", "deactivate"} =>
               users'[u].active = users[u].active /\ users'[u].role = users[u].role
      BY <2>4 DEF RowUpdated
    <3>2. users'[u].active => users[u].active
      BY <1>0, <2>4 DEF RowUpdated, Row
    <3> QED
      BY <1>0, <2>1, <2>2, <3>1, <3>2 DEF IsAdmin, Administrative
  <2> QED
    BY <2>1, <2>2, <2>3, <2>4 DEF Writes
<1> QED
  BY <1>1, <1>2

LEMMA ActiveKept ==
  ASSUME TypeOK, TypeOK', CallsInPlace, ActiveExists, StepKind
  PROVE  ActiveExists'
BY RowMoves DEF ActiveExists

(***************************************************************************)
(* InactiveStays: whoever deactivates leaves an inactive row, whoever      *)
(* finds it inactive leaves it alone, and nobody activates it.             *)
(***************************************************************************)
LEMMA InactiveKept ==
  ASSUME TypeOK, TypeOK', CallsInPlace, CallsInPlace', ActiveExists, InactiveStays, StepKind
  PROVE  InactiveStays'
<1>0. /\ pc \in [Requests -> {"ready", "read", "issued", "written", "done"}]
      /\ \A q \in Requests : users[Call[q].user] \in Row /\ users'[Call[q].user] \in Row
  BY CallFields DEF TypeOK
<1> SUFFICES ASSUME NEW e \in Requests
             PROVE  /\ e \in wrote' /\ Call[e].kind = "deactivate" =>
                         users'[Call[e].user].exists /\ ~users'[Call[e].user].active
                    /\ pc'[e] = "read" /\ Administrative(e) =>
                         /\ users'[Call[e].user].exists
                         /\ ~loaded'[e].active => ~users'[Call[e].user].active
  BY DEF InactiveStays
<1>1. PICK u \in Users : u = Call[e].user
  BY CallFields
<1>2. users[u].exists => users'[u].exists /\ (users'[u].active => users[u].active)
  BY RowMoves
<1>3. ASSUME e \in wrote', Call[e].kind = "deactivate"
      PROVE  users'[u].exists /\ ~users'[u].active
  <2>1. CASE e \in wrote
    BY <1>1, <1>2, <1>3, <2>1 DEF InactiveStays
  <2>2. CASE e \notin wrote
    <3>1. Writes(e)
      BY <1>3, <2>2 DEF StepKind, Idles, Reads, Creates, Writes
    <3>2. RowUpdated(e, users[u], users'[u]) /\ pc[e] = "read" /\ Administrative(e)
      BY <1>1, <1>3, <3>1 DEF Writes, RowInserted, Issuing, Administrative
    <3>3. users[u].exists /\ (~loaded[e].active => ~users[u].active)
      BY <1>1, <3>2 DEF InactiveStays
    <3> QED
      BY <1>2, <1>3, <3>2, <3>3 DEF RowUpdated
  <2> QED
    BY <2>1, <2>2
<1>4. ASSUME pc'[e] = "read", Administrative(e)
      PROVE  users'[u].exists /\ (~loaded'[e].active => ~users'[u].active)
  <2>1. CASE Loaded(e)
    <3>1. pc[e] = "read"
      BY <1>0, <1>4, <2>1 DEF StepKind, Idles, Reads, Creates, Writes, Loaded
    <3>2. loaded'[e] = loaded[e]
      BY <2>1, Kept
    <3> QED
      BY <1>1, <1>2, <1>4, <3>1, <3>2 DEF InactiveStays
  <2>2. CASE ~Loaded(e)
    <3>1. Loaded(e)'
      BY <1>4 DEF Loaded
    <3>2. Reads(e) /\ loaded'[e] = users[u]
      BY <1>1, <2>2, <3>1, JustRead
    <3>3. users' = users /\ users[u].exists
      BY <1>1, <1>4, <3>2 DEF Reads
    <3> QED
      BY <3>2, <3>3
  <2> QED
    BY <2>1, <2>2
<1> QED
  BY <1>1, <1>3, <1>4

(***************************************************************************)
(* LoginsActive: a login or a refresh reads an active row.                 *)
(***************************************************************************)
LEMMA LoginsKept ==
  ASSUME TypeOK, CallsInPlace, InactiveStays, LoginsActive, StepKind
  PROVE  LoginsActive'
<1> SUFFICES ASSUME NEW r \in Requests, Loaded(r)', Issuing(r),
                    NEW e \in before'[r], Call[e].kind = "deactivate"
             PROVE  Call[e].user # Call[r].user
  BY DEF LoginsActive
<1>1. CASE Loaded(r)
  <2>1. before'[r] = before[r]
    BY <1>1, Kept
  <2> QED
    BY <1>1, <2>1 DEF LoginsActive
<1>2. CASE ~Loaded(r)
  <2>1. before'[r] = wrote /\ users[Call[r].user].active
    BY <1>2, JustRead DEF Reads
  <2> QED
    BY <2>1 DEF InactiveStays, TypeOK
<1> QED
  BY <1>1, <1>2

(***************************************************************************)
(* AdminStands: an administrative call reads while the administrator it    *)
(* acts for is one; only another administrative call changes that.         *)
(***************************************************************************)
LEMMA StandsKept ==
  ASSUME TypeOK, TypeOK', CallsInPlace, CallsInPlace', ActiveExists, AdminStands, StepKind
  PROVE  AdminStands'
<1>0. pc \in [Requests -> {"ready", "read", "issued", "written", "done"}]
  BY DEF TypeOK
<1> SUFFICES ASSUME NEW r \in Requests, pc'[r] = "read", Administrative(r)
             PROVE  \/ IsAdmin(Call[r].admin)' /\ Call[r].admin # Call[r].user
                    \/ \E s \in wrote' : Administrative(s) /\ s \notin before'[r]
  BY DEF AdminStands
<1>1. PICK u \in Users : u = Call[r].admin
  BY CallFields
<1>2. CASE Loaded(r)
  <2>1. pc[r] = "read"
    BY <1>0, <1>2 DEF StepKind, Idles, Reads, Creates, Writes, Loaded
  <2>2. before'[r] = before[r] /\ wrote \subseteq wrote' /\ before[r] \subseteq wrote
    BY <1>2, Kept DEF CallsInPlace
  <2>3. CASE \E s \in wrote : Administrative(s) /\ s \notin before[r]
    BY <2>2, <2>3
  <2>4. CASE IsAdmin(u) /\ u # Call[r].user
    <3>1. CASE IsAdmin(u)'
      BY <1>1, <2>4, <3>1 DEF IsAdmin
    <3>2. CASE ~IsAdmin(u)'
      <4>1. PICK x \in Requests : Writes(x) /\ Administrative(x)
        BY <2>4, <3>2, RowMoves
      <4>2. x \in wrote' /\ x \notin wrote
        BY <4>1 DEF Writes, CallsInPlace
      <4> QED
        BY <2>2, <4>1, <4>2
    <3> QED
      BY <3>1, <3>2
  <2> QED
    BY <1>1, <2>1, <2>3, <2>4 DEF AdminStands
<1>3. CASE ~Loaded(r)
  <2>1. Loaded(r)'
    BY DEF Loaded
  <2>2. Reads(r)
    BY <1>3, <2>1, JustRead
  <2>3. MayAdminister(r) /\ users' = users
    BY <2>2 DEF Reads
  <2> QED
    BY <2>3 DEF MayAdminister, IsAdmin
<1> QED
  BY <1>2, <1>3

-----------------------------------------------------------------------------
(***************************************************************************)
(* The invariant is inductive.                                             *)
(***************************************************************************)
LEMMA InitIInv == Init => IInv
<1> SUFFICES ASSUME Init PROVE IInv
  OBVIOUS
<1>1. /\ \A r \in Requests : /\ pc[r] = "ready" /\ loaded[r] = Absent /\ before[r] = {}
                             /\ offer[r] = None /\ issued[r] = None
      /\ wrote = {}
      /\ \A u \in Users : users[u].hash = None /\ (users[u].active => users[u].exists)
  BY DEF Init, Absent
<1>2. TypeOK
  <2>1. [exists |-> TRUE, active |-> TRUE, role |-> "ADMIN", hash |-> None] \in Row
    BY DEF Row, UserRole, Second
  <2> QED
    BY <2>1, EmptyRow DEF Init, TypeOK, Second
<1>3. FinitelyManyBegan
  <2>1. {r \in Requests : Loaded(r)} = {}
    BY <1>1 DEF Loaded
  <2> QED
    BY <2>1, FS_EmptySet DEF FinitelyManyBegan
<1>4. CallsInPlace /\ TokensStored /\ SpentTokens /\ OffersUnspent /\ LogoutsHold /\ OffersAfterLogout
  BY <1>1 DEF CallsInPlace, TokensStored, SpentTokens, OffersUnspent, LogoutsHold, OffersAfterLogout,
              Loaded, Refreshed
<1>5. ActiveExists /\ InactiveStays /\ LoginsActive /\ AdminStands
  BY <1>1 DEF ActiveExists, InactiveStays, LoginsActive, AdminStands, Loaded
<1> QED
  BY <1>2, <1>3, <1>4, <1>5 DEF IInv

LEMMA NextIInv ==
  ASSUME IInv, [Next]_vars
  PROVE  IInv'
<1>1. TypeOK' /\ StepKind
  BY StepTypes, StepKinds DEF IInv, StepKind
<1>2. CallsInPlace'
  BY <1>1, PlacesKept DEF IInv
<1>3. FinitelyManyBegan' /\ TokensStored'
  BY <1>1, BegunKept, StoredKept DEF IInv
<1>4. SpentTokens' /\ OffersUnspent'
  BY <1>1, <1>2, SpentKept, UnspentKept DEF IInv
<1>5. LogoutsHold' /\ OffersAfterLogout'
  BY <1>1, <1>2, LogoutsKept, OffersKept DEF IInv
<1>6. ActiveExists' /\ InactiveStays'
  BY <1>1, <1>2, ActiveKept, InactiveKept DEF IInv
<1>7. LoginsActive' /\ AdminStands'
  BY <1>1, <1>2, LoginsKept, StandsKept DEF IInv
<1> QED
  BY <1>1, <1>2, <1>3, <1>4, <1>5, <1>6, <1>7 DEF IInv

LEMMA AlwaysIInv == Spec => []IInv
<1>1. IInv /\ UNCHANGED vars => IInv'
  BY NextIInv
<1> QED
  BY InitIInv, NextIInv, <1>1, PTL DEF Spec

(***************************************************************************)
(* What follows from the invariant.                                        *)
(***************************************************************************)
LEMMA TwiceIsMany ==
  ASSUME CallsInPlace, FinitelyManyBegan, NEW u \in Users, NEW at, at # None, CreatedTwice(u, at)
  PROVE  Cardinality(IssuersOf(u, at)) > 1
<1>1. PICK i \in IssuersOf(u, at), j \in IssuersOf(u, at) : i # j
  BY DEF CreatedTwice
<1>2. IssuersOf(u, at) \subseteq {r \in Requests : Loaded(r)}
  BY DEF IssuersOf, CallsInPlace, Loaded
<1>3. IsFiniteSet(IssuersOf(u, at))
  BY <1>2, FS_Subset DEF FinitelyManyBegan
<1>4. IsFiniteSet({i}) /\ Cardinality({i}) = 1
  BY FS_Singleton
<1>5. Cardinality({i} \cup {j}) = 2
  BY <1>1, <1>4, FS_AddElement
<1>6. Cardinality({i} \cup {j}) <= Cardinality(IssuersOf(u, at))
  BY <1>1, <1>3, FS_Subset
<1>7. Cardinality(IssuersOf(u, at)) \in Nat
  BY <1>3, FS_CardinalityType
<1> QED
  BY <1>5, <1>6, <1>7

LEMMA ExchangedInTurn ==
  ASSUME IInv, NEW u \in Users,
         NEW r \in Committed({"refresh"}, u), NEW s \in Committed({"refresh"}, u),
         r \in before[s], offer[r] = offer[s]
  PROVE  Cardinality(IssuersOf(u, offer[r])) > 1
<1>1. /\ s \in Requests /\ Call[s].kind = "refresh" /\ Call[s].user = u
      /\ Call[r].kind = "refresh" /\ Call[r].user = u
  BY DEF Committed, IInv, TypeOK
<1>2. Loaded(s) /\ offer[s] # None
  BY <1>1 DEF Committed, IInv, CallsInPlace, Loaded
<1>3. CreatedTwice(u, offer[s])
  BY <1>1, <1>2 DEF IInv, OffersUnspent, Refreshed
<1> QED
  BY <1>2, <1>3, TwiceIsMany DEF IInv

LEMMA InvExchangedOnce == IInv => TokenExchangedOnce
BY ExchangedInTurn DEF TokenExchangedOnce, Overlap

LEMMA InvSessionsEnd == IInv => SessionsEnd
<1> SUFFICES ASSUME IInv PROVE SessionsEnd
  OBVIOUS
<1>0. \A r \in wrote : r \in Requests /\ Loaded(r)
  BY DEF IInv, TypeOK, CallsInPlace, Loaded
<1>1. ASSUME NEW u \in Users, NEW e \in Committed({"logout"}, u), NEW r \in Committed({"refresh"}, u),
             e \in before[r]
      PROVE  \E i \in IssuersOf(u, offer[r]) : i \notin before[e]
  BY <1>0, <1>1 DEF Committed, IInv, OffersAfterLogout, YoungerThan
<1>2. ASSUME NEW u \in Users, NEW e \in Committed({"deactivate"}, u),
             NEW r \in Committed({"login", "refresh"}, u)
      PROVE  e \notin before[r]
  BY <1>0, <1>2 DEF Committed, IInv, LoginsActive, Issuing
<1> QED
  BY <1>1, <1>2 DEF SessionsEnd

(***************************************************************************)
(* An administrator remains, once there is one.                            *)
(***************************************************************************)
LEMMA AdminsKept ==
  ASSUME IInv, AdminsRemain, [Next]_vars
  PROVE  AdminsRemain'
<1>0. TypeOK' /\ StepKind
  BY StepTypes, StepKinds DEF IInv, StepKind
<1>1. wrote \subseteq wrote' /\ wrote \subseteq Requests /\ \A q \in wrote : before'[q] = before[q]
  BY <1>0, Kept DEF IInv, TypeOK
<1>2. CASE \E r, s \in wrote : r # s /\ Administrative(r) /\ Administrative(s) /\ Overlap(r, s)
  BY <1>1, <1>2 DEF AdminsRemain, Overlap
<1>3. ASSUME NEW u \in Users, IsAdmin(u) PROVE AdminsRemain'
  <2>1. CASE IsAdmin(u)'
    BY <2>1 DEF IsAdmin, AdminsRemain
  <2>2. CASE ~IsAdmin(u)'
    <3>1. PICK x \in Requests : Writes(x) /\ Administrative(x) /\ Call[x].user = u
      BY <1>0, <1>3, <2>2, RowMoves DEF IInv
    <3>2. /\ pc[x] = "read" /\ x \notin wrote /\ x \in wrote'
          /\ before' = before
          /\ \A v \in Users \ {u} : users'[v] = users[v]
      BY <3>1 DEF Writes, IInv, CallsInPlace, Administrative, Issuing
    <3>3. CASE IsAdmin(Call[x].admin) /\ Call[x].admin # u
      <4>1. IsAdmin(Call[x].admin)'
        BY <3>2, <3>3, CallFields DEF IsAdmin
      <4> QED
        BY <4>1, CallFields DEF IsAdmin, AdminsRemain
    <3>4. CASE \E s \in wrote : Administrative(s) /\ s \notin before[x]
      <4>1. PICK s \in wrote : Administrative(s) /\ s \notin before[x]
        BY <3>4
      <4>2. x \notin before[s] /\ s # x /\ s \in wrote'
        BY <1>1, <3>2, <4>1 DEF IInv, CallsInPlace
      <4>3. Overlap(s, x)'
        BY <3>2, <4>1, <4>2 DEF Overlap
      <4> QED
        BY <3>1, <3>2, <4>1, <4>2, <4>3 DEF AdminsRemain, Overlap
    <3> QED
      BY <3>1, <3>2, <3>3, <3>4 DEF IInv, AdminStands
  <2> QED
    BY <2>1, <2>2
<1> QED
  BY <1>2, <1>3 DEF AdminsRemain, IsAdmin

-----------------------------------------------------------------------------
(***************************************************************************)
(* Type correctness.                                                       *)
(***************************************************************************)
THEOREM TypeCorrect == Spec => []TypeOK
<1>1. IInv => TypeOK
  BY DEF IInv
<1> QED
  BY AlwaysIInv, <1>1, PTL

(***************************************************************************)
(* refresh_tokens: a refresh token is exchanged twice only by calls that   *)
(* overlap, or if two calls created it within one second, for every set of *)
(* users and calls and every lifetime.                                     *)
(***************************************************************************)
THEOREM ExchangedOnce == Spec => []TokenExchangedOnce
BY AlwaysIInv, InvExchangedOnce, PTL

(***************************************************************************)
(* logout and deactivate_user: a refresh that reads after a logout has     *)
(* committed presents a token whose creation overlapped it; after a        *)
(* deactivation nobody logs in or refreshes.                               *)
(***************************************************************************)
THEOREM SessionsEndForGood == Spec => []SessionsEnd
BY AlwaysIInv, InvSessionsEnd, PTL

(***************************************************************************)
(* change_user_role and deactivate_user: a platform that starts with an    *)
(* administrator keeps one, unless two of these calls overlap.             *)
(***************************************************************************)
THEOREM AdminsStay ==
  ASSUME Staff # {}
  PROVE  Spec => []AdminsRemain
<1>1. Init => AdminsRemain
  <2> SUFFICES ASSUME Init PROVE AdminsRemain
    OBVIOUS
  <2>1. PICK u \in Users : u \in Staff
    BY AccountsAssumption
  <2>2. users[u].active /\ users[u].role = "ADMIN"
    BY <2>1 DEF Init
  <2> QED
    BY <2>2 DEF AdminsRemain
<1>2. IInv /\ AdminsRemain /\ [Next]_vars => AdminsRemain'
  BY AdminsKept
<1> QED
  BY <1>1, <1>2, AlwaysIInv, PTL DEF Spec
=============================================================================
