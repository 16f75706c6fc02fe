----------------------------- MODULE UssdProofs -----------------------------
(***************************************************************************)
(* Theorems about UssdService, for every set of sessions, calls and        *)
(* cleaners, every TTL and every batch size.                               *)
(***************************************************************************)
EXTENDS UssdService, TLAPS

(***************************************************************************)
(* What a call is made of.                                                 *)
(***************************************************************************)
LEMMA CallFields ==
  ASSUME NEW c \in Calls
  PROVE  /\ c.op \in {"start", "advance", "end"}
         /\ c.session \in Sessions
         /\ c.live \in BOOLEAN
         /\ Slot(c) \in Sessions \X BOOLEAN
BY UssdAssumption DEF Slot

(***************************************************************************)
(* A session has one start.                                                *)
(***************************************************************************)
LEMMA OneStart ==
  ASSUME NEW c \in Calls, NEW d \in Calls,
         c.op = "start", d.op = "start", c.session = d.session
  PROVE  c = d
BY UssdAssumption

(***************************************************************************)
(* Time passes within the types.                                           *)
(***************************************************************************)
LEMMA TickTypes ==
  ASSUME TypeOK, Tick, StepTypes'
  PROVE  TypeOK'
<1>1. ttl' \in [Sessions \X BOOLEAN -> 0 .. TTL]
  <2>1. \A n \in 0 .. TTL : n # 0 => n - 1 \in 0 .. TTL
    BY UssdAssumption
  <2>2. DOMAIN ttl = Sessions \X BOOLEAN
    BY DEF TypeOK
  <2> QED
    BY <2>1, <2>2, UssdAssumption DEF TypeOK, Tick
<1>2. left' \in [Sessions -> -1 .. TTL] /\ fresh' \in [Calls -> -1 .. TTL]
  BY UssdAssumption DEF TypeOK, Tick, Sooner
<1> QED
  BY <1>1, <1>2 DEF TypeOK, Tick

(***************************************************************************)
(* Steps and what has been read of them are sets of calls.                 *)
(***************************************************************************)
LEMMA StepTypesStep ==
  ASSUME StepTypes, [Next]_vars
  PROVE  StepTypes'
<1>1. ASSUME NEW c \in Calls, SetKey(c) PROVE StepTypes'
  <2>1. base[c] \subseteq Calls
    BY DEF StepTypes
  <2>2. (IF c.op = "start" THEN {} ELSE base[c] \cup {c}) \in SUBSET Calls
    BY <2>1
  <2>3. steps' \in [Sessions \X BOOLEAN -> SUBSET Calls]
    BY <1>1, <2>2 DEF SetKey, StepTypes
  <2> QED
    BY <1>1, <2>3 DEF SetKey, StepTypes
<1>2. ASSUME NEW c \in Calls, Gate(c) PROVE StepTypes'
  <2>1. steps[Slot(c)] \subseteq Calls
    BY CallFields DEF StepTypes
  <2> QED
    BY <1>2, <2>1 DEF Gate, StepTypes
<1>3. CASE UNCHANGED stepVars
  BY <1>3 DEF stepVars, StepTypes
<1> QED
  BY <1>1, <1>2, <1>3
     DEF Next, Serve, Begin, Insert, InsertFails, Undo, Fetch, DropKey, Advance, Find, Delete,
         MarkEnded, Crash, Select, Timeout, CleanerCrash, Tick, vars

(***************************************************************************)
(* Every step keeps what holds of the stores and the calls.                *)
(***************************************************************************)
LEMMA StoresStep ==
  ASSUME Stores, Next
  PROVE  Stores'
<1> USE UssdAssumption, CallFields, OneStart
<1> USE DEF Stores, PlacesOfCalls, StartMakesRow, OthersFindRow, OrphansAreClosed, NoOrphanKey,
            Known, Slot
<1>0. StepTypes'
  BY StepTypesStep DEF TypeOK
<1> USE <1>0
<1>1. ASSUME NEW c \in Calls, Begin(c) PROVE Stores'
  BY <1>1 DEF Begin, Goto, TypeOK
<1>2. ASSUME NEW c \in Calls, SetKey(c) PROVE Stores'
  BY <1>2 DEF SetKey, Goto, TypeOK
<1>3. ASSUME NEW c \in Calls, Insert(c) PROVE Stores'
  BY <1>3 DEF Insert, Goto, USSDState, TypeOK
<1>4. ASSUME NEW c \in Calls, InsertFails(c) PROVE Stores'
  BY <1>4 DEF InsertFails, Goto, TypeOK
<1>5. ASSUME NEW c \in Calls, Undo(c) PROVE Stores'
  BY <1>5 DEF Undo, Goto, TypeOK
<1>6. ASSUME NEW c \in Calls, Gate(c) PROVE Stores'
  BY <1>6 DEF Gate, Goto, TypeOK
<1>7. ASSUME NEW c \in Calls, Fetch(c) PROVE Stores'
  BY <1>7 DEF Fetch, Goto, TypeOK
<1>8. ASSUME NEW c \in Calls, DropKey(c) PROVE Stores'
  BY <1>8 DEF DropKey, Goto, TypeOK
<1>9. ASSUME NEW c \in Calls, Advance(c) PROVE Stores'
  BY <1>9 DEF Advance, Goto, TypeOK
<1>10. ASSUME NEW c \in Calls, Find(c) PROVE Stores'
  BY <1>10 DEF Find, Goto, TypeOK
<1>11. ASSUME NEW c \in Calls, Delete(c) PROVE Stores'
  BY <1>11 DEF Delete, Goto, TypeOK
<1>12. ASSUME NEW c \in Calls, MarkEnded(c) PROVE Stores'
  BY <1>12 DEF MarkEnded, Goto, USSDState, TypeOK
<1>13. ASSUME NEW c \in Calls, Crash(c) PROVE Stores'
  BY <1>13 DEF Crash, TypeOK
<1>14. ASSUME NEW w \in Cleaners, Select(w) PROVE Stores'
  BY <1>14 DEF Select, Expired, TypeOK
<1>15. ASSUME NEW w \in Cleaners, Timeout(w) PROVE Stores'
  BY <1>15 DEF Timeout, USSDState, TypeOK
<1>16. ASSUME NEW w \in Cleaners, CleanerCrash(w) PROVE Stores'
  BY <1>16 DEF CleanerCrash, TypeOK
<1>17. ASSUME Tick PROVE Stores'
  BY <1>17, TickTypes DEF Tick, TypeOK
<1> QED
  BY <1>1, <1>2, <1>3, <1>4, <1>5, <1>6, <1>7, <1>8, <1>9, <1>10, <1>11, <1>12, <1>13, <1>14, <1>15, <1>16, <1>17 DEF Next, Serve

(***************************************************************************)
(* A call of end that is under way stays so until the row is closed.       *)
(***************************************************************************)
LEMMA EndLasts ==
  ASSUME Stores, Next, NEW s \in Sessions, row'[s] = "ACTIVE", ~EndUnderWay(s)'
  PROVE  ~EndUnderWay(s)
<1> SUFFICES ASSUME NEW c \in Calls, c.op = "end", c.session = s,
                    pc[c] \in {"marking", "crashed"}, pc'[c] \notin {"marking", "crashed"}
             PROVE  FALSE
  BY DEF EndUnderWay
<1>1. MarkEnded(c)
  BY DEF Next, Serve, Begin, SetKey, Insert, InsertFails, Undo, Gate, Fetch, DropKey, Advance,
         Find, Delete, MarkEnded, Crash, Select, Timeout, CleanerCrash, Tick, Goto, Stores, TypeOK
<1> QED
  BY <1>1 DEF MarkEnded, Stores, TypeOK

(***************************************************************************)
(* A session that is open after a step other than its INSERT was open.     *)
(***************************************************************************)
LEMMA OpenBefore ==
  ASSUME Stores, Next, NEW s \in Sessions, row'[s] = "ACTIVE", row[s] # "ACTIVE"
  PROVE  \E c \in Calls : Insert(c) /\ c.session = s
BY CallFields
   DEF Next, Serve, Begin, SetKey, Insert, InsertFails, Undo, Gate, Fetch, DropKey, Advance,
       Find, Delete, MarkEnded, Crash, Select, Timeout, CleanerCrash, Tick, Stores, TypeOK

(***************************************************************************)
(* The key of a session that stays open and that nobody ends is never      *)
(* deleted: a start undoes its own failure, an advance drops the key of a  *)
(* closed session, and an end is under way.                                *)
(***************************************************************************)
LEMMA KeyStays ==
  ASSUME Stores, Next, ~Tick, NEW s \in Sessions, NEW live \in BOOLEAN,
         row[s] = "ACTIVE", ~EndUnderWay(s)'
  PROVE  ttl'[<<s, live>>] >= ttl[<<s, live>>]
<1> DEFINE k == <<s, live>>
<1>1. ttl[k] \in 0 .. TTL /\ TTL \in Nat
  BY UssdAssumption DEF Stores, TypeOK
<1>2. ASSUME NEW c \in Calls, SetKey(c) PROVE ttl'[k] >= ttl[k]
  BY <1>1, <1>2, CallFields DEF SetKey, Stores, TypeOK
<1>3. ASSUME NEW c \in Calls, Undo(c) PROVE ttl'[k] >= ttl[k]
  BY <1>1, <1>3, CallFields DEF Undo, Goto, Slot, Stores, TypeOK, PlacesOfCalls, StartMakesRow
<1>4. ASSUME NEW c \in Calls, DropKey(c) PROVE ttl'[k] >= ttl[k]
  BY <1>1, <1>4, CallFields DEF DropKey, Goto, Slot, Stores, TypeOK, OrphansAreClosed
<1>5. ASSUME NEW c \in Calls, Delete(c) PROVE ttl'[k] >= ttl[k]
  <2>1. c.op = "end" /\ pc'[c] = "marking"
    BY <1>5 DEF Delete, Goto, Stores, TypeOK, PlacesOfCalls
  <2>2. c.session # s
    BY <2>1 DEF EndUnderWay
  <2> QED
    BY <1>1, <1>5, <2>2, CallFields DEF Delete, Slot, Stores, TypeOK
<1>6. CASE UNCHANGED ttl
  BY <1>1, <1>6
<1> QED
  BY <1>2, <1>3, <1>4, <1>5, <1>6
     DEF Next, Serve, Begin, Insert, InsertFails, Gate, Fetch, Advance,
         Find, MarkEnded, Crash, Select, Timeout, CleanerCrash

(***************************************************************************)
(* Nobody but its start touches the key of a session that has no row.      *)
(***************************************************************************)
LEMMA FirstKeyStays ==
  ASSUME Stores, Next, ~Tick, NEW c \in Calls, pc[c] = "inserting"
  PROVE  ttl'[Slot(c)] >= ttl[Slot(c)]
<1>1. /\ ttl \in [Sessions \X BOOLEAN -> 0 .. TTL] /\ TTL \in Nat
      /\ ttl[Slot(c)] \in 0 .. TTL
  BY UssdAssumption, CallFields DEF Stores, TypeOK
<1>2. c.op = "start" /\ row[c.session] = "none"
  BY DEF Stores, PlacesOfCalls, StartMakesRow
<1>3. ASSUME NEW d \in Calls, SetKey(d) PROVE ttl'[Slot(c)] >= ttl[Slot(c)]
  BY <1>1, <1>3, CallFields DEF SetKey
<1>4. ASSUME NEW d \in Calls, pc[d] \in {"undoing", "orphaned", "deleting"}
      PROVE  Slot(d) # Slot(c)
  <2>1. d.session # c.session
    BY <1>2, <1>4, OneStart
       DEF Stores, TypeOK, PlacesOfCalls, OthersFindRow, Known
  <2> QED
    BY <2>1 DEF Slot
<1>5. ASSUME NEW d \in Calls, Undo(d) \/ DropKey(d) \/ Delete(d)
      PROVE  ttl'[Slot(c)] >= ttl[Slot(c)]
  BY <1>1, <1>4, <1>5, CallFields DEF Undo, DropKey, Delete, Goto
<1>6. CASE UNCHANGED ttl
  BY <1>1, <1>6
<1> QED
  BY <1>3, <1>5, <1>6
     DEF Next, Serve, Begin, Insert, InsertFails, Gate, Fetch, Advance,
         Find, MarkEnded, Crash, Select, Timeout, CleanerCrash

(***************************************************************************)
(* The key outlives the expires_at of the row: the row takes over what a   *)
(* call has computed, and the clock takes a tick from both.                *)
(***************************************************************************)
LEMMA RowStep ==
  ASSUME IInv, Next
  PROVE  KeyOutlivesRow'
<1> SUFFICES ASSUME NEW s \in Sessions, row'[s] = "ACTIVE", ~EndUnderWay(s)'
             PROVE  \E live \in BOOLEAN : left'[s] <= ttl'[<<s, live>>]
  BY DEF KeyOutlivesRow
<1>1. /\ ttl \in [Sessions \X BOOLEAN -> 0 .. TTL] /\ TTL \in Nat
      /\ left \in [Sessions -> -1 .. TTL] /\ fresh \in [Calls -> -1 .. TTL]
      /\ ttl' \in [Sessions \X BOOLEAN -> 0 .. TTL] /\ left' \in [Sessions -> -1 .. TTL]
  BY StoresStep, UssdAssumption DEF IInv, Stores, TypeOK
<1>2. ~EndUnderWay(s)
  BY EndLasts DEF IInv
<1>3. ASSUME NEW c \in Calls, Insert(c), c.session = s
      PROVE  left'[s] <= ttl'[<<s, c.live>>]
  BY <1>1, <1>3, CallFields DEF Insert, Goto, IInv, KeyOutlivesCall, Slot
<1>4. ASSUME row[s] = "ACTIVE", NEW c \in Calls, Advance(c), c.session = s
      PROVE  left'[s] <= ttl'[<<s, c.live>>]
  BY <1>1, <1>2, <1>4, CallFields DEF Advance, Goto, IInv, KeyOutlivesCall, Slot
<1>5. CASE row[s] # "ACTIVE"
  BY <1>3, <1>5, OpenBefore, CallFields DEF IInv
<1>6. CASE row[s] = "ACTIVE" /\ Tick
  <2>1. PICK live \in BOOLEAN : left[s] <= ttl[<<s, live>>]
    BY <1>2, <1>6 DEF IInv, KeyOutlivesRow
  <2>2. left'[s] = Sooner(left[s])
    BY <1>6 DEF Tick
  <2>3. ttl'[<<s, live>>] = IF ttl[<<s, live>>] = 0 THEN 0 ELSE ttl[<<s, live>>] - 1
    BY <1>1, <1>6 DEF Tick
  <2>4. left'[s] <= ttl'[<<s, live>>]
    BY <1>1, <2>1, <2>2, <2>3 DEF Sooner
  <2> QED
    BY <2>4
<1>7. CASE row[s] = "ACTIVE" /\ ~Tick /\ left'[s] = left[s]
  <2>1. PICK live \in BOOLEAN : left[s] <= ttl[<<s, live>>]
    BY <1>2, <1>7 DEF IInv, KeyOutlivesRow
  <2>2. ttl'[<<s, live>>] >= ttl[<<s, live>>]
    BY <1>7, KeyStays DEF IInv
  <2>3. left'[s] <= ttl'[<<s, live>>]
    BY <1>1, <1>7, <2>1, <2>2
  <2> QED
    BY <2>3
<1>8. CASE row[s] = "ACTIVE" /\ ~Tick /\ left'[s] # left[s]
  <2>1. \E c \in Calls : (Insert(c) \/ Advance(c)) /\ c.session = s
    BY <1>1, <1>8, CallFields
       DEF Next, Serve, Begin, SetKey, Insert, InsertFails, Undo, Gate, Fetch, DropKey, Advance,
           Find, Delete, MarkEnded, Crash, Select, Timeout, CleanerCrash
  <2> QED
    BY <1>3, <1>4, <1>8, <2>1, CallFields
<1> QED
  BY <1>5, <1>6, <1>7, <1>8

(***************************************************************************)
(* The key outlives the expires_at that a call is about to write.          *)
(***************************************************************************)
LEMMA CallStep ==
  ASSUME IInv, Next
  PROVE  KeyOutlivesCall'
<1> DEFINE Relies(c) ==
      \/ pc[c] = "inserting"
      \/ /\ pc[c] \in {"fetching", "accepted"}
         /\ row[c.session] = "ACTIVE" /\ ~EndUnderWay(c.session)
<1> SUFFICES ASSUME NEW c \in Calls, Relies(c)'
             PROVE  fresh'[c] <= ttl'[Slot(c)]
  BY DEF KeyOutlivesCall
<1>1. /\ ttl \in [Sessions \X BOOLEAN -> 0 .. TTL] /\ TTL \in Nat
      /\ fresh \in [Calls -> -1 .. TTL]
      /\ ttl' \in [Sessions \X BOOLEAN -> 0 .. TTL] /\ fresh' \in [Calls -> -1 .. TTL]
      /\ Slot(c) \in Sessions \X BOOLEAN /\ c.session \in Sessions
  BY StoresStep, UssdAssumption, CallFields DEF IInv, Stores, TypeOK
<1>2. CASE SetKey(c)
  BY <1>1, <1>2 DEF SetKey
<1>3. CASE ~SetKey(c)
  <2>1. pc[c] = pc'[c] \/ (pc[c] = "fetching" /\ Fetch(c))
    BY <1>3 DEF Next, Serve, Begin, SetKey, Insert, InsertFails, Undo, Gate, Fetch, DropKey,
                Advance, Find, Delete, MarkEnded, Crash, Select, Timeout, CleanerCrash, Tick,
                Goto, IInv, Stores, TypeOK
  <2>2. Relies(c)
    <3>1. CASE pc'[c] = "inserting"
      BY <2>1, <3>1 DEF Fetch, Goto, IInv, Stores, TypeOK
    <3>2. CASE pc'[c] # "inserting"
      <4>1. row'[c.session] = "ACTIVE" /\ ~EndUnderWay(c.session)'
        BY <3>2
      <4>2. pc[c] \in {"fetching", "accepted"}
        BY <2>1, <3>2
      <4>3. ~EndUnderWay(c.session)
        BY <1>1, <4>1, EndLasts DEF IInv
      <4>4. row[c.session] # "none"
        BY <4>2 DEF IInv, Stores, PlacesOfCalls, OthersFindRow, Known
      <4>5. row[c.session] = "ACTIVE"
        BY <1>1, <4>1, <4>4, OpenBefore
           DEF Insert, Goto, IInv, Stores, PlacesOfCalls, StartMakesRow
      <4> QED
        BY <4>2, <4>3, <4>5
    <3> QED
      BY <3>1, <3>2
  <2>3. fresh[c] <= ttl[Slot(c)]
    BY <2>2 DEF IInv, KeyOutlivesCall
  <2>4. CASE Tick
    <3>1. fresh'[c] = Sooner(fresh[c])
      BY <2>4 DEF Tick
    <3>2. ttl'[Slot(c)] = IF ttl[Slot(c)] = 0 THEN 0 ELSE ttl[Slot(c)] - 1
      BY <1>1, <2>4 DEF Tick
    <3> QED
      BY <1>1, <2>3, <3>1, <3>2 DEF Sooner
  <2>5. CASE ~Tick
    <3>1. fresh'[c] = fresh[c]
      BY <1>1, <2>2, <2>5
         DEF Next, Serve, Begin, SetKey, Insert, InsertFails, Undo, Gate, Fetch, DropKey, Advance,
             Find, Delete, MarkEnded, Crash, Select, Timeout, CleanerCrash, Goto
    <3>2. ttl'[Slot(c)] >= ttl[Slot(c)]
      <4>1. CASE pc[c] = "inserting"
        BY <2>5, <4>1, FirstKeyStays DEF IInv
      <4>2. CASE pc[c] # "inserting"
        <5>1. row[c.session] = "ACTIVE" /\ ~EndUnderWay(c.session)'
          BY <2>1, <2>2, <4>2 DEF Fetch, Goto, IInv, Stores, TypeOK
        <5> QED
          BY <1>1, <2>5, <5>1, KeyStays, CallFields DEF Slot, IInv
      <4> QED
        BY <4>1, <4>2
    <3> QED
      BY <1>1, <2>3, <3>1, <3>2
  <2> QED
    BY <2>4, <2>5
<1> QED
  BY <1>2, <1>3

(***************************************************************************)
(* The invariant holds initially.                                          *)
(***************************************************************************)
LEMMA InitIInv == Init => IInv
BY UssdAssumption
   DEF Init, IInv, Stores, TypeOK, PlacesOfCalls, StartMakesRow, OthersFindRow, OrphansAreClosed,
       NoOrphanKey, KeyOutlivesRow, KeyOutlivesCall, USSDState, StepTypes

(***************************************************************************)
(* A stuttering step keeps it.                                             *)
(***************************************************************************)
LEMMA StutterIInv ==
  ASSUME IInv, UNCHANGED vars
  PROVE  IInv'
<1> USE DEF vars, IInv
<1>1. Stores'
  BY DEF Stores, TypeOK, PlacesOfCalls, StartMakesRow, OthersFindRow, OrphansAreClosed,
         NoOrphanKey, Known, StepTypes, stepVars
<1>2. \A s \in Sessions : EndUnderWay(s)' <=> EndUnderWay(s)
  BY DEF EndUnderWay
<1>3. KeyOutlivesRow'
  BY <1>2 DEF KeyOutlivesRow
<1>4. KeyOutlivesCall'
  BY <1>2, CallFields DEF KeyOutlivesCall
<1> QED
  BY <1>1, <1>3, <1>4

(***************************************************************************)
(* The invariant holds in every reachable state.                           *)
(***************************************************************************)
LEMMA Inductive == Spec => []IInv
<1>1. IInv /\ [Next]_vars => IInv'
  BY StoresStep, RowStep, CallStep, StutterIInv DEF IInv
<1> QED
  BY <1>1, InitIInv, PTL DEF Spec

(***************************************************************************)
(* Type correctness of the USSD service.                                   *)
(***************************************************************************)
THEOREM TypeCorrect == Spec => []TypeOK
<1>1. IInv => TypeOK
  BY DEF IInv, Stores
<1> QED
  BY <1>1, Inductive, PTL

(***************************************************************************)
(* A key without a row belongs to a start that runs or has crashed.        *)
(***************************************************************************)
THEOREM OrphanKeys == Spec => []NoOrphanKey
<1>1. IInv => NoOrphanKey
  BY DEF IInv, Stores
<1> QED
  BY <1>1, Inductive, PTL

(***************************************************************************)
(* An open session keeps its key until expires_at, whatever order its      *)
(* calls write the stores in.                                              *)
(***************************************************************************)
THEOREM SessionKeepsKey == Spec => []OpenSessionHasKey
<1>1. IInv => OpenSessionHasKey
  <2> SUFFICES ASSUME IInv, NEW s \in Sessions,
                      row[s] = "ACTIVE", left[s] > 0, ~EndUnderWay(s)
               PROVE  \E live \in BOOLEAN : ttl[<<s, live>>] > 0
    BY DEF OpenSessionHasKey
  <2>1. PICK live \in BOOLEAN : left[s] <= ttl[<<s, live>>]
    BY DEF IInv, KeyOutlivesRow
  <2>2. left[s] \in -1 .. TTL /\ ttl[<<s, live>>] \in 0 .. TTL /\ TTL \in Nat
    BY UssdAssumption DEF IInv, Stores, TypeOK
  <2> QED
    BY <2>1, <2>2
<1> QED
  BY <1>1, Inductive, PTL

(***************************************************************************)
(* A call writes its step once, by its SETEX, and reads before that.       *)
(***************************************************************************)
LEMMA WrittenStep ==
  ASSUME Stores, WrittenInPlace, Next
  PROVE  WrittenInPlace'
<1>0. /\ pc \in [Calls -> {"called", "keying", "inserting", "undoing", "fetching", "accepted",
                           "orphaned", "deleting", "marking", "ok", "refused", "failed",
                           "crashed", "lost"}]
      /\ before \in [Calls -> SUBSET Calls] /\ wrote \subseteq Calls
  BY DEF Stores, TypeOK, StepTypes
<1>1. ASSUME NEW c \in Calls, SetKey(c) PROVE WrittenInPlace'
  BY <1>0, <1>1 DEF SetKey, Goto, WrittenInPlace, Stores, PlacesOfCalls
<1>2. ASSUME NEW c \in Calls, Gate(c) PROVE WrittenInPlace'
  BY <1>0, <1>2 DEF Gate, Goto, WrittenInPlace
<1>3. ASSUME UNCHANGED stepVars,
             \A c \in Calls : pc'[c] \in {"called", "keying"} => pc[c] \in {"called", "keying"}
                                                            \/ c.op = "start"
      PROVE  WrittenInPlace'
  BY <1>3 DEF stepVars, WrittenInPlace
<1> QED
  BY <1>0, <1>1, <1>2, <1>3
     DEF Next, Serve, Begin, Insert, InsertFails, Undo, Fetch, DropKey, Advance, Find, Delete,
         MarkEnded, Crash, Select, Timeout, CleanerCrash, Tick, Goto

(***************************************************************************)
(* What an advance has read stays what it could know of.                   *)
(***************************************************************************)
LEMMA BaseStep ==
  ASSUME Stores, StepsInv, Next
  PROVE  BaseKept'
<1> SUFFICES ASSUME NEW d \in Calls, d.op = "advance", pc'[d] = "keying",
                    NEW c \in before'[d], Slot(c) = Slot(d)
             PROVE  c \in base'[d] \/ Disturbed(c, before[d])'
  BY DEF BaseKept
<1>0. /\ pc \in [Calls -> {"called", "keying", "inserting", "undoing", "fetching", "accepted",
                           "orphaned", "deleting", "marking", "ok", "refused", "failed",
                           "crashed", "lost"}]
      /\ base \in [Calls -> SUBSET Calls] /\ before \in [Calls -> SUBSET Calls]
      /\ wrote \subseteq Calls
  BY DEF Stores, TypeOK, StepTypes
<1>1. ASSUME NEW e \in Calls, Gate(e), e # d PROVE c \in base'[d] \/ Disturbed(c, before[d])'
  <2>1. pc[d] = "keying" /\ before'[d] = before[d] /\ base'[d] = base[d]
    BY <1>0, <1>1 DEF Gate, Goto
  <2>2. c \in base[d] \/ Disturbed(c, before[d])
    BY <2>1 DEF StepsInv, BaseKept
  <2>3. \A f \in before[d] : before'[f] = before[f]
    BY <1>0, <1>1 DEF Gate, Goto, StepsInv, WrittenInPlace
  <2> QED
    BY <2>1, <2>2, <2>3 DEF Disturbed
<1>2. CASE Gate(d)
  <2>1. before'[d] = wrote /\ ttl[Slot(d)] > 0
    BY <1>0, <1>2 DEF Gate, Goto
  <2>2. base'[d] = steps[Slot(d)]
    BY <1>0, <1>2, <2>1 DEF Gate
  <2>3. c \in steps[Slot(d)] \/ Disturbed(c, wrote)
    BY <2>1 DEF StepsInv, StepsKept
  <2>4. \A f \in wrote : before'[f] = before[f]
    BY <1>0, <1>2 DEF Gate, Goto, StepsInv, WrittenInPlace
  <2> QED
    BY <2>1, <2>2, <2>3, <2>4 DEF Disturbed
<1>3. CASE \A e \in Calls : ~Gate(e)
  <2>1. base' = base /\ before' = before
    BY <1>3 DEF Next, Serve, Begin, SetKey, Insert, InsertFails, Undo, Fetch, DropKey, Advance,
                Find, Delete, MarkEnded, Crash, Select, Timeout, CleanerCrash, Tick, stepVars
  <2>2. pc[d] = "keying"
    BY <1>0, <1>3 DEF Next, Serve, Begin, SetKey, Insert, InsertFails, Undo, Fetch, DropKey,
                      Advance, Find, Delete, MarkEnded, Crash, Select, Timeout, CleanerCrash,
                      Tick, Goto
  <2>3. c \in base[d] \/ Disturbed(c, before[d])
    BY <2>1, <2>2 DEF StepsInv, BaseKept
  <2> QED
    BY <2>1, <2>3 DEF Disturbed
<1> QED
  BY <1>1, <1>2, <1>3

(***************************************************************************)
(* A step leaves the history of its key only through an overlap: an        *)
(* advance writes what it has read, and what it has not read overlaps it.  *)
(***************************************************************************)
LEMMA KeptStep ==
  ASSUME Stores, StepsInv, Next
  PROVE  StepsKept'
<1> SUFFICES ASSUME NEW c \in wrote'
             PROVE  c \in steps'[Slot(c)] \/ Disturbed(c, wrote)'
  BY DEF StepsKept
<1>0. /\ steps \in [Sessions \X BOOLEAN -> SUBSET Calls]
      /\ before \in [Calls -> SUBSET Calls]
      /\ wrote \subseteq Calls /\ wrote' \subseteq Calls
  BY StepTypesStep DEF Stores, TypeOK, StepTypes
<1>1. ASSUME NEW d \in Calls, SetKey(d), d.op # "start"
      PROVE  c \in steps'[Slot(c)] \/ Disturbed(c, wrote)'
  <2>1. pc[d] = "keying" /\ d.op = "advance" /\ d \notin wrote /\ before' = before
    BY <1>1 DEF SetKey, Goto, Stores, PlacesOfCalls, StepsInv, WrittenInPlace
  <2>2. wrote' = wrote \cup {d} /\ steps' = [steps EXCEPT ![Slot(d)] = base[d] \cup {d}]
    BY <1>1 DEF SetKey
  <2>3. CASE c = d
    BY <1>0, <2>2, <2>3, CallFields
  <2>4. CASE c # d /\ Slot(c) # Slot(d)
    <3>1. c \in wrote /\ steps'[Slot(c)] = steps[Slot(c)]
      BY <1>0, <2>2, <2>4
    <3> QED
      BY <2>1, <2>2, <3>1 DEF StepsInv, StepsKept, Disturbed
  <2>5. CASE c # d /\ Slot(c) = Slot(d)
    <3>1. c \in wrote /\ steps'[Slot(c)] = base[d] \cup {d}
      BY <1>0, <2>2, <2>5, CallFields
    <3>2. CASE c \in before[d]
      <4>1. c \in base[d] \/ Disturbed(c, before[d])
        BY <2>1, <2>5, <3>2 DEF StepsInv, BaseKept
      <4>2. before[d] \subseteq wrote
        BY DEF StepsInv, WrittenInPlace
      <4> QED
        BY <2>1, <2>2, <3>1, <4>1, <4>2 DEF Disturbed
    <3>3. CASE c \notin before[d]
      <4>1. d \notin before[c]
        BY <1>0, <2>1 DEF StepsInv, WrittenInPlace
      <4> QED
        BY <2>1, <2>2, <2>5, <3>3, <4>1 DEF Disturbed
    <3> QED
      BY <3>2, <3>3
  <2> QED
    BY <2>3, <2>4, <2>5
<1>2. ASSUME NEW d \in Calls, SetKey(d), d.op = "start"
      PROVE  c \in steps'[Slot(c)] \/ Disturbed(c, wrote)'
  <2>1. c \in wrote /\ wrote' = wrote /\ before' = before
    BY <1>2 DEF SetKey
  <2>2. Slot(c) # Slot(d)
    <3>1. row[d.session] = "none"
      BY <1>2 DEF SetKey, Goto, Stores, StartMakesRow
    <3>2. c \in Calls /\ c.op = "advance" /\ pc[c] # "called"
      BY <1>0, <2>1 DEF StepsInv, WrittenInPlace
    <3>3. row[c.session] # "none"
      BY <3>2 DEF Stores, OthersFindRow, Known
    <3> QED
      BY <3>1, <3>3 DEF Slot
  <2>3. steps'[Slot(c)] = steps[Slot(c)]
    BY <1>0, <1>2, <2>2, CallFields DEF SetKey
  <2> QED
    BY <2>1, <2>3 DEF StepsInv, StepsKept, Disturbed
<1>3. ASSUME NEW d \in Calls, Gate(d)
      PROVE  c \in steps'[Slot(c)] \/ Disturbed(c, wrote)'
  <2>1. steps' = steps /\ wrote' = wrote /\ d \notin wrote
    BY <1>3 DEF Gate, Goto, StepsInv, WrittenInPlace
  <2>2. \A f \in wrote : before'[f] = before[f]
    BY <1>0, <1>3, <2>1 DEF Gate
  <2> QED
    BY <2>1, <2>2 DEF StepsInv, StepsKept, Disturbed
<1>4. CASE UNCHANGED stepVars
  BY <1>4 DEF stepVars, StepsInv, StepsKept, Disturbed
<1> QED
  BY <1>1, <1>2, <1>3, <1>4
     DEF Next, Serve, Begin, Insert, InsertFails, Undo, Fetch, DropKey, Advance, Find, Delete,
         MarkEnded, Crash, Select, Timeout, CleanerCrash, Tick

(***************************************************************************)
(* A step that was written to a key is in its step_history, unless another *)
(* advance overlapped the one that wrote it, for any number of advances,   *)
(* however often the key expired, was deleted and was brought back.        *)
(***************************************************************************)
THEOREM StepsRemembered == Spec => []StepsKept
<1>1. Init => StepsInv
  BY DEF Init, StepsInv, WrittenInPlace, BaseKept, StepsKept
<1>2. IInv /\ StepsInv /\ [Next]_vars => StepsInv'
  <2>1. CASE IInv /\ StepsInv /\ Next
    BY <2>1, WrittenStep, BaseStep, KeptStep DEF IInv, StepsInv
  <2>2. CASE StepsInv /\ UNCHANGED vars
    BY <2>2 DEF vars, stepVars, StepsInv, WrittenInPlace, BaseKept, StepsKept, Disturbed
  <2> QED
    BY <2>1, <2>2
<1>3. StepsInv => StepsKept
  BY DEF StepsInv
<1> QED
  BY <1>1, <1>2, <1>3, Inductive, PTL DEF Spec

(***************************************************************************)
(* What the lifecycle sees of the state.                                   *)
(***************************************************************************)
Phase == [s \in Sessions |->
            IF row[s] = "none" THEN "none" ELSE IF row[s] = "ACTIVE" THEN "open" ELSE "closed"]
Accepted == {c \in Calls : c.op = "advance" /\ pc[c] \in {"accepted", "ok", "lost"}}

LifecycleStep == [Lifecycle!Next]_<<Phase, Accepted>>

(***************************************************************************)
(* A call that takes a step leaves the accepted inputs alone, unless the   *)
(* step is the Fetch of an advance.                                        *)
(***************************************************************************)
LEMMA AcceptedStays ==
  ASSUME Stores, Next, \A c \in Calls : ~Fetch(c)
  PROVE  Accepted' = Accepted
<1> SUFFICES ASSUME NEW c \in Calls, c.op = "advance"
             PROVE  pc'[c] \in {"accepted", "ok", "lost"} <=> pc[c] \in {"accepted", "ok", "lost"}
  BY DEF Accepted
<1> QED
  BY DEF Next, Serve, Begin, SetKey, Insert, InsertFails, Undo, Gate, Fetch, DropKey, Advance,
         Find, Delete, MarkEnded, Crash, Select, Timeout, CleanerCrash, Tick, Goto,
         Stores, TypeOK, PlacesOfCalls

(***************************************************************************)
(* Every step is a step of the lifecycle, or none.                         *)
(***************************************************************************)
LEMMA StepRefines ==
  ASSUME Stores, Next
  PROVE  LifecycleStep
<1> USE DEF LifecycleStep, Lifecycle!Next, Phase, Accepted
<1>1. ASSUME NEW c \in Calls, Insert(c) PROVE LifecycleStep
  <2>1. Phase[c.session] = "none"
    BY <1>1, CallFields DEF Insert, Goto, Stores, PlacesOfCalls, StartMakesRow
  <2>2. Phase' = [Phase EXCEPT ![c.session] = "open"]
    BY <1>1, CallFields DEF Insert, Stores, TypeOK
  <2>3. Accepted' = Accepted
    BY <1>1, AcceptedStays DEF Insert, Fetch, Goto, Stores, TypeOK
  <2> QED
    BY <2>1, <2>2, <2>3, CallFields DEF Lifecycle!Open
<1>2. ASSUME NEW c \in Calls, Fetch(c) PROVE LifecycleStep
  <2>1. Phase' = Phase
    BY <1>2 DEF Fetch
  <2>2. CASE row[c.session] = "ACTIVE"
    <3>1. Phase[c.session] = "open"
      BY <2>2, CallFields
    <3>2. Accepted' = Accepted \cup {c}
      BY <1>2, <2>2 DEF Fetch, Goto, Stores, TypeOK, PlacesOfCalls
    <3> QED
      BY <2>1, <3>1, <3>2 DEF Lifecycle!Accept
  <2>3. CASE row[c.session] # "ACTIVE"
    BY <1>2, <2>1, <2>3 DEF Fetch, Goto, Stores, TypeOK
  <2> QED
    BY <2>2, <2>3
<1>3. ASSUME NEW c \in Calls, MarkEnded(c) PROVE LifecycleStep
  <2> DEFINE closing == {s \in {c.session} : row[s] = "ACTIVE"}
  <2>1. closing \in SUBSET Sessions /\ \A s \in closing : Phase[s] = "open"
    BY CallFields
  <2>2. row[c.session] # "none"
    BY <1>3 DEF MarkEnded, Goto, Stores, PlacesOfCalls, OthersFindRow, Known
  <2>3. Phase' = [s \in Sessions |-> IF s \in closing THEN "closed" ELSE Phase[s]]
    BY <1>3, <2>2, CallFields DEF MarkEnded, Stores, TypeOK
  <2>4. Accepted' = Accepted
    BY <1>3, AcceptedStays DEF MarkEnded, Fetch, Goto, Stores, TypeOK
  <2> QED
    BY <2>1, <2>3, <2>4 DEF Lifecycle!Close
<1>4. ASSUME NEW w \in Cleaners, Timeout(w) PROVE LifecycleStep
  <2> DEFINE closing == {s \in batch[w] : row[s] = "ACTIVE"}
  <2>1. closing \in SUBSET Sessions /\ \A s \in closing : Phase[s] = "open"
    BY DEF Stores, TypeOK
  <2>2. Phase' = [s \in Sessions |-> IF s \in closing THEN "closed" ELSE Phase[s]]
    BY <1>4 DEF Timeout, Stores, TypeOK, OthersFindRow, Known
  <2>3. Accepted' = Accepted
    BY <1>4 DEF Timeout
  <2> QED
    BY <2>1, <2>2, <2>3 DEF Lifecycle!Close
<1>5. CASE UNCHANGED row /\ \A c \in Calls : ~Fetch(c)
  BY <1>5, AcceptedStays
<1> QED
  BY <1>1, <1>2, <1>3, <1>4, <1>5
     DEF Next, Serve, Begin, SetKey, InsertFails, Undo, Gate, DropKey, Advance,
         Find, Delete, Crash, Select, CleanerCrash, Tick

(***************************************************************************)
(* The USSD service implements the lifecycle: a closed session is never    *)
(* reopened and takes no further input.                                    *)
(***************************************************************************)
THEOREM ClosedForGood == Spec => ImplementsUssdLifecycle
<1>1. Init => Lifecycle!Init
  BY DEF Init, Lifecycle!Init
<1>2. IInv /\ [Next]_vars => [Lifecycle!Next]_<<Phase, Accepted>>
  <2>1. CASE IInv /\ Next
    BY <2>1, StepRefines DEF IInv, LifecycleStep
  <2>2. CASE UNCHANGED vars
    BY <2>2 DEF vars, Phase, Accepted
  <2> QED
    BY <2>1, <2>2
<1> QED
  BY <1>1, <1>2, Inductive, PTL DEF Spec, ImplementsUssdLifecycle, Lifecycle!Spec, Phase, Accepted
=============================================================================
