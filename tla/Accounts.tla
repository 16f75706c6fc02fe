------------------------------ MODULE Accounts ------------------------------
(***************************************************************************)
(* The accounts of the operators (services/auth_service.py): registration, *)
(* login, the rotation of refresh tokens, logout, roles and deactivation.  *)
(* Every operation loads a row, decides, and flushes and commits what it   *)
(* has changed in the row it loaded; no lock is held in between.  Between  *)
(* flush and commit the UPDATE holds the row, so both are one step here.   *)
(*                                                                         *)
(*   ready -> read -> issued -> written -> done                            *)
(*   ready -> read -> written -> done                                      *)
(*                                                                         *)
(* A refresh token is its subject and an expiry in whole seconds, signed   *)
(* deterministically (RS256): two tokens of one user and one second are    *)
(* the same token.                                                         *)
(***************************************************************************)
EXTENDS Integers, FiniteSets

CONSTANTS
  Users,     \* email addresses
  Staff,     \* the users that exist already, all of them ADMIN
  Requests,  \* calls of the service
  Call,      \* what each call asks for: [kind, user, admin, role]
  Life,      \* refresh_token_expire_days, in seconds
  MaxCalls,  \* bound: calls that are made at all
  LastTick   \* bound: the clock stops here

Kinds == {"register", "login", "refresh", "logout", "role", "deactivate"}
UserRole == {"ADMIN", "MANAGER"}
None == -1

ASSUME AccountsAssumption ==
  /\ Staff \subseteq Users
  /\ Call \in [Requests -> [kind : Kinds, user : Users, admin : Users, role : UserRole]]
  /\ {Life, MaxCalls, LastTick} \subseteq Nat

Administrative(r) == Call[r].kind \in {"role", "deactivate"}
Issuing(r) == Call[r].kind \in {"login", "refresh"}

VARIABLES
  now,     \* the clock, in seconds
  users,   \* the table users, with the second of the token whose hash is stored
  pc,      \* where each call is
  loaded,  \* the row as the call has read it
  offer,   \* the second of the token a refresh presents
  issued,  \* the second of the token a call has created
  clients, \* the tokens that answers have delivered
  before,  \* history: the calls that had committed when this one read
  wrote    \* history: the calls that have committed

vars == <<now, users, pc, loaded, offer, issued, clients, before, wrote>>

Absent == [exists |-> FALSE, active |-> FALSE, role |-> "MANAGER", hash |-> None]

Init ==
  /\ now = 0
  /\ users = [u \in Users |-> IF u \in Staff
                              THEN [exists |-> TRUE, active |-> TRUE, role |-> "ADMIN", hash |-> None]
                              ELSE Absent]
  /\ pc = [r \in Requests |-> "ready"]
  /\ loaded = [r \in Requests |-> Absent]
  /\ offer = [r \in Requests |-> None]
  /\ issued = [r \in Requests |-> None]
  /\ clients = {}
  /\ before = [r \in Requests |-> {}]
  /\ wrote = {}

Goto(r, from, to) ==
  /\ pc[r] = from
  /\ pc' = [pc EXCEPT ![r] = to]

\* The first SELECT of a call: the row becomes an object of the session.
Load(r) ==
  /\ Cardinality({s \in Requests : pc[s] # "ready"}) < MaxCalls
  /\ loaded' = [loaded EXCEPT ![r] = users[Call[r].user]]
  /\ before' = [before EXCEPT ![r] = wrote]

(***************************************************************************)
(* Variants with a plausible mistake, used to show that the properties     *)
(* notice it; no specification contains them.                              *)
(***************************************************************************)
\* The stored hash is not compared.
AnyLiving(r, t) == now <= t.at + Life

\* clear_refresh_token changes nothing.
KeepsHash(r) == loaded[r].hash

\* An administrator may name himself.
MayNameHimself(r) == users[Call[r].admin].active /\ users[Call[r].admin].role = "ADMIN"

-----------------------------------------------------------------------------
(***************************************************************************)
(* register_user: the address is looked up, then inserted; the unique      *)
(* index has the last word.                                                *)
(***************************************************************************)
EmailFree(r) ==
  /\ Goto(r, "ready", "read")
  /\ Call[r].kind = "register"
  /\ ~users[Call[r].user].exists
  /\ Load(r)
  /\ UNCHANGED <<now, users, offer, issued, clients, wrote>>

Registered(r) == [exists |-> TRUE, active |-> TRUE, role |-> Call[r].role, hash |-> None]

Insert(r) ==
  /\ Goto(r, "read", "done")
  /\ Call[r].kind = "register"
  /\ ~users[Call[r].user].exists
  /\ users' = [users EXCEPT ![Call[r].user] = Registered(r)]
  /\ wrote' = wrote \cup {r}
  /\ UNCHANGED <<now, loaded, offer, issued, clients, before>>

-----------------------------------------------------------------------------
(***************************************************************************)
(* login and refresh_tokens.                                               *)
(***************************************************************************)
LoadForLogin(r) ==
  /\ Goto(r, "ready", "read")
  /\ Call[r].kind = "login"
  /\ users[Call[r].user].active
  /\ Load(r)
  /\ UNCHANGED <<now, users, offer, issued, clients, wrote>>

\* verify_token has found the signature and the expiry good, and the hash is the stored one.
Acceptable(r, t) == now <= t.at + Life /\ users[Call[r].user].hash = t.at

LoadForRefresh(r) ==
  /\ Goto(r, "ready", "read")
  /\ Call[r].kind = "refresh"
  /\ users[Call[r].user].active
  /\ \E t \in clients :
       /\ t.user = Call[r].user
       /\ Acceptable(r, t)
       /\ offer' = [offer EXCEPT ![r] = t.at]
  /\ Load(r)
  /\ UNCHANGED <<now, users, issued, clients, wrote>>

\* create_refresh_token.
Issue(r) ==
  /\ Goto(r, "read", "issued")
  /\ Issuing(r)
  /\ issued' = [issued EXCEPT ![r] = now]
  /\ UNCHANGED <<now, users, loaded, offer, clients, before, wrote>>

\* An UPDATE names the columns that differ from the row as it was loaded, and no other.
Update(r, new) ==
  users' = [users EXCEPT ![Call[r].user] =
              [c \in DOMAIN Absent |-> IF new[c] # loaded[r][c] THEN new[c] ELSE @[c]]]

\* store_refresh_token_hash, rotate_refresh_token, and the commit.
Store(r) ==
  /\ Goto(r, "issued", "written")
  /\ Update(r, [loaded[r] EXCEPT !.hash = issued[r]])
  /\ wrote' = wrote \cup {r}
  /\ UNCHANGED <<now, loaded, offer, issued, clients, before>>

Deliver(r) ==
  /\ Goto(r, "written", "done")
  /\ clients' = clients \cup {[user |-> Call[r].user, at |-> issued[r]]}
  /\ UNCHANGED <<now, users, loaded, offer, issued, before, wrote>>

-----------------------------------------------------------------------------
(***************************************************************************)
(* logout, change_user_role, deactivate_user.                              *)
(***************************************************************************)
LoadForLogout(r) ==
  /\ Goto(r, "ready", "read")
  /\ Call[r].kind = "logout"
  /\ users[Call[r].user].active
  /\ Load(r)
  /\ UNCHANGED <<now, users, offer, issued, clients, wrote>>

\* What clear_refresh_token leaves of the hash.
Cleared(r) == None

Logout(r) ==
  /\ Goto(r, "read", "done")
  /\ Call[r].kind = "logout"
  /\ Update(r, [loaded[r] EXCEPT !.hash = Cleared(r)])
  /\ wrote' = wrote \cup {r}
  /\ UNCHANGED <<now, loaded, offer, issued, clients, before>>

\* The caller is an active ADMIN and not the target.
MayAdminister(r) ==
  /\ users[Call[r].admin].active /\ users[Call[r].admin].role = "ADMIN"
  /\ Call[r].admin # Call[r].user

LoadTarget(r) ==
  /\ Goto(r, "ready", "read")
  /\ Administrative(r)
  /\ MayAdminister(r)
  /\ users[Call[r].user].exists
  /\ Load(r)
  /\ UNCHANGED <<now, users, offer, issued, clients, wrote>>

ChangeRole(r) ==
  /\ Goto(r, "read", "done")
  /\ Call[r].kind = "role"
  /\ Update(r, [loaded[r] EXCEPT !.role = Call[r].role])
  /\ wrote' = wrote \cup {r}
  /\ UNCHANGED <<now, loaded, offer, issued, clients, before>>

\* clear_refresh_token and deactivate, in one transaction.
Deactivate(r) ==
  /\ Goto(r, "read", "done")
  /\ Call[r].kind = "deactivate"
  /\ Update(r, [loaded[r] EXCEPT !.hash = Cleared(r), !.active = FALSE])
  /\ wrote' = wrote \cup {r}
  /\ UNCHANGED <<now, loaded, offer, issued, clients, before>>

-----------------------------------------------------------------------------
Serve(r) ==
  \/ EmailFree(r) \/ Insert(r)
  \/ LoadForLogin(r) \/ LoadForRefresh(r) \/ Issue(r) \/ Store(r) \/ Deliver(r)
  \/ LoadForLogout(r) \/ Logout(r)
  \/ LoadTarget(r) \/ ChangeRole(r) \/ Deactivate(r)

Tick ==
  /\ now < LastTick
  /\ now' = now + 1
  /\ UNCHANGED <<users, pc, loaded, offer, issued, clients, before, wrote>>

\* A call that is refused, that fails or whose answer is lost is one that goes no further.
Next ==
  \/ Tick
  \/ \E r \in Requests : Serve(r)

Spec == Init /\ [][Next]_vars

-----------------------------------------------------------------------------
\* Two calls overlap if neither had committed when the other one read.
Overlap(r, s) == r \notin before[s] /\ s \notin before[r]

Committed(kinds, u) == {r \in wrote : Call[r].kind \in kinds /\ Call[r].user = u}

\* The calls that have created the token of a user and a second.
IssuersOf(u, at) == {r \in Requests : Call[r].user = u /\ issued[r] = at}

(***************************************************************************)
(* refresh_tokens: "After commit, the old refresh_token is permanently     *)
(* invalid" (auth_service.py:217).  A token is exchanged twice only by     *)
(* calls that overlap, or if it was created twice within its second.       *)
(***************************************************************************)
TokenExchangedOnce ==
  \A u \in Users : \A r, s \in Committed({"refresh"}, u) :
    r # s /\ offer[r] = offer[s] =>
      \/ Overlap(r, s)
      \/ Cardinality(IssuersOf(u, offer[r])) > 1

(***************************************************************************)
(* logout and deactivate_user: a refresh that reads after the commit of    *)
(* either presents a token whose creation overlapped the logout; after a   *)
(* deactivation nobody logs in or refreshes at all.                        *)
(***************************************************************************)
SessionsEnd ==
  \A u \in Users :
    /\ \A e \in Committed({"logout"}, u), r \in Committed({"refresh"}, u) :
         e \in before[r] => \E i \in IssuersOf(u, offer[r]) : i \notin before[e]
    /\ \A e \in Committed({"deactivate"}, u), r \in Committed({"login", "refresh"}, u) :
         e \notin before[r]

(***************************************************************************)
(* change_user_role, deactivate_user: "This ensures there is always at     *)
(* least one Admin" (auth_service.py:263).  It does, unless two of these   *)
(* calls overlap.                                                          *)
(***************************************************************************)
AdminsRemain ==
  \/ \E u \in Users : users[u].active /\ users[u].role = "ADMIN"
  \/ \E r, s \in wrote : r # s /\ Administrative(r) /\ Administrative(s) /\ Overlap(r, s)

-----------------------------------------------------------------------------
(***************************************************************************)
(* The inductive invariant behind all three properties.                    *)
(***************************************************************************)
Second == Nat \cup {None}

Row == [exists : BOOLEAN, active : BOOLEAN, role : UserRole, hash : Second]

\* The domains of the variables.
TypeOK ==
  /\ now \in Nat
  /\ users \in [Users -> Row]
  /\ pc \in [Requests -> {"ready", "read", "issued", "written", "done"}]
  /\ loaded \in [Requests -> Row]
  /\ {offer, issued} \subseteq [Requests -> Second]
  /\ clients \subseteq [user : Users, at : Nat]
  /\ before \in [Requests -> SUBSET Requests]
  /\ wrote \subseteq Requests

Loaded(r) == pc[r] # "ready"

\* What the place of a call says of its tokens and of what it has written.
CallsInPlace ==
  \A r \in Requests :
    /\ pc[r] \in {"ready", "read"} => issued[r] = None
    /\ pc[r] \in {"issued", "written"} => Issuing(r) /\ issued[r] # None
    /\ r \in wrote => pc[r] \in {"written", "done"} /\ (Issuing(r) => issued[r] # None)
    /\ before[r] \subseteq wrote
    /\ Loaded(r) /\ Call[r].kind = "refresh" => offer[r] # None /\ offer[r] = loaded[r].hash

\* Only finitely many calls have begun at any time.
FinitelyManyBegan == IsFiniteSet({r \in Requests : Loaded(r)})

\* A stored hash is that of a token whose creator has committed, as is one a call has read.
TokensStored ==
  /\ \A u \in Users : users[u].hash # None => \E i \in wrote : i \in IssuersOf(u, users[u].hash)
  /\ \A r \in Requests :
       Loaded(r) /\ loaded[r].hash # None =>
         \E i \in before[r] : i \in IssuersOf(Call[r].user, loaded[r].hash)

CreatedTwice(u, at) == \E i, j \in IssuersOf(u, at) : i # j

Refreshed(R, u, at) == {r \in R : Call[r].kind = "refresh" /\ Call[r].user = u /\ offer[r] = at}

\* A token that was exchanged is stored or read again only if it was created again.
SpentTokens ==
  \A u \in Users : Refreshed(wrote, u, users[u].hash) # {} => CreatedTwice(u, users[u].hash)

OffersUnspent ==
  \A s \in Requests :
    /\ Loaded(s) /\ Call[s].kind = "refresh"
    /\ Refreshed(before[s], Call[s].user, offer[s]) # {}
    => CreatedTwice(Call[s].user, offer[s])

\* A token of a user whose creator had not committed when a call read.
YoungerThan(e, at) == \E i \in IssuersOf(Call[e].user, at) : i \notin before[e]

\* What is stored after a logout, or while one that found nothing is under way, is younger.
LogoutsHold ==
  \A e \in Requests :
    /\ Call[e].kind = "logout" /\ users[Call[e].user].hash # None
    /\ e \in wrote \/ (pc[e] = "read" /\ loaded[e].hash = None)
    => YoungerThan(e, users[Call[e].user].hash)

OffersAfterLogout ==
  \A r \in Requests : Loaded(r) /\ Call[r].kind = "refresh" =>
    \A e \in before[r] :
      Call[e].kind = "logout" /\ Call[e].user = Call[r].user => YoungerThan(e, offer[r])

\* Nothing activates a row that exists.
ActiveExists == \A u \in Users : users[u].active => users[u].exists

InactiveStays ==
  \A e \in Requests :
    LET row == users[Call[e].user] IN
    /\ e \in wrote /\ Call[e].kind = "deactivate" => row.exists /\ ~row.active
    /\ pc[e] = "read" /\ Administrative(e) => row.exists /\ (~loaded[e].active => ~row.active)

LoginsActive ==
  \A r \in Requests : Loaded(r) /\ Issuing(r) =>
    \A e \in before[r] : Call[e].kind = "deactivate" => Call[e].user # Call[r].user

\* The administrator a call acts for still is one, unless another such call has committed since.
IsAdmin(u) == users[u].active /\ users[u].role = "ADMIN"

AdminStands ==
  \A r \in Requests :
    pc[r] = "read" /\ Administrative(r) =>
      \/ IsAdmin(Call[r].admin) /\ Call[r].admin # Call[r].user
      \/ \E s \in wrote : Administrative(s) /\ s \notin before[r]

IInv ==
  /\ TypeOK
  /\ CallsInPlace
  /\ FinitelyManyBegan
  /\ TokensStored
  /\ SpentTokens
  /\ OffersUnspent
  /\ LogoutsHold
  /\ OffersAfterLogout
  /\ ActiveExists
  /\ InactiveStays
  /\ LoginsActive
  /\ AdminStands
=============================================================================
