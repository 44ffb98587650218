--------------------------- MODULE SessionsProofs ---------------------------
(***************************************************************************)
(* For any number of users, tokens and concurrent requests: an             *)
(* administrator remains, rotation does not fork, and no rotated session   *)
(* outlives a change of its user's role or block.                          *)
(***************************************************************************)
EXTENDS Sessions, TLAPS

\* Every token that was issued has an owner.
Owned == \A t \in Tokens : status[t] # "Absent" => owner[t] \in Users

\* The administrators' lock is exclusive ...
OneAdminLock ==
  \A c, d \in Clients : HoldsAdminLock(c) /\ HoldsAdminLock(d) => c = d

\* ... and whoever holds it is in office and acts on somebody else.
InOffice ==
  \A c \in Clients : HoldsAdminLock(c) =>
    /\ IsCurrentAdmin(call[c].user)
    /\ call[c].user # call[c].target
    /\ role[call[c].target] # Null

\* A token that is being rotated is locked by one request and still active.
TokenLocks ==
  \A c \in Clients, t \in Tokens : HoldsToken(c, t) =>
    /\ status[t] = "Active"
    /\ \A d \in Clients : HoldsToken(d, t) => d = c

\* A token with a successor is revoked.
Successors == \A t \in Tokens : source[t] \in Tokens => status[source[t]] = "Revoked"

\* The revoking statement has seen every session of its target, and only sessions.
Covered ==
  \A c \in Clients : call[c].op = "Revoking" =>
    /\ \A t \in Tokens : owner[t] = call[c].target /\ status[t] = "Active" => t \in call[c].todo
    /\ \A t \in call[c].todo : status[t] # "Absent"

\* What a rotation has read of its user is still so.
FreshRotations == \A c \in Clients : call[c].op = "Rotate" => c \in fresh

SessionInv ==
  /\ TypeOK /\ Owned
  /\ OneAdminLock /\ InOffice /\ AdminRemains
  /\ TokenLocks /\ Successors /\ OneSuccessor
  /\ Covered /\ FreshRotations /\ RotatedSessionsAreCurrent

-----------------------------------------------------------------------------
(* Requests in progress *)

\* What the type of a request says about its fields, by operation.
CallFields(k) ==
  /\ k.op = "Login" => k.user \in Users /\ k.role \in Roles
  /\ k.op = "Refresh" => k.token \in Tokens
  /\ k.op = "Rotate" => k.token \in Tokens /\ k.role \in Roles
  /\ k.op \in {"Admitted", "Locked", "Revoking"} =>
       k.user \in Users /\ k.target \in Users /\ k.change \in Updates
  /\ k.op = "Revoking" => k.todo \in SUBSET Tokens

LEMMA FieldsOfCalls == \A k \in Calls : CallFields(k)
<1> TAKE k \in Calls
<1>1. CASE k = Idle
  BY <1>1 DEF Idle, CallFields
<1>2. CASE k \in [op : {"Login"}, user : Users, role : Roles]
  BY <1>2 DEF CallFields
<1>3. CASE k \in [op : {"Refresh"}, token : Tokens]
  BY <1>3 DEF CallFields
<1>4. CASE k \in [op : {"Rotate"}, token : Tokens, role : Roles]
  BY <1>4 DEF CallFields
<1>5. CASE k \in [op : {"Profile"}, user : Users, role : Roles, blocked : BOOLEAN]
  BY <1>5 DEF CallFields
<1>6. CASE k \in Updating
  BY <1>6 DEF CallFields, Updating
<1>7. CASE k \in Revoking
  BY <1>7 DEF CallFields, Revoking
<1> QED
  BY <1>1, <1>2, <1>3, <1>4, <1>5, <1>6, <1>7, Zenon DEF Calls

\* The requests that the actions put in progress are requests.
LEMMA IdleCall == Idle \in Calls
BY Zenon DEF Calls

LEMMA LoginCall ==
  \A u \in Users, r \in Roles : [op |-> "Login", user |-> u, role |-> r] \in Calls
<1> TAKE u \in Users, r \in Roles
<1>1. [op |-> "Login", user |-> u, role |-> r] \in [op : {"Login"}, user : Users, role : Roles]
  OBVIOUS
<1> QED BY <1>1, Zenon DEF Calls

LEMMA RefreshCall == \A t \in Tokens : [op |-> "Refresh", token |-> t] \in Calls
<1> TAKE t \in Tokens
<1>1. [op |-> "Refresh", token |-> t] \in [op : {"Refresh"}, token : Tokens]
  OBVIOUS
<1> QED BY <1>1, Zenon DEF Calls

LEMMA RotateCall ==
  \A t \in Tokens, r \in Roles : [op |-> "Rotate", token |-> t, role |-> r] \in Calls
<1> TAKE t \in Tokens, r \in Roles
<1>1. [op |-> "Rotate", token |-> t, role |-> r] \in [op : {"Rotate"}, token : Tokens, role : Roles]
  OBVIOUS
<1> QED BY <1>1, Zenon DEF Calls

LEMMA ProfileCall ==
  \A u \in Users, r \in Roles, b \in BOOLEAN :
    [op |-> "Profile", user |-> u, role |-> r, blocked |-> b] \in Calls
<1> TAKE u \in Users, r \in Roles, b \in BOOLEAN
<1>1. [op |-> "Profile", user |-> u, role |-> r, blocked |-> b]
        \in [op : {"Profile"}, user : Users, role : Roles, blocked : BOOLEAN]
  BY Zenon
<1> QED BY <1>1, Zenon DEF Calls

LEMMA UpdatingCall ==
  \A op \in {"Admitted", "Locked"}, u, v \in Users, m \in Updates :
    [op |-> op, user |-> u, target |-> v, change |-> m] \in Calls
<1> TAKE op \in {"Admitted", "Locked"}, u, v \in Users, m \in Updates
<1>1. [op |-> op, user |-> u, target |-> v, change |-> m] \in Updating
  BY DEF Updating
<1> QED BY <1>1, Zenon DEF Calls

LEMMA RevokingCall ==
  \A u, v \in Users, m \in Updates, S \in SUBSET Tokens :
    [op |-> "Revoking", user |-> u, target |-> v, change |-> m, todo |-> S] \in Calls
<1> TAKE u, v \in Users, m \in Updates, S \in SUBSET Tokens
<1>1. [op |-> "Revoking", user |-> u, target |-> v, change |-> m, todo |-> S] \in Revoking
  BY DEF Revoking
<1> QED BY <1>1, Zenon DEF Calls

LEMMA SomeRequest == ASSUME TypeOK, NEW c \in Clients PROVE CallFields(call[c])
BY FieldsOfCalls DEF TypeOK

-----------------------------------------------------------------------------
(* Steps that change one request in progress and no row *)

\* Request c becomes k: k may hold the administrators' lock only in office and
\* alone, a token only if it is active and free, and so on.
LEMMA CallStep ==
  ASSUME SessionInv, NEW c \in Clients, NEW k \in Calls,
         call' = [call EXCEPT ![c] = k],
         role' = role, blocked' = blocked, status' = status, owner' = owner,
         expired' = expired, access' = access, source' = source,
         fresh \ {c} \subseteq fresh', fresh' \subseteq fresh \cup {c},
         k.op \in {"Locked", "Revoking"} =>
           /\ IsCurrentAdmin(k.user) /\ k.user # k.target /\ role[k.target] # Null
           /\ \A d \in Clients : d # c => ~HoldsAdminLock(d),
         k.op \in {"Refresh", "Rotate"} =>
           /\ status[k.token] = "Active"
           /\ \A d \in Clients : d # c => ~HoldsToken(d, k.token),
         k.op = "Revoking" => k.todo = ActiveTokens(k.target),
         k.op = "Rotate" => c \in fresh'
  PROVE  SessionInv'
<1> USE DEF SessionInv
<1>1. /\ call'[c] = k
      /\ \A d \in Clients : d # c => call'[d] = call[d]
      /\ call' \in [Clients -> Calls]
  BY DEF TypeOK
<1>2. TypeOK'
  <2>1. fresh' \subseteq Tokens \cup Clients
    BY DEF TypeOK
  <2> QED BY <1>1, <2>1 DEF TypeOK
<1>3. Owned' /\ Successors' /\ OneSuccessor'
  BY DEF Owned, Successors, OneSuccessor
<1>4. AdminRemains'
  BY DEF AdminRemains, IsCurrentAdmin, CanAuthenticate
<1>5. OneAdminLock'
  BY <1>1 DEF OneAdminLock, HoldsAdminLock
<1>6. InOffice'
  BY <1>1 DEF InOffice, HoldsAdminLock, IsCurrentAdmin, CanAuthenticate
<1>7. TokenLocks'
  BY <1>1 DEF TokenLocks, HoldsToken
<1>8. Covered'
  BY <1>1 DEF Covered, ActiveTokens
<1>9. FreshRotations'
  BY <1>1 DEF FreshRotations
<1>10. RotatedSessionsAreCurrent'
  BY NamesAssumption DEF RotatedSessionsAreCurrent
<1> QED BY <1>2, <1>3, <1>4, <1>5, <1>6, <1>7, <1>8, <1>9, <1>10

\* A request that holds nothing afterwards needs no more than its type.
LEMMA HarmlessStep ==
  ASSUME SessionInv, NEW c \in Clients, NEW k \in Calls,
         call' = [call EXCEPT ![c] = k],
         k.op \notin {"Locked", "Revoking", "Refresh", "Rotate"},
         role' = role, blocked' = blocked, status' = status, owner' = owner,
         expired' = expired, access' = access, source' = source,
         fresh \ {c} \subseteq fresh', fresh' \subseteq fresh \cup {c}
  PROVE  SessionInv'
BY CallStep

LEMMA LoginReads ==
  ASSUME SessionInv, NEW c \in Clients, NEW u \in Users, LoginRead(c, u)
  PROVE  SessionInv'
<1> DEFINE k == [op |-> "Login", user |-> u, role |-> role[u]]
<1>1. role[u] \in Roles
  BY DEF LoginRead, CanAuthenticate, SessionInv, TypeOK
<1>2. k \in Calls /\ k.op = "Login"
  BY <1>1, LoginCall
<1>3. call' = [call EXCEPT ![c] = k]
  BY DEF LoginRead, Begin
<1> HIDE DEF k
<1> QED BY <1>2, <1>3, HarmlessStep DEF LoginRead

LEMMA RefreshLocks ==
  ASSUME SessionInv, NEW c \in Clients, NEW t \in Tokens, RefreshLock(c, t)
  PROVE  SessionInv'
<1> DEFINE k == [op |-> "Refresh", token |-> t]
<1>1. k \in Calls /\ k.op = "Refresh" /\ k.token = t
  BY RefreshCall
<1>2. call' = [call EXCEPT ![c] = k]
  BY DEF RefreshLock, Begin
<1> HIDE DEF k
<1> QED BY <1>1, <1>2, CallStep DEF RefreshLock, TokenFree

LEMMA RefreshReads ==
  ASSUME SessionInv, NEW c \in Clients, RefreshRead(c)
  PROVE  SessionInv'
<1> DEFINE t == call[c].token
           k == [op |-> "Rotate", token |-> t, role |-> role[owner[t]]]
<1>1. t \in Tokens /\ HoldsToken(c, t)
  BY SomeRequest DEF SessionInv, CallFields, RefreshRead, HoldsToken
<1>2. status[t] = "Active" /\ \A d \in Clients : d # c => ~HoldsToken(d, t)
  BY <1>1 DEF SessionInv, TokenLocks
<1>3. owner[t] \in Users
  BY <1>1, <1>2 DEF SessionInv, Owned
<1>4. role[owner[t]] \in Roles
  BY <1>3 DEF RefreshRead, CanAuthenticate, SessionInv, TypeOK
<1>5. k \in Calls /\ k.op = "Rotate" /\ k.token = t
  BY <1>1, <1>4, RotateCall
<1>6. call' = [call EXCEPT ![c] = k] /\ c \in fresh'
  BY DEF RefreshRead, Advance
<1> HIDE DEF k, t
<1> QED BY <1>2, <1>5, <1>6, CallStep DEF RefreshRead

LEMMA ProfileReads ==
  ASSUME SessionInv, NEW c \in Clients, NEW a \in access, NEW u \in Users, ProfileRead(c, a, u)
  PROVE  SessionInv'
<1> DEFINE k == [op |-> "Profile", user |-> u, role |-> role[u], blocked |-> blocked[u]]
<1>1. role[u] \in Roles /\ blocked[u] \in BOOLEAN
  BY DEF ProfileRead, SessionInv, TypeOK
<1>2. k \in Calls
  BY <1>1, ProfileCall
<1>3. call' = [call EXCEPT ![c] = k] /\ k.op = "Profile"
  BY DEF ProfileRead, Begin
<1> HIDE DEF k
<1> QED BY <1>2, <1>3, HarmlessStep DEF ProfileRead

LEMMA UpdatesAdmitted ==
  ASSUME SessionInv, NEW c \in Clients, NEW a \in access, NEW u \in Users,
         NEW change \in Updates, AdmitUpdate(c, a, u, change)
  PROVE  SessionInv'
<1> DEFINE k == [op |-> "Admitted", user |-> a.user, target |-> u, change |-> change]
<1>1. a.user \in Users
  BY DEF SessionInv, TypeOK, Claims
<1>2. k \in Calls /\ k.op = "Admitted"
  BY <1>1, UpdatingCall
<1>3. call' = [call EXCEPT ![c] = k]
  BY DEF AdmitUpdate, Begin
<1> HIDE DEF k
<1> QED BY <1>2, <1>3, HarmlessStep DEF AdmitUpdate

LEMMA UpdateLocks ==
  ASSUME SessionInv, NEW c \in Clients, UpdateLock(c)
  PROVE  SessionInv'
<1> DEFINE k == [op |-> "Locked", user |-> call[c].user, target |-> call[c].target,
                 change |-> call[c].change]
<1>1. call[c].user \in Users /\ call[c].target \in Users /\ call[c].change \in Updates
  BY SomeRequest DEF SessionInv, CallFields, UpdateLock
<1>2. k \in Calls /\ k.op = "Locked" /\ k.user = call[c].user /\ k.target = call[c].target
  BY <1>1, UpdatingCall
<1>3. call' = [call EXCEPT ![c] = k]
  BY DEF UpdateLock, Advance
<1> HIDE DEF k
<1> QED BY <1>2, <1>3, CallStep DEF UpdateLock, AdminLockFree

LEMMA RevokeSnapshots ==
  ASSUME SessionInv, NEW c \in Clients, RevokeSnapshot(c)
  PROVE  SessionInv'
<1> DEFINE k == [op |-> "Revoking", user |-> call[c].user, target |-> call[c].target,
                 change |-> call[c].change, todo |-> ActiveTokens(call[c].target)]
<1>1. call[c].user \in Users /\ call[c].target \in Users /\ call[c].change \in Updates
  BY SomeRequest DEF SessionInv, CallFields, RevokeSnapshot
<1>2. ActiveTokens(call[c].target) \in SUBSET Tokens
  BY DEF ActiveTokens
<1>3. /\ k \in Calls /\ k.op = "Revoking" /\ k.user = call[c].user /\ k.target = call[c].target
      /\ k.todo = ActiveTokens(call[c].target)
  <2> HIDE DEF ActiveTokens
  <2> QED BY <1>1, <1>2, RevokingCall
<1>4. call' = [call EXCEPT ![c] = k]
  BY DEF RevokeSnapshot, Advance
<1>5. HoldsAdminLock(c)
  BY DEF RevokeSnapshot, HoldsAdminLock
<1>6. /\ IsCurrentAdmin(call[c].user) /\ call[c].user # call[c].target /\ role[call[c].target] # Null
      /\ \A d \in Clients : d # c => ~HoldsAdminLock(d)
  BY <1>5 DEF SessionInv, InOffice, OneAdminLock
<1> HIDE DEF k
<1> QED BY <1>3, <1>4, <1>6, CallStep DEF RevokeSnapshot

LEMMA RequestsEnd ==
  ASSUME SessionInv, NEW c \in Clients,
         ProfileWrite(c) \/ UpdateNothing(c) \/ Abort(c)
  PROVE  SessionInv'
<1>1. Idle.op = "Idle"
  BY DEF Idle
<1>2. call' = [call EXCEPT ![c] = Idle]
  BY DEF ProfileWrite, UpdateNothing, Abort, Finish
<1>3. /\ role' = role /\ blocked' = blocked /\ status' = status /\ owner' = owner
      /\ expired' = expired /\ access' = access /\ source' = source
      /\ fresh \ {c} \subseteq fresh' /\ fresh' \subseteq fresh \cup {c}
  BY DEF ProfileWrite, UpdateNothing, Abort
<1> QED BY <1>1, <1>2, <1>3, IdleCall, HarmlessStep

-----------------------------------------------------------------------------
(* Steps that change rows *)

LEMMA Registers ==
  ASSUME SessionInv, NEW u \in Users, NEW t \in Tokens, Register(u, t)
  PROVE  SessionInv'
<1> USE DEF SessionInv
<1>1. /\ role' = [role EXCEPT ![u] = "RENT"] /\ role[u] = Null
      /\ owner' = [owner EXCEPT ![t] = u]
      /\ status' = [status EXCEPT ![t] = "Active"] /\ status[t] = "Absent"
      /\ source' = [source EXCEPT ![t] = "Register"]
      /\ access' = access \cup {[user |-> u, role |-> "RENT"]}
      /\ fresh' = fresh \cup {t}
      /\ blocked' = blocked /\ expired' = expired /\ call' = call
  BY DEF Register, CreateSession
<1>2. TypeOK'
  <2>1. access' \subseteq Claims
    BY <1>1 DEF TypeOK, Claims, Roles
  <2>2. role' \in [Users -> Roles \cup {Null}] /\ status' \in [Tokens -> {"Absent", "Active", "Revoked"}]
    BY <1>1 DEF TypeOK, Roles
  <2> QED BY <1>1, <2>1, <2>2 DEF TypeOK
<1>3. Owned'
  BY <1>1 DEF Owned, TypeOK
<1>4. \A v \in Users : role[v] # Null => role'[v] = role[v]
  BY <1>1 DEF TypeOK
<1>5. \A c \in Clients : HoldsAdminLock(c) => call[c].user \in Users /\ call[c].target \in Users
  BY SomeRequest DEF CallFields, HoldsAdminLock
<1>6. OneAdminLock'
  BY <1>1 DEF OneAdminLock, HoldsAdminLock
<1>7. InOffice'
  BY <1>1, <1>4, <1>5 DEF InOffice, HoldsAdminLock, IsCurrentAdmin, CanAuthenticate
<1>8. AdminRemains'
  BY <1>1, <1>4 DEF AdminRemains, IsCurrentAdmin, CanAuthenticate
<1>9. TokenLocks'
  BY <1>1 DEF TokenLocks, HoldsToken, TypeOK
<1>10. Successors' /\ OneSuccessor'
  BY <1>1, NamesAssumption DEF Successors, OneSuccessor, TypeOK
<1>11. Covered'
  <2>0. ASSUME NEW c \in Clients, call[c].op = "Revoking", NEW x \in call[c].todo
        PROVE  status'[x] # "Absent"
    <3>1. x \in Tokens
      BY <2>0, SomeRequest DEF CallFields
    <3> QED BY <1>1, <2>0, <3>1 DEF Covered, TypeOK
  <2> SUFFICES ASSUME NEW c \in Clients, call[c].op = "Revoking",
                      NEW x \in Tokens, owner'[x] = call[c].target, status'[x] = "Active"
               PROVE  x \in call[c].todo
    BY <1>1, <2>0 DEF Covered
  <2>1. call[c].target # u
    BY <1>1 DEF InOffice, HoldsAdminLock
  <2>2. x # t
    BY <1>1, <2>1 DEF TypeOK
  <2> QED BY <1>1, <2>2 DEF Covered, TypeOK
<1>12. FreshRotations'
  BY <1>1 DEF FreshRotations
<1>13. RotatedSessionsAreCurrent'
  BY <1>1 DEF RotatedSessionsAreCurrent, TypeOK
<1> QED BY <1>2, <1>3, <1>6, <1>7, <1>8, <1>9, <1>10, <1>11, <1>12, <1>13

\* What a new session of user u does, issued for request c, which then ends:
\* a login, or a rotation of a token that is revoked with it.
LEMMA SessionIssued ==
  ASSUME SessionInv, NEW c \in Clients, NEW t \in Tokens, NEW u \in Users, NEW r \in Roles, NEW from,
         UserFree(u), CreateSession(t, u, r, from), Inherit(t, c), Finish(c),
         role' = role, blocked' = blocked, expired' = expired,
         \/ from = "Login" /\ status' = [status EXCEPT ![t] = "Active"]
         \/ /\ from \in Tokens /\ call[c].op = "Rotate" /\ HoldsToken(c, from)
            /\ status' = [status EXCEPT ![t] = "Active", ![from] = "Revoked"]
  PROVE  SessionInv'
<1> USE DEF SessionInv
<1>1. /\ owner' = [owner EXCEPT ![t] = u]
      /\ status[t] = "Absent"
      /\ source' = [source EXCEPT ![t] = from]
      /\ access' = access \cup {[user |-> u, role |-> r]}
      /\ fresh' = IF c \in fresh THEN (fresh \ {c}) \cup {t} ELSE fresh
  BY DEF CreateSession, Inherit
<1>2. /\ call' = [call EXCEPT ![c] = Idle]
      /\ call'[c].op = "Idle"
      /\ \A d \in Clients : d # c => call'[d] = call[d]
  BY DEF Finish, TypeOK, Idle
<1>3. from \in Tokens => status[from] = "Active" /\ from # t /\ c \in fresh
  BY <1>1, NamesAssumption DEF TokenLocks, FreshRotations
<1>4. /\ status'[t] = "Active"
      /\ from \in Tokens => status'[from] = "Revoked"
      /\ \A x \in Tokens : x # t /\ x # from => status'[x] = status[x]
      /\ status' \in [Tokens -> {"Absent", "Active", "Revoked"}]
  BY <1>3, NamesAssumption DEF TypeOK
<1>5. TypeOK'
  <2>1. access' \subseteq Claims
    BY <1>1 DEF TypeOK, Claims
  <2>2. call' \in [Clients -> Calls]
    BY <1>2, IdleCall DEF TypeOK
  <2>3. fresh' \subseteq Tokens \cup Clients
    BY <1>1 DEF TypeOK
  <2>4. owner' \in [Tokens -> Users \cup {Null}]
    BY <1>1 DEF TypeOK
  <2>5. source' \in [Tokens -> Tokens \cup {"Register", "Login", Null}]
    BY <1>1 DEF TypeOK
  <2> QED BY <1>4, <2>1, <2>2, <2>3, <2>4, <2>5 DEF TypeOK
<1>6. Owned'
  BY <1>1, <1>3, <1>4 DEF Owned, TypeOK
<1>7. OneAdminLock' /\ InOffice'
  BY <1>2 DEF OneAdminLock, InOffice, HoldsAdminLock, IsCurrentAdmin, CanAuthenticate
<1>8. AdminRemains'
  BY DEF AdminRemains, IsCurrentAdmin, CanAuthenticate
<1>9. TokenLocks'
  <2> SUFFICES ASSUME NEW d \in Clients, NEW x \in Tokens, HoldsToken(d, x)'
               PROVE  status'[x] = "Active" /\ \A e \in Clients : HoldsToken(e, x)' => e = d
    BY DEF TokenLocks
  <2>1. d # c /\ HoldsToken(d, x)
    BY <1>2 DEF HoldsToken
  <2>2. status[x] = "Active" /\ x # t /\ x # from
    BY <1>1, <2>1, NamesAssumption DEF TokenLocks
  <2>3. \A e \in Clients : HoldsToken(e, x)' => HoldsToken(e, x)
    BY <1>2 DEF HoldsToken
  <2> QED BY <1>4, <2>1, <2>2, <2>3 DEF TokenLocks
<1>10. Successors'
  <2> SUFFICES ASSUME NEW x \in Tokens, source'[x] \in Tokens
               PROVE  status'[source'[x]] = "Revoked"
    BY DEF Successors
  <2>1. CASE x = t
    BY <1>1, <1>4, <2>1 DEF TypeOK
  <2>2. CASE x # t
    <3>1. source'[x] = source[x] /\ status[source[x]] = "Revoked"
      BY <1>1, <2>2 DEF Successors, TypeOK
    <3> QED BY <1>1, <1>3, <1>4, <3>1
  <2> QED BY <2>1, <2>2
<1>11. OneSuccessor'
  <2>1. \A x \in Tokens : x # t => source'[x] = source[x]
    BY <1>1 DEF TypeOK
  <2>2. source'[t] = from
    BY <1>1 DEF TypeOK
  <2>3. \A x \in Tokens : from \in Tokens => source[x] # from
    BY <1>3 DEF Successors
  <2> QED BY <2>1, <2>2, <2>3 DEF OneSuccessor
<1>12. Covered'
  <2>0. ASSUME NEW d \in Clients, call'[d].op = "Revoking", NEW x \in call'[d].todo
        PROVE  status'[x] # "Absent"
    <3>1. call'[d] = call[d] /\ x \in call[d].todo
      BY <1>2, <2>0
    <3>2. x \in Tokens /\ status[x] # "Absent"
      BY <2>0, <3>1, SomeRequest DEF CallFields, Covered
    <3> QED BY <1>4, <3>2
  <2> SUFFICES ASSUME NEW d \in Clients, call'[d].op = "Revoking",
                      NEW x \in Tokens, owner'[x] = call'[d].target, status'[x] = "Active"
               PROVE  x \in call'[d].todo
    BY <2>0 DEF Covered
  <2>1. call'[d] = call[d] /\ d # c
    BY <1>2
  <2>2. call[d].target # u
    BY <2>1 DEF UserFree, HoldsUser, HoldsAdminLock
  <2>3. x # t
    BY <1>1, <2>1, <2>2 DEF TypeOK
  <2>4. owner'[x] = owner[x] /\ status[x] = "Active"
    BY <1>1, <1>3, <1>4, <2>3 DEF TypeOK
  <2> QED BY <2>1, <2>4 DEF Covered
<1>13. FreshRotations'
  BY <1>1, <1>2 DEF FreshRotations
<1>14. RotatedSessionsAreCurrent'
  <2> SUFFICES ASSUME NEW x \in Tokens, status'[x] = "Active", source'[x] # "Login"
               PROVE  x \in fresh'
    BY DEF RotatedSessionsAreCurrent
  <2>1. CASE x = t
    BY <1>1, <1>3, <2>1 DEF TypeOK
  <2>2. CASE x # t
    <3>1. source'[x] = source[x] /\ status[x] = "Active"
      BY <1>1, <1>3, <1>4, <2>2 DEF TypeOK
    <3>2. x \in fresh /\ x # c
      BY <2>2, <3>1, NamesAssumption DEF RotatedSessionsAreCurrent
    <3> QED BY <1>1, <3>2
  <2> QED BY <2>1, <2>2
<1> QED BY <1>5, <1>6, <1>7, <1>8, <1>9, <1>10, <1>11, <1>12, <1>13, <1>14

LEMMA LoginInserts ==
  ASSUME SessionInv, NEW c \in Clients, NEW t \in Tokens, LoginInsert(c, t)
  PROVE  SessionInv'
<1>1. call[c].user \in Users /\ call[c].role \in Roles
  BY SomeRequest DEF SessionInv, CallFields, LoginInsert
<1> QED BY <1>1, SessionIssued DEF LoginInsert

LEMMA RefreshRotates ==
  ASSUME SessionInv, NEW c \in Clients, NEW t \in Tokens, RefreshRotate(c, t)
  PROVE  SessionInv'
<1> DEFINE old == call[c].token
<1>1. old \in Tokens /\ call[c].role \in Roles /\ HoldsToken(c, old)
  BY SomeRequest DEF SessionInv, CallFields, RefreshRotate, HoldsToken
<1>2. owner[old] \in Users
  BY <1>1 DEF SessionInv, TokenLocks, Owned
<1>3. /\ call[c].op = "Rotate" /\ UserFree(owner[old])
      /\ CreateSession(t, owner[old], call[c].role, old) /\ Inherit(t, c) /\ Finish(c)
      /\ status' = [status EXCEPT ![t] = "Active", ![old] = "Revoked"]
      /\ role' = role /\ blocked' = blocked /\ expired' = expired
  BY DEF RefreshRotate
<1> HIDE DEF old
<1> QED BY <1>1, <1>2, <1>3, SessionIssued

LEMMA Logouts ==
  ASSUME SessionInv, NEW t \in Tokens, Logout(t)
  PROVE  SessionInv'
<1> USE DEF SessionInv, Logout
<1>1. /\ status' = [status EXCEPT ![t] = "Revoked"] /\ status[t] = "Active"
      /\ \A x \in Tokens : x # t => status'[x] = status[x]
      /\ status'[t] = "Revoked"
  BY DEF TypeOK
<1>2. TypeOK'
  BY <1>1 DEF TypeOK
<1>3. Owned' /\ Successors' /\ OneSuccessor'
  BY <1>1 DEF Owned, Successors, OneSuccessor
<1>4. AdminRemains' /\ OneAdminLock' /\ InOffice'
  BY DEF AdminRemains, OneAdminLock, InOffice, HoldsAdminLock, IsCurrentAdmin, CanAuthenticate
<1>5. TokenLocks'
  BY <1>1 DEF TokenLocks, HoldsToken, TokenFree
<1>6. \A d \in Clients : call[d].op = "Revoking" => call[d].todo \subseteq Tokens
  BY SomeRequest DEF CallFields
<1>7. Covered'
  BY <1>1, <1>6 DEF Covered
<1>8. FreshRotations' /\ RotatedSessionsAreCurrent'
  BY <1>1 DEF FreshRotations, RotatedSessionsAreCurrent
<1> QED BY <1>2, <1>3, <1>4, <1>5, <1>7, <1>8

\* The target and the sessions of the target change, and nobody else's: a rotation
\* of the target's would hold one of the tokens that have been waited for.
LEMMA UpdateCommits ==
  ASSUME SessionInv, NEW c \in Clients, UpdateCommit(c)
  PROVE  SessionInv'
<1> USE DEF SessionInv
<1> DEFINE u == call[c].target
           m == Merged(call[c].change, u)
           todo == call[c].todo
<1>1. /\ call[c].user \in Users /\ u \in Users /\ call[c].change \in Updates
      /\ todo \subseteq Tokens /\ \A t \in todo : status[t] # "Absent"
  BY SomeRequest DEF CallFields, UpdateCommit, Covered
<1>2. HoldsAdminLock(c) /\ \A d \in Clients : HoldsAdminLock(d) => d = c
  BY DEF UpdateCommit, HoldsAdminLock, OneAdminLock
<1>3. IsCurrentAdmin(call[c].user) /\ call[c].user # u
  BY <1>2 DEF InOffice
<1>4. m.role \in Roles \cup {Null} /\ m.blocked \in BOOLEAN
  <2>1. call[c].change.role \in Roles \cup {Null} /\ call[c].change.blocked \in BOOLEAN \cup {Null}
    BY <1>1, UpdatesAssumption DEF Roles
  <2>2. role[u] \in Roles \cup {Null} /\ blocked[u] \in BOOLEAN
    BY <1>1 DEF TypeOK
  <2>3. m.role \in Roles \cup {Null}
    BY <2>1, <2>2 DEF Merged
  <2>4. m.blocked = IF call[c].change.blocked = Null THEN blocked[u] ELSE call[c].change.blocked
    BY DEF Merged
  <2>5. m.blocked \in BOOLEAN
    BY <2>1, <2>2, <2>4, Zenon
  <2> QED BY <2>3, <2>5
<1>5. /\ role' = [role EXCEPT ![u] = m.role]
      /\ blocked' = [blocked EXCEPT ![u] = m.blocked]
      /\ owner' = owner /\ source' = source /\ access' = access /\ expired' = expired
      /\ status' = [t \in Tokens |-> IF t \in todo THEN "Revoked" ELSE status[t]]
      /\ \A t \in todo : TokenFree(t)
  BY DEF UpdateCommit
<1>6. /\ call' = [call EXCEPT ![c] = Idle]
      /\ call'[c].op = "Idle"
      /\ \A d \in Clients : d # c => call'[d] = call[d]
  BY DEF UpdateCommit, Finish, TypeOK, Idle
<1>7. fresh' = {x \in fresh : /\ x \in Tokens => owner[x] # u
                              /\ x \in Clients => ~(call[x].op = "Login" /\ call[x].user = u)
                              /\ x \in Clients => ~(call[x].op = "Rotate" /\ owner[call[x].token] = u)}
  BY DEF UpdateCommit
<1>8. \A t \in Tokens : owner[t] = u /\ status[t] = "Active" => t \in todo
  BY DEF Covered, UpdateCommit
<1> HIDE DEF m, u, todo
<1>9. TypeOK'
  <2>1. role' \in [Users -> Roles \cup {Null}]
    BY <1>1, <1>4, <1>5 DEF TypeOK
  <2>2. blocked' \in [Users -> BOOLEAN]
    BY <1>1, <1>4, <1>5, Zenon DEF TypeOK
  <2>3. status' \in [Tokens -> {"Absent", "Active", "Revoked"}]
    BY <1>5 DEF TypeOK
  <2>4. call' \in [Clients -> Calls]
    BY <1>6, IdleCall DEF TypeOK
  <2>5. fresh' \subseteq Tokens \cup Clients
    BY <1>7 DEF TypeOK
  <2> QED BY <1>5, <2>1, <2>2, <2>3, <2>4, <2>5 DEF TypeOK
<1>10. \A t \in Tokens : status'[t] = IF t \in todo THEN "Revoked" ELSE status[t]
  BY <1>5
<1>11. Owned'
  BY <1>1, <1>5, <1>10 DEF Owned
<1>12. AdminRemains'
  <2>1. role'[call[c].user] = role[call[c].user] /\ blocked'[call[c].user] = blocked[call[c].user]
    BY <1>1, <1>3, <1>5 DEF TypeOK
  <2>2. IsCurrentAdmin(call[c].user)
    BY <1>3
  <2>3. role'[call[c].user] = "ADMIN" /\ ~blocked'[call[c].user]
    BY <2>1, <2>2 DEF IsCurrentAdmin, CanAuthenticate
  <2> QED BY <1>1, <2>3, NamesAssumption DEF AdminRemains, IsCurrentAdmin, CanAuthenticate
<1>13. OneAdminLock' /\ InOffice'
  BY <1>2, <1>6 DEF OneAdminLock, InOffice, HoldsAdminLock
<1>14. ASSUME NEW d \in Clients, NEW t \in Tokens, HoldsToken(d, t)'
       PROVE  d # c /\ HoldsToken(d, t) /\ t \notin todo
  <2>1. d # c /\ HoldsToken(d, t)
    BY <1>6, <1>14 DEF HoldsToken
  <2> QED BY <1>5, <2>1 DEF TokenFree
<1>15. TokenLocks'
  BY <1>10, <1>14 DEF TokenLocks
<1>16. Successors' /\ OneSuccessor'
  BY <1>5, <1>10 DEF Successors, OneSuccessor
<1>17. Covered'
  BY <1>2, <1>6 DEF Covered, HoldsAdminLock
<1>18. FreshRotations'
  <2> SUFFICES ASSUME NEW d \in Clients, call'[d].op = "Rotate" PROVE d \in fresh'
    BY DEF FreshRotations
  <2>1. d # c /\ call'[d] = call[d] /\ call[d].op = "Rotate"
    BY <1>6
  <2>2. call[d].token \in Tokens
    BY <2>1, SomeRequest DEF CallFields
  <2>3. HoldsToken(d, call[d].token)
    BY <2>1 DEF HoldsToken
  <2>4. HoldsToken(d, call[d].token) /\ status[call[d].token] = "Active" /\ call[d].token \notin todo
    BY <1>5, <2>2, <2>3 DEF TokenLocks, TokenFree
  <2>5. owner[call[d].token] # u
    BY <1>8, <2>2, <2>4
  <2>6. d \in fresh /\ d \notin Tokens
    BY <2>1, NamesAssumption DEF FreshRotations
  <2> QED BY <1>7, <2>1, <2>5, <2>6
<1>19. RotatedSessionsAreCurrent'
  <2> SUFFICES ASSUME NEW t \in Tokens, status'[t] = "Active", source'[t] # "Login"
               PROVE  t \in fresh'
    BY DEF RotatedSessionsAreCurrent
  <2>1. t \notin todo /\ status[t] = "Active" /\ source[t] # "Login"
    BY <1>5, <1>10
  <2>2. t \in fresh /\ t \notin Clients /\ owner[t] # u
    BY <1>8, <2>1, NamesAssumption DEF RotatedSessionsAreCurrent
  <2> QED BY <1>7, <2>2
<1> QED BY <1>9, <1>11, <1>12, <1>13, <1>15, <1>16, <1>17, <1>18, <1>19

LEMMA TokensExpire ==
  ASSUME SessionInv,
         (\E t \in Tokens : ExpireRefreshToken(t)) \/ (\E k \in access : ExpireAccessToken(k))
  PROVE  SessionInv'
<1> USE DEF SessionInv
<1>1. /\ role' = role /\ blocked' = blocked /\ status' = status /\ owner' = owner
      /\ call' = call /\ source' = source /\ fresh' = fresh
  BY DEF ExpireRefreshToken, ExpireAccessToken
<1>2. expired' \subseteq Tokens /\ access' \subseteq Claims
  BY DEF ExpireRefreshToken, ExpireAccessToken, TypeOK
<1>3. TypeOK' /\ Owned' /\ Successors' /\ OneSuccessor'
  BY <1>1, <1>2 DEF TypeOK, Owned, Successors, OneSuccessor
<1>4. AdminRemains' /\ OneAdminLock' /\ InOffice'
  BY <1>1 DEF AdminRemains, OneAdminLock, InOffice, HoldsAdminLock, IsCurrentAdmin, CanAuthenticate
<1>5. TokenLocks' /\ Covered' /\ FreshRotations' /\ RotatedSessionsAreCurrent'
  BY <1>1 DEF TokenLocks, HoldsToken, Covered, FreshRotations, RotatedSessionsAreCurrent
<1> QED BY <1>3, <1>4, <1>5

-----------------------------------------------------------------------------
(* The invariant *)

LEMMA SessionInit == Init => SessionInv
<1> SUFFICES ASSUME Init PROVE SessionInv
  OBVIOUS
<1>1. \A c \in Clients : call[c] = Idle /\ call[c].op = "Idle"
  BY DEF Init, Idle
<1>2. TypeOK
  <2>1. call \in [Clients -> Calls]
    BY IdleCall DEF Init
  <2>2. blocked \in [Users -> BOOLEAN]
    BY Zenon DEF Init
  <2>3. /\ role \in [Users -> Roles \cup {Null}]
        /\ status \in [Tokens -> {"Absent", "Active", "Revoked"}]
        /\ owner \in [Tokens -> Users \cup {Null}]
        /\ source \in [Tokens -> Tokens \cup {"Register", "Login", Null}]
        /\ expired \subseteq Tokens /\ access \subseteq Claims /\ fresh \subseteq Tokens \cup Clients
    BY DEF Init, Roles
  <2> QED BY <2>1, <2>2, <2>3 DEF TypeOK
<1>3. AdminRemains
  <2>1. PICK u \in Users : u \in Provisioned
    BY ProvisionedAssumption
  <2>2. role[u] = "ADMIN" /\ blocked[u] = FALSE
    BY <2>1 DEF Init
  <2> QED BY <2>2, NamesAssumption DEF AdminRemains, IsCurrentAdmin, CanAuthenticate
<1>4. Owned /\ Successors /\ OneSuccessor /\ RotatedSessionsAreCurrent
  BY NamesAssumption DEF Init, Owned, Successors, OneSuccessor, RotatedSessionsAreCurrent
<1>5. OneAdminLock /\ InOffice /\ TokenLocks /\ Covered /\ FreshRotations
  BY <1>1 DEF OneAdminLock, InOffice, TokenLocks, Covered, FreshRotations, HoldsAdminLock, HoldsToken
<1> QED BY <1>2, <1>3, <1>4, <1>5 DEF SessionInv

LEMMA SessionUnchanged == ASSUME SessionInv, UNCHANGED vars PROVE SessionInv'
<1> USE DEF SessionInv, vars
<1>1. TypeOK' /\ Owned' /\ Successors' /\ OneSuccessor'
  BY DEF TypeOK, Owned, Successors, OneSuccessor
<1>2. AdminRemains' /\ OneAdminLock' /\ InOffice'
  BY DEF AdminRemains, OneAdminLock, InOffice, HoldsAdminLock, IsCurrentAdmin, CanAuthenticate
<1>3. TokenLocks' /\ Covered' /\ FreshRotations' /\ RotatedSessionsAreCurrent'
  BY DEF TokenLocks, HoldsToken, Covered, FreshRotations, RotatedSessionsAreCurrent
<1> QED BY <1>1, <1>2, <1>3

LEMMA SessionNext == SessionInv /\ [Next]_vars => SessionInv'
<1> SUFFICES ASSUME SessionInv, [Next]_vars PROVE SessionInv'
  OBVIOUS
<1>1. CASE SessionStep
  <2>1. ASSUME NEW t \in Tokens, Logout(t) PROVE SessionInv'
    BY <2>1, Logouts
  <2>2. ASSUME NEW t \in Tokens, ExpireRefreshToken(t) PROVE SessionInv'
    BY <2>2, TokensExpire
  <2>3. ASSUME NEW t \in Tokens, NEW u \in Users, Register(u, t) PROVE SessionInv'
    BY <2>3, Registers
  <2>4. ASSUME NEW c \in Clients, NEW u \in Users, LoginRead(c, u) PROVE SessionInv'
    BY <2>4, LoginReads
  <2>5. ASSUME NEW c \in Clients, NEW t \in Tokens, LoginInsert(c, t) PROVE SessionInv'
    BY <2>5, LoginInserts
  <2>6. ASSUME NEW c \in Clients, NEW t \in Tokens, RefreshLock(c, t) PROVE SessionInv'
    BY <2>6, RefreshLocks
  <2>7. ASSUME NEW c \in Clients, NEW t \in Tokens, RefreshRotate(c, t) PROVE SessionInv'
    BY <2>7, RefreshRotates
  <2>8. ASSUME NEW c \in Clients, RefreshRead(c) PROVE SessionInv'
    BY <2>8, RefreshReads
  <2> QED BY <1>1, <2>1, <2>2, <2>3, <2>4, <2>5, <2>6, <2>7, <2>8 DEF SessionStep
<1>2. CASE RequestStep
  <2>1. ASSUME NEW c \in Clients, NEW k \in access, NEW u \in Users, ProfileRead(c, k, u)
        PROVE  SessionInv'
    BY <2>1, ProfileReads
  <2>2. ASSUME NEW c \in Clients, NEW k \in access, NEW u \in Users, NEW change \in Updates,
               AdmitUpdate(c, k, u, change)
        PROVE  SessionInv'
    BY <2>2, UpdatesAdmitted
  <2>3. ASSUME NEW c \in Clients, ProfileWrite(c) \/ UpdateNothing(c) PROVE SessionInv'
    BY <2>3, RequestsEnd
  <2>4. ASSUME NEW c \in Clients, UpdateLock(c) PROVE SessionInv'
    BY <2>4, UpdateLocks
  <2>5. ASSUME NEW c \in Clients, RevokeSnapshot(c) PROVE SessionInv'
    BY <2>5, RevokeSnapshots
  <2>6. ASSUME NEW c \in Clients, UpdateCommit(c) PROVE SessionInv'
    BY <2>6, UpdateCommits
  <2>7. ASSUME NEW k \in access, ExpireAccessToken(k) PROVE SessionInv'
    BY <2>7, TokensExpire
  <2> QED BY <1>2, <2>1, <2>2, <2>3, <2>4, <2>5, <2>6, <2>7 DEF RequestStep
<1>3. CASE \E c \in Clients : Abort(c)
  BY <1>3, RequestsEnd
<1>4. CASE UNCHANGED vars
  BY <1>4, SessionUnchanged
<1> QED BY <1>1, <1>2, <1>3, <1>4 DEF Next

LEMMA SessionsCorrect == Spec => []SessionInv
BY SessionInit, SessionNext, PTL DEF Spec

\* Columns and requests keep their types; a rotation never reads a missing user.
THEOREM SessionTypes == Spec => []TypeOK
<1>1. SessionInv => TypeOK
  BY DEF SessionInv
<1> QED BY <1>1, SessionsCorrect, PTL

\* However many administrators act on each other, one who can act remains.
THEOREM SomeAdmin == Spec => []AdminRemains
<1>1. SessionInv => AdminRemains
  BY DEF SessionInv
<1> QED BY <1>1, SessionsCorrect, PTL

\* However many refreshes of one token race, it has one successor.
THEOREM NoFork == Spec => []OneSuccessor
<1>1. SessionInv => OneSuccessor
  BY DEF SessionInv
<1> QED BY <1>1, SessionsCorrect, PTL

\* No session gets past a change of its user's role or block by rotation.
THEOREM RotationIsCurrent == Spec => []RotatedSessionsAreCurrent
<1>1. SessionInv => RotatedSessionsAreCurrent
  BY DEF SessionInv
<1> QED BY <1>1, SessionsCorrect, PTL

-----------------------------------------------------------------------------
(* Changes of role and block *)

\* The body of PrivilegesChangeOnRequest.
ChangesOnRequest ==
  \A u \in Users :
    role[u] # Null /\ (role'[u] # role[u] \/ blocked'[u] # blocked[u]) =>
      \E c \in Clients :
        /\ call[c].op = "Revoking" /\ call[c].target = u
        /\ IsCurrentAdmin(call[c].user)
        /\ role'[call[c].user] = "ADMIN" /\ ~blocked'[call[c].user]
        /\ Merged(call[c].change, u) = [role |-> role'[u], blocked |-> blocked'[u]]

LEMMA CommitIsRequested ==
  ASSUME SessionInv, NEW c \in Clients, UpdateCommit(c)
  PROVE  ChangesOnRequest
<1> DEFINE v == call[c].target
           m == Merged(call[c].change, v)
<1>1. v \in Users /\ call[c].user \in Users /\ call[c].op = "Revoking"
  BY SomeRequest DEF SessionInv, CallFields, UpdateCommit
<1>2. IsCurrentAdmin(call[c].user) /\ call[c].user # v
  BY <1>1 DEF SessionInv, InOffice, HoldsAdminLock
<1>3. role' = [role EXCEPT ![v] = m.role] /\ blocked' = [blocked EXCEPT ![v] = m.blocked]
  BY DEF UpdateCommit
<1>4. m = [role |-> m.role, blocked |-> m.blocked]
  BY DEF Merged
<1> HIDE DEF m
<1>5. /\ \A u \in Users : u # v => role'[u] = role[u] /\ blocked'[u] = blocked[u]
      /\ role'[v] = m.role /\ blocked'[v] = m.blocked
  BY <1>1, <1>3 DEF SessionInv, TypeOK
<1>6. role'[call[c].user] = "ADMIN" /\ ~blocked'[call[c].user]
  BY <1>1, <1>2, <1>5 DEF IsCurrentAdmin, CanAuthenticate
<1>7. m = [role |-> role'[v], blocked |-> blocked'[v]]
  BY <1>4, <1>5
<1> QED BY <1>1, <1>2, <1>5, <1>6, <1>7 DEF ChangesOnRequest, m

\* A role or block changes only by a request of an administrator in office, who stays
\* in office, and only to what that request says.
THEOREM PrivilegesAreSafe == Spec => PrivilegesChangeOnRequest
<1>1. SessionInv /\ [Next]_vars => [ChangesOnRequest]_vars
  <2> SUFFICES ASSUME SessionInv, Next PROVE ChangesOnRequest
    BY DEF ChangesOnRequest
  <2>1. ASSUME NEW c \in Clients, UpdateCommit(c) PROVE ChangesOnRequest
    BY <2>1, CommitIsRequested
  <2>2. ASSUME NEW u \in Users, NEW t \in Tokens, Register(u, t) PROVE ChangesOnRequest
    BY <2>2 DEF Register, ChangesOnRequest, SessionInv, TypeOK
  <2>3. ASSUME role' = role, blocked' = blocked PROVE ChangesOnRequest
    BY <2>3 DEF ChangesOnRequest
  <2>4. CASE SessionStep
    BY <2>2, <2>3, <2>4 DEF SessionStep, Logout, ExpireRefreshToken, LoginRead, LoginInsert,
                            RefreshLock, RefreshRotate, RefreshRead
  <2>5. CASE RequestStep
    BY <2>1, <2>3, <2>5 DEF RequestStep, ProfileRead, AdmitUpdate, ProfileWrite, UpdateLock,
                            UpdateNothing, RevokeSnapshot, ExpireAccessToken
  <2>6. CASE \E c \in Clients : Abort(c)
    BY <2>3, <2>6 DEF Abort
  <2> QED BY <2>4, <2>5, <2>6 DEF Next
<1> QED BY <1>1, SessionsCorrect, PTL DEF Spec, PrivilegesChangeOnRequest, ChangesOnRequest
=============================================================================
