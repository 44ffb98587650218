------------------------------ MODULE Sessions ------------------------------
(***************************************************************************)
(* Users, their refresh tokens and access tokens, and the administrators   *)
(* who block, unblock, promote and demote them.                            *)
(*                                                                         *)
(* The handlers that race are split at the points where another            *)
(* transaction can act: Login reads the user without a transaction and     *)
(* inserts its token later; Refresh locks its token, reads the user        *)
(* without a lock, and its insert waits for the user's row (the foreign    *)
(* key's KEY SHARE conflicts with FOR UPDATE); UpdateUser locks the actor  *)
(* and the target, takes the snapshot of its revoking UPDATE, and waits    *)
(* for the token rows in it.  Locks are those of the calls in progress.    *)
(***************************************************************************)
EXTENDS Naturals, FiniteSets

CONSTANTS
  Users,        \* e-mail addresses, each of at most one user
  Provisioned,  \* users an operator made ADMIN (the seed migration has one)
  Tokens,       \* refresh tokens, drawn at random
  Clients,      \* requests in progress at the same time
  Updates,      \* the role and block an administrator may ask for
  Null          \* a field the JSON request leaves out; a row that does not exist

ASSUME ProvisionedAssumption == Provisioned \subseteq Users /\ Provisioned # {}
ASSUME NamesAssumption ==
  /\ Null \notin Users \cup Tokens \cup {"ADMIN", "RENT", "Register", "Login"}
  /\ Null \notin BOOLEAN
  /\ Tokens \cap Clients = {}
  /\ Tokens \cap {"Register", "Login"} = {}
ASSUME UpdatesAssumption ==
  Updates \subseteq [role : {"ADMIN", "RENT", Null}, blocked : BOOLEAN \cup {Null}]

VARIABLES
  role,        \* users.role, Null without a row
  blocked,     \* users.is_blocked
  status,      \* refresh_tokens: absent, Active or Revoked (revoked_at)
  owner,       \* refresh_tokens.user_id
  expired,     \* tokens whose expires_at has passed
  access,      \* claims of the unexpired access tokens handed out
  call,        \* what each request in progress has read and locked
  source,      \* history: the handler, or the token, a token was issued for
  fresh        \* history: tokens and calls whose copy of the user is current

vars == <<role, blocked, status, owner, expired, access, call, source, fresh>>

Roles    == {"ADMIN", "RENT"}
Claims   == [user : Users, role : Roles]
Idle     == [op |-> "Idle"]
Updating == [op : {"Admitted", "Locked"}, user : Users, target : Users, change : Updates]
Revoking == [op : {"Revoking"}, user : Users, target : Users, change : Updates, todo : SUBSET Tokens]
Calls ==
  {Idle} \cup [op : {"Login"}, user : Users, role : Roles]
         \cup [op : {"Refresh"}, token : Tokens]
         \cup [op : {"Rotate"}, token : Tokens, role : Roles]
         \cup [op : {"Profile"}, user : Users, role : Roles, blocked : BOOLEAN]
         \cup Updating \cup Revoking

\* The type invariant of the session tables and of the requests in progress.
TypeOK ==
  /\ role \in [Users -> Roles \cup {Null}]
  /\ blocked \in [Users -> BOOLEAN]
  /\ status \in [Tokens -> {"Absent", "Active", "Revoked"}]
  /\ owner \in [Tokens -> Users \cup {Null}]
  /\ expired \subseteq Tokens
  /\ access \subseteq Claims
  /\ call \in [Clients -> Calls]
  /\ source \in [Tokens -> Tokens \cup {"Register", "Login", Null}]
  /\ fresh \subseteq Tokens \cup Clients

Init ==
  /\ role = [u \in Users |-> IF u \in Provisioned THEN "ADMIN" ELSE Null]
  /\ blocked = [u \in Users |-> FALSE]
  /\ status = [t \in Tokens |-> "Absent"]
  /\ owner = [t \in Tokens |-> Null]
  /\ expired = {}
  /\ access = {}
  /\ call = [c \in Clients |-> Idle]
  /\ source = [t \in Tokens |-> Null]
  /\ fresh = {}

-----------------------------------------------------------------------------
(* Locks held by the calls in progress *)

HoldsAdminLock(c) == call[c].op \in {"Locked", "Revoking"}
HoldsToken(c, t)  == call[c].op \in {"Refresh", "Rotate"} /\ call[c].token = t
HoldsUser(c, u)   == HoldsAdminLock(c) /\ u \in {call[c].user, call[c].target}

TokenFree(t)   == \A c \in Clients : ~HoldsToken(c, t)
UserFree(u)    == \A c \in Clients : ~HoldsUser(c, u)
AdminLockFree  == \A c \in Clients : ~HoldsAdminLock(c)

CanAuthenticate(u) == role[u] # Null /\ ~blocked[u]
IsCurrentAdmin(u)  == CanAuthenticate(u) /\ role[u] = "ADMIN"
ActiveTokens(u)    == {t \in Tokens : owner[t] = u /\ status[t] = "Active"}

Begin(c, record) == call[c] = Idle /\ call' = [call EXCEPT ![c] = record]
Advance(c, record) == call' = [call EXCEPT ![c] = record]
Finish(c) == call' = [call EXCEPT ![c] = Idle]

-----------------------------------------------------------------------------
(* Sessions *)

\* CreateRefreshToken with GenerateTokenWithRole: the row and the claims of a
\* new session; the random token has not been drawn before.
CreateSession(t, u, claimed, from) ==
  /\ status[t] = "Absent"
  /\ owner' = [owner EXCEPT ![t] = u]
  /\ source' = [source EXCEPT ![t] = from]
  /\ access' = access \cup {[user |-> u, role |-> claimed]}

\* A session is as current as the copy of the user it was issued from.
Inherit(t, c) == fresh' = IF c \in fresh THEN (fresh \ {c}) \cup {t} ELSE fresh

\* Register: the user and the first session in one transaction; the unique
\* e-mail rejects a second one.
Register(u, t) ==
  /\ role[u] = Null
  /\ role' = [role EXCEPT ![u] = "RENT"]
  /\ CreateSession(t, u, "RENT", "Register")
  /\ fresh' = fresh \cup {t}
  /\ status' = [status EXCEPT ![t] = "Active"]
  /\ UNCHANGED <<blocked, expired, call>>

LoginRead(c, u) ==
  /\ CanAuthenticate(u)
  /\ Begin(c, [op |-> "Login", user |-> u, role |-> role[u]])
  /\ fresh' = fresh \cup {c}
  /\ UNCHANGED <<role, blocked, status, owner, expired, access, source>>

LoginInsert(c, t) ==
  /\ call[c].op = "Login"
  /\ UserFree(call[c].user)
  /\ CreateSession(t, call[c].user, call[c].role, "Login")
  /\ Inherit(t, c)
  /\ status' = [status EXCEPT ![t] = "Active"]
  /\ Finish(c)
  /\ UNCHANGED <<role, blocked, expired>>

\* Mutation: the token is read without FOR UPDATE and revoked unconditionally.
RefreshUnlocked(c, t) ==
  /\ status[t] = "Active"
  /\ t \notin expired
  /\ Begin(c, [op |-> "Refresh", token |-> t])
  /\ UNCHANGED <<role, blocked, status, owner, expired, access, source, fresh>>

\* Refresh up to UpdateRefreshToken; its revocation is invisible until the commit.
RefreshLock(c, t) ==
  /\ TokenFree(t)
  /\ status[t] = "Active"
  /\ t \notin expired
  /\ Begin(c, [op |-> "Refresh", token |-> t])
  /\ UNCHANGED <<role, blocked, status, owner, expired, access, source, fresh>>

\* GetUserByID and CanAuthenticate; a user who may not log in ends in Abort.
RefreshRead(c) ==
  /\ call[c].op = "Refresh"
  /\ CanAuthenticate(owner[call[c].token])
  /\ Advance(c, [op |-> "Rotate", token |-> call[c].token, role |-> role[owner[call[c].token]]])
  /\ fresh' = fresh \cup {c}
  /\ UNCHANGED <<role, blocked, status, owner, expired, access, source>>

\* Mutation: UpdateUser locks FOR NO KEY UPDATE, which lets the insert through.
RotateDuringUpdate(c, t) ==
  /\ call[c].op = "Rotate"
  /\ LET old == call[c].token IN
       /\ CreateSession(t, owner[old], call[c].role, old)
       /\ Inherit(t, c)
       /\ status' = [status EXCEPT ![t] = "Active", ![old] = "Revoked"]
  /\ Finish(c)
  /\ UNCHANGED <<role, blocked, expired>>

\* The successor is inserted and the rotation commits.
RefreshRotate(c, t) ==
  /\ call[c].op = "Rotate"
  /\ UserFree(owner[call[c].token])
  /\ LET old == call[c].token IN
       /\ CreateSession(t, owner[old], call[c].role, old)
       /\ Inherit(t, c)
       /\ status' = [status EXCEPT ![t] = "Active", ![old] = "Revoked"]
  /\ Finish(c)
  /\ UNCHANGED <<role, blocked, expired>>

\* Logout does not look at expires_at.
Logout(t) ==
  /\ status[t] = "Active" /\ TokenFree(t)
  /\ status' = [status EXCEPT ![t] = "Revoked"]
  /\ UNCHANGED <<role, blocked, owner, expired, access, call, source, fresh>>

-----------------------------------------------------------------------------
(* Authenticated requests *)

\* The Auth middleware: the claims are unexpired and the user of today may log
\* in; ADMIN takes both the claim and the present role.
EffectiveAdmin(k) == k.role = "ADMIN" /\ IsCurrentAdmin(k.user)

\* UpdateProfile of oneself, or of anyone by an administrator: the row is read ...
ProfileRead(c, k, u) ==
  /\ k \in access /\ CanAuthenticate(k.user)
  /\ k.user = u \/ EffectiveAdmin(k)
  /\ role[u] # Null
  /\ Begin(c, [op |-> "Profile", user |-> u, role |-> role[u], blocked |-> blocked[u]])
  /\ UNCHANGED <<role, blocked, status, owner, expired, access, source, fresh>>

\* Mutation: all columns are written back, as auth.Repository.UpdateUser would.
ProfileWriteRow(c) ==
  /\ call[c].op = "Profile"
  /\ UserFree(call[c].user)
  /\ role' = [role EXCEPT ![call[c].user] = call[c].role]
  /\ blocked' = [blocked EXCEPT ![call[c].user] = call[c].blocked]
  /\ Finish(c)
  /\ UNCHANGED <<status, owner, expired, access, source, fresh>>

\* ... and only the names are written back.
ProfileWrite(c) ==
  /\ call[c].op = "Profile"
  /\ UserFree(call[c].user)
  /\ Finish(c)
  /\ UNCHANGED <<role, blocked, status, owner, expired, access, source, fresh>>

\* AdminUpdateUser behind the middleware.
AdmitUpdate(c, k, u, change) ==
  /\ k \in access /\ EffectiveAdmin(k)
  /\ Begin(c, [op |-> "Admitted", user |-> k.user, target |-> u, change |-> change])
  /\ UNCHANGED <<role, blocked, status, owner, expired, access, source, fresh>>

\* Mutation: the handler relies on the middleware's check.
LockTrustingMiddleware(c) ==
  /\ call[c].op = "Admitted"
  /\ AdminLockFree
  /\ call[c].user # call[c].target
  /\ role[call[c].target] # Null
  /\ Advance(c, [op |-> "Locked", user |-> call[c].user, target |-> call[c].target,
                 change |-> call[c].change])
  /\ UNCHANGED <<role, blocked, status, owner, expired, access, source, fresh>>

\* RequireCurrentAdminForMutation, the self-update check and GetUserForUpdate.
UpdateLock(c) ==
  /\ call[c].op = "Admitted"
  /\ AdminLockFree
  /\ IsCurrentAdmin(call[c].user)
  /\ call[c].user # call[c].target
  /\ role[call[c].target] # Null
  /\ Advance(c, [op |-> "Locked", user |-> call[c].user, target |-> call[c].target,
                 change |-> call[c].change])
  /\ UNCHANGED <<role, blocked, status, owner, expired, access, source, fresh>>

\* Mutation: the update does not COALESCE an omitted field with the column.
AsRequested(change, u) == change

\* UpdateAdminState: an omitted field keeps the column.
Merged(change, u) ==
  [role    |-> IF change.role = Null THEN role[u] ELSE change.role,
   blocked |-> IF change.blocked = Null THEN blocked[u] ELSE change.blocked]

SameState(m, u) == m.role = role[u] /\ m.blocked = blocked[u]

\* An update that changes neither role nor block revokes nothing.
UpdateNothing(c) ==
  /\ call[c].op = "Locked"
  /\ SameState(Merged(call[c].change, call[c].target), call[c].target)
  /\ Finish(c)
  /\ UNCHANGED <<role, blocked, status, owner, expired, access, source, fresh>>

\* RevokeActiveRefreshTokens starts: the rows its snapshot selects.
RevokeSnapshot(c) ==
  /\ call[c].op = "Locked"
  /\ ~SameState(Merged(call[c].change, call[c].target), call[c].target)
  /\ Advance(c, [op |-> "Revoking", user |-> call[c].user, target |-> call[c].target,
                 change |-> call[c].change, todo |-> ActiveTokens(call[c].target)])
  /\ UNCHANGED <<role, blocked, status, owner, expired, access, source, fresh>>

\* ... each row has been waited for and re-checked; the transaction commits.
UpdateCommit(c) ==
  /\ call[c].op = "Revoking"
  /\ \A t \in call[c].todo : TokenFree(t)
  /\ LET u == call[c].target
         m == Merged(call[c].change, u)
     IN /\ role' = [role EXCEPT ![u] = m.role]
        /\ blocked' = [blocked EXCEPT ![u] = m.blocked]
        /\ fresh' = {x \in fresh : /\ x \in Tokens => owner[x] # u
                                   /\ x \in Clients => ~(call[x].op = "Login" /\ call[x].user = u)
                                   /\ x \in Clients => ~(call[x].op = "Rotate" /\ owner[call[x].token] = u)}
  /\ status' = [t \in Tokens |-> IF t \in call[c].todo THEN "Revoked" ELSE status[t]]
  /\ Finish(c)
  /\ UNCHANGED <<owner, expired, access, source>>

-----------------------------------------------------------------------------
(* Failures and time *)

\* A failed check, a lost connection, a cancelled request, or the choice of the
\* deadlock detector: the transaction is rolled back.
Abort(c) ==
  /\ call[c] # Idle
  /\ Finish(c)
  /\ fresh' = fresh \ {c}
  /\ UNCHANGED <<role, blocked, status, owner, expired, access, source>>

ExpireRefreshToken(t) ==
  /\ status[t] = "Active" /\ t \notin expired
  /\ expired' = expired \cup {t}
  /\ UNCHANGED <<role, blocked, status, owner, access, call, source, fresh>>

ExpireAccessToken(k) ==
  /\ k \in access
  /\ access' = access \ {k}
  /\ UNCHANGED <<role, blocked, status, owner, expired, call, source, fresh>>

SessionStep ==
  \/ \E t \in Tokens : Logout(t) \/ ExpireRefreshToken(t) \/ \E u \in Users : Register(u, t)
  \/ \E c \in Clients, u \in Users : LoginRead(c, u)
  \/ \E c \in Clients, t \in Tokens : LoginInsert(c, t) \/ RefreshLock(c, t) \/ RefreshRotate(c, t)
  \/ \E c \in Clients : RefreshRead(c)

RequestStep ==
  \/ \E c \in Clients, k \in access, u \in Users :
       ProfileRead(c, k, u) \/ \E change \in Updates : AdmitUpdate(c, k, u, change)
  \/ \E c \in Clients :
       ProfileWrite(c) \/ UpdateLock(c) \/ UpdateNothing(c) \/ RevokeSnapshot(c) \/ UpdateCommit(c)
  \/ \E k \in access : ExpireAccessToken(k)

Next == SessionStep \/ RequestStep \/ \E c \in Clients : Abort(c)

Spec == Init /\ [][Next]_vars

-----------------------------------------------------------------------------
(* Properties *)

\* Somebody can always administer the service: two administrators who demote or
\* block each other at the same time cannot both succeed, because UpdateUser
\* re-checks its actor under the global lock and never targets the actor.
AdminRemains == \E u \in Users : IsCurrentAdmin(u)

\* Rotation never forks: two concurrent refreshes of one token do not leave two
\* successors, whatever aborts or expires in between.
OneSuccessor ==
  \A s, t \in Tokens : source[s] = source[t] /\ source[s] \in Tokens => s = t

\* No session survives a change of its user's role or block by being rotated
\* (or registered) while the change is under way: a token that did not come from
\* Login was issued for the role and block its user still has.
RotatedSessionsAreCurrent ==
  \A t \in Tokens : status[t] = "Active" /\ source[t] # "Login" => t \in fresh

\* The same for every session, as the API documentation promises.
ChangesRevokeEverySession ==
  \A t \in Tokens : status[t] = "Active" => t \in fresh

\* A user's role or block changes only as an administrator in office has asked
\* for that user, and never by a request that read the row before.
PrivilegesChangeOnRequest ==
  [][\A u \in Users :
       role[u] # Null /\ (role'[u] # role[u] \/ blocked'[u] # blocked[u]) =>
         \E c \in Clients :
           /\ call[c].op = "Revoking" /\ call[c].target = u
           /\ IsCurrentAdmin(call[c].user)
           /\ role'[call[c].user] = "ADMIN" /\ ~blocked'[call[c].user]
           /\ Merged(call[c].change, u) = [role |-> role'[u], blocked |-> blocked'[u]]]_vars
=============================================================================
