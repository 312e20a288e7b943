----------------------------- MODULE AdminAccess -----------------------------
(* Administrators, their roles, permissions, sessions and reset links:        *)
(* UsersService, RolesService, PermissionsService, AuthService and            *)
(* SessionsService over one database.  A request reads and checks, and writes *)
(* in a later step what it decided then; other requests run in between.       *)
(*                                                                            *)
(* An operator named X_Bug is X with a plausible mistake; no specification    *)
(* uses it (see PROJECT.json).                                                *)
EXTENDS Integers, FiniteSets

CONSTANTS
  AdminRequests,  \* requests there can be at a time
  Users, Root,    \* Root is a seeded super administrator
  Roles,          \* rows of roles there can be
  SystemRoles, SuperRole,  \* those seeded with isSystem, and the super role
  Keys, SuperKey, SystemKeys,  \* role keys; SYSTEM_ROLE_KEYS
  SeedKeys,       \* the keys of the seeded roles
  Perms, SeedPerms,  \* permission rows, and those the seed gives the super role
  MaxSessions, MaxTokens, MaxPasswords,  \* bounds: rows, password changes
  MaxAdminFaults, \* bound: requests that fail half-way
  AdminOffers     \* the sets of operations to explore, one per behaviour

NoUser == "no user"
NoRole == "no role"
Sessions == 1 .. MaxSessions
Tokens == 1 .. MaxTokens

ASSUME SeedAssumption ==
  /\ Root \in Users /\ NoUser \notin Users
  /\ SuperRole \in SystemRoles /\ SystemRoles \subseteq Roles /\ NoRole \notin Roles
  /\ SuperKey \in SystemKeys /\ SystemKeys \subseteq Keys
  /\ SeedKeys \in [SystemRoles -> SystemKeys] /\ SeedKeys[SuperRole] = SuperKey
  /\ \A r, s \in SystemRoles : SeedKeys[r] = SeedKeys[s] => r = s
  /\ SeedPerms \subseteq Perms
ASSUME AdminBoundsAssumption ==
  MaxSessions \in Nat /\ MaxTokens \in Nat /\ MaxPasswords \in Nat /\ MaxAdminFaults \in Nat

VARIABLES
  account,    \* of a user: none, active, inactive, or deleted
  roleOf,     \* roleId
  override,   \* userPermissions of a user: <<permission, effect>>
  roleState,  \* none, live or deleted
  key,        \* key of a role
  grants,     \* rolePermissions of a role
  perms,      \* the permission rows there are
  session,    \* administrator sessions, in the order they were opened
  token,      \* password reset tokens
  password,   \* how often the password of a user was set
  lastReset,  \* ... and the last of these that was a reset
  call,       \* requests in flight: what they read and are about to write
  offered, raced, adminFaults  \* operations offered; two requests overlapped; failures

rights == <<account, roleOf, override, roleState, key, grants, perms>>
logins == <<session, token, password, lastReset>>
adminVars == <<rights, logins, call, offered, raced, adminFaults>>

Effects == {"ALLOW", "DENY"}
Ops == {"createUser", "updateUser", "activate", "deactivate", "revokeRest", "deleteUser",
        "createRole", "updateRole", "deleteRole", "setRolePermissions", "deletePermission",
        "setUserPermissions", "login", "refresh", "revoke", "changePassword",
        "requestReset", "completeReset"}

Calls == [op : Ops \cup {"idle"}, user : Users \cup {NoUser}, role : Roles \cup {NoRole},
          key : Keys, allow : SUBSET Perms, deny : SUBSET Perms, n : Nat]
NoCall == [op |-> "idle", user |-> NoUser, role |-> NoRole, key |-> SuperKey,
           allow |-> {}, deny |-> {}, n |-> 0]

NoSession == [user |-> NoUser, password |-> 0, revoked |-> FALSE, lapsed |-> FALSE]
NoToken == [user |-> NoUser, used |-> FALSE, lapsed |-> FALSE]

AdminTypeOK ==
  /\ account \in [Users -> {"none", "active", "inactive", "deleted"}]
  /\ roleOf \in [Users -> Roles \cup {NoRole}]
  /\ override \in [Users -> SUBSET (Perms \X Effects)]
  /\ roleState \in [Roles -> {"none", "live", "deleted"}]
  /\ key \in [Roles -> Keys]
  /\ grants \in [Roles -> SUBSET Perms]
  /\ perms \subseteq Perms
  /\ session \in [Sessions -> [user : Users \cup {NoUser}, password : Nat,
                               revoked : BOOLEAN, lapsed : BOOLEAN]]
  /\ token \in [Tokens -> [user : Users \cup {NoUser}, used : BOOLEAN, lapsed : BOOLEAN]]
  /\ password \in [Users -> Nat] /\ lastReset \in [Users -> Nat]
  /\ call \in [AdminRequests -> Calls]
  /\ offered \in AdminOffers /\ raced \in BOOLEAN /\ adminFaults \in 0 .. MaxAdminFaults

\* The database after the seed.
AdminInit ==
  /\ account = [u \in Users |-> IF u = Root THEN "active" ELSE "none"]
  /\ roleOf = [u \in Users |-> IF u = Root THEN SuperRole ELSE NoRole]
  /\ override = [u \in Users |-> {}]
  /\ roleState = [r \in Roles |-> IF r \in SystemRoles THEN "live" ELSE "none"]
  /\ key = [r \in Roles |-> IF r \in SystemRoles THEN SeedKeys[r] ELSE SuperKey]
  /\ grants = [r \in Roles |-> IF r = SuperRole THEN SeedPerms ELSE {}]
  /\ perms = Perms
  /\ session = [s \in Sessions |-> NoSession]
  /\ token = [t \in Tokens |-> NoToken]
  /\ password = [u \in Users |-> 0] /\ lastReset = [u \in Users |-> 0]
  /\ call = [h \in AdminRequests |-> NoCall]
  /\ offered \in AdminOffers /\ raced = FALSE /\ adminFaults = 0

-----------------------------------------------------------------------------
(* What requests read.                                                        *)

Accounts == {u \in Users : account[u] \in {"active", "inactive"}}  \* deletedAt: null
LiveRoles == {r \in Roles : roleState[r] = "live"}
KeysTaken == {key[r] : r \in {x \in Roles : roleState[x] # "none"}}
IsSuper(u) == roleOf[u] # NoRole /\ key[roleOf[u]] = SuperKey

OpenSession(s) == session[s].user # NoUser /\ ~session[s].revoked

\* JwtStrategy.validate
Valid(s) == OpenSession(s) /\ ~session[s].lapsed /\ account[session[s].user] = "active"

RoleGrants(u) == IF roleOf[u] = NoRole THEN {} ELSE grants[roleOf[u]]
Overridden(u, effect) == {p \in Perms : <<p, effect>> \in override[u]}

\* The permissions of a request, as JwtStrategy and AuthService compute them ...
Permissions(u) ==
  (RoleGrants(u) \cup Overridden(u, "ALLOW")) \ Overridden(u, "DENY")

\* ... and as the permission matrix shows them: the override, or else the role.
EffectivePermissions(u) ==
  {p \in Perms : \/ p \in Overridden(u, "ALLOW")
                 \/ p \in RoleGrants(u) /\ p \notin Overridden(u, "DENY")}

\* A request starts: it has passed its checks and goes on with c.
Begin(h, c) ==
  /\ c.op \in offered
  /\ call[h] = NoCall
  /\ call' = [call EXCEPT ![h] = c]
  /\ raced' = (raced \/ \E g \in AdminRequests : call[g] # NoCall)
  /\ UNCHANGED <<rights, logins, offered, adminFaults>>

\* A request writes and returns.
End(h) ==
  /\ call' = [call EXCEPT ![h] = NoCall]
  /\ UNCHANGED <<offered, raced, adminFaults>>

-----------------------------------------------------------------------------
(* UsersService.                                                              *)

CreateUser(h) ==
  \E u \in Users, r \in LiveRoles \cup {NoRole} :
    /\ account[u] = "none"
    /\ Begin(h, [NoCall EXCEPT !.op = "createUser", !.user = u, !.role = r])

\* The row of a new user; the unique e-mail makes the second of two fail.
StoreUser(h) ==
  LET c == call[h]
  IN /\ c.op = "createUser"
     /\ \/ /\ account[c.user] = "none"
           /\ \E a \in {"active", "inactive"} : account' = [account EXCEPT ![c.user] = a]
           /\ roleOf' = [roleOf EXCEPT ![c.user] = c.role]
        \/ account[c.user] # "none" /\ UNCHANGED <<account, roleOf>>
     /\ End(h)
     /\ UNCHANGED <<override, roleState, key, grants, perms, logins>>

\* The role of a super administrator is locked.
UpdateUser_Unlocked(h) ==
  \E u \in Accounts, r \in LiveRoles \cup {NoRole} :
    Begin(h, [NoCall EXCEPT !.op = "updateUser", !.user = u, !.role = r])

UpdateUser(h) ==
  \E u \in Accounts, r \in LiveRoles \cup {NoRole} :
    /\ r # roleOf[u] => ~IsSuper(u)
    /\ Begin(h, [NoCall EXCEPT !.op = "updateUser", !.user = u, !.role = r])

SaveUser(h) ==
  LET c == call[h]
  IN /\ c.op = "updateUser"
     /\ roleOf' = [roleOf EXCEPT ![c.user] = c.role]
     /\ End(h)
     /\ UNCHANGED <<account, override, roleState, key, grants, perms, logins>>

\* Nobody deactivates himself or a super administrator.
UpdateStatus(h) ==
  \E actor \in Users, u \in Accounts :
    /\ account[actor] = "active"
    /\ \/ Begin(h, [NoCall EXCEPT !.op = "activate", !.user = u])
       \/ /\ actor # u /\ ~IsSuper(u)
          /\ Begin(h, [NoCall EXCEPT !.op = "deactivate", !.user = u])

SaveStatus_Verb(h) ==
  LET c == call[h]
  IN /\ c.op \in {"activate", "deactivate"}
     /\ account' = [account EXCEPT ![c.user] = c.op]
     /\ call' = [call EXCEPT ![h].op = "revokeRest"]
     /\ UNCHANGED <<offered, raced, adminFaults>>
     /\ UNCHANGED <<roleOf, override, roleState, key, grants, perms, logins>>

SaveStatus(h) ==
  LET c == call[h]
      to == IF c.op = "activate" THEN "active" ELSE "inactive"
  IN /\ c.op \in {"activate", "deactivate"}
     /\ account' = [account EXCEPT ![c.user] = IF @ = "deleted" THEN @ ELSE to]
     /\ IF c.op = "activate" THEN End(h)
        ELSE /\ call' = [call EXCEPT ![h].op = "revokeRest"]
             /\ UNCHANGED <<offered, raced, adminFaults>>
     /\ UNCHANGED <<roleOf, override, roleState, key, grants, perms, logins>>

\* session.updateMany: every session of u that is not revoked.
RevokeOf(u) ==
  session' = [s \in Sessions |-> IF session[s].user = u
                                 THEN [session[s] EXCEPT !.revoked = TRUE] ELSE session[s]]

\* The second write of a deactivation, not in a transaction with the first.
RevokeRest(h) ==
  /\ call[h].op = "revokeRest"
  /\ RevokeOf(call[h].user)
  /\ End(h)
  /\ UNCHANGED <<rights, token, password, lastReset>>

DeleteUser(h) ==
  \E actor \in Users, u \in Accounts :
    /\ account[actor] = "active" /\ actor # u
    /\ ~IsSuper(u)
    /\ Begin(h, [NoCall EXCEPT !.op = "deleteUser", !.user = u])

RemoveUser(h) ==
  LET c == call[h]
  IN /\ c.op = "deleteUser"
     /\ account' = [account EXCEPT ![c.user] = "deleted"]
     /\ RevokeOf(c.user)
     /\ End(h)
     /\ UNCHANGED <<roleOf, override, roleState, key, grants, perms, token, password, lastReset>>

-----------------------------------------------------------------------------
(* RolesService and PermissionsService.                                       *)

\* Keys are taken by deleted roles too.
CreateRole(h) ==
  \E r \in Roles, k \in Keys \ KeysTaken, S \in SUBSET perms :
    /\ roleState[r] = "none"
    /\ Begin(h, [NoCall EXCEPT !.op = "createRole", !.role = r, !.key = k, !.allow = S])

\* The role and its permissions in one transaction, which fails on a key taken
\* or a permission deleted in the meantime.
StoreRole(h) ==
  LET c == call[h]
  IN /\ c.op = "createRole"
     /\ IF roleState[c.role] = "none" /\ c.key \notin KeysTaken /\ c.allow \subseteq perms
        THEN /\ roleState' = [roleState EXCEPT ![c.role] = "live"]
             /\ key' = [key EXCEPT ![c.role] = c.key]
             /\ grants' = [grants EXCEPT ![c.role] = c.allow]
        ELSE UNCHANGED <<roleState, key, grants>>
     /\ End(h)
     /\ UNCHANGED <<account, roleOf, override, perms, logins>>

\* The key of a system role is locked.
UpdateRole(h) ==
  \E r \in LiveRoles, k \in Keys :
    /\ k # key[r] => key[r] \notin SystemKeys /\ k \notin KeysTaken
    /\ Begin(h, [NoCall EXCEPT !.op = "updateRole", !.role = r, !.key = k])

SaveRole(h) ==
  LET c == call[h]
  IN /\ c.op = "updateRole"
     /\ key' = IF c.key \in KeysTaken THEN key ELSE [key EXCEPT ![c.role] = c.key]
     /\ End(h)
     /\ UNCHANGED <<account, roleOf, override, roleState, grants, perms, logins>>

DeleteRole(h) ==
  \E r \in LiveRoles :
    /\ r \notin SystemRoles
    /\ \A u \in Users : roleOf[u] = r => account[u] \in {"none", "deleted"}
    /\ Begin(h, [NoCall EXCEPT !.op = "deleteRole", !.role = r])

RemoveRole(h) ==
  LET c == call[h]
  IN /\ c.op = "deleteRole"
     /\ roleState' = [roleState EXCEPT ![c.role] = "deleted"]
     /\ End(h)
     /\ UNCHANGED <<account, roleOf, override, key, grants, perms, logins>>

UpdateRolePermissions(h) ==
  \E r \in LiveRoles, S \in SUBSET perms :
    /\ key[r] # SuperKey
    /\ Begin(h, [NoCall EXCEPT !.op = "setRolePermissions", !.role = r, !.allow = S])

ReplaceRolePermissions(h) ==
  LET c == call[h]
  IN /\ c.op = "setRolePermissions"
     /\ grants' = IF c.allow \subseteq perms THEN [grants EXCEPT ![c.role] = c.allow] ELSE grants
     /\ End(h)
     /\ UNCHANGED <<account, roleOf, override, roleState, key, perms, logins>>

\* Only a permission that no role and no override uses is deleted ...
DeletePermission(h) ==
  \E p \in perms :
    /\ \A r \in Roles : p \notin grants[r]
    /\ \A u \in Users, e \in Effects : <<p, e>> \notin override[u]
    /\ Begin(h, [NoCall EXCEPT !.op = "deletePermission", !.deny = {p}])

\* ... and what uses it by then goes with it (onDelete: Cascade).
RemovePermission(h) ==
  LET gone == call[h].deny
  IN /\ call[h].op = "deletePermission"
     /\ perms' = perms \ gone
     /\ grants' = [r \in Roles |-> grants[r] \ gone]
     /\ override' = [u \in Users |-> override[u] \ (gone \X Effects)]
     /\ End(h)
     /\ UNCHANGED <<account, roleOf, roleState, key, logins>>

\* grants and denies are looked up together: an id that is in both is "missing".
UpdateUserPermissions_Both(h) ==
  \E u \in Accounts, A, D \in SUBSET perms :
    /\ ~IsSuper(u)
    /\ Begin(h, [NoCall EXCEPT !.op = "setUserPermissions", !.user = u, !.allow = A, !.deny = D])

UpdateUserPermissions(h) ==
  \E u \in Accounts, A, D \in SUBSET perms :
    /\ ~IsSuper(u)
    /\ A \cap D = {}
    /\ Begin(h, [NoCall EXCEPT !.op = "setUserPermissions", !.user = u, !.allow = A, !.deny = D])

ReplaceUserPermissions(h) ==
  LET c == call[h]
  IN /\ c.op = "setUserPermissions"
     /\ override' = IF c.allow \cup c.deny \subseteq perms
                    THEN [override EXCEPT ![c.user] =
                            (c.allow \X {"ALLOW"}) \cup (c.deny \X {"DENY"})]
                    ELSE override
     /\ End(h)
     /\ UNCHANGED <<account, roleOf, roleState, key, grants, perms, logins>>

-----------------------------------------------------------------------------
(* AuthService and SessionsService.                                           *)

\* The account is active and the password is the one of this moment.
Login(h) ==
  \E u \in Users :
    /\ account[u] = "active"
    /\ Begin(h, [NoCall EXCEPT !.op = "login", !.user = u, !.n = password[u]])

StartSession(h) ==
  LET c == call[h]
  IN /\ c.op = "login"
     /\ \E s \in Sessions :
          /\ session[s].user = NoUser
          /\ \A d \in Sessions : session[d].user = NoUser => s <= d
          /\ session' = [session EXCEPT ![s] = [NoSession EXCEPT !.user = c.user, !.password = c.n]]
     /\ End(h)
     /\ UNCHANGED <<rights, token, password, lastReset>>

RefreshToken(h) ==
  \E s \in Sessions :
    /\ Valid(s)
    /\ Begin(h, [NoCall EXCEPT !.op = "refresh", !.n = s])

ExtendSession_Reopened(h) ==
  /\ call[h].op = "refresh"
  /\ session' = [session EXCEPT ![call[h].n].lapsed = FALSE, ![call[h].n].revoked = FALSE]
  /\ End(h)
  /\ UNCHANGED <<rights, token, password, lastReset>>

\* A new refresh token and a later expiresAt; revokedAt is left alone.
ExtendSession(h) ==
  /\ call[h].op = "refresh"
  /\ session' = [session EXCEPT ![call[h].n].lapsed = FALSE]
  /\ End(h)
  /\ UNCHANGED <<rights, token, password, lastReset>>

Logout(h) ==
  \E s \in Sessions :
    /\ OpenSession(s) /\ ~session[s].lapsed
    /\ Begin(h, [NoCall EXCEPT !.op = "revoke", !.n = s])

\* Any session but the one the request came with.
RevokeSession(h) ==
  \E s, current \in Sessions :
    /\ Valid(current)
    /\ OpenSession(s) /\ s # current
    /\ Begin(h, [NoCall EXCEPT !.op = "revoke", !.n = s])

MarkRevoked(h) ==
  /\ call[h].op = "revoke"
  /\ session' = [session EXCEPT ![call[h].n].revoked = TRUE]
  /\ End(h)
  /\ UNCHANGED <<rights, token, password, lastReset>>

\* One update, which reads nothing first.
RevokeAllSessions ==
  /\ "revoke" \in offered
  /\ \E current \in Sessions :
       /\ Valid(current)
       /\ session' = [s \in Sessions |->
            IF session[s].user = session[current].user /\ s # current
            THEN [session[s] EXCEPT !.revoked = TRUE] ELSE session[s]]
  /\ UNCHANGED <<rights, token, password, lastReset, call, offered, raced, adminFaults>>

ChangePassword(h) ==
  \E current \in Sessions :
    /\ Valid(current)
    /\ Begin(h, [NoCall EXCEPT !.op = "changePassword", !.user = session[current].user,
                               !.n = current])

\* The new hash; no session is revoked.
SavePassword(h) ==
  LET c == call[h]
  IN /\ c.op = "changePassword"
     /\ password[c.user] < MaxPasswords
     /\ password' = [password EXCEPT ![c.user] = @ + 1]
     /\ End(h)
     /\ UNCHANGED <<rights, session, token, lastReset>>

RequestPasswordReset(h) ==
  \E u \in Users :
    /\ account[u] = "active"
    /\ Begin(h, [NoCall EXCEPT !.op = "requestReset", !.user = u])

StoreToken(h) ==
  LET c == call[h]
  IN /\ c.op = "requestReset"
     /\ \E t \in Tokens :
          /\ token[t].user = NoUser
          /\ \A d \in Tokens : token[d].user = NoUser => t <= d
          /\ token' = [token EXCEPT ![t] = [NoToken EXCEPT !.user = c.user]]
     /\ End(h)
     /\ UNCHANGED <<rights, session, password, lastReset>>

CompletePasswordReset(h) ==
  \E t \in Tokens :
    /\ token[t].user # NoUser /\ ~token[t].used /\ ~token[t].lapsed
    /\ Begin(h, [NoCall EXCEPT !.op = "completeReset", !.n = t])

ResetPassword_KeepSessions(h) ==
  LET t == call[h].n
      u == token[t].user
  IN /\ call[h].op = "completeReset"
     /\ password[u] < MaxPasswords
     /\ password' = [password EXCEPT ![u] = @ + 1]
     /\ lastReset' = [lastReset EXCEPT ![u] = password[u] + 1]
     /\ token' = [token EXCEPT ![t].used = TRUE]
     /\ End(h)
     /\ UNCHANGED <<rights, session>>

\* One transaction: the new hash, the token used, every session revoked.
ResetPassword(h) ==
  LET t == call[h].n
      u == token[t].user
  IN /\ call[h].op = "completeReset"
     /\ password[u] < MaxPasswords
     /\ password' = [password EXCEPT ![u] = @ + 1]
     /\ lastReset' = [lastReset EXCEPT ![u] = password[u] + 1]
     /\ token' = [token EXCEPT ![t].used = TRUE]
     /\ RevokeOf(u)
     /\ End(h)
     /\ UNCHANGED rights

-----------------------------------------------------------------------------
(* Time and failures.                                                         *)

SessionLapses ==
  /\ \E s \in Sessions :
       /\ OpenSession(s) /\ ~session[s].lapsed
       /\ session' = [session EXCEPT ![s].lapsed = TRUE]
  /\ UNCHANGED <<rights, token, password, lastReset, call, offered, raced, adminFaults>>

TokenLapses ==
  /\ \E t \in Tokens :
       /\ token[t].user # NoUser /\ ~token[t].lapsed
       /\ token' = [token EXCEPT ![t].lapsed = TRUE]
  /\ UNCHANGED <<rights, session, password, lastReset, call, offered, raced, adminFaults>>

\* A query fails, or the process stops: what is left of the request never runs.
\* (A request that has written nothing yet might as well not have come.)
RequestFails(h) ==
  /\ adminFaults < MaxAdminFaults
  /\ call[h].op = "revokeRest"
  /\ call' = [call EXCEPT ![h] = NoCall]
  /\ adminFaults' = adminFaults + 1
  /\ UNCHANGED <<rights, logins, offered, raced>>

RightsStep(h) ==
  \/ CreateUser(h) \/ StoreUser(h) \/ UpdateUser(h) \/ SaveUser(h)
  \/ UpdateStatus(h) \/ SaveStatus(h) \/ RevokeRest(h) \/ DeleteUser(h) \/ RemoveUser(h)
  \/ CreateRole(h) \/ StoreRole(h) \/ UpdateRole(h) \/ SaveRole(h)
  \/ DeleteRole(h) \/ RemoveRole(h) \/ UpdateRolePermissions(h) \/ ReplaceRolePermissions(h)
  \/ DeletePermission(h) \/ RemovePermission(h)
  \/ UpdateUserPermissions(h) \/ ReplaceUserPermissions(h)

LoginStep(h) ==
  \/ Login(h) \/ StartSession(h) \/ RefreshToken(h) \/ ExtendSession(h)
  \/ Logout(h) \/ RevokeSession(h) \/ MarkRevoked(h) \/ ChangePassword(h) \/ SavePassword(h)
  \/ RequestPasswordReset(h) \/ StoreToken(h) \/ CompletePasswordReset(h) \/ ResetPassword(h)

AdminNext ==
  \/ \E h \in AdminRequests : RightsStep(h) \/ LoginStep(h) \/ RequestFails(h)
  \/ RevokeAllSessions \/ SessionLapses \/ TokenLapses

AdminSpec == AdminInit /\ [][AdminNext]_adminVars

-----------------------------------------------------------------------------
\* Whatever administrators do to users, roles and permissions at the same time,
\* the organisation is not locked out of its own access management: the seeded
\* super administrator stays active and keeps the permissions of the seed.
RootKeepsAccess ==
  /\ account[Root] = "active"
  /\ roleOf[Root] = SuperRole
  /\ SeedPerms \subseteq Permissions(Root) \cap perms

\* The permissions a request is checked against are those the matrix shows.
PermissionsAgree ==
  \A u \in Accounts : Permissions(u) = EffectivePermissions(u) /\ Permissions(u) \subseteq perms

\* One request at a time and none failing half-way: a session is open only for a
\* user who is active, and was opened with a password at least as new as the
\* last reset.  Changing one's password ends no session, this one or others, although
\* the comment on changePassword says that it ends all others: sessions opened with
\* the password before it go on, and count as current here.
SessionsAreCurrent ==
  ~raced /\ adminFaults = 0 /\ (\A h \in AdminRequests : call[h].op # "revokeRest") =>
    \A s \in Sessions : OpenSession(s) =>
      /\ account[session[s].user] = "active"
      /\ session[s].password >= lastReset[session[s].user]

\* A session that was revoked is not opened again, by a refresh in flight either.
RevokedForGood ==
  [][\A s \in Sessions : session[s].revoked => session'[s].revoked]_adminVars
=============================================================================
