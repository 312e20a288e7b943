---------------------------- MODULE AccessProofs -----------------------------
(* Proofs about AdminAccess and PortalAccess, who may come in.  For any number *)
(* of users, roles, permissions and requests, however these overlap and        *)
(* wherever one of them stops, the seeded super administrator keeps his access,*)
(* the two ways of computing permissions agree and no revoked session is       *)
(* opened again.  For any number of requests, codes and sessions of a customer *)
(* the hourly limit is exceeded by fewer codes than there are requests; and    *)
(* where no two requests overlap only the newest code opens the portal, and    *)
(* one session at most descends from it.                                       *)
EXTENDS AdminAccess, PortalAccess, FiniteSetTheorems, TLAPS

UserOps == {"createUser", "updateUser", "activate", "deactivate", "revokeRest", "deleteUser",
            "setUserPermissions", "login", "changePassword", "requestReset"}
RoleOps == {"createRole", "updateRole", "deleteRole", "setRolePermissions"}

\* What a request has checked and relies on when it writes, whatever came between.
Checked(c) ==
  /\ c.op \in UserOps => c.user \in Users
  /\ c.op \in RoleOps => c.role \in Roles
  /\ c.op = "updateUser" /\ c.user = Root => c.role = SuperRole
  /\ c.op \in {"deactivate", "revokeRest", "deleteUser", "setUserPermissions"} => c.user # Root
  /\ c.op = "updateRole" /\ c.role = SuperRole => c.key = SuperKey
  /\ c.op \in {"deleteRole", "setRolePermissions"} => c.role # SuperRole
  /\ c.op = "deletePermission" => c.deny \cap SeedPerms = {}
  /\ c.op = "setUserPermissions" => c.allow \cap c.deny = {}

\* The session or the reset token it has in hand is a row that is there.
Refers(c) ==
  /\ c.op \in {"refresh", "revoke"} => c.n \in Sessions /\ session[c.n].user # NoUser
  /\ c.op = "completeReset" => c.n \in Tokens /\ token[c.n].user # NoUser

CallsOK ==
  /\ call \in [AdminRequests -> Calls]
  /\ \A h \in AdminRequests : Checked(call[h]) /\ Refers(call[h])
  /\ offered \in AdminOffers /\ raced \in BOOLEAN /\ adminFaults \in 0 .. MaxAdminFaults

RightsTyped ==
  /\ account \in [Users -> {"none", "active", "inactive", "deleted"}]
  /\ roleOf \in [Users -> Roles \cup {NoRole}]
  /\ override \in [Users -> SUBSET (Perms \X Effects)]
  /\ roleState \in [Roles -> {"none", "live", "deleted"}]
  /\ key \in [Roles -> Keys]
  /\ grants \in [Roles -> SUBSET Perms]
  /\ perms \subseteq Perms

\* The super administrator has the super role, which has the permissions of the seed.
RootHolds ==
  /\ account[Root] = "active" /\ roleOf[Root] = SuperRole /\ override[Root] = {}
  /\ roleState[SuperRole] = "live" /\ key[SuperRole] = SuperKey
  /\ SeedPerms \subseteq grants[SuperRole] /\ SeedPerms \subseteq perms

\* What roles and overrides name is there, and no override allows what it denies.
GrantsHold ==
  /\ \A r \in Roles : grants[r] \subseteq perms
  /\ \A u \in Users : \A p \in Perms :
       /\ <<p, "ALLOW">> \in override[u] => p \in perms /\ <<p, "DENY">> \notin override[u]

RightsOK == RightsTyped /\ RootHolds /\ GrantsHold

LoginsOK ==
  /\ session \in [Sessions -> [user : Users \cup {NoUser}, password : Nat,
                               revoked : BOOLEAN, lapsed : BOOLEAN]]
  /\ \A s \in Sessions : session[s].user = NoUser => ~session[s].revoked
  /\ token \in [Tokens -> [user : Users \cup {NoUser}, used : BOOLEAN, lapsed : BOOLEAN]]
  /\ password \in [Users -> Nat] /\ lastReset \in [Users -> Nat]

AccessOK == CallsOK /\ RightsOK /\ LoginsOK

\* Rows are not taken away, and what is revoked stays so.
RowsStay ==
  /\ \A s \in Sessions : session[s].user # NoUser => session'[s].user # NoUser
  /\ \A s \in Sessions : session[s].revoked => session'[s].revoked
  /\ \A t \in Tokens : token[t].user # NoUser => token'[t].user # NoUser

-----------------------------------------------------------------------------
(* Requests.                                                                  *)

LEMMA IdleCall == NoCall \in Calls /\ Checked(NoCall) /\ Refers(NoCall) /\ Refers(NoCall)'
<1>1. NoCall \in Calls
  BY SeedAssumption DEF NoCall, Calls
<1> QED
  BY <1>1 DEF NoCall, Checked, Refers, UserOps, RoleOps

\* A request may go on with what it has checked, when rows stay.
LEMMA CallMoves ==
  ASSUME CallsOK, RowsStay, NEW h \in AdminRequests, NEW c \in Calls, Checked(c), Refers(c)',
         call' = [call EXCEPT ![h] = c],
         offered' = offered, raced' \in BOOLEAN, adminFaults' \in 0 .. MaxAdminFaults
  PROVE  CallsOK'
<1>1. call' \in [AdminRequests -> Calls]
  BY DEF CallsOK
<1>2. ASSUME NEW g \in AdminRequests PROVE Checked(call'[g]) /\ Refers(call[g])'
  <2>1. CASE g = h
    BY <2>1 DEF CallsOK, Refers
  <2>2. CASE g # h
    <3>1. call'[g] = call[g]
      BY <2>2 DEF CallsOK
    <3>2. Checked(call[g]) /\ Refers(call[g])
      BY DEF CallsOK
    <3> QED
      BY <3>1, <3>2 DEF Refers, RowsStay
  <2> QED
    BY <2>1, <2>2
<1> QED
  BY <1>1, <1>2 DEF CallsOK, Checked

LEMMA Ended ==
  ASSUME CallsOK, RowsStay, NEW h \in AdminRequests, End(h)
  PROVE  CallsOK'
BY CallMoves, IdleCall DEF End, CallsOK

LEMMA RowsStayUnchanged ==
  ASSUME UNCHANGED <<session, token>>
  PROVE  RowsStay
BY DEF RowsStay

\* A request that starts changes neither rights nor logins.
LEMMA Begun ==
  ASSUME AccessOK, NEW h \in AdminRequests, NEW c \in Calls, Checked(c), Refers(c), Begin(h, c)
  PROVE  AccessOK' /\ RowsStay
<1>1. RowsStay
  BY RowsStayUnchanged DEF Begin, logins
<1>2. raced' \in BOOLEAN
  BY DEF Begin
<1>3. Refers(c)'
  BY <1>1 DEF Refers, RowsStay
<1>4. CallsOK'
  BY <1>1, <1>2, <1>3, CallMoves DEF AccessOK, Begin, CallsOK
<1>5. RightsOK' /\ LoginsOK'
  BY DEF Begin, rights, logins, AccessOK, RightsOK, LoginsOK, RightsTyped, RootHolds, GrantsHold
<1> QED
  BY <1>1, <1>4, <1>5 DEF AccessOK

\* A request that writes rights and returns leaves logins alone.
LEMMA RightsWritten ==
  ASSUME AccessOK, NEW h \in AdminRequests, End(h), UNCHANGED logins, RightsOK'
  PROVE  AccessOK' /\ RowsStay
<1>1. RowsStay
  BY RowsStayUnchanged DEF logins
<1>2. CallsOK'
  BY <1>1, Ended DEF AccessOK
<1>3. LoginsOK'
  BY DEF logins, AccessOK, LoginsOK
<1> QED
  BY <1>1, <1>2, <1>3 DEF AccessOK

\* And the other way round.
LEMMA LoginsWritten ==
  ASSUME AccessOK, NEW h \in AdminRequests, End(h), UNCHANGED rights, RowsStay, LoginsOK'
  PROVE  AccessOK'
<1>1. CallsOK'
  BY Ended DEF AccessOK
<1>2. RightsOK'
  BY DEF rights, AccessOK, RightsOK, RightsTyped, RootHolds, GrantsHold
<1> QED
  BY <1>1, <1>2 DEF AccessOK

-----------------------------------------------------------------------------
(* UsersService.                                                              *)

LEMMA CallFields ==
  ASSUME AccessOK, NEW h \in AdminRequests
  PROVE  /\ call[h] \in Calls /\ Checked(call[h]) /\ Refers(call[h])
         /\ call[h].op \in UserOps => call[h].user \in Users
         /\ call[h].op \in RoleOps => call[h].role \in Roles
BY DEF AccessOK, CallsOK, Checked

\* Who is super keeps the role, and an account that is not Root's may change its own.
LEMMA UserStarts ==
  ASSUME AccessOK, NEW h \in AdminRequests,
         CreateUser(h) \/ UpdateUser(h) \/ UpdateStatus(h) \/ DeleteUser(h)
  PROVE  AccessOK' /\ RowsStay
<1>1. IsSuper(Root)
  BY SeedAssumption DEF AccessOK, RightsOK, RootHolds, IsSuper
<1>2. CASE CreateUser(h)
  <2>1. PICK u \in Users, r \in LiveRoles \cup {NoRole} :
          Begin(h, [NoCall EXCEPT !.op = "createUser", !.user = u, !.role = r])
    BY <1>2 DEF CreateUser
  <2> DEFINE c == [NoCall EXCEPT !.op = "createUser", !.user = u, !.role = r]
  <2>2. c \in Calls /\ Checked(c) /\ Refers(c)
    <3>1. "createUser" \in Ops /\ r \in Roles \cup {NoRole}
      BY DEF Ops, LiveRoles
    <3>2. c \in Calls /\ c.op = "createUser" /\ c.user = u
      BY <3>1, IdleCall DEF Calls
    <3> QED
      BY <3>2 DEF Checked, Refers, RoleOps
  <2> QED
    BY <2>1, <2>2, Begun
<1>3. CASE UpdateUser(h)
  <2>1. PICK u \in Accounts, r \in LiveRoles \cup {NoRole} :
          /\ r # roleOf[u] => ~IsSuper(u)
          /\ Begin(h, [NoCall EXCEPT !.op = "updateUser", !.user = u, !.role = r])
    BY <1>3 DEF UpdateUser
  <2> DEFINE c == [NoCall EXCEPT !.op = "updateUser", !.user = u, !.role = r]
  <2>2. u = Root => r = SuperRole
    BY <1>1, <2>1 DEF AccessOK, RightsOK, RootHolds
  <2>3. c \in Calls /\ Checked(c) /\ Refers(c)
    BY <2>2, IdleCall DEF Calls, Ops, NoCall, LiveRoles, Accounts, Checked, Refers, UserOps, RoleOps
  <2> QED
    BY <2>1, <2>3, Begun
<1>4. CASE UpdateStatus(h)
  <2>1. PICK u \in Accounts, o \in {"activate", "deactivate"} :
          /\ o = "deactivate" => ~IsSuper(u)
          /\ Begin(h, [NoCall EXCEPT !.op = o, !.user = u])
    BY <1>4 DEF UpdateStatus
  <2> DEFINE c == [NoCall EXCEPT !.op = o, !.user = u]
  <2>2. o = "deactivate" => u # Root
    BY <1>1, <2>1
  <2>3. c \in Calls /\ Checked(c) /\ Refers(c)
    BY <2>2, IdleCall DEF Calls, Ops, NoCall, Accounts, Checked, Refers, UserOps, RoleOps
  <2> QED
    BY <2>1, <2>3, Begun
<1>5. CASE DeleteUser(h)
  <2>1. PICK u \in Accounts : ~IsSuper(u) /\ Begin(h, [NoCall EXCEPT !.op = "deleteUser", !.user = u])
    BY <1>5 DEF DeleteUser
  <2> DEFINE c == [NoCall EXCEPT !.op = "deleteUser", !.user = u]
  <2>2. u # Root
    BY <1>1, <2>1
  <2>3. c \in Calls /\ Checked(c) /\ Refers(c)
    BY <2>2, IdleCall DEF Calls, Ops, NoCall, Accounts, Checked, Refers, UserOps, RoleOps
  <2> QED
    BY <2>1, <2>3, Begun
<1> QED
  BY <1>2, <1>3, <1>4, <1>5

\* A new user is somebody else: Root is there.
LEMMA StoreUserKeeps ==
  ASSUME AccessOK, NEW h \in AdminRequests, StoreUser(h)
  PROVE  AccessOK' /\ RowsStay
<1>1. call[h].op = "createUser" /\ call[h].user \in Users /\ call[h].role \in Roles \cup {NoRole}
  BY CallFields DEF StoreUser, UserOps, Calls
<1>2. UNCHANGED <<override, roleState, key, grants, perms>>
  BY DEF StoreUser
<1>3. /\ account' \in [Users -> {"none", "active", "inactive", "deleted"}]
      /\ roleOf' \in [Users -> Roles \cup {NoRole}]
      /\ account'[Root] = account[Root] /\ roleOf'[Root] = roleOf[Root]
  <2>1. CASE account[call[h].user] = "none"
    <3>1. PICK a \in {"active", "inactive"} : account' = [account EXCEPT ![call[h].user] = a]
      BY <2>1 DEF StoreUser
    <3>2. roleOf' = [roleOf EXCEPT ![call[h].user] = call[h].role]
      BY <2>1 DEF StoreUser
    <3>3. call[h].user # Root
      BY <2>1 DEF AccessOK, RightsOK, RootHolds
    <3> QED
      BY <1>1, <3>1, <3>2, <3>3 DEF AccessOK, RightsOK, RightsTyped
  <2>2. CASE account[call[h].user] # "none"
    BY <2>2 DEF StoreUser, AccessOK, RightsOK, RightsTyped
  <2> QED
    BY <2>1, <2>2
<1>4. RightsOK'
  BY <1>2, <1>3 DEF AccessOK, RightsOK, RightsTyped, RootHolds, GrantsHold
<1>5. End(h) /\ UNCHANGED logins
  BY DEF StoreUser
<1> QED
  BY <1>4, <1>5, RightsWritten

LEMMA SaveUserKeeps ==
  ASSUME AccessOK, NEW h \in AdminRequests, SaveUser(h)
  PROVE  AccessOK' /\ RowsStay
<1>1. /\ call[h].op = "updateUser" /\ call[h].user \in Users
      /\ call[h].role \in Roles \cup {NoRole}
      /\ call[h].user = Root => call[h].role = SuperRole
  BY CallFields DEF SaveUser, UserOps, Calls, Checked
<1>2. RightsOK'
  BY <1>1 DEF SaveUser, AccessOK, RightsOK, RightsTyped, RootHolds, GrantsHold
<1> QED
  BY <1>2, RightsWritten DEF SaveUser

\* Root may be activated, which he is; a deactivation goes on to the sessions.
LEMMA SaveStatusKeeps ==
  ASSUME AccessOK, NEW h \in AdminRequests, SaveStatus(h)
  PROVE  AccessOK' /\ RowsStay
<1>1. /\ call[h].op \in {"activate", "deactivate"} /\ call[h].user \in Users
      /\ call[h].op = "deactivate" => call[h].user # Root
  BY CallFields DEF SaveStatus, UserOps, Checked
<1>2. RightsOK'
  BY <1>1 DEF SaveStatus, AccessOK, RightsOK, RightsTyped, RootHolds, GrantsHold
<1>3. CASE End(h)
  BY <1>2, <1>3, RightsWritten DEF SaveStatus
<1>4. CASE ~End(h)
  <2>1. call[h].op = "deactivate" /\ UNCHANGED <<logins, offered, raced, adminFaults>>
    BY <1>1, <1>4 DEF SaveStatus
  <2>2. PICK c \in Calls : c = call[h]
    BY CallFields
  <2> DEFINE d == [c EXCEPT !.op = "revokeRest"]
  <2>3. call' = [call EXCEPT ![h] = d]
    BY <1>1, <1>4, <2>2 DEF SaveStatus
  <2>4. d \in Calls /\ Checked(d) /\ Refers(d)'
    BY <1>1, <2>1, <2>2 DEF Calls, Ops, Checked, Refers, UserOps, RoleOps
  <2>5. RowsStay
    BY <2>1, RowsStayUnchanged DEF logins
  <2>6. CallsOK'
    BY <2>1, <2>3, <2>4, <2>5, CallMoves DEF AccessOK, CallsOK
  <2>7. LoginsOK'
    BY <2>1 DEF logins, AccessOK, LoginsOK
  <2> QED
    BY <1>2, <2>5, <2>6, <2>7 DEF AccessOK
<1> QED
  BY <1>3, <1>4

\* RevokeOf touches sessions of u, which have a user.
LEMMA RevokeOfKeeps ==
  ASSUME LoginsOK, NEW u \in Users, RevokeOf(u)
  PROVE  /\ session' \in [Sessions -> [user : Users \cup {NoUser}, password : Nat,
                                       revoked : BOOLEAN, lapsed : BOOLEAN]]
         /\ \A s \in Sessions : /\ session'[s].user = session[s].user
                                /\ session[s].revoked => session'[s].revoked
                                /\ session[s].user = NoUser => session'[s] = session[s]
<1> SUFFICES ASSUME NEW s \in Sessions
             PROVE  /\ session'[s] \in [user : Users \cup {NoUser}, password : Nat,
                                        revoked : BOOLEAN, lapsed : BOOLEAN]
                    /\ session'[s].user = session[s].user
                    /\ session[s].revoked => session'[s].revoked
                    /\ session[s].user = NoUser => session'[s] = session[s]
  BY DEF RevokeOf
<1>1. PICK x \in [user : Users \cup {NoUser}, password : Nat, revoked : BOOLEAN, lapsed : BOOLEAN] :
        x = session[s]
  BY DEF LoginsOK
<1>2. session'[s] = IF x.user = u THEN [x EXCEPT !.revoked = TRUE] ELSE x
  BY <1>1 DEF RevokeOf
<1> QED
  BY <1>1, <1>2, SeedAssumption

LEMMA RevokeRestKeeps ==
  ASSUME AccessOK, NEW h \in AdminRequests, RevokeRest(h)
  PROVE  AccessOK' /\ RowsStay
<1>1. call[h].user \in Users
  BY CallFields DEF RevokeRest, UserOps
<1>2. LoginsOK' /\ RowsStay
  BY <1>1, RevokeOfKeeps DEF RevokeRest, AccessOK, LoginsOK, RowsStay
<1> QED
  BY <1>2, LoginsWritten DEF RevokeRest

LEMMA RemoveUserKeeps ==
  ASSUME AccessOK, NEW h \in AdminRequests, RemoveUser(h)
  PROVE  AccessOK' /\ RowsStay
<1>1. call[h].user \in Users /\ call[h].user # Root
  BY CallFields DEF RemoveUser, UserOps, Checked
<1>2. LoginsOK' /\ RowsStay
  BY <1>1, RevokeOfKeeps DEF RemoveUser, AccessOK, LoginsOK, RowsStay
<1>3. RightsOK'
  BY <1>1 DEF RemoveUser, AccessOK, RightsOK, RightsTyped, RootHolds, GrantsHold
<1>4. CallsOK'
  BY <1>2, Ended DEF RemoveUser, AccessOK
<1> QED
  BY <1>2, <1>3, <1>4 DEF AccessOK

-----------------------------------------------------------------------------
(* RolesService and PermissionsService.                                       *)

\* The super role and its key are out of reach, and so is what it has been granted.
LEMMA RoleStarts ==
  ASSUME AccessOK, NEW h \in AdminRequests,
         \/ CreateRole(h) \/ UpdateRole(h) \/ DeleteRole(h) \/ UpdateRolePermissions(h)
         \/ DeletePermission(h) \/ UpdateUserPermissions(h)
  PROVE  AccessOK' /\ RowsStay
<1>1. IsSuper(Root) /\ key[SuperRole] = SuperKey /\ SeedPerms \subseteq grants[SuperRole]
  BY SeedAssumption DEF AccessOK, RightsOK, RootHolds, IsSuper
<1>2. perms \subseteq Perms /\ LiveRoles \subseteq Roles /\ Accounts \subseteq Users
  BY DEF AccessOK, RightsOK, RightsTyped, LiveRoles, Accounts
<1>3. SuperRole \in Roles
  BY SeedAssumption
<1>4. CASE CreateRole(h)
  <2>1. PICK r \in Roles, k \in Keys, S \in SUBSET perms :
          Begin(h, [NoCall EXCEPT !.op = "createRole", !.role = r, !.key = k, !.allow = S])
    BY <1>4 DEF CreateRole
  <2> DEFINE c == [NoCall EXCEPT !.op = "createRole", !.role = r, !.key = k, !.allow = S]
  <2>2. c \in Calls /\ Checked(c) /\ Refers(c)
    <3>1. "createRole" \in Ops /\ r \in Roles /\ S \subseteq Perms
      BY <1>2 DEF Ops
    <3>2. c \in Calls /\ c.op = "createRole" /\ c.role = r
      BY <3>1, IdleCall DEF Calls
    <3> QED
      BY <3>1, <3>2 DEF Checked, Refers, UserOps, RoleOps
  <2> QED
    BY <2>1, <2>2, Begun
<1>5. CASE UpdateRole(h)
  <2>1. PICK r \in LiveRoles, k \in Keys :
          /\ k # key[r] => key[r] \notin SystemKeys
          /\ Begin(h, [NoCall EXCEPT !.op = "updateRole", !.role = r, !.key = k])
    BY <1>5 DEF UpdateRole
  <2> DEFINE c == [NoCall EXCEPT !.op = "updateRole", !.role = r, !.key = k]
  <2>2. r = SuperRole => k = SuperKey
    BY <1>1, <2>1, SeedAssumption
  <2>3. c \in Calls /\ Checked(c) /\ Refers(c)
    <3>1. "updateRole" \in Ops /\ r \in Roles
      BY <1>2 DEF Ops
    <3>2. c \in Calls /\ c.op = "updateRole" /\ c.role = r /\ c.key = k
      BY <3>1, IdleCall DEF Calls
    <3> QED
      BY <2>2, <3>1, <3>2 DEF Checked, Refers, UserOps, RoleOps
  <2> QED
    BY <2>1, <2>3, Begun
<1>6. CASE DeleteRole(h)
  <2>1. PICK r \in LiveRoles :
          r \notin SystemRoles /\ Begin(h, [NoCall EXCEPT !.op = "deleteRole", !.role = r])
    BY <1>6 DEF DeleteRole
  <2> DEFINE c == [NoCall EXCEPT !.op = "deleteRole", !.role = r]
  <2>2. r # SuperRole
    BY <2>1, SeedAssumption
  <2>3. c \in Calls /\ Checked(c) /\ Refers(c)
    <3>1. "deleteRole" \in Ops /\ r \in Roles
      BY <1>2 DEF Ops
    <3>2. c \in Calls /\ c.op = "deleteRole" /\ c.role = r
      BY <3>1, IdleCall DEF Calls
    <3> QED
      BY <2>2, <3>1, <3>2 DEF Checked, Refers, UserOps, RoleOps
  <2> QED
    BY <2>1, <2>3, Begun
<1>7. CASE UpdateRolePermissions(h)
  <2>1. PICK r \in LiveRoles, S \in SUBSET perms :
          /\ key[r] # SuperKey
          /\ Begin(h, [NoCall EXCEPT !.op = "setRolePermissions", !.role = r, !.allow = S])
    BY <1>7 DEF UpdateRolePermissions
  <2> DEFINE c == [NoCall EXCEPT !.op = "setRolePermissions", !.role = r, !.allow = S]
  <2>2. r # SuperRole
    BY <1>1, <2>1
  <2>3. c \in Calls /\ Checked(c) /\ Refers(c)
    <3>1. "setRolePermissions" \in Ops /\ r \in Roles /\ S \subseteq Perms
      BY <1>2 DEF Ops
    <3>2. c \in Calls /\ c.op = "setRolePermissions" /\ c.role = r
      BY <3>1, IdleCall DEF Calls
    <3> QED
      BY <2>2, <3>1, <3>2 DEF Checked, Refers, UserOps, RoleOps
  <2> QED
    BY <2>1, <2>3, Begun
<1>8. CASE DeletePermission(h)
  <2>1. PICK p \in perms :
          /\ \A r \in Roles : p \notin grants[r]
          /\ Begin(h, [NoCall EXCEPT !.op = "deletePermission", !.deny = {p}])
    BY <1>8 DEF DeletePermission
  <2> DEFINE c == [NoCall EXCEPT !.op = "deletePermission", !.deny = {p}]
  <2>2. p \notin SeedPerms
    BY <1>1, <1>3, <2>1
  <2>3. c \in Calls /\ Checked(c) /\ Refers(c)
    <3>1. "deletePermission" \in Ops /\ {p} \in SUBSET Perms
      BY <1>2 DEF Ops
    <3>2. c \in Calls /\ c.op = "deletePermission" /\ c.deny = {p}
      BY <3>1, IdleCall DEF Calls
    <3> QED
      BY <2>2, <3>2 DEF Checked, Refers, UserOps, RoleOps
  <2> QED
    BY <2>1, <2>3, Begun
<1>9. CASE UpdateUserPermissions(h)
  <2>1. PICK u \in Accounts, S \in SUBSET perms, D \in SUBSET perms :
          /\ ~IsSuper(u) /\ S \cap D = {}
          /\ Begin(h, [NoCall EXCEPT !.op = "setUserPermissions", !.user = u, !.allow = S, !.deny = D])
    BY <1>9 DEF UpdateUserPermissions
  <2> DEFINE c == [NoCall EXCEPT !.op = "setUserPermissions", !.user = u, !.allow = S, !.deny = D]
  <2>2. u # Root
    BY <1>1, <2>1
  <2>3. c \in Calls /\ Checked(c) /\ Refers(c)
    <3>1. "setUserPermissions" \in Ops /\ u \in Users /\ S \subseteq Perms /\ D \subseteq Perms
      BY <1>2 DEF Ops
    <3>2. c \in Calls /\ c.op = "setUserPermissions" /\ c.user = u /\ c.allow = S /\ c.deny = D
      BY <3>1, IdleCall DEF Calls
    <3> QED
      BY <2>1, <2>2, <3>1, <3>2 DEF Checked, Refers, UserOps, RoleOps
  <2> QED
    BY <2>1, <2>3, Begun
<1> QED
  BY <1>4, <1>5, <1>6, <1>7, <1>8, <1>9

\* The super role is there, so a new role is another one.
LEMMA StoreRoleKeeps ==
  ASSUME AccessOK, NEW h \in AdminRequests, StoreRole(h)
  PROVE  AccessOK' /\ RowsStay
<1>1. call[h].op = "createRole" /\ call[h].role \in Roles /\ call[h].key \in Keys
  BY CallFields DEF StoreRole, RoleOps, Calls
<1>2. RightsOK'
  BY <1>1, SeedAssumption DEF StoreRole, AccessOK, RightsOK, RightsTyped, RootHolds, GrantsHold
<1>3. End(h) /\ UNCHANGED logins
  BY DEF StoreRole
<1> QED
  BY <1>2, <1>3, RightsWritten

LEMMA SaveRoleKeeps ==
  ASSUME AccessOK, NEW h \in AdminRequests, SaveRole(h)
  PROVE  AccessOK' /\ RowsStay
<1>1. /\ call[h].op = "updateRole" /\ call[h].role \in Roles /\ call[h].key \in Keys
      /\ call[h].role = SuperRole => call[h].key = SuperKey
  BY CallFields DEF SaveRole, RoleOps, Calls, Checked
<1>2. RightsOK'
  BY <1>1, SeedAssumption DEF SaveRole, AccessOK, RightsOK, RightsTyped, RootHolds, GrantsHold
<1> QED
  BY <1>2, RightsWritten DEF SaveRole

LEMMA RemoveRoleKeeps ==
  ASSUME AccessOK, NEW h \in AdminRequests, RemoveRole(h)
  PROVE  AccessOK' /\ RowsStay
<1>1. call[h].op = "deleteRole" /\ call[h].role \in Roles /\ call[h].role # SuperRole
  BY CallFields DEF RemoveRole, RoleOps, Checked
<1>2. RightsOK'
  BY <1>1, SeedAssumption DEF RemoveRole, AccessOK, RightsOK, RightsTyped, RootHolds, GrantsHold
<1> QED
  BY <1>2, RightsWritten DEF RemoveRole

LEMMA ReplaceRolePermissionsKeeps ==
  ASSUME AccessOK, NEW h \in AdminRequests, ReplaceRolePermissions(h)
  PROVE  AccessOK' /\ RowsStay
<1>1. call[h].op = "setRolePermissions" /\ call[h].role \in Roles /\ call[h].role # SuperRole
  BY CallFields DEF ReplaceRolePermissions, RoleOps, Checked
<1>2. RightsOK'
  BY <1>1, SeedAssumption
  DEF ReplaceRolePermissions, AccessOK, RightsOK, RightsTyped, RootHolds, GrantsHold
<1> QED
  BY <1>2, RightsWritten DEF ReplaceRolePermissions

\* What goes was nobody's when it was checked; what names it by now goes with it.
LEMMA RemovePermissionKeeps ==
  ASSUME AccessOK, NEW h \in AdminRequests, RemovePermission(h)
  PROVE  AccessOK' /\ RowsStay
<1>1. call[h].op = "deletePermission" /\ call[h].deny \cap SeedPerms = {}
  BY CallFields DEF RemovePermission, Checked
<1>2. RightsTyped'
  BY DEF RemovePermission, AccessOK, RightsOK, RightsTyped
<1>3. RootHolds'
  BY <1>1, SeedAssumption DEF RemovePermission, AccessOK, RightsOK, RightsTyped, RootHolds
<1>4. ASSUME NEW r \in Roles PROVE grants'[r] \subseteq perms'
  BY DEF RemovePermission, AccessOK, RightsOK, GrantsHold
<1>5. ASSUME NEW u \in Users, NEW p \in Perms
      PROVE  <<p, "ALLOW">> \in override'[u] => p \in perms' /\ <<p, "DENY">> \notin override'[u]
  <2>1. override'[u] = override[u] \ (call[h].deny \X Effects)
    BY DEF RemovePermission
  <2>2. <<p, "ALLOW">> \in override[u] => p \in perms /\ <<p, "DENY">> \notin override[u]
    BY DEF AccessOK, RightsOK, GrantsHold
  <2> QED
    BY <2>1, <2>2 DEF RemovePermission, Effects
<1>6. RightsOK'
  BY <1>2, <1>3, <1>4, <1>5 DEF RightsOK, GrantsHold
<1>7. End(h) /\ UNCHANGED logins
  BY DEF RemovePermission
<1> QED
  BY <1>6, <1>7, RightsWritten

LEMMA ReplaceUserPermissionsKeeps ==
  ASSUME AccessOK, NEW h \in AdminRequests, ReplaceUserPermissions(h)
  PROVE  AccessOK' /\ RowsStay
<1>1. PICK c \in Calls : c = call[h]
  BY CallFields
<1>2. c.user \in Users /\ c.user # Root /\ c.allow \cap c.deny = {}
  BY <1>1, CallFields DEF ReplaceUserPermissions, UserOps, Checked
<1>3. CASE ~(c.allow \cup c.deny \subseteq perms)
  BY <1>1, <1>3, RightsWritten
  DEF ReplaceUserPermissions, AccessOK, RightsOK, RightsTyped, RootHolds, GrantsHold
<1>4. CASE c.allow \cup c.deny \subseteq perms
  <2> DEFINE S == (c.allow \X {"ALLOW"}) \cup (c.deny \X {"DENY"})
  <2>1. override' = [override EXCEPT ![c.user] = S]
    BY <1>1, <1>4 DEF ReplaceUserPermissions
  <2>2. S \subseteq Perms \X Effects
    BY <1>4 DEF Effects, AccessOK, RightsOK, RightsTyped
  <2>3. ASSUME NEW p \in Perms
        PROVE  <<p, "ALLOW">> \in S => p \in perms /\ <<p, "DENY">> \notin S
    BY <1>2, <1>4
  <2> HIDE DEF S
  <2>4. RightsTyped' /\ RootHolds'
    <3>1. UNCHANGED <<account, roleOf, roleState, key, grants, perms>>
      BY DEF ReplaceUserPermissions
    <3>2. override' \in [Users -> SUBSET (Perms \X Effects)]
      BY <1>2, <2>1, <2>2 DEF AccessOK, RightsOK, RightsTyped
    <3>3. override'[Root] = override[Root]
      BY <1>2, <2>1, SeedAssumption DEF AccessOK, RightsOK, RightsTyped
    <3> QED
      BY <3>1, <3>2, <3>3 DEF AccessOK, RightsOK, RightsTyped, RootHolds
  <2>5. GrantsHold'
    BY <1>2, <2>1, <2>3 DEF ReplaceUserPermissions, AccessOK, RightsOK, RightsTyped, GrantsHold
  <2>6. End(h) /\ UNCHANGED logins
    BY DEF ReplaceUserPermissions
  <2> QED
    BY <2>4, <2>5, <2>6, RightsWritten DEF RightsOK
<1> QED
  BY <1>3, <1>4

-----------------------------------------------------------------------------
(* AuthService and SessionsService.                                           *)

SessionRows == [user : Users \cup {NoUser}, password : Nat, revoked : BOOLEAN, lapsed : BOOLEAN]
TokenRows == [user : Users \cup {NoUser}, used : BOOLEAN, lapsed : BOOLEAN]

LEMMA LoginStarts ==
  ASSUME AccessOK, NEW h \in AdminRequests,
         \/ Login(h) \/ RefreshToken(h) \/ Logout(h) \/ RevokeSession(h) \/ ChangePassword(h)
         \/ RequestPasswordReset(h) \/ CompletePasswordReset(h)
  PROVE  AccessOK' /\ RowsStay
<1>1. Sessions \subseteq Nat /\ Tokens \subseteq Nat
  BY AdminBoundsAssumption DEF Sessions, Tokens
<1>2. CASE Login(h)
  <2>1. PICK u \in Users : Begin(h, [NoCall EXCEPT !.op = "login", !.user = u, !.n = password[u]])
    BY <1>2 DEF Login
  <2> DEFINE c == [NoCall EXCEPT !.op = "login", !.user = u, !.n = password[u]]
  <2>2. password[u] \in Nat
    BY DEF AccessOK, LoginsOK
  <2>3. c \in Calls /\ Checked(c) /\ Refers(c)
    BY <2>2, IdleCall DEF Calls, Ops, NoCall, Checked, Refers, UserOps, RoleOps
  <2> QED
    BY <2>1, <2>3, Begun
<1>3. CASE RefreshToken(h) \/ Logout(h) \/ RevokeSession(h)
  <2>1. PICK s \in Sessions, o \in {"refresh", "revoke"} :
          session[s].user # NoUser /\ Begin(h, [NoCall EXCEPT !.op = o, !.n = s])
    BY <1>3 DEF RefreshToken, Logout, RevokeSession, Valid, OpenSession
  <2> DEFINE c == [NoCall EXCEPT !.op = o, !.n = s]
  <2>2. c \in Calls /\ Checked(c) /\ Refers(c)
    BY <1>1, <2>1, IdleCall DEF Calls, Ops, NoCall, Checked, Refers, UserOps, RoleOps
  <2> QED
    BY <2>1, <2>2, Begun
<1>4. CASE ChangePassword(h)
  <2>1. PICK s \in Sessions :
          /\ session[s].user # NoUser
          /\ Begin(h, [NoCall EXCEPT !.op = "changePassword", !.user = session[s].user, !.n = s])
    BY <1>4 DEF ChangePassword, Valid, OpenSession
  <2> DEFINE c == [NoCall EXCEPT !.op = "changePassword", !.user = session[s].user, !.n = s]
  <2>2. session[s].user \in Users
    BY <2>1 DEF AccessOK, LoginsOK
  <2>3. c \in Calls /\ Checked(c) /\ Refers(c)
    BY <1>1, <2>2, IdleCall DEF Calls, Ops, NoCall, Checked, Refers, UserOps, RoleOps
  <2> QED
    BY <2>1, <2>3, Begun
<1>5. CASE RequestPasswordReset(h)
  <2>1. PICK u \in Users : Begin(h, [NoCall EXCEPT !.op = "requestReset", !.user = u])
    BY <1>5 DEF RequestPasswordReset
  <2> DEFINE c == [NoCall EXCEPT !.op = "requestReset", !.user = u]
  <2>2. c \in Calls /\ Checked(c) /\ Refers(c)
    BY IdleCall DEF Calls, Ops, NoCall, Checked, Refers, UserOps, RoleOps
  <2> QED
    BY <2>1, <2>2, Begun
<1>6. CASE CompletePasswordReset(h)
  <2>1. PICK t \in Tokens :
          token[t].user # NoUser /\ Begin(h, [NoCall EXCEPT !.op = "completeReset", !.n = t])
    BY <1>6 DEF CompletePasswordReset
  <2> DEFINE c == [NoCall EXCEPT !.op = "completeReset", !.n = t]
  <2>2. c \in Calls /\ Checked(c) /\ Refers(c)
    BY <1>1, <2>1, IdleCall DEF Calls, Ops, NoCall, Checked, Refers, UserOps, RoleOps
  <2> QED
    BY <2>1, <2>2, Begun
<1> QED
  BY <1>2, <1>3, <1>4, <1>5, <1>6

\* One row of sessions changes: to a row of the same or of some user, and what was
\* revoked stays so.
LEMMA SessionWritten ==
  ASSUME AccessOK, NEW s \in Sessions, NEW x \in SessionRows, session' = [session EXCEPT ![s] = x],
         x.user # NoUser, session[s].revoked => x.revoked, UNCHANGED <<token, password, lastReset>>
  PROVE  LoginsOK' /\ RowsStay
<1>1. session \in [Sessions -> SessionRows]
  BY DEF AccessOK, LoginsOK, SessionRows
<1>2. \A r \in Sessions : session'[r] = IF r = s THEN x ELSE session[r]
  BY <1>1
<1>3. session' \in [Sessions -> SessionRows]
  BY <1>1
<1> QED
  BY <1>1, <1>2, <1>3 DEF AccessOK, LoginsOK, RowsStay, SessionRows

LEMMA StartSessionKeeps ==
  ASSUME AccessOK, NEW h \in AdminRequests, StartSession(h)
  PROVE  AccessOK' /\ RowsStay
<1>1. call[h].user \in Users /\ call[h].n \in Nat
  BY CallFields DEF StartSession, UserOps, Calls
<1>2. PICK s \in Sessions :
        /\ session[s].user = NoUser
        /\ session' = [session EXCEPT ![s] =
             [NoSession EXCEPT !.user = call[h].user, !.password = call[h].n]]
  BY DEF StartSession
<1> DEFINE x == [NoSession EXCEPT !.user = call[h].user, !.password = call[h].n]
<1>3. x \in SessionRows /\ x.user # NoUser
  BY <1>1, SeedAssumption DEF NoSession, SessionRows
<1>4. ~session[s].revoked
  BY <1>2 DEF AccessOK, LoginsOK
<1>5. LoginsOK' /\ RowsStay
  BY <1>2, <1>3, <1>4, SessionWritten DEF StartSession
<1> QED
  BY <1>5, LoginsWritten DEF StartSession

LEMMA ExtendSessionKeeps ==
  ASSUME AccessOK, NEW h \in AdminRequests, ExtendSession(h)
  PROVE  AccessOK' /\ RowsStay
<1>1. call[h].n \in Sessions /\ session[call[h].n].user # NoUser
  BY CallFields DEF ExtendSession, Refers
<1>2. PICK y \in SessionRows : y = session[call[h].n]
  BY <1>1 DEF AccessOK, LoginsOK, SessionRows
<1> DEFINE x == [y EXCEPT !.lapsed = FALSE]
<1>3. session' = [session EXCEPT ![call[h].n] = x]
  BY <1>2 DEF ExtendSession
<1>4. x \in SessionRows /\ x.user = y.user /\ x.revoked = y.revoked
  BY DEF SessionRows
<1>5. LoginsOK' /\ RowsStay
  BY <1>1, <1>2, <1>3, <1>4, SessionWritten DEF ExtendSession
<1> QED
  BY <1>5, LoginsWritten DEF ExtendSession

LEMMA MarkRevokedKeeps ==
  ASSUME AccessOK, NEW h \in AdminRequests, MarkRevoked(h)
  PROVE  AccessOK' /\ RowsStay
<1>1. call[h].n \in Sessions /\ session[call[h].n].user # NoUser
  BY CallFields DEF MarkRevoked, Refers
<1>2. PICK y \in SessionRows : y = session[call[h].n]
  BY <1>1 DEF AccessOK, LoginsOK, SessionRows
<1> DEFINE x == [y EXCEPT !.revoked = TRUE]
<1>3. session' = [session EXCEPT ![call[h].n] = x]
  BY <1>2 DEF MarkRevoked
<1>4. x \in SessionRows /\ x.user = y.user /\ x.revoked
  BY DEF SessionRows
<1>5. LoginsOK' /\ RowsStay
  BY <1>1, <1>2, <1>3, <1>4, SessionWritten DEF MarkRevoked
<1> QED
  BY <1>5, LoginsWritten DEF MarkRevoked

LEMMA SavePasswordKeeps ==
  ASSUME AccessOK, NEW h \in AdminRequests, SavePassword(h)
  PROVE  AccessOK' /\ RowsStay
<1>1. call[h].user \in Users
  BY CallFields DEF SavePassword, UserOps
<1>2. LoginsOK'
  BY <1>1 DEF SavePassword, AccessOK, LoginsOK
<1>3. RowsStay
  BY RowsStayUnchanged DEF SavePassword
<1> QED
  BY <1>2, <1>3, LoginsWritten DEF SavePassword

LEMMA StoreTokenKeeps ==
  ASSUME AccessOK, NEW h \in AdminRequests, StoreToken(h)
  PROVE  AccessOK' /\ RowsStay
<1>1. call[h].user \in Users
  BY CallFields DEF StoreToken, UserOps
<1>2. PICK t \in Tokens : token' = [token EXCEPT ![t] = [NoToken EXCEPT !.user = call[h].user]]
  BY DEF StoreToken
<1> DEFINE x == [NoToken EXCEPT !.user = call[h].user]
<1>3. x \in TokenRows /\ x.user # NoUser
  BY <1>1, SeedAssumption DEF NoToken, TokenRows
<1>4. token \in [Tokens -> TokenRows]
  BY DEF AccessOK, LoginsOK, TokenRows
<1>5. token' \in [Tokens -> TokenRows] /\ \A d \in Tokens : token'[d] = IF d = t THEN x ELSE token[d]
  BY <1>2, <1>3, <1>4
<1>6. LoginsOK' /\ RowsStay
  BY <1>3, <1>5 DEF StoreToken, AccessOK, LoginsOK, RowsStay, TokenRows
<1> QED
  BY <1>6, LoginsWritten DEF StoreToken

LEMMA ResetPasswordKeeps ==
  ASSUME AccessOK, NEW h \in AdminRequests, ResetPassword(h)
  PROVE  AccessOK' /\ RowsStay
<1>1. call[h].n \in Tokens /\ token[call[h].n].user # NoUser
  BY CallFields DEF ResetPassword, Refers
<1>2. PICK y \in TokenRows : y = token[call[h].n]
  BY <1>1 DEF AccessOK, LoginsOK, TokenRows
<1>3. y.user \in Users
  BY <1>1, <1>2 DEF TokenRows
<1> DEFINE x == [y EXCEPT !.used = TRUE]
<1>4. token' = [token EXCEPT ![call[h].n] = x] /\ RevokeOf(y.user)
  BY <1>2 DEF ResetPassword
<1>5. x \in TokenRows /\ x.user = y.user
  BY DEF TokenRows
<1>6. token \in [Tokens -> TokenRows]
  BY DEF AccessOK, LoginsOK, TokenRows
<1>7. /\ token' \in [Tokens -> TokenRows]
      /\ \A d \in Tokens : token'[d].user = token[d].user
  BY <1>1, <1>2, <1>4, <1>5, <1>6
<1>8. password' \in [Users -> Nat] /\ lastReset' \in [Users -> Nat]
  <2>1. password \in [Users -> Nat] /\ lastReset \in [Users -> Nat]
    BY DEF AccessOK, LoginsOK
  <2>2. /\ password' = [password EXCEPT ![y.user] = @ + 1]
        /\ lastReset' = [lastReset EXCEPT ![y.user] = password[y.user] + 1]
    BY <1>2 DEF ResetPassword
  <2> QED
    BY <1>3, <2>1, <2>2
<1>9. LoginsOK' /\ RowsStay
  BY <1>3, <1>4, <1>7, <1>8, RevokeOfKeeps DEF AccessOK, LoginsOK, RowsStay, TokenRows
<1> QED
  BY <1>9, LoginsWritten DEF ResetPassword

-----------------------------------------------------------------------------
(* Time, failures, and the whole.                                             *)

\* Logins change while every request stays where it is.
LEMMA LoginsMove ==
  ASSUME AccessOK, UNCHANGED <<rights, call, offered, raced, adminFaults>>, RowsStay, LoginsOK'
  PROVE  AccessOK'
<1>1. CallsOK'
  BY DEF AccessOK, CallsOK, Checked, Refers, RowsStay
<1>2. RightsOK'
  BY DEF rights, AccessOK, RightsOK, RightsTyped, RootHolds, GrantsHold
<1> QED
  BY <1>1, <1>2 DEF AccessOK

LEMMA RevokeAllKeeps ==
  ASSUME AccessOK, RevokeAllSessions
  PROVE  AccessOK' /\ RowsStay
<1>1. PICK o \in Sessions :
        /\ Valid(o)
        /\ session' = [s \in Sessions |->
             IF session[s].user = session[o].user /\ s # o
             THEN [session[s] EXCEPT !.revoked = TRUE] ELSE session[s]]
  BY DEF RevokeAllSessions
<1>2. session[o].user # NoUser
  BY <1>1 DEF Valid, OpenSession
<1>3. ASSUME NEW s \in Sessions
      PROVE  /\ session'[s] \in SessionRows
             /\ session'[s].user = session[s].user
             /\ session[s].revoked => session'[s].revoked
             /\ session[s].user = NoUser => session'[s] = session[s]
  <2>1. PICK x \in SessionRows : x = session[s]
    BY DEF AccessOK, LoginsOK, SessionRows
  <2>2. session'[s] = IF x.user = session[o].user /\ s # o THEN [x EXCEPT !.revoked = TRUE] ELSE x
    BY <1>1, <2>1
  <2> QED
    BY <1>2, <2>1, <2>2 DEF SessionRows
<1>4. session' \in [Sessions -> SessionRows]
  BY <1>1, <1>3
<1>5. LoginsOK' /\ RowsStay
  BY <1>3, <1>4 DEF RevokeAllSessions, AccessOK, LoginsOK, RowsStay, SessionRows
<1> QED
  BY <1>5, LoginsMove DEF RevokeAllSessions

LEMMA LapsesKeep ==
  ASSUME AccessOK, SessionLapses \/ TokenLapses
  PROVE  AccessOK' /\ RowsStay
<1>1. CASE SessionLapses
  <2>1. PICK s \in Sessions :
          session[s].user # NoUser /\ session' = [session EXCEPT ![s].lapsed = TRUE]
    BY <1>1 DEF SessionLapses, OpenSession
  <2>2. PICK y \in SessionRows : y = session[s]
    BY DEF AccessOK, LoginsOK, SessionRows
  <2> DEFINE x == [y EXCEPT !.lapsed = TRUE]
  <2>3. session' = [session EXCEPT ![s] = x]
    BY <2>1, <2>2
  <2>4. x \in SessionRows /\ x.user = y.user /\ x.revoked = y.revoked
    BY DEF SessionRows
  <2>5. LoginsOK' /\ RowsStay
    BY <1>1, <2>1, <2>2, <2>3, <2>4, SessionWritten DEF SessionLapses
  <2> QED
    BY <1>1, <2>5, LoginsMove DEF SessionLapses
<1>2. CASE TokenLapses
  <2>1. PICK t \in Tokens : token' = [token EXCEPT ![t].lapsed = TRUE]
    BY <1>2 DEF TokenLapses
  <2>2. PICK y \in TokenRows : y = token[t]
    BY DEF AccessOK, LoginsOK, TokenRows
  <2> DEFINE x == [y EXCEPT !.lapsed = TRUE]
  <2>3. token' = [token EXCEPT ![t] = x]
    BY <2>1, <2>2
  <2>4. x \in TokenRows /\ x.user = y.user
    BY DEF TokenRows
  <2>5. token \in [Tokens -> TokenRows]
    BY DEF AccessOK, LoginsOK, TokenRows
  <2>6. /\ token' \in [Tokens -> TokenRows]
        /\ \A d \in Tokens : token'[d].user = token[d].user
    BY <2>2, <2>3, <2>4, <2>5
  <2>7. LoginsOK' /\ RowsStay
    BY <1>2, <2>6 DEF TokenLapses, AccessOK, LoginsOK, RowsStay, TokenRows
  <2> QED
    BY <1>2, <2>7, LoginsMove DEF TokenLapses
<1> QED
  BY <1>1, <1>2

LEMMA FailureKeeps ==
  ASSUME AccessOK, NEW h \in AdminRequests, RequestFails(h)
  PROVE  AccessOK' /\ RowsStay
<1>1. RowsStay
  BY RowsStayUnchanged DEF RequestFails, logins
<1>2. adminFaults' \in 0 .. MaxAdminFaults
  BY AdminBoundsAssumption DEF RequestFails, AccessOK, CallsOK
<1>3. CallsOK'
  BY <1>1, <1>2, CallMoves, IdleCall DEF RequestFails, AccessOK, CallsOK
<1>4. RightsOK' /\ LoginsOK'
  BY DEF RequestFails, rights, logins, AccessOK, RightsOK, LoginsOK, RightsTyped, RootHolds, GrantsHold
<1> QED
  BY <1>1, <1>3, <1>4 DEF AccessOK

LEMMA AccessStarts == AdminInit => AccessOK
<1> SUFFICES ASSUME AdminInit PROVE AccessOK
  OBVIOUS
<1>1. RightsTyped /\ RootHolds
  BY SeedAssumption DEF AdminInit, RightsTyped, RootHolds
<1>2. GrantsHold
  BY SeedAssumption DEF AdminInit, GrantsHold
<1>3. LoginsOK
  BY DEF AdminInit, LoginsOK, NoSession, NoToken
<1>4. CallsOK
  <2>1. call \in [AdminRequests -> Calls]
    BY IdleCall DEF AdminInit
  <2>2. \A h \in AdminRequests : call[h] = NoCall
    BY DEF AdminInit
  <2>3. offered \in AdminOffers /\ raced \in BOOLEAN
    BY DEF AdminInit
  <2>4. adminFaults \in 0 .. MaxAdminFaults
    BY AdminBoundsAssumption DEF AdminInit
  <2> QED
    BY <2>1, <2>2, <2>3, <2>4, IdleCall DEF CallsOK
<1> QED
  BY <1>1, <1>2, <1>3, <1>4 DEF AccessOK, RightsOK

LEMMA AccessIsInductive == AccessOK /\ [AdminNext]_adminVars => AccessOK' /\ RowsStay
<1> SUFFICES ASSUME AccessOK, [AdminNext]_adminVars PROVE AccessOK' /\ RowsStay
  OBVIOUS
<1>1. CASE UNCHANGED adminVars
  BY <1>1 DEF adminVars, rights, logins, AccessOK, RightsOK, LoginsOK, CallsOK, RightsTyped, RootHolds,
              GrantsHold, Checked, Refers, RowsStay
<1>2. ASSUME NEW h \in AdminRequests, RightsStep(h) PROVE AccessOK' /\ RowsStay
  BY <1>2, UserStarts, RoleStarts, StoreUserKeeps, SaveUserKeeps, SaveStatusKeeps, RevokeRestKeeps,
     RemoveUserKeeps, StoreRoleKeeps, SaveRoleKeeps, RemoveRoleKeeps, ReplaceRolePermissionsKeeps,
     RemovePermissionKeeps, ReplaceUserPermissionsKeeps
  DEF RightsStep
<1>3. ASSUME NEW h \in AdminRequests, LoginStep(h) PROVE AccessOK' /\ RowsStay
  BY <1>3, LoginStarts, StartSessionKeeps, ExtendSessionKeeps, MarkRevokedKeeps, SavePasswordKeeps,
     StoreTokenKeeps, ResetPasswordKeeps
  DEF LoginStep
<1> QED
  BY <1>1, <1>2, <1>3, FailureKeeps, RevokeAllKeeps, LapsesKeep DEF AdminNext

LEMMA AlwaysAccessOK == AdminSpec => []AccessOK
<1> QED
  BY AccessStarts, AccessIsInductive, PTL DEF AdminSpec

\* Users, roles, permissions, sessions and requests in flight have their types.
THEOREM AdminTypes == AdminSpec => []AdminTypeOK
<1>1. AccessOK => AdminTypeOK
  BY DEF AccessOK, CallsOK, RightsOK, RightsTyped, LoginsOK, AdminTypeOK
<1> QED
  BY <1>1, AlwaysAccessOK, PTL

\* No sequence of overlapping and failing requests to UsersService, RolesService and
\* PermissionsService takes the seeded super administrator's access away: what a request
\* has checked about Root, the super role and the permissions of the seed still holds
\* when it writes.
THEOREM RootIsSafe == AdminSpec => []RootKeepsAccess
<1>1. AccessOK => RootKeepsAccess
  <2> SUFFICES ASSUME AccessOK PROVE RootKeepsAccess
    OBVIOUS
  <2>1. Overridden(Root, "DENY") = {}
    BY DEF AccessOK, RightsOK, RootHolds, Overridden
  <2>2. RoleGrants(Root) = grants[SuperRole]
    BY SeedAssumption DEF AccessOK, RightsOK, RootHolds, RoleGrants
  <2> QED
    BY <2>1, <2>2 DEF AccessOK, RightsOK, RootHolds, RootKeepsAccess, Permissions
<1> QED
  BY <1>1, AlwaysAccessOK, PTL

\* JwtStrategy and the permission matrix compute the same permissions, all of them
\* rows that exist: no user is left with an override for and against one permission.
THEOREM MatrixIsTrue == AdminSpec => []PermissionsAgree
<1>1. AccessOK => PermissionsAgree
  <2> SUFFICES ASSUME AccessOK, NEW u \in Accounts
               PROVE  /\ Permissions(u) = EffectivePermissions(u)
                      /\ Permissions(u) \subseteq perms
    BY DEF PermissionsAgree
  <2>1. u \in Users
    BY DEF Accounts
  <2>2. RoleGrants(u) \subseteq perms /\ perms \subseteq Perms
    BY <2>1 DEF RoleGrants, AccessOK, RightsOK, RightsTyped, GrantsHold
  <2>3. \A p \in Overridden(u, "ALLOW") : p \in Perms /\ p \in perms /\ p \notin Overridden(u, "DENY")
    BY <2>1 DEF Overridden, AccessOK, RightsOK, GrantsHold
  <2>4. Permissions(u) \subseteq perms
    BY <2>2, <2>3 DEF Permissions
  <2>5. ASSUME NEW p PROVE p \in Permissions(u) <=> p \in EffectivePermissions(u)
    BY <2>2, <2>3 DEF Permissions, EffectivePermissions
  <2> QED
    BY <2>4, <2>5
<1> QED
  BY <1>1, AlwaysAccessOK, PTL

\* No step takes the revocation of a session back, not even a refresh that read the
\* session before it was revoked.
THEOREM RevocationLasts == AdminSpec => RevokedForGood
<1>1. AccessOK /\ [AdminNext]_adminVars =>
        [\A s \in Sessions : session[s].revoked => session'[s].revoked]_adminVars
  BY AccessIsInductive DEF RowsStay
<1> QED
  BY <1>1, AlwaysAccessOK, PTL DEF AdminSpec, RevokedForGood

-----------------------------------------------------------------------------
(* Where requests do not overlap: the sessions are those of active users.     *)

\* A request that is let in with a password was let in just now.
LetIn(c) == c.op = "login" => account[c.user] = "active" /\ c.n = password[c.user]

\* The sessions of a user who has just been deactivated are closed next.
Closing(u) == \E h \in AdminRequests : call[h].op = "revokeRest" /\ call[h].user = u

Current ==
  /\ \A g, h \in AdminRequests : call[g] # NoCall /\ call[h] # NoCall => g = h
  /\ \A h \in AdminRequests : LetIn(call[h])
  /\ \A u \in Users : lastReset[u] <= password[u]
  /\ \A s \in Sessions : OpenSession(s) =>
       /\ account[session[s].user] = "active" \/ Closing(session[s].user)
       /\ session[s].password >= lastReset[session[s].user]

CurrentAlone == ~raced /\ adminFaults = 0 => Current

\* The part of it that is about what requests write.
LoginsCurrent ==
  /\ \A u \in Users : lastReset[u] <= password[u]
  /\ \A s \in Sessions : OpenSession(s) =>
       account[session[s].user] = "active" /\ session[s].password >= lastReset[session[s].user]

LEMMA OpenIsSomebodys ==
  ASSUME AccessOK, NEW s \in Sessions, OpenSession(s)
  PROVE  session[s].user \in Users
BY DEF AccessOK, LoginsOK, OpenSession

\* Before a request that is not about to close sessions, every open one is current.
LEMMA NothingToClose ==
  ASSUME Current, NEW h \in AdminRequests, call[h].op # "revokeRest",
         call[h] # NoCall \/ \A g \in AdminRequests : call[g] = NoCall
  PROVE  LoginsCurrent
BY DEF Current, LoginsCurrent, Closing, NoCall

\* Nobody else is at work when a request returns.
LEMMA ReturnsAlone ==
  ASSUME AccessOK, Current, NEW h \in AdminRequests, call[h] # NoCall, End(h), LoginsCurrent'
  PROVE  CurrentAlone'
<1>1. \A g \in AdminRequests : call'[g] = NoCall
  BY DEF AccessOK, CallsOK, Current, End
<1>2. \A g \in AdminRequests : LetIn(call[g])'
  BY <1>1 DEF LetIn, NoCall
<1>3. Current'
  BY <1>1, <1>2 DEF Current, LoginsCurrent
<1> QED
  BY <1>3 DEF CurrentAlone

\* A request that starts finds nobody at work.
LEMMA BeginsAlone ==
  ASSUME AccessOK, CurrentAlone, NEW h \in AdminRequests, NEW c, Begin(h, c), LetIn(c)
  PROVE  CurrentAlone'
<1> SUFFICES ASSUME ~raced', adminFaults' = 0
             PROVE  Current'
  BY DEF CurrentAlone
<1>1. Current /\ \A g \in AdminRequests : call[g] = NoCall
  BY DEF Begin, CurrentAlone
<1>2. call[h] = NoCall /\ UNCHANGED <<account, roleOf, session, password, lastReset>>
  BY DEF Begin, rights, logins
<1>3. LoginsCurrent
  BY <1>1, NothingToClose DEF NoCall
<1>4. \A g \in AdminRequests : call'[g] = IF g = h THEN c ELSE NoCall
  BY <1>1 DEF Begin, AccessOK, CallsOK
<1>5. \A g \in AdminRequests : LetIn(call[g])'
  BY <1>2, <1>4 DEF LetIn, NoCall
<1> QED
  <2>1. \A f, g \in AdminRequests : call'[f] # NoCall /\ call'[g] # NoCall => f = g
    BY <1>4
  <2>2. LoginsCurrent'
    BY <1>2, <1>3 DEF LoginsCurrent, OpenSession
  <2> QED
    BY <2>1, <2>2, <1>5 DEF Current, LoginsCurrent

LEMMA RightsBegin ==
  ASSUME AccessOK, CurrentAlone, NEW h \in AdminRequests,
         CreateUser(h) \/ UpdateUser(h) \/ UpdateStatus(h) \/ DeleteUser(h) \/ CreateRole(h)
         \/ UpdateRole(h) \/ DeleteRole(h) \/ UpdateRolePermissions(h) \/ DeletePermission(h)
         \/ UpdateUserPermissions(h)
  PROVE  CurrentAlone'
<1>1. ASSUME NEW c, Begin(h, c), c.op # "login" PROVE CurrentAlone'
  BY <1>1, BeginsAlone DEF LetIn
<1>2. CASE CreateUser(h)
  BY <1>1, <1>2 DEF CreateUser, NoCall
<1>3. CASE UpdateUser(h)
  BY <1>1, <1>3 DEF UpdateUser, NoCall
<1>4. CASE UpdateStatus(h)
  BY <1>1, <1>4 DEF UpdateStatus, NoCall
<1>5. CASE DeleteUser(h)
  BY <1>1, <1>5 DEF DeleteUser, NoCall
<1>6. CASE CreateRole(h)
  BY <1>1, <1>6 DEF CreateRole, NoCall
<1>7. CASE UpdateRole(h)
  BY <1>1, <1>7 DEF UpdateRole, NoCall
<1>8. CASE DeleteRole(h)
  BY <1>1, <1>8 DEF DeleteRole, NoCall
<1>9. CASE UpdateRolePermissions(h)
  BY <1>1, <1>9 DEF UpdateRolePermissions, NoCall
<1>10. CASE DeletePermission(h)
  BY <1>1, <1>10 DEF DeletePermission, NoCall
<1>11. CASE UpdateUserPermissions(h)
  BY <1>1, <1>11 DEF UpdateUserPermissions, NoCall
<1> QED
  BY <1>2, <1>3, <1>4, <1>5, <1>6, <1>7, <1>8, <1>9, <1>10, <1>11

\* A login begins with the password of that moment.
LEMMA LoginsBegin ==
  ASSUME AccessOK, CurrentAlone, NEW h \in AdminRequests,
         Login(h) \/ RefreshToken(h) \/ Logout(h) \/ RevokeSession(h) \/ ChangePassword(h)
         \/ RequestPasswordReset(h) \/ CompletePasswordReset(h)
  PROVE  CurrentAlone'
<1>1. ASSUME NEW c, Begin(h, c), c.op # "login" PROVE CurrentAlone'
  BY <1>1, BeginsAlone DEF LetIn
<1>2. CASE Login(h)
  <2>1. PICK u \in Users :
          account[u] = "active" /\ Begin(h, [NoCall EXCEPT !.op = "login", !.user = u, !.n = password[u]])
    BY <1>2 DEF Login
  <2>2. LetIn([NoCall EXCEPT !.op = "login", !.user = u, !.n = password[u]])
    BY <2>1 DEF LetIn, NoCall
  <2> QED
    BY <2>1, <2>2, BeginsAlone
<1>3. CASE RefreshToken(h)
  BY <1>1, <1>3 DEF RefreshToken, NoCall
<1>4. CASE Logout(h)
  BY <1>1, <1>4 DEF Logout, NoCall
<1>5. CASE RevokeSession(h)
  BY <1>1, <1>5 DEF RevokeSession, NoCall
<1>6. CASE ChangePassword(h)
  BY <1>1, <1>6 DEF ChangePassword, NoCall
<1>7. CASE RequestPasswordReset(h)
  BY <1>1, <1>7 DEF RequestPasswordReset, NoCall
<1>8. CASE CompletePasswordReset(h)
  BY <1>1, <1>8 DEF CompletePasswordReset, NoCall
<1> QED
  BY <1>2, <1>3, <1>4, <1>5, <1>6, <1>7, <1>8

\* Rights other than accounts, and tokens, do not matter.
LEMMA RightsReturn ==
  ASSUME AccessOK, Current, NEW h \in AdminRequests, End(h),
         call[h] # NoCall, call[h].op # "revokeRest",
         UNCHANGED <<session, password, lastReset>>,
         \A u \in Users : account[u] = "active" => account'[u] = "active"
  PROVE  CurrentAlone'
<1>1. LoginsCurrent
  BY NothingToClose
<1>2. LoginsCurrent'
  BY <1>1, OpenIsSomebodys DEF LoginsCurrent, OpenSession
<1> QED
  BY <1>2, ReturnsAlone

LEMMA RightsWrite ==
  ASSUME AccessOK, Current, NEW h \in AdminRequests,
         StoreUser(h) \/ SaveUser(h) \/ StoreRole(h) \/ SaveRole(h) \/ RemoveRole(h)
         \/ ReplaceRolePermissions(h) \/ RemovePermission(h) \/ ReplaceUserPermissions(h)
         \/ StoreToken(h)
  PROVE  CurrentAlone'
<1>1. End(h) /\ UNCHANGED <<session, password, lastReset>> /\ call[h] # NoCall /\ call[h].op # "revokeRest"
  <2>1. End(h) /\ UNCHANGED <<session, password, lastReset>>
    BY DEF StoreUser, SaveUser, StoreRole, SaveRole, RemoveRole, ReplaceRolePermissions, RemovePermission,
           ReplaceUserPermissions, StoreToken, logins
  <2>2. call[h].op \notin {NoCall.op, "revokeRest"}
    BY DEF StoreUser, SaveUser, StoreRole, SaveRole, RemoveRole, ReplaceRolePermissions, RemovePermission,
           ReplaceUserPermissions, StoreToken, NoCall
  <2> QED
    BY <2>1, <2>2
<1>2. CASE StoreUser(h)
  <2>1. CASE account[call[h].user] = "none"
    <3>1. PICK a : account' = [account EXCEPT ![call[h].user] = a]
      BY <1>2, <2>1 DEF StoreUser
    <3> QED
      BY <1>1, <2>1, <3>1, RightsReturn DEF AccessOK, RightsOK, RightsTyped
  <2>2. CASE account[call[h].user] # "none"
    BY <1>1, <1>2, <2>2, RightsReturn DEF StoreUser
  <2> QED
    BY <2>1, <2>2
<1>3. CASE ~StoreUser(h)
  <2>1. UNCHANGED account
    BY <1>3 DEF SaveUser, StoreRole, SaveRole, RemoveRole, ReplaceRolePermissions, RemovePermission,
                ReplaceUserPermissions, StoreToken, rights
  <2> QED
    BY <1>1, <2>1, RightsReturn
<1> QED
  BY <1>2, <1>3

\* An activation takes access from nobody; a deactivation goes on to the sessions.
LEMMA StatusWrite ==
  ASSUME AccessOK, Current, NEW h \in AdminRequests, SaveStatus(h)
  PROVE  CurrentAlone'
<1>1. /\ call[h].op \in {"activate", "deactivate"} /\ call[h] # NoCall /\ call[h].user \in Users
      /\ UNCHANGED <<session, password, lastReset>>
  BY CallFields DEF SaveStatus, NoCall, UserOps, logins
<1>2. CASE call[h].op = "activate"
  BY <1>1, <1>2, RightsReturn DEF SaveStatus, AccessOK, RightsOK, RightsTyped
<1>3. CASE call[h].op = "deactivate"
  <2>1. \A g \in AdminRequests \ {h} : call[g] = NoCall
    BY <1>1 DEF Current
  <2>2. PICK c \in Calls : c = call[h]
    BY CallFields
  <2>3. call' = [call EXCEPT ![h] = [c EXCEPT !.op = "revokeRest"]]
    BY <1>3, <2>2 DEF SaveStatus
  <2>4. /\ \A g \in AdminRequests : g # h => call'[g] = NoCall
        /\ call'[h].op = "revokeRest" /\ call'[h].user = call[h].user
    BY <2>1, <2>2, <2>3 DEF AccessOK, CallsOK, Calls
  <2>5. LoginsCurrent
    BY <1>1, <1>3, NothingToClose
  <2>6. \A u \in Users : account[u] = "active" => account'[u] = "active" \/ u = call[h].user
    BY <1>3 DEF SaveStatus, AccessOK, RightsOK, RightsTyped
  <2>7. \A s \in Sessions : OpenSession(s)' =>
          /\ account'[session'[s].user] = "active" \/ Closing(session[s].user)'
          /\ session'[s].password >= lastReset'[session'[s].user]
    BY <1>1, <2>4, <2>5, <2>6, OpenIsSomebodys DEF LoginsCurrent, OpenSession, Closing
  <2>8. \A g \in AdminRequests : LetIn(call[g])'
    BY <2>4 DEF LetIn, NoCall
  <2>9. \A f, g \in AdminRequests : call'[f] # NoCall /\ call'[g] # NoCall => f = g
    BY <2>4
  <2>10. Current'
    BY <1>1, <2>5, <2>7, <2>8, <2>9 DEF Current, LoginsCurrent
  <2> QED
    BY <2>10 DEF CurrentAlone
<1> QED
  BY <1>1, <1>2, <1>3

\* Sessions of u are closed, whatever becomes of u's account or password.
LEMMA CloseSessions ==
  ASSUME AccessOK, Current, NEW h \in AdminRequests, End(h), call[h] # NoCall,
         NEW u \in Users, RevokeOf(u), call[h].op = "revokeRest" => call[h].user = u,
         \A v \in Users \ {u} : /\ account'[v] = account[v]
                                /\ lastReset'[v] = lastReset[v] /\ password'[v] = password[v],
         lastReset'[u] <= password'[u]
  PROVE  CurrentAlone'
<1>1. ASSUME NEW s \in Sessions
      PROVE  /\ OpenSession(s)' => session[s].user # u /\ OpenSession(s)
             /\ session'[s].user = session[s].user /\ session'[s].password = session[s].password
  <2>1. PICK x \in [user : Users \cup {NoUser}, password : Nat, revoked : BOOLEAN, lapsed : BOOLEAN] :
          x = session[s]
    BY DEF AccessOK, LoginsOK
  <2>2. session'[s] = IF x.user = u THEN [x EXCEPT !.revoked = TRUE] ELSE x
    BY <2>1 DEF RevokeOf
  <2> QED
    BY <2>1, <2>2 DEF OpenSession
<1>2. ASSUME NEW s \in Sessions, OpenSession(s), session[s].user # u
      PROVE  account[session[s].user] = "active"
  BY <1>2 DEF Current, Closing, NoCall
<1>3. \A s \in Sessions : OpenSession(s)' =>
        account'[session'[s].user] = "active" /\ session'[s].password >= lastReset'[session'[s].user]
  BY <1>1, <1>2, OpenIsSomebodys DEF Current
<1>4. \A v \in Users : lastReset'[v] <= password'[v]
  BY DEF Current
<1>5. LoginsCurrent'
  BY <1>3, <1>4 DEF LoginsCurrent
<1> QED
  BY <1>5, ReturnsAlone

LEMMA UserCloses ==
  ASSUME AccessOK, Current, NEW h \in AdminRequests, RevokeRest(h) \/ RemoveUser(h) \/ ResetPassword(h)
  PROVE  CurrentAlone'
<1>1. \A v \in Users : lastReset[v] <= password[v]
  BY DEF Current
<1>2. CASE RevokeRest(h)
  BY <1>1, <1>2, CallFields, CloseSessions DEF RevokeRest, UserOps, NoCall, rights
<1>3. CASE RemoveUser(h)
  <2>1. /\ call[h].user \in Users /\ call[h] # NoCall /\ call[h].op # "revokeRest"
        /\ account' = [account EXCEPT ![call[h].user] = "deleted"]
        /\ RevokeOf(call[h].user) /\ End(h) /\ UNCHANGED <<password, lastReset>>
    BY <1>3, CallFields DEF RemoveUser, UserOps, NoCall
  <2> QED
    BY <1>1, <2>1, CloseSessions DEF AccessOK, RightsOK, RightsTyped
<1>4. CASE ResetPassword(h)
  <2>1. call[h].n \in Tokens /\ token[call[h].n].user # NoUser
    BY <1>4, CallFields DEF ResetPassword, Refers
  <2>2. PICK u \in Users : u = token[call[h].n].user
    BY <2>1 DEF AccessOK, LoginsOK
  <2>3. /\ password' = [password EXCEPT ![u] = password[u] + 1]
        /\ lastReset' = [lastReset EXCEPT ![u] = password[u] + 1]
        /\ RevokeOf(u) /\ End(h) /\ UNCHANGED account
        /\ call[h] # NoCall /\ call[h].op # "revokeRest"
    <3>1. /\ password' = [password EXCEPT ![u] = @ + 1]
          /\ lastReset' = [lastReset EXCEPT ![u] = password[u] + 1]
          /\ RevokeOf(u) /\ End(h) /\ UNCHANGED rights /\ call[h].op = "completeReset"
      BY <1>4, <2>2 DEF ResetPassword
    <3> QED
      BY <3>1 DEF rights, NoCall
  <2>4. password'[u] = password[u] + 1 /\ lastReset'[u] = password[u] + 1 /\ password[u] \in Nat
    BY <2>3 DEF AccessOK, LoginsOK
  <2>5. \A v \in Users \ {u} : lastReset'[v] = lastReset[v] /\ password'[v] = password[v]
    BY <2>3 DEF AccessOK, LoginsOK
  <2> QED
    BY <2>3, <2>4, <2>5, CloseSessions
<1> QED
  BY <1>2, <1>3, <1>4

\* One session is written to: it becomes a current one, or stays what it was, or closes.
LEMMA OneSessionWrite ==
  ASSUME AccessOK, Current, NEW h \in AdminRequests, End(h), call[h] # NoCall, call[h].op # "revokeRest",
         UNCHANGED <<account, lastReset>>, NEW s \in Sessions, NEW x \in SessionRows,
         session' = [session EXCEPT ![s] = x], \A u \in Users : lastReset[u] <= password'[u],
         x.user # NoUser /\ ~x.revoked =>
           \/ OpenSession(s) /\ x.user = session[s].user /\ x.password = session[s].password
           \/ account[x.user] = "active" /\ x.password >= lastReset[x.user]
  PROVE  CurrentAlone'
<1>1. LoginsCurrent
  BY NothingToClose
<1>2. \A r \in Sessions : session'[r] = IF r = s THEN x ELSE session[r]
  BY DEF AccessOK, LoginsOK
<1>3. LoginsCurrent'
  BY <1>1, <1>2 DEF LoginsCurrent, OpenSession
<1> QED
  BY <1>3, ReturnsAlone

LEMMA SessionsWrite ==
  ASSUME AccessOK, Current, NEW h \in AdminRequests,
         StartSession(h) \/ ExtendSession(h) \/ MarkRevoked(h) \/ SavePassword(h)
  PROVE  CurrentAlone'
<1>1. \A u \in Users : lastReset[u] <= password[u] /\ password[u] \in Nat /\ lastReset[u] \in Nat
  BY DEF Current, AccessOK, LoginsOK
<1>2. /\ End(h) /\ UNCHANGED <<account, lastReset>>
      /\ call[h] # NoCall /\ call[h].op # "revokeRest"
  BY DEF StartSession, ExtendSession, MarkRevoked, SavePassword, rights, NoCall
<1>3. CASE StartSession(h)
  <2>1. /\ call[h].user \in Users /\ call[h].n \in Nat
        /\ account[call[h].user] = "active" /\ call[h].n = password[call[h].user]
    BY <1>3, CallFields DEF StartSession, UserOps, Calls, Current, LetIn
  <2>2. PICK s \in Sessions : session' = [session EXCEPT ![s] =
                                [NoSession EXCEPT !.user = call[h].user, !.password = call[h].n]]
    BY <1>3 DEF StartSession
  <2> DEFINE x == [NoSession EXCEPT !.user = call[h].user, !.password = call[h].n]
  <2>3. x \in SessionRows /\ x.user = call[h].user /\ x.password = call[h].n
    BY <2>1 DEF NoSession, SessionRows
  <2>4. x.password >= lastReset[x.user]
    BY <1>1, <2>1, <2>3
  <2> HIDE DEF x
  <2>5. session' = [session EXCEPT ![s] = x] /\ UNCHANGED password
    BY <1>3, <2>2 DEF x, StartSession
  <2> QED
    BY <1>1, <1>2, <2>1, <2>3, <2>4, <2>5, OneSessionWrite
<1>4. CASE ExtendSession(h) \/ MarkRevoked(h)
  <2>1. call[h].n \in Sessions
    BY <1>4, CallFields DEF ExtendSession, MarkRevoked, Refers
  <2>2. PICK y \in SessionRows : y = session[call[h].n]
    BY <2>1 DEF AccessOK, LoginsOK, SessionRows
  <2>3. PICK x : /\ x \in {[y EXCEPT !.lapsed = FALSE], [y EXCEPT !.revoked = TRUE]}
                 /\ session' = [session EXCEPT ![call[h].n] = x]
    BY <1>4, <2>2 DEF ExtendSession, MarkRevoked
  <2>4. x \in SessionRows /\ x.user = y.user /\ x.password = y.password /\ (y.revoked => x.revoked)
    BY <2>3 DEF SessionRows
  <2>5. UNCHANGED password
    BY <1>4 DEF ExtendSession, MarkRevoked
  <2> QED
    BY <1>1, <1>2, <2>1, <2>2, <2>3, <2>4, <2>5, OneSessionWrite DEF OpenSession
<1>5. CASE SavePassword(h)
  <2>1. /\ call[h].user \in Users /\ UNCHANGED session
        /\ password' = [password EXCEPT ![call[h].user] = password[call[h].user] + 1]
    BY <1>5, CallFields DEF SavePassword, UserOps
  <2>2. \A u \in Users : lastReset[u] <= password'[u]
    BY <1>1, <2>1 DEF AccessOK, LoginsOK
  <2>3. LoginsCurrent'
    BY <1>2, <2>1, <2>2, NothingToClose DEF LoginsCurrent, OpenSession
  <2> QED
    BY <1>2, <2>3, ReturnsAlone
<1> QED
  BY <1>3, <1>4, <1>5

\* Sessions that close or lapse, or keep their row, stay current.
LEMMA FewerOpen ==
  ASSUME AccessOK, Current, UNCHANGED <<account, call, password, lastReset>>,
         \A s \in Sessions : /\ OpenSession(s)' => OpenSession(s)
                             /\ session'[s].user = session[s].user /\ session'[s].password = session[s].password
  PROVE  CurrentAlone'
<1>1. \A h \in AdminRequests : LetIn(call[h])'
  BY DEF Current, LetIn
<1>2. \A u : Closing(u)' <=> Closing(u)
  BY DEF Closing
<1>3. Current'
  BY <1>1, <1>2 DEF Current
<1> QED
  BY <1>3 DEF CurrentAlone

LEMMA TimeWrites ==
  ASSUME AccessOK, Current, RevokeAllSessions \/ SessionLapses \/ TokenLapses
  PROVE  CurrentAlone'
<1>1. UNCHANGED <<account, call, password, lastReset>>
  BY DEF RevokeAllSessions, SessionLapses, TokenLapses, rights
<1>2. ASSUME NEW s \in Sessions
      PROVE  /\ OpenSession(s)' => OpenSession(s)
             /\ session'[s].user = session[s].user /\ session'[s].password = session[s].password
  <2>1. PICK y \in SessionRows : y = session[s]
    BY DEF AccessOK, LoginsOK, SessionRows
  <2>2. session'[s] \in {y, [y EXCEPT !.revoked = TRUE], [y EXCEPT !.lapsed = TRUE]}
    <3>1. CASE RevokeAllSessions
      BY <2>1, <3>1 DEF RevokeAllSessions
    <3>2. CASE SessionLapses
      BY <2>1, <3>2 DEF SessionLapses, AccessOK, LoginsOK
    <3>3. CASE TokenLapses
      BY <2>1, <3>3 DEF TokenLapses
    <3> QED
      BY <3>1, <3>2, <3>3
  <2> QED
    BY <2>1, <2>2 DEF OpenSession, SessionRows
<1> QED
  BY <1>1, <1>2, FewerOpen

LEMMA CurrentIsInductive == AccessOK /\ CurrentAlone /\ [AdminNext]_adminVars => CurrentAlone'
<1> SUFFICES ASSUME AccessOK, CurrentAlone, [AdminNext]_adminVars, ~raced', adminFaults' = 0
             PROVE  CurrentAlone'
  BY DEF CurrentAlone
<1>1. ASSUME raced' = raced, adminFaults' = adminFaults PROVE Current
  BY <1>1 DEF CurrentAlone
<1>2. CASE UNCHANGED adminVars
  BY <1>1, <1>2, FewerOpen DEF adminVars, rights, logins, OpenSession
<1>3. ASSUME NEW h \in AdminRequests, RightsStep(h) PROVE CurrentAlone'
  <2>1. CASE CreateUser(h) \/ UpdateUser(h) \/ UpdateStatus(h) \/ DeleteUser(h) \/ CreateRole(h)
             \/ UpdateRole(h) \/ DeleteRole(h) \/ UpdateRolePermissions(h) \/ DeletePermission(h)
             \/ UpdateUserPermissions(h)
    BY <2>1, RightsBegin
  <2>2. CASE StoreUser(h) \/ SaveUser(h) \/ StoreRole(h) \/ SaveRole(h) \/ RemoveRole(h)
             \/ ReplaceRolePermissions(h) \/ RemovePermission(h) \/ ReplaceUserPermissions(h)
    <3>1. Current
      BY <1>1, <2>2 DEF StoreUser, SaveUser, StoreRole, SaveRole, RemoveRole, ReplaceRolePermissions,
                        RemovePermission, ReplaceUserPermissions, End
    <3> QED
      BY <2>2, <3>1, RightsWrite
  <2>3. CASE SaveStatus(h)
    <3>1. Current
      BY <1>1, <2>3 DEF SaveStatus, End
    <3> QED
      BY <2>3, <3>1, StatusWrite
  <2>4. CASE RevokeRest(h) \/ RemoveUser(h)
    <3>1. Current
      BY <1>1, <2>4 DEF RevokeRest, RemoveUser, End
    <3> QED
      BY <2>4, <3>1, UserCloses
  <2> QED
    BY <1>3, <2>1, <2>2, <2>3, <2>4 DEF RightsStep
<1>4. ASSUME NEW h \in AdminRequests, LoginStep(h) PROVE CurrentAlone'
  <2>1. CASE Login(h) \/ RefreshToken(h) \/ Logout(h) \/ RevokeSession(h) \/ ChangePassword(h)
             \/ RequestPasswordReset(h) \/ CompletePasswordReset(h)
    BY <2>1, LoginsBegin
  <2>2. CASE StartSession(h) \/ ExtendSession(h) \/ MarkRevoked(h) \/ SavePassword(h) \/ StoreToken(h)
             \/ ResetPassword(h)
    <3>1. Current
      BY <1>1, <2>2 DEF StartSession, ExtendSession, MarkRevoked, SavePassword, StoreToken, ResetPassword, End
    <3> QED
      BY <2>2, <3>1, SessionsWrite, RightsWrite, UserCloses
  <2> QED
    BY <1>4, <2>1, <2>2 DEF LoginStep
<1>5. ASSUME NEW h \in AdminRequests, RequestFails(h) PROVE FALSE
  BY <1>5 DEF RequestFails, AccessOK, CallsOK
<1>6. CASE RevokeAllSessions \/ SessionLapses \/ TokenLapses
  <2>1. Current
    BY <1>1, <1>6 DEF RevokeAllSessions, SessionLapses, TokenLapses
  <2> QED
    BY <1>6, <2>1, TimeWrites
<1> QED
  BY <1>2, <1>3, <1>4, <1>5, <1>6 DEF AdminNext

LEMMA CurrentStarts == AdminInit => CurrentAlone
BY DEF AdminInit, CurrentAlone, Current, LetIn, OpenSession, NoSession, NoCall

\* AuthService, SessionsService and UsersService together: where requests do not overlap
\* and none stops half-way, an open session belongs to an active user and was opened
\* with a password at least as new as the last reset.
THEOREM SessionsStayCurrent == AdminSpec => []SessionsAreCurrent
<1>1. CurrentAlone => SessionsAreCurrent
  BY DEF CurrentAlone, Current, Closing, SessionsAreCurrent
<1> QED
  BY <1>1, CurrentStarts, CurrentIsInductive, AlwaysAccessOK, PTL DEF AdminSpec

-----------------------------------------------------------------------------
(* PortalAccess: codes and sessions of a customer.                            *)

Trusted == {"marked", "unknown", "welcome"}  \* a request that has a code to its name

\* What a request has in hand: a code, used up once it is trusted, or a session.
ItemsOK ==
  \A h \in PortalRequests :
    /\ step[h] \in Trusted \cup {"matched"} => item[h] \in Codes
    /\ step[h] \in Trusted => used[item[h]]
    /\ step[h] \in {"found", "allowed", "leaving"} => item[h] \in PortalSessions /\ login[item[h]] # 0

\* A session descends from a code that is used.
Spent == \A s \in PortalSessions : login[s] # 0 => used[login[s]]

\* Codes are stored in their order.
Ordered == \A c, d \in Codes : c \in Stored /\ d < c => d \in Stored

\* One request at a time.
Alone ==
  ~portalRaced => \A g, h \in PortalRequests : step[g] # "idle" /\ step[h] # "idle" => g = h

\* Before a code is stored, no other can be used.
Cleared ==
  ~portalRaced => \A h \in PortalRequests : step[h] = "cleared" => \A c \in Codes : ~Usable(c)

\* The code in hand is not used before it is marked, and no open session descends from
\* the code of a request that is trusted; none but the one that is refreshed, before that.
Unshared ==
  ~portalRaced => \A h \in PortalRequests :
    /\ step[h] = "matched" => ~used[item[h]]
    /\ step[h] \in Trusted => \A s \in PortalSessions : Live(s) => login[s] # item[h]
    /\ step[h] \in {"found", "allowed"} =>
         \A s \in PortalSessions : Live(s) /\ login[s] = login[item[h]] => s = item[h]

CodesInv == Ordered /\ Alone /\ Cleared /\ OnlyNewestCode
SessionsInv == Spent /\ Unshared /\ OneSessionPerCode
CodesOK == PortalTypeOK /\ ItemsOK /\ CodesInv /\ SessionsInv

LEMMA Numbers ==
  /\ Codes \subseteq Nat /\ 0 \notin Codes
  /\ PortalSessions \subseteq Nat
BY PortalAssumption DEF Codes, PortalSessions

-----------------------------------------------------------------------------
(* Steps that change nothing but where a request is.                          *)

\* A request goes on, with the code or session it has in hand, or is done.
LEMMA MoveKeeps ==
  ASSUME CodesOK, NEW h \in PortalRequests, NEW p \in Steps, step[h] # "idle",
         step' = [step EXCEPT ![h] = p],
         item' = [item EXCEPT ![h] = IF p = "idle" THEN 0 ELSE @],
         UNCHANGED <<age, used, login, ended, portalRaced>>,
         p # "cleared", p # "matched",
         p \in Trusted => step[h] \in Trusted,
         p \in {"found", "allowed"} => step[h] \in {"found", "allowed"},
         p # "leaving"
  PROVE  ItemsOK' /\ CodesInv' /\ SessionsInv' /\ step' \in [PortalRequests -> Steps]
         /\ item' \in [PortalRequests -> Nat]
<1>1. step' \in [PortalRequests -> Steps] /\ item' \in [PortalRequests -> Nat]
  BY DEF CodesOK, PortalTypeOK
<1>2. ItemsOK'
  BY DEF CodesOK, PortalTypeOK, ItemsOK, Trusted, Steps
<1>3. CodesInv'
  <2>1. Ordered' /\ OnlyNewestCode'
    BY DEF CodesOK, CodesInv, Ordered, OnlyNewestCode, Usable, Stored
  <2>2. Alone' /\ Cleared'
    BY DEF CodesOK, PortalTypeOK, CodesInv, Alone, Cleared, Usable
  <2> QED
    BY <2>1, <2>2 DEF CodesInv
<1>4. SessionsInv'
  <2>1. Spent' /\ OneSessionPerCode'
    BY DEF CodesOK, SessionsInv, Spent, OneSessionPerCode, Live
  <2>2. Unshared'
    BY DEF CodesOK, PortalTypeOK, SessionsInv, Unshared, Live, Trusted
  <2> QED
    BY <2>1, <2>2 DEF SessionsInv
<1> QED
  BY <1>1, <1>2, <1>3, <1>4

LEMMA PlainSteps ==
  ASSUME CodesOK, NEW h \in PortalRequests,
         \/ CheckHourlyRateLimit(h) \/ FindIdentity(h) \/ CreateIdentity(h) \/ CheckIdentity(h)
         \/ PortalRequestFails(h)
  PROVE  CodesOK'
<1>1. PICK p \in {"idle", "counted", "unknown", "welcome", "allowed"} :
        /\ step[h] # "idle"
        /\ step' = [step EXCEPT ![h] = p]
        /\ item' = [item EXCEPT ![h] = IF p = "idle" THEN 0 ELSE @]
        /\ p \in {"unknown", "welcome"} => step[h] \in Trusted
        /\ p = "allowed" => step[h] = "found"
        /\ UNCHANGED <<age, used, login, ended, portalRaced>>
  BY DEF CheckHourlyRateLimit, FindIdentity, CreateIdentity, CheckIdentity, PortalRequestFails, Move,
         Trusted
<1>2. identity' \in {"none", "active", "inactive"} /\ portalFaults' \in 0 .. MaxPortalFaults
  BY PortalAssumption DEF CheckHourlyRateLimit, FindIdentity, CreateIdentity, CheckIdentity,
         PortalRequestFails, Move, CodesOK, PortalTypeOK
<1>3. ItemsOK' /\ CodesInv' /\ SessionsInv' /\ step' \in [PortalRequests -> Steps]
      /\ item' \in [PortalRequests -> Nat]
  BY <1>1, MoveKeeps DEF Steps, Trusted
<1> QED
  BY <1>1, <1>2, <1>3 DEF CodesOK, PortalTypeOK

-----------------------------------------------------------------------------
(* A request arrives.                                                         *)

LEMMA EnterAlone ==
  ASSUME CodesOK, NEW h \in PortalRequests, NEW p \in Steps, NEW x, Enter(h, p, x), p # "idle"
  PROVE  /\ \A g \in PortalRequests : step'[g] = IF g = h THEN p ELSE step[g]
         /\ \A g \in PortalRequests : item'[g] = IF g = h THEN x ELSE item[g]
         /\ step' \in [PortalRequests -> Steps]
         /\ ~portalRaced' => ~portalRaced /\ \A g \in PortalRequests : step[g] = "idle"
         /\ portalRaced' \in BOOLEAN /\ portalFaults' \in 0 .. MaxPortalFaults
BY DEF Enter, CodesOK, PortalTypeOK

LEMMA CheckResendCooldownKeeps ==
  ASSUME CodesOK, NEW h \in PortalRequests, CheckResendCooldown(h)
  PROVE  CodesOK'
<1>1. Enter(h, "cooled", 0) /\ "cooled" \in Steps /\ UNCHANGED <<identity, age, used, login, ended>>
  BY DEF CheckResendCooldown, Steps
<1>2. item' \in [PortalRequests -> Nat]
  BY <1>1 DEF Enter, CodesOK, PortalTypeOK
<1>3. PortalTypeOK' /\ ItemsOK'
  BY <1>1, <1>2, EnterAlone DEF CodesOK, PortalTypeOK, ItemsOK, Trusted
<1>4. CodesInv'
  BY <1>1, EnterAlone
  DEF CodesOK, CodesInv, Ordered, Alone, Cleared, OnlyNewestCode, Usable, Stored
<1>5. SessionsInv'
  BY <1>1, EnterAlone DEF CodesOK, SessionsInv, Spent, Unshared, OneSessionPerCode, Live, Trusted
<1> QED
  BY <1>3, <1>4, <1>5 DEF CodesOK

LEMMA FindCodeKeeps ==
  ASSUME CodesOK, NEW h \in PortalRequests, FindCode(h)
  PROVE  CodesOK'
<1>1. PICK c \in Codes : Usable(c) /\ Enter(h, "matched", c)
  BY DEF FindCode
<1>2. "matched" \in Steps /\ UNCHANGED <<identity, age, used, login, ended>>
  BY DEF FindCode, Steps
<1>3. item' \in [PortalRequests -> Nat]
  BY <1>1, Numbers DEF Enter, CodesOK, PortalTypeOK
<1>4. PortalTypeOK' /\ ItemsOK'
  BY <1>1, <1>2, <1>3, EnterAlone DEF CodesOK, PortalTypeOK, ItemsOK, Trusted
<1>5. CodesInv'
  BY <1>1, <1>2, EnterAlone
  DEF CodesOK, CodesInv, Ordered, Alone, Cleared, OnlyNewestCode, Usable, Stored
<1>6. SessionsInv'
  BY <1>1, <1>2, EnterAlone
  DEF CodesOK, SessionsInv, Spent, Unshared, OneSessionPerCode, Live, Trusted, Usable
<1> QED
  BY <1>4, <1>5, <1>6 DEF CodesOK

LEMMA FindSessionKeeps ==
  ASSUME CodesOK, NEW h \in PortalRequests, FindSession(h)
  PROVE  CodesOK'
<1>1. PICK s \in PortalSessions, p \in {"found", "leaving"} : Live(s) /\ Enter(h, p, s)
  BY DEF FindSession
<1>2. p \in Steps /\ p # "idle" /\ UNCHANGED <<identity, age, used, login, ended>>
  BY DEF FindSession, Steps
<1>3. item' \in [PortalRequests -> Nat]
  BY <1>1, Numbers DEF Enter, CodesOK, PortalTypeOK
<1>4. PortalTypeOK' /\ ItemsOK'
  BY <1>1, <1>2, <1>3, EnterAlone DEF CodesOK, PortalTypeOK, ItemsOK, Trusted, Live
<1>5. CodesInv'
  BY <1>1, <1>2, EnterAlone
  DEF CodesOK, CodesInv, Ordered, Alone, Cleared, OnlyNewestCode, Usable, Stored
<1>6. SessionsInv'
  BY <1>1, <1>2, EnterAlone
  DEF CodesOK, SessionsInv, Spent, Unshared, OneSessionPerCode, Live, Trusted
<1> QED
  BY <1>4, <1>5, <1>6 DEF CodesOK

-----------------------------------------------------------------------------
(* Codes.                                                                     *)

LEMMA MoveStep ==
  ASSUME CodesOK, NEW h \in PortalRequests, NEW p \in Steps, Move(h, p)
  PROVE  /\ \A g \in PortalRequests : step'[g] = IF g = h THEN p ELSE step[g]
         /\ \A g \in PortalRequests : item'[g] = IF g = h /\ p = "idle" THEN 0 ELSE item[g]
         /\ step' \in [PortalRequests -> Steps] /\ item' \in [PortalRequests -> Nat]
         /\ portalRaced' = portalRaced
         /\ portalRaced' \in BOOLEAN /\ portalFaults' \in 0 .. MaxPortalFaults
BY DEF Move, CodesOK, PortalTypeOK

LEMMA InvalidateCodesKeeps ==
  ASSUME CodesOK, NEW h \in PortalRequests, InvalidateCodes(h)
  PROVE  CodesOK'
<1>1. /\ step[h] = "counted" /\ Move(h, "cleared") /\ "cleared" \in Steps
      /\ UNCHANGED <<identity, age, login, ended>>
  BY DEF InvalidateCodes, Steps
<1>2. /\ used' \in [Codes -> BOOLEAN]
      /\ \A c \in Codes : used[c] => used'[c]
      /\ \A c \in Codes : age[c] # "none" => used'[c]
  BY DEF InvalidateCodes, Stored, CodesOK, PortalTypeOK
<1>3. PortalTypeOK'
  BY <1>1, <1>2, MoveStep DEF CodesOK, PortalTypeOK
<1>4. ItemsOK'
  BY <1>1, <1>2, MoveStep DEF CodesOK, ItemsOK, Trusted
<1>5. CodesInv'
  <2>1. \A c \in Codes : ~Usable(c)'
    BY <1>1, <1>2 DEF Usable
  <2> QED
    BY <1>1, <2>1, MoveStep DEF CodesOK, CodesInv, Ordered, Alone, Cleared, OnlyNewestCode, Stored
<1>6. SessionsInv'
  <2>1. Spent' /\ OneSessionPerCode'
    BY <1>1, <1>2, MoveStep DEF CodesOK, PortalTypeOK, SessionsInv, Spent, OneSessionPerCode, Live
  <2>2. Unshared'
    BY <1>1, MoveStep DEF CodesOK, CodesInv, Alone, SessionsInv, Unshared, Live, Trusted
  <2> QED
    BY <2>1, <2>2 DEF SessionsInv
<1> QED
  BY <1>3, <1>4, <1>5, <1>6 DEF CodesOK

LEMMA StoreCodeKeeps ==
  ASSUME CodesOK, NEW h \in PortalRequests, StoreCode(h)
  PROVE  CodesOK'
<1>1. /\ step[h] = "cleared" /\ Move(h, "idle") /\ "idle" \in Steps
      /\ UNCHANGED <<identity, used, login, ended>>
  BY DEF StoreCode, Steps
<1>2. PICK c \in Codes : /\ c \notin Stored /\ \A d \in Codes \ Stored : c <= d
                         /\ age' = [age EXCEPT ![c] = "fresh"]
  BY DEF StoreCode
<1>3. \A d \in Codes : age'[d] = IF d = c THEN "fresh" ELSE age[d]
  BY <1>2 DEF CodesOK, PortalTypeOK
<1>4. PortalTypeOK' /\ ItemsOK'
  BY <1>1, <1>2, MoveStep DEF CodesOK, PortalTypeOK, ItemsOK, Trusted, Ages
<1>5. Stored' = Stored \cup {c}
  BY <1>3 DEF Stored
<1>6. \A d \in Stored : d < c
  BY <1>2, Numbers DEF CodesOK, CodesInv, Ordered, Stored
<1>7. CodesInv'
  <2>1. Ordered'
    BY <1>2, <1>5, <1>6, Numbers DEF CodesOK, CodesInv, Ordered
  <2>2. Alone' /\ Cleared'
    BY <1>1, MoveStep DEF CodesOK, CodesInv, Alone, Cleared
  <2>3. ~portalRaced => \A d \in Codes : d # c => ~Usable(d)'
    BY <1>1, <1>3 DEF CodesOK, CodesInv, Cleared, Usable
  <2>4. \A d \in Stored' : d <= c
    <3>1. c \in Nat /\ Stored \subseteq Nat
      BY <1>2, Numbers DEF Stored
    <3>2. \A d \in Stored \cup {c} : d <= c
      BY <3>1, <1>6
    <3> QED
      BY <3>2, <1>5
  <2>5. portalRaced' = portalRaced
    BY <1>1, MoveStep
  <2>6. OnlyNewestCode'
    BY <2>3, <2>4, <2>5 DEF OnlyNewestCode
  <2> QED
    BY <2>1, <2>2, <2>6 DEF CodesInv
<1>8. SessionsInv'
  BY <1>1, MoveStep DEF CodesOK, SessionsInv, Spent, Unshared, OneSessionPerCode, Live, Trusted
<1> QED
  BY <1>4, <1>7, <1>8 DEF CodesOK

LEMMA MarkUsedKeeps ==
  ASSUME CodesOK, NEW h \in PortalRequests, MarkUsed(h)
  PROVE  CodesOK'
<1>1. /\ step[h] = "matched" /\ Move(h, "marked") /\ "marked" \in Steps
      /\ UNCHANGED <<identity, age, login, ended>>
  BY DEF MarkUsed, Steps
<1>2. item[h] \in Codes
  BY <1>1 DEF CodesOK, ItemsOK
<1>3. /\ used' \in [Codes -> BOOLEAN] /\ used'[item[h]]
      /\ \A c \in Codes : used[c] => used'[c]
  BY <1>2 DEF MarkUsed, CodesOK, PortalTypeOK
<1>4. PortalTypeOK' /\ ItemsOK'
  BY <1>1, <1>2, <1>3, MoveStep DEF CodesOK, PortalTypeOK, ItemsOK, Trusted
<1>5. CodesInv'
  <2>1. \A c \in Codes : Usable(c)' => Usable(c)
    BY <1>1, <1>3 DEF Usable
  <2> QED
    BY <1>1, <2>1, MoveStep DEF CodesOK, CodesInv, Ordered, Alone, Cleared, OnlyNewestCode, Stored
<1>6. Spent' /\ OneSessionPerCode'
  BY <1>1, <1>3, MoveStep DEF CodesOK, PortalTypeOK, SessionsInv, Spent, OneSessionPerCode, Live
<1>7. ~portalRaced => \A s \in PortalSessions : Live(s) => login[s] # item[h]
  BY <1>1 DEF CodesOK, SessionsInv, Spent, Unshared, Live
<1>8. Unshared'
  BY <1>1, <1>7, MoveStep DEF CodesOK, CodesInv, Alone, SessionsInv, Unshared, Live, Trusted
<1> QED
  BY <1>4, <1>5, <1>6, <1>8 DEF CodesOK, SessionsInv

-----------------------------------------------------------------------------
(* Sessions.                                                                  *)

LEMMA CreateSessionKeeps ==
  ASSUME CodesOK, NEW h \in PortalRequests, CreateSession(h)
  PROVE  CodesOK'
<1>1. /\ step[h] = "welcome" /\ Move(h, "idle") /\ "idle" \in Steps
      /\ UNCHANGED <<identity, age, used, ended>>
  BY DEF CreateSession, Steps
<1>2. PICK s \in PortalSessions : login[s] = 0 /\ login' = [login EXCEPT ![s] = item[h]]
  BY DEF CreateSession
<1>3. item[h] \in Codes /\ item[h] # 0 /\ used[item[h]]
  BY <1>1, Numbers DEF CodesOK, ItemsOK, Trusted
<1>4. \A r \in PortalSessions : login'[r] = IF r = s THEN item[h] ELSE login[r]
  BY <1>2 DEF CodesOK, PortalTypeOK
<1>5. PortalTypeOK'
  BY <1>1, <1>2, <1>3, MoveStep DEF CodesOK, PortalTypeOK
<1>6. ItemsOK'
  BY <1>1, <1>2, <1>4, MoveStep DEF CodesOK, ItemsOK, Trusted
<1>7. CodesInv'
  BY <1>1, MoveStep
  DEF CodesOK, CodesInv, Ordered, Alone, Cleared, OnlyNewestCode, Usable, Stored
<1>8. Spent'
  BY <1>1, <1>3, <1>4 DEF CodesOK, SessionsInv, Spent
<1>9. OneSessionPerCode'
  <2>1. ~portalRaced => \A r \in PortalSessions : Live(r) => login[r] # item[h]
    BY <1>1 DEF CodesOK, SessionsInv, Unshared, Trusted
  <2>2. \A r \in PortalSessions : r # s => (Live(r)' <=> Live(r))
    BY <1>1, <1>4 DEF Live
  <2>3. portalRaced' = portalRaced
    BY <1>1, MoveStep
  <2> QED
    BY <1>4, <2>1, <2>2, <2>3 DEF CodesOK, SessionsInv, OneSessionPerCode
<1>10. Unshared'
  <2>1. ~portalRaced' => \A g \in PortalRequests : step'[g] = "idle"
    BY <1>1, MoveStep DEF CodesOK, CodesInv, Alone
  <2> QED
    BY <2>1 DEF Unshared, Trusted
<1> QED
  BY <1>5, <1>6, <1>7, <1>8, <1>9, <1>10 DEF CodesOK, SessionsInv

\* A session is closed: fewer are open, everything else about codes is as before.
LEMMA ClosedCodes ==
  ASSUME CodesOK, UNCHANGED <<age, used, portalRaced>>,
         \A g \in PortalRequests : step'[g] = step[g] \/ step'[g] \in {"welcome", "idle"},
         \A g \in PortalRequests : step'[g] # "idle" => step[g] # "idle"
  PROVE  CodesInv'
BY DEF CodesOK, CodesInv, Ordered, Alone, Cleared, OnlyNewestCode, Usable, Stored

LEMMA RevokeOldKeeps ==
  ASSUME CodesOK, NEW h \in PortalRequests, RevokeOld(h)
  PROVE  CodesOK'
<1>1. step[h] = "allowed" /\ UNCHANGED <<identity, age, used, login, portalRaced, portalFaults>>
  BY DEF RevokeOld
<1>2. item[h] \in PortalSessions /\ login[item[h]] # 0 /\ login[item[h]] \in Codes
  BY <1>1 DEF CodesOK, ItemsOK, PortalTypeOK
<1>3. /\ \A g \in PortalRequests : step'[g] = IF g = h THEN "welcome" ELSE step[g]
      /\ \A g \in PortalRequests : item'[g] = IF g = h THEN login[item[h]] ELSE item[g]
      /\ \A s \in PortalSessions : ended'[s] = IF s = item[h] THEN "revoked" ELSE ended[s]
  BY <1>2 DEF RevokeOld, CodesOK, PortalTypeOK
<1>4. PortalTypeOK'
  BY <1>1, <1>2, Numbers DEF RevokeOld, CodesOK, PortalTypeOK, Steps
<1>5. ItemsOK'
  BY <1>1, <1>2, <1>3 DEF CodesOK, ItemsOK, Trusted, SessionsInv, Spent
<1>6. CodesInv'
  BY <1>1, <1>3, ClosedCodes
<1>7. Spent' /\ OneSessionPerCode'
  BY <1>1, <1>3 DEF CodesOK, SessionsInv, Spent, OneSessionPerCode, Live
<1>8. \A s \in PortalSessions : Live(s)' => Live(s) /\ s # item[h]
  BY <1>1, <1>3 DEF Live
<1>9. Unshared'
  <2> SUFFICES ASSUME ~portalRaced, NEW g \in PortalRequests
               PROVE  /\ step'[g] = "matched" => ~used[item'[g]]
                      /\ step'[g] \in Trusted =>
                           \A s \in PortalSessions : Live(s)' => login[s] # item'[g]
                      /\ step'[g] \in {"found", "allowed"} =>
                           \A s \in PortalSessions :
                             Live(s)' /\ login[s] = login[item'[g]] => s = item'[g]
    BY <1>1 DEF Unshared
  <2>1. CASE g = h
    <3>1. \A s \in PortalSessions : Live(s) /\ login[s] = login[item[h]] => s = item[h]
      BY <1>1 DEF CodesOK, SessionsInv, Unshared
    <3> QED
      BY <2>1, <3>1, <1>3, <1>8
  <2>2. CASE g # h
    <3>1. step'[g] = "idle"
      BY <2>2, <1>1, <1>3 DEF CodesOK, CodesInv, Alone
    <3> QED
      BY <3>1 DEF Trusted
  <2> QED
    BY <2>1, <2>2
<1> QED
  BY <1>4, <1>5, <1>6, <1>7, <1>9 DEF CodesOK, SessionsInv

LEMMA PortalLogoutKeeps ==
  ASSUME CodesOK, NEW h \in PortalRequests, PortalLogout(h)
  PROVE  CodesOK'
<1>1. /\ step[h] = "leaving" /\ Move(h, "idle") /\ "idle" \in Steps
      /\ UNCHANGED <<identity, age, used, login>>
  BY DEF PortalLogout, Steps
<1>2. item[h] \in PortalSessions
  BY <1>1 DEF CodesOK, ItemsOK
<1>3. PortalTypeOK' /\ ItemsOK'
  BY <1>1, <1>2, MoveStep DEF PortalLogout, CodesOK, PortalTypeOK, ItemsOK, Trusted
<1>4. CodesInv'
  BY <1>1, MoveStep, ClosedCodes
<1>5. \A s \in PortalSessions : Live(s)' => Live(s)
  BY <1>1, <1>2 DEF PortalLogout, Live, CodesOK, PortalTypeOK
<1>6. SessionsInv'
  BY <1>1, <1>5, MoveStep DEF CodesOK, SessionsInv, Spent, Unshared, OneSessionPerCode, Trusted
<1> QED
  BY <1>3, <1>4, <1>6 DEF CodesOK

LEMMA LapseKeeps ==
  ASSUME CodesOK, PortalSessionLapses
  PROVE  CodesOK'
<1>1. UNCHANGED <<identity, age, used, login, step, item, portalRaced, portalFaults>>
  BY DEF PortalSessionLapses
<1>2. /\ ended' \in [PortalSessions -> {"no", "revoked", "lapsed"}]
      /\ \A s \in PortalSessions : Live(s)' => Live(s)
  BY DEF PortalSessionLapses, Live, CodesOK, PortalTypeOK
<1>3. PortalTypeOK' /\ ItemsOK'
  BY <1>1, <1>2 DEF CodesOK, PortalTypeOK, ItemsOK
<1>4. CodesInv'
  BY <1>1, ClosedCodes
<1>5. SessionsInv'
  BY <1>1, <1>2 DEF CodesOK, SessionsInv, Spent, Unshared, OneSessionPerCode
<1> QED
  BY <1>3, <1>4, <1>5 DEF CodesOK

LEMMA CodeAgesKeeps ==
  ASSUME CodesOK, CodeAges
  PROVE  /\ CodesOK'
         /\ \A c \in Codes : /\ age'[c] = "none" <=> age[c] = "none"
                             /\ age'[c] \in {"fresh", "valid", "expired"} =>
                                  age[c] \in {"fresh", "valid", "expired"}
<1>1. UNCHANGED <<identity, used, login, ended, step, item, portalRaced, portalFaults>>
  BY DEF CodeAges
<1>2. PICK c \in Stored : age[c] # "old" /\ age' = [age EXCEPT ![c] = Older[@]]
  BY DEF CodeAges
<1>3. age[c] \in {"fresh", "valid", "expired"} /\ c \in Codes
  BY <1>2 DEF Stored, CodesOK, PortalTypeOK, Ages
<1>4. /\ age[c] = "fresh" => Older[age[c]] = "valid"
      /\ age[c] = "valid" => Older[age[c]] = "expired"
      /\ age[c] = "expired" => Older[age[c]] = "old"
  BY DEF Older
<1>5. /\ age' \in [Codes -> Ages]
      /\ \A d \in Codes : d # c => age'[d] = age[d]
      /\ age'[c] \in {"valid", "expired", "old"}
      /\ age'[c] = "valid" => age[c] = "fresh"
  BY <1>2, <1>3, <1>4 DEF CodesOK, PortalTypeOK, Ages
<1>6. \A d \in Codes : /\ age'[d] = "none" <=> age[d] = "none"
                       /\ age'[d] \in {"fresh", "valid", "expired"} =>
                            age[d] \in {"fresh", "valid", "expired"}
                       /\ Usable(d)' => Usable(d)
  BY <1>1, <1>3, <1>5 DEF Usable
<1>7. Stored' = Stored
  BY <1>6 DEF Stored
<1>8. CodesInv'
  BY <1>1, <1>6, <1>7 DEF CodesOK, CodesInv, Ordered, Alone, Cleared, OnlyNewestCode
<1>9. PortalTypeOK' /\ ItemsOK' /\ SessionsInv'
  BY <1>1, <1>5
  DEF CodesOK, PortalTypeOK, ItemsOK, SessionsInv, Spent, Unshared, OneSessionPerCode, Live
<1> QED
  BY <1>6, <1>8, <1>9 DEF CodesOK

LEMMA CodesStart == PortalInit => CodesOK
<1> SUFFICES ASSUME PortalInit PROVE CodesOK
  OBVIOUS
<1>1. PortalTypeOK
  <2>1. portalRaced \in BOOLEAN
    BY ZenonT(20) DEF PortalInit
  <2>2. used \in [Codes -> BOOLEAN]
    BY ZenonT(20) DEF PortalInit
  <2>3. portalFaults \in 0 .. MaxPortalFaults
    BY PortalAssumption DEF PortalInit
  <2>4. item \in [PortalRequests -> Nat] /\ step \in [PortalRequests -> Steps]
    BY DEF PortalInit, Steps
  <2>5. /\ identity \in {"none", "active", "inactive"} /\ age \in [Codes -> Ages]
        /\ login \in [PortalSessions -> Codes \cup {0}]
        /\ ended \in [PortalSessions -> {"no", "revoked", "lapsed"}]
    BY DEF PortalInit, Ages
  <2> QED
    BY <2>1, <2>2, <2>3, <2>4, <2>5 DEF PortalTypeOK
<1>2. ItemsOK /\ SessionsInv
  BY DEF PortalInit, ItemsOK, Trusted, SessionsInv, Spent, Unshared, OneSessionPerCode, Live
<1>3. CodesInv
  BY DEF PortalInit, CodesInv, Ordered, Alone, Cleared, OnlyNewestCode, Usable, Stored
<1> QED
  BY <1>1, <1>2, <1>3 DEF CodesOK

LEMMA CodesAreInductive == CodesOK /\ [PortalNext]_portalVars => CodesOK'
<1> SUFFICES ASSUME CodesOK, [PortalNext]_portalVars PROVE CodesOK'
  OBVIOUS
<1>1. CASE UNCHANGED portalVars
  BY <1>1 DEF portalVars, CodesOK, PortalTypeOK, ItemsOK, CodesInv, Ordered, Alone, Cleared,
              OnlyNewestCode, Usable, Stored, SessionsInv, Spent, Unshared, OneSessionPerCode, Live
<1>2. ASSUME NEW h \in PortalRequests,
             SendOtp(h) \/ VerifyOtp(h) \/ UseSession(h) \/ PortalRequestFails(h)
      PROVE  CodesOK'
  BY <1>2, PlainSteps, CheckResendCooldownKeeps, FindCodeKeeps, FindSessionKeeps, InvalidateCodesKeeps,
     StoreCodeKeeps, MarkUsedKeeps, CreateSessionKeeps, RevokeOldKeeps, PortalLogoutKeeps
  DEF SendOtp, VerifyOtp, UseSession
<1> QED
  BY <1>1, <1>2, CodeAgesKeeps, LapseKeeps DEF PortalNext

-----------------------------------------------------------------------------
(* The hourly limit.                                                          *)

Storing == {h \in PortalRequests : step[h] \in {"counted", "cleared"}}

LEMMA Finite ==
  /\ IsFiniteSet(Recent) /\ IsFiniteSet(Recent') /\ IsFiniteSet(Storing) /\ IsFiniteSet(Storing')
  /\ Cardinality(Recent) \in Nat /\ Cardinality(Recent') \in Nat
  /\ Cardinality(Storing) \in Nat /\ Cardinality(Storing') \in Nat
  /\ Cardinality(PortalRequests) \in Nat
  /\ Cardinality(Storing') <= Cardinality(PortalRequests)
<1>1. IsFiniteSet(Codes)
  BY PortalAssumption, FS_Interval DEF Codes
<1>2. Recent \subseteq Codes /\ Recent' \subseteq Codes
  BY DEF Recent
<1>3. Storing \subseteq PortalRequests /\ Storing' \subseteq PortalRequests
  BY DEF Storing
<1> QED
  BY <1>1, <1>2, <1>3, PortalAssumption, FS_Subset, FS_CardinalityType

\* No more codes of the last hour and no more requests about to store one.
LEMMA FewerBounded ==
  ASSUME HourlyBounded, Recent' \subseteq Recent, Storing' \subseteq Storing
  PROVE  HourlyBounded'
<1>1. Cardinality(Recent') <= Cardinality(Recent) /\ Cardinality(Storing') <= Cardinality(Storing)
  BY Finite, FS_Subset
<1> QED
  BY <1>1, Finite, PortalAssumption DEF HourlyBounded, Storing

\* The limit was not reached when it was read, and no more requests store at a time
\* than there are.
LEMMA CheckedBounded ==
  ASSUME CodesOK, HourlyBounded, NEW h \in PortalRequests, CheckHourlyRateLimit(h)
  PROVE  HourlyBounded'
<1>1. Recent' = Recent
  BY DEF CheckHourlyRateLimit, Recent
<1>2. CASE Cardinality(Recent) >= MaxPerHour
  <2>1. Storing' \subseteq Storing
    BY <1>2 DEF CheckHourlyRateLimit, Move, Storing, CodesOK, PortalTypeOK
  <2> QED
    BY <1>1, <2>1, FewerBounded
<1>3. CASE Cardinality(Recent) < MaxPerHour
  BY <1>1, <1>3, Finite, PortalAssumption DEF HourlyBounded, Storing
<1> QED
  BY <1>2, <1>3, Finite, PortalAssumption

\* One code more, and one request less that is about to store one.
LEMMA StoredBounded ==
  ASSUME CodesOK, HourlyBounded, NEW h \in PortalRequests, StoreCode(h)
  PROVE  HourlyBounded'
<1>1. PICK c \in Codes : age' = [age EXCEPT ![c] = "fresh"]
  BY DEF StoreCode
<1>2. Recent' \subseteq Recent \cup {c}
  BY <1>1 DEF Recent, CodesOK, PortalTypeOK
<1>3. h \in Storing /\ Storing' = Storing \ {h}
  BY DEF StoreCode, Move, Storing, CodesOK, PortalTypeOK
<1>4. Cardinality(Storing') = Cardinality(Storing) - 1
  BY <1>3, Finite, FS_RemoveElement
<1>5. Cardinality(Recent') <= Cardinality(Recent) + 1
  <2>1. IsFiniteSet(Recent \cup {c}) /\ Cardinality(Recent \cup {c}) <= Cardinality(Recent) + 1
    <3>1. IsFiniteSet(Recent) /\ Cardinality(Recent) \in Nat
      BY Finite
    <3>2. /\ IsFiniteSet(Recent \cup {c})
          /\ \/ Cardinality(Recent \cup {c}) = Cardinality(Recent)
             \/ Cardinality(Recent \cup {c}) = Cardinality(Recent) + 1
      BY <3>1, FS_AddElement
    <3> QED
      BY <3>1, <3>2
  <2>2. Cardinality(Recent') <= Cardinality(Recent \cup {c}) /\ Cardinality(Recent \cup {c}) \in Nat
    BY <1>2, <2>1, FS_Subset, FS_CardinalityType
  <2> QED
    BY <2>1, <2>2, Finite
<1> QED
  BY <1>4, <1>5, Finite, PortalAssumption DEF HourlyBounded, Storing

LEMMA InitBounded == PortalInit => HourlyBounded
<1> SUFFICES ASSUME PortalInit PROVE HourlyBounded
  OBVIOUS
<1>1. Recent = {} /\ Storing = {}
  BY DEF PortalInit, Recent, Storing
<1> QED
  BY <1>1, Finite, FS_EmptySet, PortalAssumption DEF HourlyBounded, Storing

LEMMA NextBounded == CodesOK /\ HourlyBounded /\ [PortalNext]_portalVars => HourlyBounded'
<1> SUFFICES ASSUME CodesOK, HourlyBounded, [PortalNext]_portalVars PROVE HourlyBounded'
  OBVIOUS
<1>1. CASE UNCHANGED portalVars
  BY <1>1, FewerBounded DEF portalVars, Recent, Storing
<1>2. ASSUME NEW h \in PortalRequests, CheckResendCooldown(h) \/ FindCode(h) \/ FindSession(h)
      PROVE  HourlyBounded'
  <2>1. PICK p \in {"cooled", "matched", "found", "leaving"} : step' = [step EXCEPT ![h] = p]
    BY <1>2 DEF CheckResendCooldown, FindCode, FindSession, Enter
  <2>2. UNCHANGED age
    BY <1>2 DEF CheckResendCooldown, FindCode, FindSession
  <2> QED
    BY <2>1, <2>2, FewerBounded DEF Recent, Storing, CodesOK, PortalTypeOK
<1>3. ASSUME NEW h \in PortalRequests,
             \/ InvalidateCodes(h) \/ MarkUsed(h) \/ FindIdentity(h) \/ CreateIdentity(h)
             \/ CreateSession(h) \/ CheckIdentity(h) \/ RevokeOld(h) \/ PortalLogout(h)
             \/ PortalRequestFails(h)
      PROVE  HourlyBounded'
  <2>1. PICK p \in {"cleared", "marked", "unknown", "welcome", "allowed", "idle"} :
          step' = [step EXCEPT ![h] = p] /\ (p = "cleared" => step[h] = "counted")
    BY <1>3 DEF InvalidateCodes, MarkUsed, FindIdentity, CreateIdentity, CreateSession, CheckIdentity,
                RevokeOld, PortalLogout, PortalRequestFails, Move
  <2>2. UNCHANGED age
    BY <1>3 DEF InvalidateCodes, MarkUsed, FindIdentity, CreateIdentity, CreateSession, CheckIdentity,
                RevokeOld, PortalLogout, PortalRequestFails
  <2> QED
    BY <2>1, <2>2, FewerBounded DEF Recent, Storing, CodesOK, PortalTypeOK
<1>4. CASE CodeAges
  <2>1. Recent' \subseteq Recent
    BY <1>4, CodeAgesKeeps DEF Recent
  <2>2. Storing' = Storing
    BY <1>4 DEF CodeAges, Storing
  <2> QED
    BY <2>1, <2>2, FewerBounded
<1>5. CASE PortalSessionLapses
  BY <1>5, FewerBounded DEF PortalSessionLapses, Recent, Storing
<1> QED
  BY <1>1, <1>2, <1>3, <1>4, <1>5, CheckedBounded, StoredBounded
  DEF PortalNext, SendOtp, VerifyOtp, UseSession

LEMMA AlwaysCodesOK == PortalSpec => []CodesOK
<1> QED
  BY CodesStart, CodesAreInductive, PTL DEF PortalSpec

\* Codes, sessions and requests in flight have their types.
THEOREM PortalTypes == PortalSpec => []PortalTypeOK
<1> QED
  BY AlwaysCodesOK, PTL DEF CodesOK

\* sendOtp checks the hourly limit before it stores a code: with any number of requests
\* at a time, the codes of an hour exceed OTP_MAX_ATTEMPTS_PER_HOUR by fewer than that.
THEOREM LimitHolds == PortalSpec => []HourlyBounded
<1> QED
  BY AlwaysCodesOK, InitBounded, NextBounded, PTL DEF PortalSpec

\* verifyOtp and refreshToken, one request at a time and stopped anywhere: no code, and
\* no chain of refreshes that begins with it, leads to two open sessions.
THEOREM SessionsAreSingle == PortalSpec => []OneSessionPerCode
<1>1. CodesOK => OneSessionPerCode
  BY DEF CodesOK, SessionsInv
<1> QED
  BY <1>1, AlwaysCodesOK, PTL

\* sendOtp, one request at a time and stopped anywhere, leaves no older code that works.
THEOREM OldCodesAreDead == PortalSpec => []OnlyNewestCode
<1>1. CodesOK => OnlyNewestCode
  BY DEF CodesOK, CodesInv
<1> QED
  BY <1>1, AlwaysCodesOK, PTL
=============================================================================
