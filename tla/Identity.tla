------------------------------ MODULE Identity ------------------------------
(***************************************************************************)
(* People, groups, roles and sessions: the SCIM endpoint (scim/handler.go), *)
(* OIDC login and the session checks (auth/auth.go), and the tables they    *)
(* write (database/database.go).                                            *)
(*                                                                          *)
(* A request is a process: the handler's calls to the store are its steps,  *)
(* each one an SQLite statement or transaction, and other requests run      *)
(* between them.  A loop over memberships is one step.  The variable req    *)
(* holds what the handler keeps in its local variables.                     *)
(*                                                                          *)
(* The identity provider gives a person the same stable value as OIDC       *)
(* subject and as SCIM externalId (docs/ACCESS_CONTROL.md), so a person     *)
(* stands for both; the user name is mutable and comes with every request.  *)
(***************************************************************************)
EXTENDS Naturals, FiniteSets, TLC

CONSTANTS
  Requests,       \* request processes: one means that requests never overlap
  People,         \* subjects of the identity provider
  Names,          \* user names
  Renamed,        \* bound: the people whose name may change
  HomeName,       \* bound: the name of everybody else
  GroupNames,     \* display names of groups
  AdminGroup,     \* OIDC_ADMIN_GROUP
  UserGroup,      \* OIDC_USER_GROUP
  MaxUsers,       \* bound: rows of users
  MaxGroups,      \* bound: rows of scim_groups over the whole run (ids are never reused)
  Sids,           \* bound: sessions at a time
  MaxRefs,        \* bound: group references in a request about a user
  MaxRequests,    \* bound: requests that change something over the whole run
  None            \* the empty string or NULL

VARIABLES
  users,      \* rows of users by id, None where there is none yet
  groups,     \* rows of scim_groups by id
  gseq,       \* the last group id given
  members,    \* rows of scim_group_members: pairs of group id and user id
  identity,   \* game_identities by user name: the source and whose it is
  sessions,   \* rows of sessions
  req,        \* the requests under way
  begun,      \* how many requests arrived
  failed,     \* history: users whose role a request did not get to: it answered an
              \* error after a change, or its adoption of a group left them out
  kept        \* history: users whose role changed without a call that revokes sessions

vars == <<users, groups, gseq, members, identity, sessions, req, begun, failed, kept>>

Claims == {c \in People \X Names : c[1] \in Renamed \/ c[2] = HomeName}

Uids == 1..MaxUsers
Gids == 1..MaxGroups
UserRow  == [name: Names, ext: People \cup {None}, sub: People \cup {None},
             role: {"admin", "user"}, active: BOOLEAN]
GroupRow == [name: GroupNames, ext: BOOLEAN]
IdentityRow == [src: {"scim", "admin"}, who: People \cup {None}]
SessionRow == [sub: People, name: Names, role: {"admin", "user", ""}]

ASSUME IdentityAssumption ==
  /\ Renamed \subseteq People /\ HomeName \in Names
  /\ AdminGroup \in GroupNames /\ UserGroup \in GroupNames \cup {None} /\ IsFiniteSet(GroupNames)
  /\ {MaxUsers, MaxGroups, MaxRefs, MaxRequests} \subseteq Nat /\ MaxUsers > 0 /\ MaxGroups > 0
  /\ None \notin People \cup Names \cup GroupNames
  /\ None \notin UserRow \cup GroupRow \cup IdentityRow \cup SessionRow

Rows == {u \in Uids : users[u] # None}
GroupRows == {g \in Gids : groups[g] # None}

\* the store's look-ups: at most one row, by the unique indexes
GetUserByUsername(n) == {u \in Rows : users[u].name = n}
GetUserByExternalID(p) == {u \in Rows : users[u].ext = p}
GetUserByOIDCSubject(p) == {u \in Rows : users[u].sub = p}
GetSCIMGroupByName(n) == {g \in GroupRows : groups[g].name = n}
GetSCIMGroupMembers(g) == {u \in Rows : <<g, u>> \in members}
GetSCIMGroupsForUser(u) == {g \in GroupRows : <<g, u>> \in members}
TheOne(S) == CHOOSE x \in S : TRUE

\* whose row it is: a row is created without either and both agree afterwards
PersonOf(row) == IF row.sub # None THEN row.sub ELSE row.ext

roleFromGroupNames(ns) == IF AdminGroup \in ns THEN "admin" ELSE "user"

resolveRole(ns) ==
  IF AdminGroup \in ns THEN "admin"
  ELSE IF UserGroup \in ns \/ UserGroup = None THEN "user" ELSE ""

RoleOf(u) == roleFromGroupNames({groups[g].name : g \in GetSCIMGroupsForUser(u)})

NoReq == [pc |-> "idle", op |-> None, id |-> 0, person |-> None, name |-> None,
          ext |-> None, active |-> TRUE, games |-> None, gset |-> FALSE, grps |-> {},
          role |-> "user", prevRole |-> "user", changed |-> FALSE, todo |-> {}, tok |-> {}]
Ops == {"create", "replace", "patch", "delete", "group", "login"}

Idle == \A r \in Requests : req[r].pc = "idle"
Goto(r, q) == req' = [req EXCEPT ![r] = q]
Done(r) == Goto(r, NoReq)

\* an error answered half way: what is already stored stays
Fail(r) == /\ Done(r)
           /\ failed' = failed \cup req[r].todo
                               \cup (IF req[r].id = 0 THEN {} ELSE {req[r].id})

\* mutant: the rows under the old name are copied and not deleted
MovedMutCopied(f, old, new) ==
  IF old = new THEN f
  ELSE [f EXCEPT ![new] = IF f[new] = None THEN f[old] ELSE f[new]]

(***************************************************************************)
(* migrateUsernameTx: within the transaction that renames a user, the rows  *)
(* keyed by the name move to the new one.  INSERT OR IGNORE keeps a row     *)
(* that already stands under the new name.  The rows of user_whitelists and  *)
(* of server_access_grants move the same way and are left out.              *)
(***************************************************************************)
Moved(f, old, new) ==
  IF old = new THEN f
  ELSE [f EXCEPT ![new] = IF f[new] = None THEN f[old] ELSE f[new], ![old] = None]

\* mutant: sessions keep the name they were opened under
SessionsRenamedMutKept(old, new) == sessions

SessionsRenamed(old, new) ==
  [s \in Sids |-> IF sessions[s] # None /\ sessions[s].name = old
                  THEN [sessions[s] EXCEPT !.name = new] ELSE sessions[s]]

NameTaken(u, n) == \E v \in Rows \ {u} : users[v].name = n

migrateUsernameTx(u, n) ==
  LET old == users[u].name IN
  /\ ~NameTaken(u, n)
  /\ identity' = Moved(identity, old, n)
  /\ sessions' = SessionsRenamed(old, n)

DeleteSessionsBySub(p) ==
  [s \in Sids |-> IF sessions[s] # None /\ sessions[s].sub = p THEN None ELSE sessions[s]]

-----------------------------------------------------------------------------
(* SCIM users *)

\* the requests the provider can send about a person
UserBody == {b \in [person: People, name: Names, active: BOOLEAN, games: {"none", "verified", "invalid"},
                    gset: BOOLEAN, grps: SUBSET Gids] :
               /\ <<b.person, b.name>> \in Claims
               /\ b.gset \/ b.grps = {}
               /\ Cardinality(b.grps) <= MaxRefs}

Body(op, b) == [NoReq EXCEPT !.op = op, !.person = b.person, !.name = b.name, !.ext = b.person,
                             !.active = b.active, !.games = b.games, !.gset = b.gset, !.grps = b.grps]

\* mutant: a row that a login created is not looked for
ExistingMutNoSubject(p) == GetUserByExternalID(p)

\* POST /Users: the row is found by external id, then by OIDC subject
Existing(p) == IF GetUserByExternalID(p) # {} THEN GetUserByExternalID(p) ELSE GetUserByOIDCSubject(p)

CreateUser(r) ==
  /\ req[r].pc = "idle"
  /\ \E b \in UserBody :
       LET q == Body("create", b)  old == Existing(b.person) IN
       IF old = {} THEN Goto(r, [q EXCEPT !.pc = "insert"])
       ELSE LET u == TheOne(old) IN
            Goto(r, [q EXCEPT !.pc = "identity", !.id = u, !.role = users[u].role])
  /\ UNCHANGED <<users, groups, gseq, members, identity, sessions, failed, kept>>

\* Store.CreateUser: the unique index on the name may refuse the row (409)
InsertUser(r) ==
  LET u == Cardinality(Rows) + 1 IN
  /\ req[r].pc = "insert" /\ u \in Uids
  /\ IF NameTaken(0, req[r].name)
     THEN Fail(r) /\ UNCHANGED users
     ELSE /\ users' = [users EXCEPT ![u] = [name |-> req[r].name, ext |-> None, sub |-> None,
                                            role |-> "user", active |-> TRUE]]
          /\ Goto(r, [req[r] EXCEPT !.pc = "identity", !.id = u])
          /\ UNCHANGED failed
  /\ UNCHANGED <<groups, gseq, members, identity, sessions, kept>>

\* PUT /Users/{id}: externalId is immutable once it is set
ReplaceUser(r) ==
  /\ req[r].pc = "idle"
  /\ \E u \in Rows, b \in UserBody :
       /\ PersonOf(users[u]) \in {b.person, None}
       /\ users[u].ext \in {None, b.person}
       /\ Goto(r, [Body("replace", b) EXCEPT
                     !.pc = "identity", !.id = u, !.role = users[u].role,
                     !.prevRole = users[u].role, !.changed = b.active # users[u].active])
  /\ UNCHANGED <<users, groups, gseq, members, identity, sessions, failed, kept>>

(***************************************************************************)
(* PATCH /Users/{id}: the operations that add or remove a group write at    *)
(* once; the attributes are collected and stored at the end.  "changed" is  *)
(* needsSessionInvalidate.                                                  *)
(***************************************************************************)
PatchUser(r) ==
  /\ req[r].pc = "idle"
  /\ \E u \in Rows, n \in Names, act \in BOOLEAN, gms \in {"absent", "none", "verified", "invalid"},
        add \in SUBSET Gids, rem \in SUBSET GroupRows :
       LET cur == GetSCIMGroupsForUser(u)
           p   == PersonOf(users[u])
           q   == [NoReq EXCEPT !.op = "patch", !.id = u, !.person = p, !.name = n,
                     !.ext = users[u].ext, !.active = act, !.games = gms, !.role = users[u].role,
                     !.prevRole = users[u].role,
                     !.changed = act # users[u].active \/ add \ cur # {} \/ rem \cap (cur \cup add) # {}]
       IN /\ <<p, n>> \in Claims /\ Cardinality(add) + Cardinality(rem) <= MaxRefs
          /\ IF ~(add \subseteq GroupRows)      \* one of several additions fails
             THEN /\ \E S \in SUBSET (add \cap GroupRows) : members' = members \cup {<<g, u>> : g \in S}
                  /\ failed' = failed \cup {u} /\ UNCHANGED req
             ELSE /\ members' = (members \cup {<<g, u>> : g \in add}) \ {<<g, u>> : g \in rem}
                  /\ IF users[u].ext = None      \* "userName and externalId are required"
                     THEN failed' = failed \cup {u} /\ UNCHANGED req
                     ELSE Goto(r, [q EXCEPT !.pc = "identity"]) /\ UNCHANGED failed
  /\ UNCHANGED <<users, groups, gseq, identity, sessions, kept>>

\* UpdateUserSCIMIdentity, one transaction: 409 when the name or the id is another's
UpdateUserSCIMIdentity(r) ==
  LET q == req[r] IN
  /\ q.pc = "identity"
  /\ IF NameTaken(q.id, q.name) \/ GetUserByExternalID(q.ext) \ {q.id} # {}
     THEN Fail(r) /\ UNCHANGED <<users, identity, sessions>>
     ELSE /\ migrateUsernameTx(q.id, q.name)
          /\ users' = [users EXCEPT ![q.id].name = q.name, ![q.id].ext = q.ext,
                                    ![q.id].active = q.active]
          /\ Goto(r, [q EXCEPT !.pc = "games"])
          /\ UNCHANGED failed
  /\ UNCHANGED <<groups, gseq, members, kept>>

AfterGames(q) ==
  IF q.gset THEN [q EXCEPT !.pc = "groups"]
  ELSE IF q.op = "patch" /\ q.changed THEN [q EXCEPT !.pc = "recalc"]
  ELSE IF q.op = "replace" /\ q.changed THEN [q EXCEPT !.pc = "revoke"]
  ELSE NoReq

\* ReplaceSCIMGameIdentities: what SCIM supplied is replaced, an administrator's row is overwritten
ReplaceSCIMGameIdentities(n, p, verified) ==
  IF verified THEN [identity EXCEPT ![n] = [src |-> "scim", who |-> p]]
  ELSE IF identity[n] # None /\ identity[n].src = "scim" THEN [identity EXCEPT ![n] = None]
  ELSE identity

\* syncGameIdentities; a PATCH may leave the game identities alone
syncGameIdentities(r) ==
  LET q == req[r] IN
  /\ q.pc = "games"
  /\ IF q.games = "invalid"
     THEN Fail(r) /\ UNCHANGED identity
     ELSE /\ identity' = IF q.games = "absent" THEN identity
                         ELSE ReplaceSCIMGameIdentities(q.name, q.person, q.games = "verified")
          /\ Goto(r, AfterGames(q))
          /\ UNCHANGED failed
  /\ UNCHANGED <<users, groups, gseq, members, sessions, kept>>

\* syncUserGroups: a reference to a group that does not exist fails after the ones before it
syncUserGroups(r) ==
  LET q == req[r]
      cur == GetSCIMGroupsForUser(q.id)
      pairs(S) == {<<g, q.id>> : g \in S} IN
  /\ q.pc = "groups"
  /\ IF q.grps \subseteq GroupRows
     THEN /\ members' = (members \cup pairs(q.grps)) \ pairs(cur \ q.grps)
          /\ Goto(r, [q EXCEPT !.pc = "recalc", !.changed = q.changed \/ cur # q.grps])
          /\ UNCHANGED failed
     ELSE /\ \E S \in SUBSET (q.grps \cap GroupRows) : members' = members \cup pairs(S)
          /\ Fail(r)
  /\ UNCHANGED <<users, groups, gseq, identity, sessions, kept>>

\* DELETE /Users/{id}: the sessions go first, then the row is made inactive
DeleteUser(r) ==
  /\ req[r].pc = "idle"
  /\ \E u \in Rows :
       /\ sessions' = DeleteSessionsBySub(users[u].ext)
       /\ Goto(r, [NoReq EXCEPT !.op = "delete", !.pc = "deactivate", !.id = u])
  /\ UNCHANGED <<users, groups, gseq, members, identity, failed, kept>>

SetUserActive(r) ==
  /\ req[r].pc = "deactivate"
  /\ users' = [users EXCEPT ![req[r].id].active = FALSE]
  /\ Done(r)
  /\ UNCHANGED <<groups, gseq, members, identity, sessions, failed, kept>>

-----------------------------------------------------------------------------
(* Roles and sessions after a change *)

\* recalcUserRole: the groups are read here, the role is written in the next step
recalcUserRole(r) ==
  LET q == req[r]  new == RoleOf(q.id) IN
  /\ q.pc = "recalc"
  /\ Goto(r, [q EXCEPT !.pc = IF new # q.role THEN "setrole" ELSE "revoke", !.role = new])
  /\ UNCHANGED <<users, groups, gseq, members, identity, sessions, failed, kept>>

UpdateUserRole(r) ==
  LET q == req[r] IN
  /\ q.pc = "setrole"
  /\ users' = [users EXCEPT ![q.id].role = q.role]
  /\ kept' = IF q.op = "create" \/ q.ext = None THEN kept \cup {q.id} ELSE kept
  /\ Goto(r, [q EXCEPT !.pc = "revoke"])
  /\ UNCHANGED <<groups, gseq, members, identity, sessions, failed>>

\* mutant: a group request recalculates roles and leaves the sessions alone
RevokesMutNotByGroup(q) == q.op \in {"replace", "patch"}

\* when a handler calls triggerSessionInvalidation
Revokes(q) == CASE q.op = "replace" -> q.changed \/ q.role # q.prevRole
                [] q.op = "patch"   -> TRUE
                [] q.op = "group"   -> q.role # q.prevRole
                [] OTHER            -> FALSE

triggerSessionInvalidation(r) ==
  LET q == req[r] IN
  /\ q.pc = "revoke"
  /\ IF Revokes(q) /\ q.ext # None
     THEN sessions' = DeleteSessionsBySub(q.ext) /\ kept' = kept \ {q.id}
     ELSE UNCHANGED <<sessions, kept>>
  /\ failed' = IF q.op = "replace" /\ ~q.gset THEN failed ELSE failed \ {q.id}
  /\ IF q.op = "group" THEN Goto(r, [q EXCEPT !.pc = "next", !.id = 0]) ELSE Done(r)
  /\ UNCHANGED <<users, groups, gseq, members, identity>>

\* recalculateUsers: every affected user is loaded and recalculated in turn
recalculateUsers(r) ==
  LET q == req[r] IN
  /\ q.pc = "next"
  /\ IF q.todo = {} THEN Done(r)
     ELSE \E u \in q.todo :
            Goto(r, [q EXCEPT !.pc = "recalc", !.id = u, !.todo = q.todo \ {u}, !.ext = users[u].ext,
                              !.role = users[u].role, !.prevRole = users[u].role])
  /\ UNCHANGED <<users, groups, gseq, members, identity, sessions, failed, kept>>

-----------------------------------------------------------------------------
(* SCIM groups *)

\* mutant: the ids of the request are stored unchecked
memberIDsMutAny(us) == TRUE

SetSCIMGroupMembers(g, us) == {m \in members : m[1] # g} \cup {<<g, u>> : u \in us}
memberIDs(us) == us \subseteq Rows        \* a member that does not exist is refused

Group(todo) == [NoReq EXCEPT !.op = "group", !.pc = "next", !.todo = todo]

(***************************************************************************)
(* POST /Groups: a group that a login created (no external id) is adopted   *)
(* by its name and its members are replaced; only the members of the        *)
(* request are recalculated.  A member that does not exist is refused when  *)
(* the group is already there, with the members it had.                     *)
(***************************************************************************)
CreateGroup(r) ==
  /\ req[r].pc = "idle"
  /\ \E n \in GroupNames, ms \in SUBSET Uids :
       LET old == GetSCIMGroupByName(n)
           g == IF old = {} THEN gseq + 1 ELSE TheOne(old) IN
       /\ IF old = {} THEN gseq < MaxGroups /\ gseq' = gseq + 1
                      ELSE ~groups[g].ext /\ UNCHANGED gseq
       /\ groups' = [groups EXCEPT ![g] = [name |-> n, ext |-> TRUE]]
       /\ IF memberIDs(ms)
          THEN /\ members' = SetSCIMGroupMembers(g, ms)
               /\ failed' = failed \cup (GetSCIMGroupMembers(g) \ ms)
               /\ Goto(r, Group(ms))
          ELSE UNCHANGED <<members, failed, req>>
  /\ UNCHANGED <<users, identity, sessions, kept>>

\* PUT /Groups/{id}: old and new members are recalculated; a display name is unique (409);
\* a member that does not exist is refused after the group is already renamed
ReplaceGroup(r) ==
  /\ req[r].pc = "idle"
  /\ \E g \in GroupRows, n \in GroupNames, ms \in SUBSET Uids :
       LET old == GetSCIMGroupMembers(g) IN
       /\ GetSCIMGroupByName(n) \subseteq {g}
       /\ groups' = [groups EXCEPT ![g] = [name |-> n, ext |-> TRUE]]
       /\ IF memberIDs(ms)
          THEN /\ members' = SetSCIMGroupMembers(g, ms)
               /\ Goto(r, Group(old \cup ms)) /\ UNCHANGED failed
          ELSE failed' = failed \cup old /\ UNCHANGED <<members, req>>
  /\ UNCHANGED <<users, gseq, identity, sessions, kept>>

\* mutant: the members that were removed are forgotten
AffectedMutCurrent(old, new) == new

\* whom PATCH /Groups/{id} recalculates: the members before and after it
Affected(old, new) == old \cup new

\* PATCH /Groups/{id}: members added, removed or replaced, or the group renamed
PatchGroup(r) ==
  /\ req[r].pc = "idle"
  /\ \E g \in GroupRows :
       LET old == GetSCIMGroupMembers(g) IN
       \/ \E new \in SUBSET Rows :
            /\ members' = SetSCIMGroupMembers(g, new)
            /\ Goto(r, Group(Affected(old, new)))
            /\ UNCHANGED groups
       \/ \E n \in GroupNames :
            /\ GetSCIMGroupByName(n) \subseteq {g}
            /\ groups' = [groups EXCEPT ![g].name = n]
            /\ Goto(r, Group(Affected(old, old)))
            /\ UNCHANGED members
  /\ UNCHANGED <<users, gseq, identity, sessions, failed, kept>>

\* DELETE /Groups/{id}: the memberships go with the row (ON DELETE CASCADE)
DeleteGroup(r) ==
  /\ req[r].pc = "idle"
  /\ \E g \in GroupRows :
       /\ groups' = [groups EXCEPT ![g] = None]
       /\ members' = {m \in members : m[1] # g}
       /\ Goto(r, Group(GetSCIMGroupMembers(g)))
  /\ UNCHANGED <<users, gseq, identity, sessions, failed, kept>>

-----------------------------------------------------------------------------
(* OIDC login and sessions *)

(***************************************************************************)
(* provisionUser up to its group synchronisation: the row is found by       *)
(* subject, then by external id, or created; it takes the name and the role *)
(* of the token.  A name that is another's fails before anything is stored. *)
(***************************************************************************)
provisionUser(u, p, n, role) ==
  /\ ~NameTaken(u, n)
  /\ IF users[u] = None
     THEN /\ users' = [users EXCEPT ![u] = [name |-> n, ext |-> None, sub |-> p,
                                            role |-> role, active |-> TRUE]]
          /\ UNCHANGED <<identity, sessions, kept>>
     ELSE /\ migrateUsernameTx(u, n)
          /\ users' = [users EXCEPT ![u].name = n, ![u].sub = p, ![u].role = role]
          /\ kept' = IF users[u].role # role THEN kept \cup {u} ELSE kept

HandleCallback(r) ==
  /\ req[r].pc = "idle"
  /\ \E c \in Claims, tok \in SUBSET GroupNames :
       LET old == IF GetUserByOIDCSubject(c[1]) # {} THEN GetUserByOIDCSubject(c[1])
                  ELSE GetUserByExternalID(c[1])
           u   == IF old = {} THEN Cardinality(Rows) + 1 ELSE TheOne(old)
       IN /\ u \in Uids
          /\ gseq + Cardinality({t \in tok : GetSCIMGroupByName(t) = {}}) <= MaxGroups
          /\ provisionUser(u, c[1], c[2], IF resolveRole(tok) = "" THEN "user" ELSE resolveRole(tok))
          /\ Goto(r, [NoReq EXCEPT !.op = "login", !.pc = "oidcgroups", !.id = u, !.person = c[1],
                                   !.name = c[2], !.tok = tok])
  /\ UNCHANGED <<groups, gseq, members, failed>>

\* SyncUserOIDCGroups: the token's groups replace the memberships, missing groups are created
SyncUserOIDCGroups(r) ==
  LET q == req[r]
      missing == {t \in q.tok : GetSCIMGroupByName(t) = {}} IN
  /\ q.pc = "oidcgroups"
  /\ gseq + Cardinality(missing) <= MaxGroups
  /\ \E new \in [missing -> (gseq + 1)..(gseq + Cardinality(missing))] :
       /\ \A s, t \in missing : new[s] = new[t] => s = t
       /\ groups' = [g \in Gids |-> IF \E t \in missing : new[t] = g
                                    THEN [name |-> TheOne({t \in missing : new[t] = g}), ext |-> FALSE]
                                    ELSE groups[g]]
       /\ members' = {m \in members : m[2] # q.id}
                     \cup {<<g, q.id>> : g \in {h \in GroupRows : groups[h].name \in q.tok}}
                     \cup {<<new[t], q.id>> : t \in missing}
  /\ gseq' = gseq + Cardinality(missing)
  /\ failed' = failed \ {q.id}
  /\ Goto(r, [q EXCEPT !.pc = "session"])
  /\ UNCHANGED <<users, identity, sessions, kept>>

\* CreateSession: the row keeps a copy of the name and of the token's role
CreateSession(r) ==
  LET q == req[r] IN
  /\ q.pc = "session"
  /\ \E s \in Sids :
       /\ sessions[s] = None
       /\ sessions' = [sessions EXCEPT ![s] = [sub |-> q.person, name |-> q.name,
                                               role |-> resolveRole(q.tok)]]
  /\ Done(r)
  /\ UNCHANGED <<users, groups, gseq, members, identity, failed, kept>>

\* RequireRole: the session's user is looked up by name, the role is the session's copy
RequireRole(s, roles) ==
  /\ sessions[s] # None /\ sessions[s].role \in roles
  /\ \E u \in GetUserByUsername(sessions[s].name) : users[u].active

\* getSession of any request: the session of a missing or inactive user is deleted
getSession(s) ==
  /\ sessions[s] # None
  /\ \A u \in GetUserByUsername(sessions[s].name) : ~users[u].active
  /\ sessions' = [sessions EXCEPT ![s] = None]
  /\ UNCHANGED <<users, groups, gseq, members, identity, req, failed, kept>>

\* HandleLogout and the expiry of a session (getSession, CleanupExpiredSessions)
HandleLogout(s) ==
  /\ sessions[s] # None
  /\ sessions' = [sessions EXCEPT ![s] = None]
  /\ UNCHANGED <<users, groups, gseq, members, identity, req, failed, kept>>

HandleBackChannelLogout(p) ==
  /\ sessions' = DeleteSessionsBySub(p)
  /\ UNCHANGED <<users, groups, gseq, members, identity, req, failed, kept>>

-----------------------------------------------------------------------------
(* The administrator's game identities, keyed by a user name *)

PersonNamed(n) == IF GetUserByUsername(n) = {} THEN None
                  ELSE PersonOf(users[TheOne(GetUserByUsername(n))])

SetGameIdentity(n) ==
  /\ identity' = [identity EXCEPT ![n] = [src |-> "admin", who |-> PersonNamed(n)]]
  /\ UNCHANGED <<users, groups, gseq, members, sessions, req, failed, kept>>

DeleteGameIdentity(n) ==
  /\ identity' = [identity EXCEPT ![n] = None]
  /\ UNCHANGED <<users, groups, gseq, members, sessions, req, failed, kept>>

-----------------------------------------------------------------------------
\* a new database, or one in which somebody provisioned has logged in and is admin
Init ==
  /\ \E seeded \in BOOLEAN : \E c \in Claims :
       LET row == [name |-> c[2], ext |-> c[1], sub |-> c[1], role |-> "admin", active |-> TRUE] IN
       /\ users = [u \in Uids |-> IF seeded /\ u = 1 THEN row ELSE None]
       /\ groups = [g \in Gids |-> IF seeded /\ g = 1 THEN [name |-> AdminGroup, ext |-> TRUE] ELSE None]
       /\ gseq = IF seeded THEN 1 ELSE 0
       /\ members = IF seeded THEN {<<1, 1>>} ELSE {}
       /\ sessions = [s \in Sids |-> IF seeded /\ s = 1
                                    THEN [sub |-> c[1], name |-> c[2], role |-> "admin"] ELSE None]
  /\ identity = [n \in Names |-> None] /\ req = [r \in Requests |-> NoReq]
  /\ begun = 0 /\ failed = {} /\ kept = {}

\* a request arrives
Arrival ==
  \/ \E r \in Requests :
       \/ CreateUser(r) \/ ReplaceUser(r) \/ PatchUser(r) \/ DeleteUser(r)
       \/ CreateGroup(r) \/ ReplaceGroup(r) \/ PatchGroup(r) \/ DeleteGroup(r)
       \/ HandleCallback(r)
  \/ \E n \in Names : SetGameIdentity(n) \/ DeleteGameIdentity(n)

\* a request goes on, or a session ends
Continue ==
  \/ \E r \in Requests :
       \/ InsertUser(r) \/ UpdateUserSCIMIdentity(r) \/ syncGameIdentities(r) \/ syncUserGroups(r)
       \/ SetUserActive(r) \/ recalcUserRole(r) \/ UpdateUserRole(r)
       \/ triggerSessionInvalidation(r) \/ recalculateUsers(r)
       \/ SyncUserOIDCGroups(r) \/ CreateSession(r)
  \/ \E s \in Sids : getSession(s) \/ HandleLogout(s)
  \/ \E p \in People : HandleBackChannelLogout(p)

Next == \/ begun < MaxRequests /\ begun' = begun + 1 /\ Arrival
        \/ UNCHANGED begun /\ Continue

Spec == Init /\ [][Next]_vars

-----------------------------------------------------------------------------
(***************************************************************************)
(* Type invariant.  Members of a group are users that exist, whatever SCIM  *)
(* clients list (memberIDs).                                                *)
(***************************************************************************)
TypeOK ==
  /\ users \in [Uids -> UserRow \cup {None}]
  /\ groups \in [Gids -> GroupRow \cup {None}] /\ gseq \in 0..MaxGroups
  /\ members \subseteq GroupRows \X Rows
  /\ identity \in [Names -> IdentityRow \cup {None}]
  /\ sessions \in [Sids -> SessionRow \cup {None}]
  /\ \A r \in Requests : req[r].op \in Ops \cup {None} /\ req[r].id \in Uids \cup {0}
  /\ begun \in 0..MaxRequests /\ failed \subseteq Uids /\ kept \subseteq Uids

(***************************************************************************)
(* Provisioning never makes a second row for someone who has logged in, nor *)
(* a login one for someone provisioned: whatever the order of POST, PUT and *)
(* logins, and whatever names they carry, no two rows share a person.       *)
(***************************************************************************)
OneRowPerPerson ==
  \A u, v \in Rows : u # v =>
    {users[u].ext, users[u].sub} \cap {users[v].ext, users[v].sub} \subseteq {None}

(***************************************************************************)
(* A session is looked up by the name stored in it (getSession), and names  *)
(* move between people: the row that a session's name leads to is always    *)
(* that of the person who logged in.                                        *)
(***************************************************************************)
SessionOwner ==
  \A s \in Sids : sessions[s] # None =>
    \A u \in GetUserByUsername(sessions[s].name) : PersonOf(users[u]) = sessions[s].sub

(***************************************************************************)
(* Verified game identities are keyed by the user name too and decide who   *)
(* is put on a whitelist: one that SCIM stored for a person stays with that *)
(* person's row through every rename, and never passes to the next bearer   *)
(* of the name.                                                             *)
(***************************************************************************)
IdentityOwner ==
  \A n \in Names : (identity[n] # None /\ identity[n].who # None) =>
    /\ GetUserByUsername(n) # {}
    /\ \A u \in GetUserByUsername(n) : PersonOf(users[u]) = identity[n].who

(***************************************************************************)
(* Sessions and game identities, both keyed by a name that SCIM may give to *)
(* another person, stay with the person they were made for.                 *)
(***************************************************************************)
NamesFollowPeople == SessionOwner /\ IdentityOwner

(***************************************************************************)
(* With no request under way, the role of a user is the one its groups give *)
(* unless the last request about it answered an error half way, or POST     *)
(* /Groups adopted a group a login had made and left the user out of it.    *)
(* docs/ACCESS_CONTROL.md: membership replacements "immediately recalculate *)
(* roles".                                                                  *)
(***************************************************************************)
RoleFollowsGroups ==
  Idle => \A u \in Rows \ failed : users[u].role = RoleOf(u)

(***************************************************************************)
(* A session keeps a copy of the role for thirty days and RequireRole trusts *)
(* it.  Once every request has ended, a session that passes as admin for    *)
(* someone who is no longer admin is left only by the paths that do not     *)
(* revoke: a new login, POST /Users for an existing person, or a row        *)
(* without an external id.                                                  *)
(***************************************************************************)
NoStaleAdminSession ==
  Idle => \A s \in Sids : RequireRole(s, {"admin"}) =>
    \A u \in GetUserByUsername(sessions[s].name) : users[u].role = "admin" \/ u \in kept
=============================================================================
