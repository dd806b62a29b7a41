--------------------------- MODULE IdentityProofs ---------------------------
(***************************************************************************)
(* Proofs about module Identity, for any people, names and groups and any  *)
(* number of users, sessions and requests.                                 *)
(*                                                                         *)
(* The types hold however requests overlap.  The rest is about requests    *)
(* that do not (Alone): the statements of a request are not in a           *)
(* transaction, so what it read before one of them must still hold at the  *)
(* next.  Stands says what that is at each step; RolesOK and AdminsOK excuse*)
(* the users that the request under way has yet to deal with.              *)
(***************************************************************************)
EXTENDS Identity, FiniteSetTheorems, TLAPS

(* Requests do not overlap: there is at most one at a time. *)
Alone == \A r, s \in Requests : r = s

Pcs == {"idle", "insert", "identity", "games", "groups", "recalc", "setrole", "revoke", "next",
        "deactivate", "oidcgroups", "session"}

ReqRow == [pc : Pcs, op : Ops \cup {None}, id : Uids \cup {0}, person : People \cup {None},
           name : Names \cup {None}, ext : People \cup {None}, active : BOOLEAN,
           games : {"none", "verified", "invalid", "absent", None}, gset : BOOLEAN,
           grps : SUBSET Gids, role : {"admin", "user"}, prevRole : {"admin", "user"},
           changed : BOOLEAN, todo : SUBSET Uids, tok : SUBSET GroupNames]

(* A request refers to users that exist, and has what its next step needs. *)
Refers(q) ==
  /\ q.pc \notin {"idle", "insert", "next"} => q.id \in Rows
  /\ q.todo \subseteq Rows
  /\ q.pc \in {"insert", "identity", "games", "oidcgroups", "session"} => q.name \in Names
  /\ q.pc \in {"oidcgroups", "session"} => q.person \in People

TablesOK ==
  /\ users \in [Uids -> UserRow \cup {None}] /\ \E c \in Nat : Rows = 1..c
  /\ groups \in [Gids -> GroupRow \cup {None}] /\ gseq \in 0..MaxGroups
  /\ GroupRows \subseteq 1..gseq
  /\ members \subseteq GroupRows \X Rows
  /\ identity \in [Names -> IdentityRow \cup {None}]
  /\ sessions \in [Sids -> SessionRow \cup {None}]
  /\ failed \subseteq Uids /\ kept \subseteq Uids

RequestsOK == req \in [Requests -> ReqRow] /\ \A r \in Requests : Refers(req[r])

(* Names are unique, and the two marks of a person agree. *)
RowsOK ==
  /\ \A u, v \in Rows : users[u].name = users[v].name => u = v
  /\ \A u \in Rows : users[u].ext = None \/ users[u].sub = None \/ users[u].ext = users[u].sub
  /\ OneRowPerPerson

(* Where a request stands: every row has a person, but for the one that    *)
(* the request has just made; nobody else has the person it is about, and  *)
(* the row it is about is as the request read or wrote it.                 *)
Elsewhere(p, u) == \E v \in Rows \ {u} : p \in {users[v].ext, users[v].sub}

Peopled(q) ==
  \A u \in Rows : PersonOf(users[u]) = None =>
    q.pc = "identity" /\ q.id = u /\ q.name = users[u].name

Stands(q) ==
  /\ Peopled(q)
  /\ q.pc = "idle" => q.todo = {}
  /\ q.pc # "next" /\ q.op # "group" => q.todo = {}
  /\ q.pc = "next" => q.op = "group"
  /\ q.pc = "insert" => q.op = "create" /\ q.role = "user" /\ q.id = 0
  /\ q.pc \in {"insert", "identity"} =>
       q.ext \in People /\ q.ext = q.person /\ ~Elsewhere(q.ext, q.id)
  /\ q.pc \in {"identity", "games"} =>
       q.op \in {"create", "replace", "patch"} /\ (q.op = "patch" => ~q.gset)
  /\ q.pc = "identity" => PersonOf(users[q.id]) \in {q.ext, None}
  /\ q.pc = "games" => /\ q.name = users[q.id].name /\ q.ext = q.person
                       /\ q.ext # None
  /\ q.pc = "deactivate" => q.op = "delete"
  /\ q.pc = "groups" => q.op \in {"create", "replace"} /\ q.gset
  /\ q.pc \in {"recalc", "setrole", "revoke"} =>
       q.op \in {"create", "replace", "patch", "group"}
  /\ q.pc \in {"games", "groups", "recalc", "setrole", "revoke"} => q.ext = users[q.id].ext
  /\ q.pc \in {"identity", "games", "groups", "recalc"} => q.role = users[q.id].role
  /\ q.pc \in {"identity", "games", "groups", "recalc", "setrole"} /\ q.op # "create" =>
       q.prevRole = users[q.id].role
  /\ q.pc = "setrole" => q.role = RoleOf(q.id) /\ q.role # users[q.id].role
  /\ q.pc = "revoke" /\ (q.op # "replace" \/ q.gset) => users[q.id].role = RoleOf(q.id)
  /\ q.pc \in {"oidcgroups", "session"} =>
       /\ q.op = "login" /\ q.name = users[q.id].name /\ q.person = users[q.id].sub
       /\ q.person # None
       /\ users[q.id].role = roleFromGroupNames(q.tok)

(* The users whose role a request still has to set. *)
Pending(q) ==
  q.todo \cup (IF \/ q.pc \in {"recalc", "setrole", "oidcgroups"}
                  \/ q.pc \in {"identity", "games"} /\ q.op = "patch" /\ q.changed
               THEN {q.id} ELSE {})

(* A request that is about to end the sessions of the user u. *)
Revoking(q, u) == q.pc = "revoke" /\ q.id = u /\ Revokes(q) /\ q.ext # None

NamesOK ==
  /\ \A s \in Sids : sessions[s] # None =>
       \E u \in Rows : users[u].name = sessions[s].name /\ PersonOf(users[u]) = sessions[s].sub
  /\ \A n \in Names : identity[n] # None /\ identity[n].who # None =>
       \E u \in Rows : users[u].name = n /\ PersonOf(users[u]) = identity[n].who

RolesOK ==
  \A u \in Rows : \/ users[u].role = RoleOf(u) \/ u \in failed
                  \/ \E r \in Requests : u \in Pending(req[r])

AdminsOK ==
  \A s \in Sids : sessions[s] # None /\ sessions[s].role = "admin" =>
    \A u \in Rows : users[u].name = sessions[s].name =>
      \/ users[u].role = "admin" \/ u \in kept
      \/ \E r \in Requests : Revoking(req[r], u)

TypeInv == TablesOK /\ RequestsOK

PeopleInv == RowsOK /\ \A r \in Requests : Stands(req[r])

(* The inductive invariant: the types whatever overlaps, and what holds as *)
(* long as no two requests do.                                             *)
AloneInv == PeopleInv /\ NamesOK /\ RolesOK /\ AdminsOK

IInv == TypeInv /\ begun \in 0..MaxRequests /\ (Alone => AloneInv)

(* What a step preserves. *)
Kept == TypeInv' /\ (Alone /\ AloneInv => AloneInv')

-----------------------------------------------------------------------------
(* Facts about the constants, and about one row or request that changes.   *)
LEMMA ConstantFacts ==
  /\ None \notin People /\ None \notin Names /\ None \notin GroupNames
  /\ None \notin UserRow /\ None \notin GroupRow /\ None \notin IdentityRow
  /\ None \notin SessionRow
  /\ MaxUsers \in Nat /\ MaxGroups \in Nat /\ MaxRequests \in Nat /\ MaxUsers > 0
  /\ MaxGroups > 0
  /\ \A c \in Claims : c[1] \in People /\ c[2] \in Names
  BY IdentityAssumption DEF Claims

LEMMA RowFacts ==
  ASSUME TablesOK
  PROVE  /\ \A u \in Rows : u \in Uids /\ u \in Nat /\ users[u] \in UserRow
         /\ \A g \in GroupRows : g \in Gids /\ g \in 1..gseq /\ groups[g] \in GroupRow
         /\ \A s \in Sids : sessions[s] # None => sessions[s] \in SessionRow
         /\ \A n \in Names : identity[n] # None => identity[n] \in IdentityRow
         /\ Rows \subseteq Uids /\ GroupRows \subseteq Gids /\ 0 \notin Rows
  BY DEF TablesOK, Rows, GroupRows, Uids, Gids

(* The next id is free, and taking it leaves the ids dense. *)
LEMMA NextId ==
  ASSUME TablesOK
  PROVE  LET u == Cardinality(Rows) + 1 IN
         /\ u \in Nat /\ u \notin Rows /\ u # 0
         /\ \E c \in Nat : Rows \cup {u} = 1..c
<1>1. PICK c \in Nat : Rows = 1..c
  BY DEF TablesOK
<1>2. Cardinality(Rows) = c
  <2>1. IsFiniteSet(1..c) /\ Cardinality(1..c) = IF 1 > c THEN 0 ELSE c - 1 + 1
    BY FS_Interval
  <2> QED
    BY <1>1, <2>1
<1>3. Rows \cup {c + 1} = 1..(c + 1)
  BY <1>1
<1> QED
  BY <1>1, <1>2, <1>3

LEMMA RequestFacts ==
  ASSUME TypeInv, NEW r \in Requests
  PROVE  req[r] \in ReqRow /\ Refers(req[r])
  BY DEF TypeInv, RequestsOK

(* One request moves on to v. *)
LEMMA RequestNext ==
  ASSUME TypeInv, NEW r \in Requests, NEW v \in ReqRow, Goto(r, v), Rows \subseteq Rows',
         Refers(v)'
  PROVE  RequestsOK'
<1>1. req' \in [Requests -> ReqRow] /\ req'[r] = v /\ \A d \in Requests : d # r => req'[d] = req[d]
  BY DEF Goto, TypeInv, RequestsOK
<1>2. \A d \in Requests : d # r => Refers(req[d])'
  BY <1>1 DEF TypeInv, RequestsOK, Refers
<1>3. Refers(req[r])'
  BY <1>1 DEF Refers
<1> QED
  BY <1>1, <1>2, <1>3 DEF RequestsOK

LEMMA SameRequests ==
  ASSUME TypeInv, UNCHANGED req, Rows \subseteq Rows'
  PROVE  RequestsOK'
  BY DEF TypeInv, RequestsOK, Refers

LEMMA IdleRow ==
  /\ NoReq \in ReqRow /\ NoReq.pc = "idle" /\ NoReq.op = None /\ NoReq.todo = {} /\ NoReq.id = 0
  /\ NoReq.person = None /\ NoReq.name = None /\ NoReq.ext = None /\ NoReq.active = TRUE
  /\ NoReq.games = None /\ NoReq.gset = FALSE /\ NoReq.grps = {} /\ NoReq.role = "user"
  /\ NoReq.prevRole = "user" /\ NoReq.changed = FALSE /\ NoReq.tok = {}
  BY DEF NoReq, ReqRow, Pcs

LEMMA DoneRequests ==
  ASSUME TypeInv, NEW r \in Requests, Done(r), Rows \subseteq Rows'
  PROVE  RequestsOK'
<1>1. Refers(NoReq)'
  <2>1. UNCHANGED NoReq
    BY DEF NoReq
  <2> QED
    BY <2>1, IdleRow DEF Refers
<1> QED
  BY <1>1, IdleRow, RequestNext DEF Done

(* What a request of the provider starts with. *)
LEMMA BodyFacts ==
  ASSUME NEW b \in UserBody, NEW op \in Ops, NEW v, v = Body(op, b)
  PROVE  /\ v \in ReqRow /\ v.pc = "idle" /\ v.op = op /\ v.id = 0 /\ v.person = b.person
         /\ v.name = b.name /\ v.ext = b.person /\ v.active = b.active /\ v.games = b.games
         /\ v.gset = b.gset /\ v.grps = b.grps /\ v.role = "user" /\ v.todo = {} /\ v.tok = {}
         /\ b.person \in People /\ b.name \in Names
<1>1. /\ b.person \in People /\ b.name \in Names /\ b.active \in BOOLEAN /\ b.gset \in BOOLEAN
      /\ b.games \in {"none", "verified", "invalid"} /\ b.grps \in SUBSET Gids
  BY DEF UserBody
<1> QED
  BY <1>1, IdleRow DEF Body, ReqRow

-----------------------------------------------------------------------------
(* A step that moves a request and changes no table.                       *)
LEMMA Goes ==
  ASSUME Alone, TypeInv, NEW r \in Requests, NEW v, Goto(r, v)
  PROVE  \A d \in Requests : d = r /\ req'[d] = v
  BY DEF Alone, Goto, TypeInv, RequestsOK

LEMMA StandsNext ==
  ASSUME NEW v, \A d \in Requests : req'[d] = v, Stands(v)'
  PROVE  \A d \in Requests : Stands(req[d])'
<1> SUFFICES ASSUME NEW d \in Requests PROVE Stands(req[d])'
  OBVIOUS
<1>1. req'[d] = v
  OBVIOUS
<1> QED
  BY <1>1 DEF Stands, Peopled

LEMMA StandsSame ==
  ASSUME NEW v, UNCHANGED <<users, groups, members>>, Stands(v)
  PROVE  Stands(v)'
  BY DEF Stands, Peopled, Elsewhere, PersonOf, Rows, RoleOf, GetSCIMGroupsForUser, GroupRows

LEMMA RoleSame ==
  ASSUME NEW u, UNCHANGED <<groups, members>>
  PROVE  RoleOf(u)' = RoleOf(u)
  BY DEF RoleOf, GetSCIMGroupsForUser, GroupRows

LEMMA RolesFrame ==
  ASSUME Alone, TypeInv, RolesOK, NEW r \in Requests, NEW v, Goto(r, v),
         UNCHANGED <<groups, members>>,
         Rows' = Rows, \A u \in Rows : users'[u].role = users[u].role,
         failed \subseteq failed', Pending(req[r]) \subseteq Pending(v) \cup failed'
  PROVE  RolesOK'
<1> SUFFICES ASSUME NEW u \in Rows, u \notin failed', u \notin Pending(v)
             PROVE  users'[u].role = RoleOf(u)'
  BY Goes DEF RolesOK
<1>1. users[u].role = RoleOf(u)
  BY Goes DEF RolesOK
<1> QED
  BY <1>1, RoleSame

LEMMA AdminsFrame ==
  ASSUME Alone, TypeInv, AdminsOK, NEW r \in Requests, NEW v, Goto(r, v),
         Rows' = Rows,
         \A u \in Rows : users'[u].role = users[u].role /\ users'[u].name = users[u].name,
         \A s \in Sids : sessions'[s] \in {None, sessions[s]}, kept \subseteq kept',
         \A u : Revoking(req[r], u) => Revoking(v, u)
  PROVE  AdminsOK'
<1> SUFFICES ASSUME NEW s \in Sids, sessions'[s] # None, sessions'[s].role = "admin",
                    NEW u \in Rows, users'[u].name = sessions'[s].name,
                    users'[u].role # "admin", u \notin kept'
             PROVE  Revoking(v, u)
  BY Goes DEF AdminsOK
<1>1. \E d \in Requests : Revoking(req[d], u)
  BY DEF AdminsOK
<1> QED
  BY <1>1, Goes

LEMMA NamesFrame ==
  ASSUME NamesOK, Rows \subseteq Rows',
         \A u \in Rows : users'[u].name = users[u].name
                         /\ (PersonOf(users[u]) = None \/ PersonOf(users'[u]) = PersonOf(users[u])),
         \A s \in Sids : sessions'[s] \in {None, sessions[s]}
                         /\ (sessions[s] # None => sessions[s].sub # None),
         \A n \in Names : identity'[n] \in {None, identity[n]}
  PROVE  NamesOK'
<1>1. ASSUME NEW s \in Sids, sessions'[s] # None
      PROVE  \E u \in Rows' : users'[u].name = sessions'[s].name
                              /\ PersonOf(users'[u]) = sessions'[s].sub
  <2>1. sessions'[s] = sessions[s] /\ sessions[s] # None /\ sessions[s].sub # None
    BY <1>1
  <2>2. PICK u \in Rows : users[u].name = sessions[s].name /\ PersonOf(users[u]) = sessions[s].sub
    BY <2>1 DEF NamesOK
  <2> QED
    BY <2>1, <2>2
<1>2. ASSUME NEW n \in Names, identity'[n] # None, identity'[n].who # None
      PROVE  \E u \in Rows' : users'[u].name = n /\ PersonOf(users'[u]) = identity'[n].who
  <2>1. identity'[n] = identity[n]
    BY <1>2
  <2>2. PICK u \in Rows : users[u].name = n /\ PersonOf(users[u]) = identity[n].who
    BY <1>2, <2>1 DEF NamesOK
  <2> QED
    BY <1>2, <2>1, <2>2
<1> QED
  BY <1>1, <1>2 DEF NamesOK, PersonOf

LEMMA RowsSame == ASSUME RowsOK, UNCHANGED users PROVE RowsOK'
  BY DEF RowsOK, Rows, OneRowPerPerson

LEMMA SessionPeople ==
  ASSUME TablesOK
  PROVE  \A s \in Sids : sessions[s] # None => sessions[s].sub # None /\ sessions[s].sub \in People
  BY RowFacts, ConstantFacts DEF SessionRow

(* A step that changes nothing but the request, and maybe notes a failure. *)
LEMMA CalmStep ==
  ASSUME TypeInv, NEW r \in Requests, NEW v \in ReqRow, Goto(r, v),
         UNCHANGED <<users, groups, gseq, members, identity, sessions, kept>>,
         failed \subseteq failed', failed' \subseteq Uids, Refers(v),
         Alone /\ AloneInv => /\ Stands(v)
                              /\ Pending(req[r]) \subseteq Pending(v) \cup failed'
                              /\ \A u : Revoking(req[r], u) => Revoking(v, u)
  PROVE  Kept
<1>1. Rows' = Rows /\ GroupRows' = GroupRows
  BY DEF Rows, GroupRows
<1>2. TablesOK'
  BY <1>1 DEF TypeInv, TablesOK
<1>3. RequestsOK'
  <2>1. Refers(v)'
    BY <1>1 DEF Refers
  <2> QED
    BY <1>1, <2>1, RequestNext
<1>4. ASSUME Alone, AloneInv PROVE AloneInv'
  <2>1. RowsOK'
    BY <1>4, RowsSame DEF AloneInv, PeopleInv
  <2>2. \A d \in Requests : Stands(req[d])'
    <3>1. Stands(v)'
      BY <1>4, StandsSame
    <3>2. \A d \in Requests : req'[d] = v
      BY <1>4, Goes
    <3> QED
      BY <3>1, <3>2, StandsNext
  <2>3. NamesOK'
    BY <1>4, <1>1, NamesFrame, SessionPeople DEF AloneInv, TypeInv
  <2>4. RolesOK'
    BY <1>4, <1>1, RolesFrame DEF AloneInv
  <2>5. AdminsOK'
    BY <1>4, <1>1, AdminsFrame DEF AloneInv
  <2> QED
    BY <2>1, <2>2, <2>3, <2>4, <2>5 DEF AloneInv, PeopleInv
<1> QED
  BY <1>2, <1>3, <1>4 DEF Kept, TypeInv

LEMMA StandsIdle ==
  /\ Refers(NoReq) /\ Pending(NoReq) = {} /\ \A u : ~Revoking(NoReq, u)
  /\ (\A u \in Rows : PersonOf(users[u]) # None) => Stands(NoReq)
  BY IdleRow DEF Stands, Peopled, Refers, Pending, Revoking

(* A request that fails half way leaves what it had still to do undone.    *)
LEMMA FailStep ==
  ASSUME TypeInv, NEW r \in Requests, Fail(r), req[r].pc # "revoke",
         UNCHANGED <<users, groups, gseq, members, identity, sessions, kept>>,
         Alone /\ AloneInv => \A u \in Rows : PersonOf(users[u]) # None
  PROVE  Kept
<1> DEFINE q == req[r]
<1>1. q \in ReqRow /\ Refers(q) /\ TablesOK
  BY RequestFacts DEF TypeInv
<1>2. Goto(r, NoReq) /\ failed' = failed \cup q.todo \cup (IF q.id = 0 THEN {} ELSE {q.id})
  BY DEF Fail, Done
<1>3. q.todo \subseteq Uids /\ (q.id = 0 \/ q.id \in Uids) /\ failed \subseteq Uids
  BY <1>1 DEF ReqRow, TablesOK
<1>4. failed \subseteq failed' /\ failed' \subseteq Uids
  BY <1>2, <1>3
<1>5. Pending(q) \subseteq failed'
  <2>1. 0 \notin Rows
    BY <1>1, RowFacts
  <2> HIDE DEF q
  <2> QED
    BY <1>1, <1>2, <2>1 DEF Pending, Refers
<1>6. \A u : ~Revoking(q, u)
  BY DEF Revoking
<1> QED
  BY <1>2, <1>4, <1>5, <1>6, StandsIdle, IdleRow, CalmStep

(* The row that a look-up by person finds is that person's and nobody      *)
(* else's.                                                                 *)
LEMMA FoundRow ==
  ASSUME RowsOK, NEW p \in People, NEW u \in Rows, p \in {users[u].ext, users[u].sub}
  PROVE  PersonOf(users[u]) = p /\ ~Elsewhere(p, u)
<1>1. p # None
  BY ConstantFacts
<1>2. PersonOf(users[u]) = p
  BY <1>1 DEF PersonOf, RowsOK
<1>3. ASSUME NEW v \in Rows \ {u}, p \in {users[v].ext, users[v].sub} PROVE FALSE
  <2>1. {users[u].ext, users[u].sub} \cap {users[v].ext, users[v].sub} \subseteq {None}
    BY DEF RowsOK, OneRowPerPerson
  <2> QED
    BY <1>1, <1>3, <2>1
<1> QED
  BY <1>2, <1>3 DEF Elsewhere

LEMMA ChosenIsIn == ASSUME NEW S, S # {} PROVE TheOne(S) \in S
  BY DEF TheOne

LEMMA CreateUserStep ==
  ASSUME TypeInv, NEW r \in Requests, CreateUser(r)
  PROVE  Kept
<1>1. req[r].pc = "idle"
      /\ UNCHANGED <<users, groups, gseq, members, identity, sessions, failed, kept>>
  BY DEF CreateUser
<1>2. PICK b \in UserBody :
        LET q == Body("create", b)  old == Existing(b.person) IN
          IF old = {} THEN Goto(r, [q EXCEPT !.pc = "insert"])
          ELSE LET u == TheOne(old) IN
               Goto(r, [q EXCEPT !.pc = "identity", !.id = u, !.role = users[u].role])
  BY DEF CreateUser
<1>3. PICK q : q = Body("create", b)
  OBVIOUS
<1>4. q \in ReqRow /\ q.op = "create" /\ q.id = 0 /\ q.person = b.person /\ q.name = b.name
      /\ q.ext = b.person /\ q.role = "user" /\ q.todo = {} /\ b.person \in People
      /\ b.name \in Names
  BY <1>3, BodyFacts DEF Ops
<1>5. TablesOK /\ failed \subseteq Uids
  BY DEF TypeInv, TablesOK
<1>6. Alone /\ AloneInv => /\ Pending(req[r]) = {} /\ RowsOK
                           /\ \A x \in Rows : PersonOf(users[x]) # None
  BY <1>1 DEF AloneInv, PeopleInv, Stands, Peopled, Pending
<1>7. \A u : ~Revoking(req[r], u)
  BY <1>1 DEF Revoking
<1>8. CASE Existing(b.person) = {}
  <2>1. PICK v : v = [q EXCEPT !.pc = "insert"]
    OBVIOUS
  <2>2. v \in ReqRow /\ v.pc = "insert" /\ v.op = "create" /\ v.id = 0 /\ v.person = b.person
        /\ v.name = b.name /\ v.ext = b.person /\ v.role = "user" /\ v.todo = {}
    BY <1>4, <2>1 DEF ReqRow, Pcs
  <2>3. Goto(r, v)
    BY <1>2, <1>3, <1>8, <2>1
  <2>4. Refers(v)
    BY <1>4, <2>2 DEF Refers
  <2>5. ~Elsewhere(b.person, 0)
    <3>1. GetUserByExternalID(b.person) = {} /\ GetUserByOIDCSubject(b.person) = {}
      BY <1>8 DEF Existing
    <3> QED
      BY <3>1 DEF Elsewhere, GetUserByExternalID, GetUserByOIDCSubject
  <2>6. Alone /\ AloneInv => Stands(v)
    BY <1>4, <1>6, <2>2, <2>5 DEF Stands, Peopled
  <2> QED
    BY <1>1, <1>5, <1>6, <1>7, <2>2, <2>3, <2>4, <2>6, CalmStep
<1>9. CASE Existing(b.person) # {}
  <2>1. PICK u : u = TheOne(Existing(b.person))
    OBVIOUS
  <2>2. u \in Rows /\ b.person \in {users[u].ext, users[u].sub} /\ users[u] \in UserRow
        /\ u \in Uids
    <3>1. u \in Existing(b.person)
      BY <1>9, <2>1, ChosenIsIn
    <3> QED
      BY <3>1, <1>5, RowFacts DEF Existing, GetUserByExternalID, GetUserByOIDCSubject
  <2>3. PICK v : v = [q EXCEPT !.pc = "identity", !.id = u, !.role = users[u].role]
    OBVIOUS
  <2>4. v \in ReqRow /\ v.pc = "identity" /\ v.op = "create" /\ v.id = u /\ v.person = b.person
        /\ v.name = b.name /\ v.ext = b.person /\ v.role = users[u].role /\ v.todo = {}
    BY <1>4, <2>2, <2>3 DEF ReqRow, Pcs, UserRow
  <2>5. Goto(r, v)
    BY <1>2, <1>3, <1>9, <2>1, <2>3
  <2>6. Refers(v)
    BY <1>4, <2>2, <2>4 DEF Refers
  <2>7. Alone /\ AloneInv => Stands(v)
    <3> SUFFICES ASSUME RowsOK, \A x \in Rows : PersonOf(users[x]) # None PROVE Stands(v)
      BY <1>6
    <3>1. PersonOf(users[u]) = b.person /\ ~Elsewhere(b.person, u)
      BY <1>4, <2>2, FoundRow
    <3> QED
      BY <1>4, <2>4, <3>1 DEF Stands, Peopled
  <2> QED
    BY <1>1, <1>5, <1>6, <1>7, <2>4, <2>5, <2>6, <2>7, CalmStep
<1> QED
  BY <1>8, <1>9

LEMMA ReplaceUserStep ==
  ASSUME TypeInv, NEW r \in Requests, ReplaceUser(r)
  PROVE  Kept
<1>1. req[r].pc = "idle"
      /\ UNCHANGED <<users, groups, gseq, members, identity, sessions, failed, kept>>
  BY DEF ReplaceUser
<1>2. PICK u \in Rows, b \in UserBody :
        /\ PersonOf(users[u]) \in {b.person, None}
        /\ users[u].ext \in {None, b.person}
        /\ Goto(r, [Body("replace", b) EXCEPT
                      !.pc = "identity", !.id = u, !.role = users[u].role,
                      !.prevRole = users[u].role, !.changed = b.active # users[u].active])
  BY DEF ReplaceUser
<1>3. PICK q : q = Body("replace", b)
  OBVIOUS
<1>4. q \in ReqRow /\ q.op = "replace" /\ q.person = b.person /\ q.name = b.name
      /\ q.ext = b.person /\ q.todo = {} /\ b.person \in People /\ b.name \in Names
  BY <1>3, BodyFacts DEF Ops
<1>5. TablesOK /\ failed \subseteq Uids /\ users[u] \in UserRow /\ u \in Uids
  BY RowFacts DEF TypeInv, TablesOK
<1>6. Alone /\ AloneInv => /\ Pending(req[r]) = {} /\ RowsOK
                           /\ \A x \in Rows : PersonOf(users[x]) # None
  BY <1>1 DEF AloneInv, PeopleInv, Stands, Peopled, Pending
<1>7. \A x : ~Revoking(req[r], x)
  BY <1>1 DEF Revoking
<1>8. PICK c \in BOOLEAN : c = (b.active # users[u].active)
  OBVIOUS
<1>9. PICK v : v = [q EXCEPT !.pc = "identity", !.id = u, !.role = users[u].role,
                             !.prevRole = users[u].role, !.changed = c]
  OBVIOUS
<1>10. /\ v \in ReqRow /\ v.pc = "identity" /\ v.op = "replace" /\ v.id = u
       /\ v.person = b.person
       /\ v.name = b.name /\ v.ext = b.person /\ v.role = users[u].role
       /\ v.prevRole = users[u].role /\ v.todo = {}
  BY <1>4, <1>5, <1>9 DEF ReqRow, Pcs, UserRow
<1>11. Goto(r, v)
  BY <1>2, <1>3, <1>8, <1>9
<1>12. Refers(v)
  BY <1>4, <1>10 DEF Refers
<1>13. Alone /\ AloneInv => Stands(v)
  <2> SUFFICES ASSUME RowsOK, \A x \in Rows : PersonOf(users[x]) # None PROVE Stands(v)
    BY <1>6
  <2>1. PersonOf(users[u]) = b.person
    BY <1>2
  <2>2. ~Elsewhere(b.person, u)
    BY <1>4, <2>1, FoundRow DEF PersonOf
  <2> QED
    BY <1>2, <1>4, <1>10, <2>1, <2>2 DEF Stands, Peopled
<1> QED
  BY <1>1, <1>5, <1>6, <1>7, <1>10, <1>11, <1>12, <1>13, CalmStep

-----------------------------------------------------------------------------
(* The role that groups give, and the steps that write memberships.        *)
LEMMA RoleIs ==
  ASSUME NEW u
  PROVE  /\ RoleOf(u) = IF \E g \in GroupRows : <<g, u>> \in members /\ groups[g].name = AdminGroup
                        THEN "admin" ELSE "user"
         /\ RoleOf(u)' = IF \E g \in GroupRows' : <<g, u>> \in members' /\ groups'[g].name = AdminGroup
                         THEN "admin" ELSE "user"
  BY DEF RoleOf, roleFromGroupNames, GetSCIMGroupsForUser

(* A step about groups and memberships. *)
LEMMA TableStep ==
  ASSUME TypeInv, NEW r \in Requests, NEW v \in ReqRow, Goto(r, v),
         UNCHANGED <<users, identity, sessions, kept>>, TablesOK', Refers(v),
         Alone /\ AloneInv =>
           /\ Stands(v)'
           /\ \A u \in Rows : users[u].role = RoleOf(u)' \/ u \in failed' \/ u \in Pending(v)
           /\ \A u : Revoking(req[r], u) => Revoking(v, u)
  PROVE  Kept
<1>1. Rows' = Rows
  BY DEF Rows
<1>2. RequestsOK'
  <2>1. Refers(v)'
    BY <1>1 DEF Refers
  <2> QED
    BY <1>1, <2>1, RequestNext
<1>3. ASSUME Alone, AloneInv PROVE AloneInv'
  <2>1. RowsOK'
    BY <1>3, RowsSame DEF AloneInv, PeopleInv
  <2>2. \A d \in Requests : req'[d] = v
    BY <1>3, Goes
  <2>3. \A d \in Requests : Stands(req[d])'
    BY <1>3, <2>2, StandsNext
  <2>4. NamesOK'
    BY <1>3, <1>1, NamesFrame, SessionPeople DEF AloneInv, TypeInv
  <2>5. RolesOK'
    BY <1>3, <1>1, <2>2 DEF RolesOK
  <2>6. AdminsOK'
    BY <1>3, <1>1, AdminsFrame DEF AloneInv
  <2> QED
    BY <2>1, <2>3, <2>4, <2>5, <2>6 DEF AloneInv, PeopleInv
<1> QED
  BY <1>2, <1>3 DEF Kept, TypeInv

LEMMA RoleUnmoved ==
  ASSUME NEW x, UNCHANGED groups, \A g : <<g, x>> \in members' <=> <<g, x>> \in members
  PROVE  RoleOf(x)' = RoleOf(x)
<1>1. GroupRows' = GroupRows
  BY DEF GroupRows
<1> QED
  BY <1>1, RoleIs

(* Where a request is that no role matters to. *)
LEMMA StandsNoRole ==
  ASSUME NEW v, UNCHANGED users, Stands(v), v.pc \notin {"setrole", "revoke"}
  PROVE  Stands(v)'
  BY DEF Stands, Peopled, Elsewhere, PersonOf, Rows

(* The roles that fitted before a step of the request r. *)
LEMMA Fitting ==
  ASSUME Alone, RolesOK, NEW r \in Requests, NEW u \in Rows, u \notin failed,
         u \notin Pending(req[r])
  PROVE  users[u].role = RoleOf(u)
  BY DEF Alone, RolesOK

LEMMA PatchUserStep ==
  ASSUME TypeInv, NEW r \in Requests, PatchUser(r)
  PROVE  Kept
<1>1. req[r].pc = "idle" /\ UNCHANGED <<users, groups, gseq, identity, sessions, kept>>
  BY DEF PatchUser
<1>2. PICK u \in Rows, n \in Names, act \in BOOLEAN,
           gms \in {"absent", "none", "verified", "invalid"},
           add \in SUBSET Gids, rem \in SUBSET GroupRows :
       LET cur == GetSCIMGroupsForUser(u)
           p   == PersonOf(users[u])
           q   == [NoReq EXCEPT !.op = "patch", !.id = u, !.person = p, !.name = n,
                     !.ext = users[u].ext, !.active = act, !.games = gms, !.role = users[u].role,
                     !.prevRole = users[u].role,
                     !.changed = act # users[u].active \/ add \ cur # {} \/ rem \cap (cur \cup add) # {}]
       IN /\ <<p, n>> \in Claims /\ Cardinality(add) + Cardinality(rem) <= MaxRefs
          /\ IF ~(add \subseteq GroupRows)
             THEN /\ \E S \in SUBSET (add \cap GroupRows) : members' = members \cup {<<g, u>> : g \in S}
                  /\ failed' = failed \cup {u} /\ UNCHANGED req
             ELSE /\ members' = (members \cup {<<g, u>> : g \in add}) \ {<<g, u>> : g \in rem}
                  /\ IF users[u].ext = None
                     THEN failed' = failed \cup {u} /\ UNCHANGED req
                     ELSE Goto(r, [q EXCEPT !.pc = "identity"]) /\ UNCHANGED failed
  BY <1>1 DEF PatchUser
<1> DEFINE cur == GetSCIMGroupsForUser(u)
           p == PersonOf(users[u])
           ch == act # users[u].active \/ add \ cur # {} \/ rem \cap (cur \cup add) # {}
<1>3. TablesOK /\ failed \subseteq Uids /\ members \subseteq GroupRows \X Rows /\ u \in Uids
      /\ users[u] \in UserRow
  BY RowFacts DEF TypeInv, TablesOK
<1>4. GroupRows' = GroupRows /\ Rows' = Rows
  BY <1>1 DEF GroupRows, Rows
<1>5. /\ \A x, g : x # u => (<<g, x>> \in members' <=> <<g, x>> \in members)
      /\ members' \subseteq GroupRows \X Rows
  <2>1. CASE ~(add \subseteq GroupRows)
    <3>1. PICK S \in SUBSET (add \cap GroupRows) : members' = members \cup {<<g, u>> : g \in S}
      BY <1>2, <2>1
    <3> QED BY <1>3, <3>1
  <2>2. CASE add \subseteq GroupRows
    <3>1. members' = (members \cup {<<g, u>> : g \in add}) \ {<<g, u>> : g \in rem}
      BY <1>2, <2>2
    <3> QED BY <1>3, <2>2, <3>1
  <2> QED BY <2>1, <2>2
<1>6. \A x : x # u => RoleOf(x)' = RoleOf(x)
  BY <1>1, <1>5, RoleUnmoved
<1>7. failed' \in {failed, failed \cup {u}}
  BY <1>2
<1>8. TablesOK'
  BY <1>1, <1>3, <1>4, <1>5, <1>7 DEF TablesOK
<1>9. Alone /\ AloneInv => /\ Pending(req[r]) = {} /\ RowsOK /\ Stands(req[r]) /\ RolesOK
                           /\ \A x \in Rows : PersonOf(users[x]) # None
  BY <1>1 DEF AloneInv, PeopleInv, Stands, Peopled, Pending
<1>10. \A x : ~Revoking(req[r], x)
  BY <1>1 DEF Revoking
<1>11. CASE failed' = failed \cup {u} /\ UNCHANGED req
  <2>1. PICK v : v = req[r]
    OBVIOUS
  <2>2. v \in ReqRow /\ Refers(v) /\ v.pc = "idle" /\ Goto(r, v)
    BY <1>1, <1>11, <2>1, RequestFacts DEF Goto, TypeInv, RequestsOK
  <2>3. ASSUME Alone, AloneInv PROVE Stands(v)'
    BY <1>1, <1>9, <2>1, <2>2, <2>3, StandsNoRole
  <2>4. ASSUME Alone, AloneInv, NEW x \in Rows, x \notin failed'
        PROVE  users[x].role = RoleOf(x)'
    <3>1. x # u /\ x \notin failed /\ x \notin Pending(req[r])
      BY <1>9, <1>11, <2>4
    <3> QED
      BY <1>6, <1>9, <2>4, <3>1, Fitting
  <2> QED
    BY <1>1, <1>8, <1>10, <2>1, <2>2, <2>3, <2>4, TableStep
<1>12. CASE /\ add \subseteq GroupRows /\ users[u].ext # None /\ UNCHANGED failed
            /\ Goto(r, [[NoReq EXCEPT !.op = "patch", !.id = u, !.person = p, !.name = n,
                          !.ext = users[u].ext, !.active = act, !.games = gms, !.role = users[u].role,
                          !.prevRole = users[u].role, !.changed = ch] EXCEPT !.pc = "identity"])
  <2>1. PICK c \in BOOLEAN : c = ch
    OBVIOUS
  <2>2. PICK w, v : /\ w = [NoReq EXCEPT !.op = "patch", !.id = u, !.person = p, !.name = n,
                             !.ext = users[u].ext, !.active = act, !.games = gms,
                             !.role = users[u].role, !.prevRole = users[u].role, !.changed = c]
                    /\ v = [w EXCEPT !.pc = "identity"]
    OBVIOUS
  <2>3. Goto(r, v)
    BY <1>12, <2>1, <2>2
  <2>4. p \in People /\ users[u].ext \in People /\ users[u].role \in {"admin", "user"}
    BY <1>2, <1>3, <1>12, ConstantFacts DEF UserRow, Claims
  <2> HIDE DEF p, ch
  <2>5. /\ v \in ReqRow /\ v.pc = "identity" /\ v.op = "patch" /\ v.id = u /\ v.person = p
        /\ v.name = n /\ v.ext = users[u].ext /\ v.role = users[u].role
        /\ v.prevRole = users[u].role /\ v.todo = {} /\ v.changed = c /\ ~v.gset
    <3>1. /\ w \in ReqRow /\ w.op = "patch" /\ w.id = u /\ w.person = p /\ w.name = n
          /\ w.ext = users[u].ext /\ w.role = users[u].role /\ w.prevRole = users[u].role
          /\ w.todo = {} /\ w.changed = c /\ ~w.gset
      <4>1. gms \in {"none", "verified", "invalid", "absent", None} /\ "patch" \in Ops
        BY DEF Ops
      <4> QED
        BY <1>3, <2>2, <2>4, <4>1, IdleRow DEF ReqRow
    <3>2. v = [w EXCEPT !.pc = "identity"]
      BY <2>2
    <3> QED
      BY <3>1, <3>2 DEF ReqRow, Pcs
  <2>6. Refers(v)
    BY <2>5 DEF Refers
  <2>7. ASSUME Alone, AloneInv PROVE Stands(v)'
    <3>1. PersonOf(users[u]) = users[u].ext /\ ~Elsewhere(users[u].ext, u)
      BY <1>9, <2>4, <2>7, FoundRow
    <3>2. Stands(v)
      BY <1>9, <2>4, <2>5, <2>7, <3>1 DEF Stands, Peopled, p
    <3> QED
      BY <1>1, <2>5, <3>2, StandsNoRole
  <2>8. ASSUME Alone, AloneInv, NEW x \in Rows, x \notin failed', x \notin Pending(v)
        PROVE  users[x].role = RoleOf(x)'
    <3>1. users[x].role = RoleOf(x)
      BY <1>9, <1>12, <2>8, Fitting
    <3>2. CASE x # u
      BY <1>6, <3>1, <3>2
    <3>3. CASE x = u
      <4>1. ~c
        BY <2>5, <2>8, <3>3 DEF Pending
      <4>2. add \subseteq cur /\ rem \cap cur = {}
        BY <2>1, <4>1 DEF ch
      <4>3. \A g : <<g, u>> \in members => g \in cur
        BY <1>3 DEF GetSCIMGroupsForUser
      <4>4. \A g \in cur : <<g, u>> \in members
        BY DEF GetSCIMGroupsForUser
      <4>5. members' = (members \cup {<<g, u>> : g \in add}) \ {<<g, u>> : g \in rem}
        BY <1>2, <1>12
      <4> HIDE DEF cur
      <4>6. \A g : <<g, u>> \in members' <=> <<g, u>> \in members
        BY <4>2, <4>3, <4>4, <4>5
      <4> QED
        BY <1>1, <3>1, <3>3, <4>6, RoleUnmoved
    <3> QED
      BY <3>2, <3>3
  <2> QED
    BY <1>1, <1>8, <1>10, <2>3, <2>5, <2>6, <2>7, <2>8, TableStep
<1> QED
  BY <1>2, <1>11, <1>12

LEMMA SyncUserGroupsStep ==
  ASSUME TypeInv, NEW r \in Requests, syncUserGroups(r)
  PROVE  Kept
<1> DEFINE q == req[r]
           cur == GetSCIMGroupsForUser(q.id)
           pairs(S) == {<<g, q.id>> : g \in S}
<1>1. q.pc = "groups" /\ UNCHANGED <<users, groups, gseq, identity, sessions, kept>>
  BY DEF syncUserGroups
<1>2. /\ q \in ReqRow /\ Refers(q) /\ TablesOK /\ failed \subseteq Uids /\ q.id \in Rows
      /\ members \subseteq GroupRows \X Rows /\ q.id # 0 /\ q.id \in Uids
      /\ q.todo \subseteq Uids
  BY <1>1, RequestFacts, RowFacts DEF TypeInv, TablesOK, Refers, ReqRow
<1>3. GroupRows' = GroupRows /\ Rows' = Rows
  BY <1>1 DEF GroupRows, Rows
<1>4. \/ /\ q.grps \subseteq GroupRows
         /\ members' = (members \cup pairs(q.grps)) \ pairs(cur \ q.grps)
         /\ Goto(r, [q EXCEPT !.pc = "recalc", !.changed = q.changed \/ cur # q.grps])
         /\ UNCHANGED failed
      \/ /\ \E S \in SUBSET (q.grps \cap GroupRows) : members' = members \cup pairs(S)
         /\ Fail(r)
  BY DEF syncUserGroups
<1>5. /\ \A x, g : x # q.id => (<<g, x>> \in members' <=> <<g, x>> \in members)
      /\ members' \subseteq GroupRows \X Rows
  <2> HIDE DEF q, cur
  <2> QED BY <1>2, <1>4
<1>6. \A x : x # q.id => RoleOf(x)' = RoleOf(x)
  <2> SUFFICES ASSUME NEW x, x # q.id PROVE RoleOf(x)' = RoleOf(x)
    OBVIOUS
  <2>1. \A g : <<g, x>> \in members' <=> <<g, x>> \in members
    BY <1>5
  <2> QED
    BY <1>1, <2>1, RoleUnmoved
<1>7. Alone /\ AloneInv => /\ Pending(q) = {} /\ Stands(q) /\ RolesOK
                           /\ \A x \in Rows : PersonOf(users[x]) # None
  BY <1>1 DEF AloneInv, PeopleInv, Stands, Peopled, Pending
<1>8. \A x : ~Revoking(q, x)
  BY <1>1 DEF Revoking
<1>9. CASE Fail(r)
  <2>1. Goto(r, NoReq) /\ failed' = failed \cup q.todo \cup {q.id}
    BY <1>2, <1>9 DEF Fail, Done
  <2>2. TablesOK'
    BY <1>1, <1>2, <1>3, <1>5, <2>1 DEF TablesOK
  <2>3. ASSUME Alone, AloneInv PROVE Stands(NoReq)'
    BY <1>1, <1>7, <2>3, StandsIdle, IdleRow, StandsNoRole
  <2>4. ASSUME Alone, AloneInv, NEW x \in Rows, x \notin failed'
        PROVE  users[x].role = RoleOf(x)'
    BY <1>6, <1>7, <2>1, <2>4, Fitting
  <2> QED
    BY <1>1, <1>8, <2>1, <2>2, <2>3, <2>4, StandsIdle, IdleRow, TableStep
<1>10. CASE /\ Goto(r, [q EXCEPT !.pc = "recalc", !.changed = q.changed \/ cur # q.grps])
            /\ UNCHANGED failed
  <2>1. PICK c \in BOOLEAN : c = (q.changed \/ cur # q.grps)
    OBVIOUS
  <2>2. PICK v : v = [q EXCEPT !.pc = "recalc", !.changed = c]
    OBVIOUS
  <2>3. Goto(r, v)
    BY <1>10, <2>1, <2>2
  <2>4. v \in ReqRow /\ v.pc = "recalc" /\ v.id = q.id /\ v.op = q.op /\ v.ext = q.ext
        /\ v.role = q.role /\ v.prevRole = q.prevRole /\ v.todo = q.todo
    <3> HIDE DEF q
    <3> QED BY <1>2, <2>2 DEF ReqRow, Pcs
  <2>5. TablesOK'
    BY <1>1, <1>2, <1>3, <1>5, <1>10 DEF TablesOK
  <2>6. Refers(v)
    BY <1>2, <2>4 DEF Refers
  <2>7. ASSUME Alone, AloneInv PROVE Stands(v)'
    <3>1. Stands(v)
      BY <1>1, <1>7, <2>4, <2>7 DEF Stands, Peopled
    <3> QED
      BY <1>1, <2>4, <3>1, StandsNoRole
  <2>8. ASSUME Alone, AloneInv, NEW x \in Rows, x \notin failed', x \notin Pending(v)
        PROVE  users[x].role = RoleOf(x)'
    <3>1. x # q.id
      BY <2>4, <2>8 DEF Pending
    <3> QED
      BY <1>6, <1>7, <1>10, <2>8, <3>1, Fitting
  <2> QED
    BY <1>1, <1>8, <2>3, <2>4, <2>5, <2>6, <2>7, <2>8, TableStep
<1> QED
  BY <1>4, <1>9, <1>10

LEMMA RecalcUserRoleStep ==
  ASSUME TypeInv, NEW r \in Requests, recalcUserRole(r)
  PROVE  Kept
<1> DEFINE q == req[r]
           new == RoleOf(q.id)
<1>1. q.pc = "recalc"
      /\ UNCHANGED <<users, groups, gseq, members, identity, sessions, failed, kept>>
      /\ Goto(r, [q EXCEPT !.pc = IF new # q.role THEN "setrole" ELSE "revoke", !.role = new])
  BY DEF recalcUserRole
<1>2. q \in ReqRow /\ Refers(q) /\ TablesOK /\ q.id \in Rows
  BY <1>1, RequestFacts DEF TypeInv, Refers
<1>3. TablesOK'
  <2>1. GroupRows' = GroupRows /\ Rows' = Rows
    BY <1>1 DEF GroupRows, Rows
  <2> QED
    BY <1>1, <1>2, <2>1 DEF TablesOK
<1>4. PICK w, p : w = new /\ p = IF new # q.role THEN "setrole" ELSE "revoke"
  OBVIOUS
<1>5. w \in {"admin", "user"} /\ p \in {"setrole", "revoke"} /\ (p = "setrole" <=> w # q.role)
  BY <1>4, RoleIs
<1>6. PICK v : v = [q EXCEPT !.pc = p, !.role = w]
  OBVIOUS
<1>7. Goto(r, v)
  BY <1>1, <1>4, <1>6
<1>8. v \in ReqRow /\ v.pc = p /\ v.id = q.id /\ v.op = q.op /\ v.ext = q.ext
      /\ v.role = w /\ v.prevRole = q.prevRole /\ v.todo = q.todo /\ v.gset = q.gset
  <2> HIDE DEF q
  <2> QED BY <1>2, <1>5, <1>6 DEF ReqRow, Pcs
<1>9. Refers(v)
  BY <1>2, <1>5, <1>8 DEF Refers
<1>10. Alone /\ AloneInv => Stands(q) /\ RolesOK
  BY DEF AloneInv, PeopleInv
<1>11. ASSUME Alone, AloneInv PROVE Stands(v)'
  <2>1. w = RoleOf(v.id) /\ (p = "revoke" => w = users[v.id].role) /\ (p = "setrole" => w # users[v.id].role)
    BY <1>1, <1>4, <1>5, <1>8, <1>10, <1>11 DEF Stands
  <2>2. Stands(v)
    BY <1>1, <1>5, <1>8, <1>10, <1>11, <2>1 DEF Stands, Peopled
  <2> QED
    BY <1>1, <2>2, StandsSame
<1>12. ASSUME Alone, AloneInv, NEW x \in Rows, x \notin failed', x \notin Pending(v)
       PROVE  users[x].role = RoleOf(x)'
  <2>1. CASE x = q.id
    <3>1. p = "revoke"
      BY <1>5, <1>8, <1>12, <2>1 DEF Pending
    <3>2. users[x].role = RoleOf(x)
      BY <1>1, <1>4, <1>5, <1>10, <1>12, <2>1, <3>1 DEF Stands
    <3> QED
      BY <1>1, <3>2, RoleSame
  <2>2. CASE x # q.id
    <3>1. x \notin Pending(q)
      BY <1>1, <1>8, <1>12, <2>2 DEF Pending
    <3> QED
      BY <1>1, <1>10, <1>12, <3>1, Fitting, RoleSame
  <2> QED
    BY <2>1, <2>2
<1>13. \A x : ~Revoking(q, x)
  BY <1>1 DEF Revoking
<1> QED
  BY <1>1, <1>3, <1>7, <1>8, <1>9, <1>11, <1>12, <1>13, TableStep

LEMMA RecalculateUsersStep ==
  ASSUME TypeInv, NEW r \in Requests, recalculateUsers(r)
  PROVE  Kept
<1> DEFINE q == req[r]
<1>1. q.pc = "next"
      /\ UNCHANGED <<users, groups, gseq, members, identity, sessions, failed, kept>>
  BY DEF recalculateUsers
<1>2. q \in ReqRow /\ Refers(q) /\ TablesOK /\ q.todo \subseteq Rows /\ failed \subseteq Uids
      /\ q.todo \subseteq Uids
  BY <1>1, RequestFacts DEF TypeInv, Refers, TablesOK, ReqRow
<1>3. Alone /\ AloneInv => Stands(q) /\ \A x \in Rows : PersonOf(users[x]) # None
  BY <1>1 DEF AloneInv, PeopleInv, Stands, Peopled
<1>4. \A x : ~Revoking(q, x)
  BY <1>1 DEF Revoking
<1>5. Pending(q) = q.todo
  BY <1>1 DEF Pending
<1>6. CASE q.todo = {} /\ Goto(r, NoReq)
  BY <1>1, <1>2, <1>3, <1>4, <1>5, <1>6, StandsIdle, IdleRow, CalmStep
<1>7. ASSUME NEW u \in q.todo,
             Goto(r, [q EXCEPT !.pc = "recalc", !.id = u, !.todo = q.todo \ {u}, !.ext = users[u].ext,
                               !.role = users[u].role, !.prevRole = users[u].role])
      PROVE  Kept
  <2>1. u \in Rows /\ u \in Uids /\ users[u] \in UserRow
    BY <1>2, RowFacts
  <2>2. PICK T : T = q.todo \ {u}
    OBVIOUS
  <2>3. PICK v : v = [q EXCEPT !.pc = "recalc", !.id = u, !.todo = T, !.ext = users[u].ext,
                               !.role = users[u].role, !.prevRole = users[u].role]
    OBVIOUS
  <2>4. Goto(r, v)
    BY <1>7, <2>2, <2>3
  <2>5. users[u].ext \in People \cup {None} /\ users[u].role \in {"admin", "user"}
        /\ T \in SUBSET Uids
        /\ T \subseteq Rows
    BY <1>2, <2>1, <2>2 DEF UserRow
  <2>6. v \in ReqRow /\ v.pc = "recalc" /\ v.id = u /\ v.op = q.op /\ v.ext = users[u].ext
        /\ v.role = users[u].role /\ v.prevRole = users[u].role /\ v.todo = T
    <3> HIDE DEF q
    <3> QED BY <1>2, <2>1, <2>3, <2>5 DEF ReqRow, Pcs
  <2>7. Refers(v)
    BY <1>2, <2>1, <2>5, <2>6 DEF Refers
  <2>8. Alone /\ AloneInv => Stands(v)
    BY <1>1, <1>3, <2>6 DEF Stands, Peopled
  <2>9. Pending(q) \subseteq Pending(v)
    BY <1>5, <2>2, <2>6 DEF Pending
  <2> QED
    BY <1>1, <1>2, <1>4, <2>4, <2>6, <2>7, <2>8, <2>9, CalmStep
<1> QED
  BY <1>6, <1>7 DEF recalculateUsers, Done

-----------------------------------------------------------------------------
(* A request about the group g: the users whose role it may change are     *)
(* recalculated, or noted as left out.                                     *)
LEMMA GroupStep ==
  ASSUME TypeInv, NEW r \in Requests, req[r].pc = "idle", NEW g \in Gids, NEW v \in ReqRow,
         Goto(r, v),
         v = req[r] \/ (v.pc = "next" /\ v.op = "group" /\ v.todo \subseteq Rows),
         UNCHANGED <<users, identity, sessions, kept>>,
         groups' \in [Gids -> GroupRow \cup {None}], gseq' \in 0..MaxGroups, GroupRows' \subseteq 1..gseq',
         \A h \in Gids : h # g => groups'[h] = groups[h],
         members' \subseteq GroupRows' \X Rows,
         \A h, x : h # g => (<<h, x>> \in members' <=> <<h, x>> \in members),
         failed \subseteq failed', failed' \subseteq Uids,
         \A x \in Rows : \/ x \in v.todo \/ x \in failed'
                         \/ /\ <<g, x>> \in members' <=> <<g, x>> \in members
                            /\ <<g, x>> \in members => g \in GroupRows' /\ groups'[g].name = groups[g].name
  PROVE  Kept
<1>1. Rows' = Rows /\ TablesOK
  BY DEF Rows, TypeInv
<1>2. TablesOK'
  BY <1>1 DEF TablesOK
<1>3. Refers(v)
  <2>1. Refers(req[r])
    BY RequestFacts
  <2> QED
    BY <2>1 DEF Refers
<1>4. Alone /\ AloneInv => /\ Stands(req[r]) /\ RolesOK /\ Pending(req[r]) = {}
                           /\ \A x \in Rows : PersonOf(users[x]) # None
  BY DEF AloneInv, PeopleInv, Stands, Peopled, Pending
<1>5. ASSUME Alone, AloneInv PROVE Stands(v)'
  <2>1. CASE v = req[r]
    BY <1>4, <1>5, <2>1, StandsNoRole
  <2>2. CASE v.pc = "next" /\ v.op = "group"
    <3>1. Stands(v)
      BY <1>4, <1>5, <2>2 DEF Stands, Peopled
    <3> QED
      BY <2>2, <3>1, StandsNoRole
  <2> QED
    BY <2>1, <2>2
<1>6. ASSUME Alone, AloneInv, NEW x \in Rows, x \notin failed', x \notin Pending(v)
      PROVE  users[x].role = RoleOf(x)'
  <2>1. users[x].role = RoleOf(x)
    BY <1>4, <1>6, Fitting
  <2>2. x \notin v.todo
    BY <1>6 DEF Pending
  <2>3. /\ <<g, x>> \in members' <=> <<g, x>> \in members
        /\ <<g, x>> \in members => g \in GroupRows' /\ groups'[g].name = groups[g].name
    BY <1>6, <2>2
  <2>4. /\ members \subseteq GroupRows \X Rows
        /\ GroupRows \subseteq Gids /\ GroupRows' \subseteq Gids
        /\ \A h \in Gids : h \in GroupRows' <=> groups'[h] # None
        /\ \A h \in Gids : h \in GroupRows <=> groups[h] # None
    BY <1>1 DEF TablesOK, GroupRows
  <2>5. \A h : <<h, x>> \in members => h \in GroupRows
    BY <2>4
  <2>6. (\E h \in GroupRows : <<h, x>> \in members /\ groups[h].name = AdminGroup)
        <=> (\E h \in GroupRows' : <<h, x>> \in members' /\ groups'[h].name = AdminGroup)
    BY <2>3, <2>4, <2>5
  <2> QED
    BY <2>1, <2>6, RoleIs
<1>7. \A x : ~Revoking(req[r], x)
  BY DEF Revoking
<1> QED
  BY <1>2, <1>3, <1>5, <1>6, <1>7, TableStep

LEMMA GroupRequest ==
  ASSUME NEW S \in SUBSET Uids, NEW v, v = Group(S)
  PROVE  v \in ReqRow /\ v.pc = "next" /\ v.op = "group" /\ v.todo = S
  BY IdleRow DEF Group, ReqRow, Pcs, Ops

LEMMA MembersSet ==
  ASSUME NEW g, NEW us
  PROVE  /\ \A h, x : h # g => (<<h, x>> \in SetSCIMGroupMembers(g, us) <=> <<h, x>> \in members)
         /\ \A x : <<g, x>> \in SetSCIMGroupMembers(g, us) <=> x \in us
  BY DEF SetSCIMGroupMembers

LEMMA MembersWithin ==
  ASSUME TablesOK, NEW g, NEW us \in SUBSET Rows, g \in GroupRows',
         \A h \in GroupRows : h # g => h \in GroupRows'
  PROVE  SetSCIMGroupMembers(g, us) \subseteq GroupRows' \X Rows
<1> SUFFICES ASSUME NEW m \in SetSCIMGroupMembers(g, us) PROVE m \in GroupRows' \X Rows
  OBVIOUS
<1>1. CASE m \in members /\ m[1] # g
  <2>1. m \in GroupRows \X Rows
    BY <1>1 DEF TablesOK
  <2> QED
    BY <1>1, <2>1
<1>2. CASE \E u \in us : m = <<g, u>>
  BY <1>2
<1> QED
  BY <1>1, <1>2 DEF SetSCIMGroupMembers

(* One group's row is written. *)
LEMMA GroupWritten ==
  ASSUME TablesOK, NEW g \in Gids, NEW row \in GroupRow \cup {None},
         groups' = [groups EXCEPT ![g] = row]
  PROVE  /\ groups' \in [Gids -> GroupRow \cup {None}] /\ groups'[g] = row
         /\ \A h \in Gids : h # g => groups'[h] = groups[h]
         /\ \A h \in GroupRows : h # g => h \in GroupRows'
         /\ row # None => g \in GroupRows'
         /\ GroupRows' \subseteq GroupRows \cup {g}
         /\ GroupRows' \subseteq Gids
<1>1. groups \in [Gids -> GroupRow \cup {None}]
  BY DEF TablesOK
<1>2. groups' \in [Gids -> GroupRow \cup {None}] /\ groups'[g] = row
      /\ \A h \in Gids : h # g => groups'[h] = groups[h]
  BY <1>1
<1> QED
  BY <1>2 DEF GroupRows

LEMMA GroupMembers ==
  ASSUME NEW g PROVE GetSCIMGroupMembers(g) \subseteq Rows
                     /\ \A x \in Rows : x \in GetSCIMGroupMembers(g) <=> <<g, x>> \in members
  BY DEF GetSCIMGroupMembers

LEMMA CreateGroupStep ==
  ASSUME TypeInv, NEW r \in Requests, CreateGroup(r)
  PROVE  Kept
<1>1. req[r].pc = "idle" /\ UNCHANGED <<users, identity, sessions, kept>>
  BY DEF CreateGroup
<1>2. PICK n \in GroupNames, ms \in SUBSET Uids :
       LET old == GetSCIMGroupByName(n)
           g == IF old = {} THEN gseq + 1 ELSE TheOne(old) IN
       /\ IF old = {} THEN gseq < MaxGroups /\ gseq' = gseq + 1
                      ELSE ~groups[g].ext /\ UNCHANGED gseq
       /\ groups' = [groups EXCEPT ![g] = [name |-> n, ext |-> TRUE]]
       /\ IF memberIDs(ms)
          THEN /\ members' = SetSCIMGroupMembers(g, ms)
               /\ failed' = failed \cup (GetSCIMGroupMembers(g) \ ms)
               /\ Goto(r, Group(ms))
          ELSE UNCHANGED <<members, failed, req>>
  BY DEF CreateGroup
<1> DEFINE old == GetSCIMGroupByName(n)
<1>3. PICK g : g = IF old = {} THEN gseq + 1 ELSE TheOne(old)
  OBVIOUS
<1>4. /\ groups' = [groups EXCEPT ![g] = [name |-> n, ext |-> TRUE]]
      /\ IF memberIDs(ms)
         THEN /\ members' = SetSCIMGroupMembers(g, ms)
              /\ failed' = failed \cup (GetSCIMGroupMembers(g) \ ms)
              /\ Goto(r, Group(ms))
         ELSE UNCHANGED <<members, failed, req>>
  BY <1>2, <1>3
<1>5. TablesOK /\ gseq \in 0..MaxGroups /\ MaxGroups \in Nat /\ GroupRows \subseteq 1..gseq
      /\ failed \subseteq Uids /\ members \subseteq GroupRows \X Rows /\ Rows \subseteq Uids
  BY ConstantFacts, RowFacts DEF TypeInv, TablesOK
<1>6. g \in Gids /\ gseq' \in 0..MaxGroups /\ g \in 1..gseq' /\ GroupRows \subseteq 1..gseq'
      /\ (g \in GroupRows => groups[g].name = n)
  <2>1. CASE old = {}
    BY <1>2, <1>3, <1>5, <2>1 DEF Gids
  <2>2. CASE old # {}
    <3>1. g \in old
      BY <1>3, <2>2, ChosenIsIn
    <3> QED
      BY <1>2, <1>5, <2>2, <3>1, RowFacts DEF GetSCIMGroupByName
  <2> QED
    BY <2>1, <2>2
<1>7. PICK row : row = [name |-> n, ext |-> TRUE]
  OBVIOUS
<1>8. row \in GroupRow /\ row.name = n /\ row # None
  <2>1. row \in GroupRow /\ row.name = n
    BY <1>7 DEF GroupRow
  <2> QED
    BY <2>1, ConstantFacts
<1>9. /\ groups' \in [Gids -> GroupRow \cup {None}] /\ groups'[g] = row
      /\ \A h \in Gids : h # g => groups'[h] = groups[h]
      /\ \A h \in GroupRows : h # g => h \in GroupRows'
      /\ g \in GroupRows' /\ GroupRows' \subseteq GroupRows \cup {g}
  BY <1>4, <1>5, <1>6, <1>7, <1>8, GroupWritten
<1>10. GroupRows' \subseteq 1..gseq'
  BY <1>6, <1>9
<1>11. CASE memberIDs(ms)
  <2>1. members' = SetSCIMGroupMembers(g, ms)
        /\ failed' = failed \cup (GetSCIMGroupMembers(g) \ ms)
        /\ Goto(r, Group(ms)) /\ ms \in SUBSET Rows
    BY <1>4, <1>11 DEF memberIDs
  <2>2. PICK v : v = Group(ms)
    OBVIOUS
  <2>3. v \in ReqRow /\ v.pc = "next" /\ v.op = "group" /\ v.todo = ms /\ Goto(r, v)
    BY <2>1, <2>2, GroupRequest
  <2>4. members' \subseteq GroupRows' \X Rows
    BY <1>5, <1>9, <2>1, MembersWithin
  <2>5. failed \subseteq failed' /\ failed' \subseteq Uids
    BY <1>5, <2>1, GroupMembers
  <2>6. \A x \in Rows : x \in ms \/ x \in failed' \/ (<<g, x>> \notin members /\ <<g, x>> \notin members')
    BY <2>1, GroupMembers, MembersSet
  <2>7. \A h, x : h # g => (<<h, x>> \in members' <=> <<h, x>> \in members)
    BY <2>1, MembersSet
  <2> QED
    BY <1>1, <1>6, <1>9, <1>10, <2>1, <2>3, <2>4, <2>5, <2>6, <2>7, GroupStep
<1>12. CASE ~memberIDs(ms)
  <2>1. UNCHANGED <<members, failed, req>>
    BY <1>4, <1>12
  <2>2. PICK v : v = req[r]
    OBVIOUS
  <2>3. v \in ReqRow /\ Goto(r, v)
    BY <2>1, <2>2, RequestFacts DEF Goto, TypeInv, RequestsOK
  <2>4. members' \subseteq GroupRows' \X Rows
    BY <1>5, <1>9, <2>1
  <2>5. \A x : <<g, x>> \in members => g \in GroupRows' /\ groups'[g].name = groups[g].name
    BY <1>5, <1>6, <1>8, <1>9
  <2> QED
    BY <1>1, <1>5, <1>6, <1>9, <1>10, <2>1, <2>2, <2>3, <2>4, <2>5, GroupStep
<1> QED
  BY <1>11, <1>12

LEMMA ReplaceGroupStep ==
  ASSUME TypeInv, NEW r \in Requests, ReplaceGroup(r)
  PROVE  Kept
<1>1. req[r].pc = "idle" /\ UNCHANGED <<users, gseq, identity, sessions, kept>>
  BY DEF ReplaceGroup
<1>2. PICK g \in GroupRows, n \in GroupNames, ms \in SUBSET Uids :
       LET old == GetSCIMGroupMembers(g) IN
       /\ groups' = [groups EXCEPT ![g] = [name |-> n, ext |-> TRUE]]
       /\ IF memberIDs(ms)
          THEN /\ members' = SetSCIMGroupMembers(g, ms)
               /\ Goto(r, Group(old \cup ms)) /\ UNCHANGED failed
          ELSE failed' = failed \cup old /\ UNCHANGED <<members, req>>
  BY DEF ReplaceGroup
<1> DEFINE old == GetSCIMGroupMembers(g)
<1>3. TablesOK /\ gseq \in 0..MaxGroups /\ GroupRows \subseteq 1..gseq /\ g \in Gids
      /\ failed \subseteq Uids /\ members \subseteq GroupRows \X Rows /\ Rows \subseteq Uids
  BY RowFacts DEF TypeInv, TablesOK
<1>4. PICK row : row = [name |-> n, ext |-> TRUE]
  OBVIOUS
<1>5. row \in GroupRow /\ row # None
  <2>1. row \in GroupRow
    BY <1>4 DEF GroupRow
  <2> QED
    BY <2>1, ConstantFacts
<1>6. /\ groups' \in [Gids -> GroupRow \cup {None}]
      /\ \A h \in Gids : h # g => groups'[h] = groups[h]
      /\ \A h \in GroupRows : h # g => h \in GroupRows'
      /\ g \in GroupRows' /\ GroupRows' \subseteq GroupRows \cup {g}
  BY <1>2, <1>3, <1>4, <1>5, GroupWritten
<1>7. GroupRows' \subseteq 1..gseq' /\ gseq' \in 0..MaxGroups
  BY <1>1, <1>3, <1>6
<1>8. old \subseteq Rows /\ \A x \in Rows : x \in old <=> <<g, x>> \in members
  BY GroupMembers
<1> HIDE DEF old
<1>9. CASE memberIDs(ms)
  <2>1. members' = SetSCIMGroupMembers(g, ms) /\ UNCHANGED failed
        /\ Goto(r, Group(old \cup ms)) /\ ms \in SUBSET Rows
    BY <1>2, <1>9 DEF memberIDs, old
  <2>2. PICK S, v : S \in SUBSET Uids /\ S = old \cup ms /\ v = Group(S)
    BY <1>3, <1>8
  <2>3. v \in ReqRow /\ v.pc = "next" /\ v.op = "group" /\ v.todo = old \cup ms /\ Goto(r, v)
    BY <2>1, <2>2, GroupRequest
  <2>4. members' \subseteq GroupRows' \X Rows
    BY <1>3, <1>6, <2>1, MembersWithin
  <2>5. \A x \in Rows : x \in v.todo \/ (<<g, x>> \notin members /\ <<g, x>> \notin members')
    BY <1>8, <2>1, <2>3, MembersSet
  <2>6. \A h, x : h # g => (<<h, x>> \in members' <=> <<h, x>> \in members)
    BY <2>1, MembersSet
  <2>7. v.todo \subseteq Rows
    BY <1>8, <2>1, <2>3
  <2> QED
    BY <1>1, <1>3, <1>6, <1>7, <2>1, <2>3, <2>4, <2>5, <2>6, <2>7, GroupStep
<1>10. CASE ~memberIDs(ms)
  <2>1. failed' = failed \cup old /\ UNCHANGED <<members, req>>
    BY <1>2, <1>10 DEF old
  <2>2. PICK v : v = req[r]
    OBVIOUS
  <2>3. v \in ReqRow /\ Goto(r, v)
    BY <2>1, <2>2, RequestFacts DEF Goto, TypeInv, RequestsOK
  <2>4. members' \subseteq GroupRows' \X Rows
    BY <1>3, <1>6, <2>1
  <2>5. \A x \in Rows : x \in failed' \/ <<g, x>> \notin members
    BY <1>8, <2>1
  <2>6. failed \subseteq failed' /\ failed' \subseteq Uids
    BY <1>3, <1>8, <2>1
  <2> QED
    BY <1>1, <1>3, <1>6, <1>7, <2>1, <2>2, <2>3, <2>4, <2>5, <2>6, GroupStep
<1> QED
  BY <1>9, <1>10

LEMMA PatchGroupStep ==
  ASSUME TypeInv, NEW r \in Requests, PatchGroup(r)
  PROVE  Kept
<1>1. req[r].pc = "idle" /\ UNCHANGED <<users, gseq, identity, sessions, failed, kept>>
  BY DEF PatchGroup
<1>2. PICK g \in GroupRows :
       LET old == GetSCIMGroupMembers(g) IN
       \/ \E new \in SUBSET Rows :
            /\ members' = SetSCIMGroupMembers(g, new)
            /\ Goto(r, Group(Affected(old, new)))
            /\ UNCHANGED groups
       \/ \E n \in GroupNames :
            /\ GetSCIMGroupByName(n) \subseteq {g}
            /\ groups' = [groups EXCEPT ![g].name = n]
            /\ Goto(r, Group(Affected(old, old)))
            /\ UNCHANGED members
  BY DEF PatchGroup
<1> DEFINE old == GetSCIMGroupMembers(g)
<1>3. TablesOK /\ gseq \in 0..MaxGroups /\ GroupRows \subseteq 1..gseq /\ g \in Gids
      /\ failed \subseteq Uids /\ members \subseteq GroupRows \X Rows /\ Rows \subseteq Uids
      /\ groups \in [Gids -> GroupRow \cup {None}] /\ groups[g] \in GroupRow
  BY RowFacts DEF TypeInv, TablesOK
<1>4. old \subseteq Rows /\ \A x \in Rows : x \in old <=> <<g, x>> \in members
  BY GroupMembers
<1> HIDE DEF old
<1>5. ASSUME NEW new \in SUBSET Rows, members' = SetSCIMGroupMembers(g, new),
             Goto(r, Group(old \cup new)), UNCHANGED groups
      PROVE  Kept
  <2>1. PICK S, v : S \in SUBSET Uids /\ S = old \cup new /\ v = Group(S)
    BY <1>3, <1>4
  <2>2. v \in ReqRow /\ v.pc = "next" /\ v.op = "group" /\ v.todo = old \cup new /\ Goto(r, v)
    BY <1>5, <2>1, GroupRequest
  <2>3. GroupRows' = GroupRows
    BY <1>5 DEF GroupRows
  <2>4. members' \subseteq GroupRows' \X Rows
    BY <1>3, <1>5, <2>3, MembersWithin
  <2>5. \A x \in Rows : x \in v.todo \/ (<<g, x>> \notin members /\ <<g, x>> \notin members')
    BY <1>4, <1>5, <2>2, MembersSet
  <2>6. \A h, x : h # g => (<<h, x>> \in members' <=> <<h, x>> \in members)
    BY <1>5, MembersSet
  <2>7. v.todo \subseteq Rows
    BY <1>4, <2>2
  <2> QED
    BY <1>1, <1>3, <1>5, <2>2, <2>3, <2>4, <2>5, <2>6, <2>7, GroupStep
<1>6. ASSUME NEW n \in GroupNames, groups' = [groups EXCEPT ![g].name = n],
             Goto(r, Group(old)), UNCHANGED members
      PROVE  Kept
  <2>1. PICK v : v = Group(old)
    OBVIOUS
  <2>2. v \in ReqRow /\ v.pc = "next" /\ v.op = "group" /\ v.todo = old /\ Goto(r, v)
    BY <1>3, <1>4, <1>6, <2>1, GroupRequest
  <2>3. PICK row : row = [groups[g] EXCEPT !.name = n]
    OBVIOUS
  <2>4. row \in GroupRow /\ row # None /\ groups' = [groups EXCEPT ![g] = row]
    BY <1>3, <1>6, <2>3, ConstantFacts DEF GroupRow
  <2>5. /\ groups' \in [Gids -> GroupRow \cup {None}]
        /\ \A h \in Gids : h # g => groups'[h] = groups[h]
        /\ \A h \in GroupRows : h # g => h \in GroupRows'
        /\ g \in GroupRows' /\ GroupRows' \subseteq GroupRows \cup {g}
    BY <1>3, <2>4, GroupWritten
  <2>6. GroupRows' \subseteq 1..gseq' /\ gseq' \in 0..MaxGroups
    BY <1>1, <1>3, <2>5
  <2>7. members' \subseteq GroupRows' \X Rows
    BY <1>3, <1>6, <2>5
  <2>8. \A x \in Rows : x \in v.todo \/ <<g, x>> \notin members
    BY <1>4, <2>2
  <2> QED
    BY <1>1, <1>3, <1>4, <1>6, <2>2, <2>5, <2>6, <2>7, <2>8, GroupStep
<1> QED
  BY <1>2, <1>5, <1>6 DEF Affected, old

LEMMA DeleteGroupStep ==
  ASSUME TypeInv, NEW r \in Requests, DeleteGroup(r)
  PROVE  Kept
<1>1. req[r].pc = "idle" /\ UNCHANGED <<users, gseq, identity, sessions, failed, kept>>
  BY DEF DeleteGroup
<1>2. PICK g \in GroupRows : /\ groups' = [groups EXCEPT ![g] = None]
                             /\ members' = {m \in members : m[1] # g}
                             /\ Goto(r, Group(GetSCIMGroupMembers(g)))
  BY DEF DeleteGroup
<1>3. TablesOK /\ gseq \in 0..MaxGroups /\ GroupRows \subseteq 1..gseq /\ g \in Gids
      /\ failed \subseteq Uids /\ members \subseteq GroupRows \X Rows /\ Rows \subseteq Uids
  BY RowFacts DEF TypeInv, TablesOK
<1>4. PICK old, v : old = GetSCIMGroupMembers(g) /\ v = Group(old)
  OBVIOUS
<1>5. old \subseteq Rows /\ \A x \in Rows : x \in old <=> <<g, x>> \in members
  BY <1>4, GroupMembers
<1>6. v \in ReqRow /\ v.pc = "next" /\ v.op = "group" /\ v.todo = old /\ Goto(r, v)
  <2>1. v \in ReqRow /\ v.pc = "next" /\ v.op = "group" /\ v.todo = old
    BY <1>3, <1>4, <1>5, GroupRequest
  <2> QED
    BY <1>2, <1>4, <2>1
<1>7. /\ groups' \in [Gids -> GroupRow \cup {None}]
      /\ \A h \in Gids : h # g => groups'[h] = groups[h]
      /\ \A h \in GroupRows : h # g => h \in GroupRows'
      /\ GroupRows' \subseteq GroupRows \cup {g}
  BY <1>2, <1>3, GroupWritten
<1>8. GroupRows' \subseteq 1..gseq' /\ gseq' \in 0..MaxGroups
  BY <1>1, <1>3, <1>7
<1>9. /\ members' \subseteq GroupRows' \X Rows
      /\ \A h, x : h # g => (<<h, x>> \in members' <=> <<h, x>> \in members)
      /\ \A x : <<g, x>> \notin members'
  BY <1>2, <1>3, <1>7
<1>10. \A x \in Rows : x \in v.todo \/ (<<g, x>> \notin members /\ <<g, x>> \notin members')
  BY <1>5, <1>6, <1>9
<1> QED
  BY <1>1, <1>3, <1>5, <1>6, <1>7, <1>8, <1>9, <1>10, GroupStep

(* A login's groups: every group of the token has its row, the missing     *)
(* ones under new ids.                                                     *)
LEMMA SyncUserOIDCGroupsStep ==
  ASSUME TypeInv, NEW r \in Requests, SyncUserOIDCGroups(r)
  PROVE  Kept
<1> DEFINE q == req[r]
<1>1. q.pc = "oidcgroups" /\ UNCHANGED <<users, identity, sessions, kept>>
      /\ failed' = failed \ {q.id} /\ Goto(r, [q EXCEPT !.pc = "session"])
  BY DEF SyncUserOIDCGroups
<1>2. PICK v, id, tok : v = [q EXCEPT !.pc = "session"] /\ id = q.id /\ tok = q.tok
  OBVIOUS
<1>3. q \in ReqRow /\ Refers(q) /\ TablesOK /\ id \in Rows /\ tok \subseteq GroupNames
  BY <1>1, <1>2, RequestFacts DEF TypeInv, Refers, ReqRow
<1>4. v \in ReqRow /\ v.pc = "session" /\ v.id = id /\ v.tok = tok /\ v.op = q.op
      /\ v.name = q.name
      /\ v.person = q.person /\ v.ext = q.ext /\ v.todo = q.todo
  <2>1. v = [q EXCEPT !.pc = "session"] /\ id = q.id /\ tok = q.tok
    BY <1>2
  <2> HIDE DEF q
  <2> QED BY <1>3, <2>1 DEF ReqRow, Pcs
<1>5. Goto(r, v) /\ Refers(v)
  BY <1>1, <1>2, <1>3, <1>4 DEF Refers
<1>6. PICK missing, k : /\ missing = {t \in tok : GetSCIMGroupByName(t) = {}}
                        /\ k = Cardinality(missing)
  OBVIOUS
<1>7. k \in Nat
  <2>1. IsFiniteSet(missing)
    BY <1>3, <1>6, IdentityAssumption, FS_Subset
  <2> QED
    BY <1>6, <2>1, FS_CardinalityType
<1>8. gseq + k <= MaxGroups /\ gseq' = gseq + k
  BY <1>2, <1>6 DEF SyncUserOIDCGroups
<1>9. PICK new \in [missing -> (gseq + 1)..(gseq + k)] :
       /\ \A s, t \in missing : new[s] = new[t] => s = t
       /\ groups' = [g \in Gids |-> IF \E t \in missing : new[t] = g
                                    THEN [name |-> TheOne({t \in missing : new[t] = g}), ext |-> FALSE]
                                    ELSE groups[g]]
       /\ members' = {m \in members : m[2] # id}
                     \cup {<<g, id>> : g \in {h \in GroupRows : groups[h].name \in tok}}
                     \cup {<<new[t], id>> : t \in missing}
  <2> DEFINE M == {t \in q.tok : GetSCIMGroupByName(t) = {}}
  <2>1. \E new \in [M -> (gseq + 1)..(gseq + Cardinality(M))] :
         /\ \A s, t \in M : new[s] = new[t] => s = t
         /\ groups' = [g \in Gids |-> IF \E t \in M : new[t] = g
                                      THEN [name |-> TheOne({t \in M : new[t] = g}), ext |-> FALSE]
                                      ELSE groups[g]]
         /\ members' = {m \in members : m[2] # q.id}
                       \cup {<<g, q.id>> : g \in {h \in GroupRows : groups[h].name \in q.tok}}
                       \cup {<<new[t], q.id>> : t \in M}
    BY Zenon DEF SyncUserOIDCGroups
  <2>2. M = missing /\ k = Cardinality(M)
    BY <1>2, <1>6
  <2> HIDE DEF M
  <2>3. PICK new \in [M -> (gseq + 1)..(gseq + Cardinality(M))] :
         /\ \A s, t \in M : new[s] = new[t] => s = t
         /\ groups' = [g \in Gids |-> IF \E t \in M : new[t] = g
                                      THEN [name |-> TheOne({t \in M : new[t] = g}), ext |-> FALSE]
                                      ELSE groups[g]]
         /\ members' = {m \in members : m[2] # q.id}
                       \cup {<<g, q.id>> : g \in {h \in GroupRows : groups[h].name \in q.tok}}
                       \cup {<<new[t], q.id>> : t \in M}
    BY <2>1, Zenon
  <2>4. new \in [missing -> (gseq + 1)..(gseq + k)]
    BY <2>2, <2>3
  <2>5. \A s, t \in missing : new[s] = new[t] => s = t
    BY <2>2, <2>3
  <2>6. groups' = [g \in Gids |-> IF \E t \in missing : new[t] = g
                                 THEN [name |-> TheOne({t \in missing : new[t] = g}), ext |-> FALSE]
                                 ELSE groups[g]]
    BY <2>2, <2>3
  <2>7. members' = {m \in members : m[2] # id}
                   \cup {<<g, id>> : g \in {h \in GroupRows : groups[h].name \in tok}}
                   \cup {<<new[t], id>> : t \in missing}
    BY <1>2, <2>2, <2>3
  <2> QED
    BY <2>4, <2>5, <2>6, <2>7
<1>10. gseq \in 0..MaxGroups /\ MaxGroups \in Nat /\ GroupRows \subseteq 1..gseq
       /\ failed \subseteq Uids
       /\ members \subseteq GroupRows \X Rows /\ groups \in [Gids -> GroupRow \cup {None}]
       /\ GroupRows \subseteq Gids
  BY <1>3, ConstantFacts, RowFacts DEF TablesOK
<1>11. \A t \in missing : new[t] \in Gids /\ new[t] > gseq /\ new[t] \in 1..gseq' /\ t \in GroupNames
  <2> SUFFICES ASSUME NEW t \in missing
               PROVE  new[t] \in Gids /\ new[t] > gseq /\ new[t] \in 1..gseq'
                      /\ t \in GroupNames
    OBVIOUS
  <2>1. new[t] \in (gseq + 1)..(gseq + k)
    BY <1>9
  <2> QED
    BY <1>3, <1>6, <1>7, <1>8, <1>10, <2>1 DEF Gids
<1>12. \A t \in missing : groups'[new[t]] = [name |-> t, ext |-> FALSE]
  <2> SUFFICES ASSUME NEW t \in missing PROVE groups'[new[t]] = [name |-> t, ext |-> FALSE]
    OBVIOUS
  <2>1. PICK S : S = {s \in missing : new[s] = new[t]}
    OBVIOUS
  <2>2. S = {t}
    BY <1>9, <2>1
  <2>3. TheOne(S) = t
    <3>1. TheOne(S) \in S
      BY <2>2, ChosenIsIn
    <3> QED BY <2>2, <3>1
  <2>4. groups'[new[t]] = [name |-> TheOne({s \in missing : new[s] = new[t]}), ext |-> FALSE]
    BY <1>9, <1>11
  <2> QED
    BY <2>1, <2>3, <2>4
<1>13. \A t \in missing : [name |-> t, ext |-> FALSE] \in GroupRow
  BY <1>11 DEF GroupRow
<1>14. \A t \in missing : /\ groups'[new[t]] \in GroupRow /\ groups'[new[t]].name = t
                          /\ groups'[new[t]] # None
  <2> SUFFICES ASSUME NEW t \in missing
               PROVE  /\ groups'[new[t]] \in GroupRow /\ groups'[new[t]].name = t
                      /\ groups'[new[t]] # None
    OBVIOUS
  <2>1. PICK row : row = [name |-> t, ext |-> FALSE]
    OBVIOUS
  <2>2. groups'[new[t]] = row
    BY <1>12, <2>1
  <2>3. row \in GroupRow
    BY <1>13, <2>1
  <2>4. row.name = t
    BY <2>1
  <2>5. row # None
    BY <2>3, ConstantFacts
  <2> QED
    BY <2>2, <2>3, <2>4, <2>5
<1>15. \A g \in Gids : (~\E t \in missing : new[t] = g) => groups'[g] = groups[g]
  BY <1>9
<1>16. groups' \in [Gids -> GroupRow \cup {None}]
  <2>1. \A g \in Gids : groups'[g] \in GroupRow \cup {None}
    BY <1>10, <1>14, <1>15
  <2>2. groups' = [g \in Gids |-> groups'[g]]
    BY <1>9
  <2> QED
    BY <2>1, <2>2
<1>17. \A g \in GroupRows : groups'[g] = groups[g] /\ g \in GroupRows'
  <2> SUFFICES ASSUME NEW g \in GroupRows PROVE groups'[g] = groups[g] /\ g \in GroupRows'
    OBVIOUS
  <2>1. g \in Gids /\ g <= gseq /\ g \in Nat
    BY <1>10
  <2>2. groups'[g] = groups[g]
    BY <1>10, <1>11, <1>15, <2>1 DEF Gids
  <2> QED
    BY <2>1, <2>2 DEF GroupRows
<1>18. \A t \in missing : new[t] \in GroupRows'
  BY <1>11, <1>14 DEF GroupRows
<1>19. GroupRows' \subseteq 1..gseq'
  <2> SUFFICES ASSUME NEW g \in GroupRows' PROVE g \in 1..gseq'
    OBVIOUS
  <2>1. g \in Gids /\ groups'[g] # None
    BY DEF GroupRows
  <2>2. g \in GroupRows \/ \E t \in missing : new[t] = g
    BY <1>15, <2>1 DEF GroupRows
  <2>3. CASE g \in GroupRows
    BY <1>7, <1>8, <1>10, <2>3
  <2> QED
    BY <1>11, <2>2, <2>3
<1>20. /\ \A h, x : x # id => (<<h, x>> \in members' <=> <<h, x>> \in members)
       /\ \A h : <<h, id>> \in members' <=> \/ h \in GroupRows /\ groups[h].name \in tok
                                            \/ \E t \in missing : h = new[t]
  BY <1>9
<1>21. members' \subseteq GroupRows' \X Rows
  <2> SUFFICES ASSUME NEW m \in members' PROVE m \in GroupRows' \X Rows
    OBVIOUS
  <2>1. CASE m \in members
    BY <1>10, <1>17, <2>1
  <2>2. CASE \E h \in GroupRows : m = <<h, id>>
    BY <1>3, <1>17, <2>2
  <2>3. CASE \E t \in missing : m = <<new[t], id>>
    BY <1>3, <1>18, <2>3
  <2> QED
    BY <1>9, <2>1, <2>2, <2>3
<1>22. TablesOK'
  <2>1. Rows' = Rows
    BY <1>1 DEF Rows
  <2>2. gseq' \in 0..MaxGroups
    BY <1>7, <1>8, <1>10
  <2> QED
    BY <1>1, <1>3, <1>10, <1>16, <1>19, <1>21, <2>1, <2>2 DEF TablesOK
<1>23. ASSUME NEW x, x # id PROVE RoleOf(x)' = RoleOf(x)
  <2>1. \A h : <<h, x>> \in members => h \in GroupRows
    BY <1>10
  <2>2. (\E h \in GroupRows : <<h, x>> \in members /\ groups[h].name = AdminGroup)
        <=> (\E h \in GroupRows' : <<h, x>> \in members' /\ groups'[h].name = AdminGroup)
    BY <1>17, <1>20, <1>23, <2>1
  <2> QED
    BY <2>2, RoleIs
<1>24. RoleOf(id)' = roleFromGroupNames(tok)
  <2>1. ASSUME AdminGroup \in tok
        PROVE  \E h \in GroupRows' : <<h, id>> \in members' /\ groups'[h].name = AdminGroup
    <3>1. CASE AdminGroup \in missing
      BY <1>14, <1>18, <1>20, <3>1
    <3>2. CASE AdminGroup \notin missing
      <4>1. PICK h \in GroupRows : groups[h].name = AdminGroup
        BY <1>6, <2>1, <3>2 DEF GetSCIMGroupByName
      <4> QED
        BY <1>17, <1>20, <2>1, <4>1
    <3> QED
      BY <3>1, <3>2
  <2>2. ASSUME NEW h \in GroupRows', <<h, id>> \in members', groups'[h].name = AdminGroup
        PROVE  AdminGroup \in tok
    <3>1. CASE h \in GroupRows /\ groups[h].name \in tok
      BY <1>17, <2>2, <3>1
    <3>2. CASE \E t \in missing : h = new[t]
      BY <1>6, <1>14, <2>2, <3>2
    <3> QED
      BY <1>20, <2>2, <3>1, <3>2
  <2> QED
    BY <2>1, <2>2, RoleIs DEF roleFromGroupNames
<1>25. Alone /\ AloneInv => Stands(q) /\ RolesOK
  BY DEF AloneInv, PeopleInv
<1>26. ASSUME Alone, AloneInv PROVE Stands(v)'
  <2>1. Stands(v)
    BY <1>1, <1>2, <1>4, <1>25, <1>26 DEF Stands, Peopled
  <2> QED
    BY <1>1, <1>4, <2>1, StandsNoRole
<1>27. ASSUME Alone, AloneInv, NEW x \in Rows, x \notin failed', x \notin Pending(v)
       PROVE  users[x].role = RoleOf(x)'
  <2>1. CASE x = id
    BY <1>1, <1>2, <1>24, <1>25, <1>27, <2>1 DEF Stands
  <2>2. CASE x # id
    <3>1. x \notin failed /\ x \notin Pending(q)
      BY <1>1, <1>2, <1>4, <1>27, <2>2 DEF Pending
    <3> QED
      BY <1>23, <1>25, <1>27, <2>2, <3>1, Fitting
  <2> QED
    BY <2>1, <2>2
<1>28. \A x : ~Revoking(q, x)
  BY <1>1 DEF Revoking
<1> QED
  BY <1>1, <1>4, <1>5, <1>22, <1>26, <1>27, <1>28, TableStep

-----------------------------------------------------------------------------
(* A step about sessions and game identities. *)
LEMMA SessionStep ==
  ASSUME TypeInv, NEW r \in Requests, NEW v \in ReqRow, Goto(r, v),
         UNCHANGED <<users, groups, gseq, members>>, Refers(v),
         identity' \in [Names -> IdentityRow \cup {None}],
         sessions' \in [Sids -> SessionRow \cup {None}],
         failed' \subseteq Uids, kept' \subseteq Uids,
         Alone /\ AloneInv =>
           /\ Stands(v) /\ NamesOK' /\ AdminsOK'
           /\ \A u \in Rows : users[u].role = RoleOf(u) \/ u \in failed' \/ u \in Pending(v)
  PROVE  Kept
<1>1. Rows' = Rows /\ GroupRows' = GroupRows
  BY DEF Rows, GroupRows
<1>2. TablesOK'
  BY <1>1 DEF TypeInv, TablesOK
<1>3. RequestsOK'
  <2>1. Refers(v)'
    BY <1>1 DEF Refers
  <2> QED
    BY <1>1, <2>1, RequestNext
<1>4. ASSUME Alone, AloneInv PROVE AloneInv'
  <2>1. RowsOK'
    BY <1>4, RowsSame DEF AloneInv, PeopleInv
  <2>2. \A d \in Requests : req'[d] = v
    BY <1>4, Goes
  <2>3. Stands(v)'
    BY <1>4, StandsSame
  <2>4. \A d \in Requests : Stands(req[d])'
    BY <2>2, <2>3, StandsNext
  <2>5. \A u : RoleOf(u)' = RoleOf(u)
    BY RoleSame
  <2>6. RolesOK'
    BY <1>1, <1>4, <2>2, <2>5 DEF RolesOK
  <2> QED
    BY <1>4, <2>1, <2>4, <2>6 DEF AloneInv, PeopleInv
<1> QED
  BY <1>2, <1>3, <1>4 DEF Kept, TypeInv

(* Outside the requests: sessions end, identities are set by name. *)
LEMMA LooseStep ==
  ASSUME TypeInv, UNCHANGED <<users, groups, gseq, members, req, failed, kept>>,
         identity' \in [Names -> IdentityRow \cup {None}],
         sessions' \in [Sids -> SessionRow \cup {None}],
         \A s \in Sids : sessions'[s] \in {None, sessions[s]},
         Alone /\ AloneInv => NamesOK'
  PROVE  Kept
<1>1. Rows' = Rows /\ GroupRows' = GroupRows
  BY DEF Rows, GroupRows
<1>2. TablesOK'
  BY <1>1 DEF TypeInv, TablesOK
<1>3. RequestsOK'
  BY <1>1, SameRequests
<1>4. ASSUME Alone, AloneInv PROVE AloneInv'
  <2>1. RowsOK'
    BY <1>4, RowsSame DEF AloneInv, PeopleInv
  <2>2. \A d \in Requests : Stands(req[d])'
    <3> SUFFICES ASSUME NEW d \in Requests PROVE Stands(req[d])'
      OBVIOUS
    <3>1. PICK v : v = req[d]
      OBVIOUS
    <3>2. Stands(v)'
      BY <1>4, <3>1, StandsSame DEF AloneInv, PeopleInv
    <3>3. req'[d] = v
      BY <3>1
    <3> QED
      BY <3>2, <3>3 DEF Stands, Peopled
  <2>3. \A u : RoleOf(u)' = RoleOf(u)
    BY RoleSame
  <2>4. RolesOK'
    BY <1>1, <1>4, <2>3 DEF RolesOK, AloneInv
  <2>5. AdminsOK'
    BY <1>1, <1>4 DEF AdminsOK, AloneInv
  <2> QED
    BY <1>4, <2>1, <2>2, <2>4, <2>5 DEF AloneInv, PeopleInv
<1> QED
  BY <1>2, <1>3, <1>4 DEF Kept, TypeInv

LEMMA SessionsEnd ==
  ASSUME TypeInv, UNCHANGED <<users, identity>>, NamesOK,
         \A s \in Sids : sessions'[s] \in {None, sessions[s]}
  PROVE  NamesOK'
<1>1. Rows' = Rows
  BY DEF Rows
<1> QED
  BY <1>1, NamesFrame, SessionPeople DEF TypeInv

LEMMA DeletedSessions ==
  ASSUME TypeInv, NEW p
  PROVE  LET new == DeleteSessionsBySub(p) IN
         /\ new \in [Sids -> SessionRow \cup {None}]
         /\ \A s \in Sids : new[s] \in {None, sessions[s]}
                            /\ (new[s] # None => sessions[s].sub # p)
  BY DEF DeleteSessionsBySub, TypeInv, TablesOK

LEMMA EndedSession ==
  ASSUME TypeInv, NEW s \in Sids, sessions' = [sessions EXCEPT ![s] = None]
  PROVE  /\ sessions' \in [Sids -> SessionRow \cup {None}]
         /\ \A x \in Sids : sessions'[x] \in {None, sessions[x]}
  BY DEF TypeInv, TablesOK

LEMMA GetSessionStep ==
  ASSUME TypeInv, NEW s \in Sids, getSession(s)
  PROVE  Kept
<1>1. /\ sessions' = [sessions EXCEPT ![s] = None]
      /\ UNCHANGED <<users, groups, gseq, members, identity, req, failed, kept>>
  BY DEF getSession
<1>2. identity' \in [Names -> IdentityRow \cup {None}]
  BY <1>1 DEF TypeInv, TablesOK
<1> QED
  BY <1>1, <1>2, EndedSession, SessionsEnd, LooseStep DEF AloneInv

LEMMA HandleLogoutStep ==
  ASSUME TypeInv, NEW s \in Sids, HandleLogout(s)
  PROVE  Kept
<1>1. /\ sessions' = [sessions EXCEPT ![s] = None]
      /\ UNCHANGED <<users, groups, gseq, members, identity, req, failed, kept>>
  BY DEF HandleLogout
<1>2. identity' \in [Names -> IdentityRow \cup {None}]
  BY <1>1 DEF TypeInv, TablesOK
<1> QED
  BY <1>1, <1>2, EndedSession, SessionsEnd, LooseStep DEF AloneInv

LEMMA HandleBackChannelLogoutStep ==
  ASSUME TypeInv, NEW p \in People, HandleBackChannelLogout(p)
  PROVE  Kept
<1>1. /\ sessions' = DeleteSessionsBySub(p)
      /\ UNCHANGED <<users, groups, gseq, members, identity, req, failed, kept>>
  BY DEF HandleBackChannelLogout
<1>2. identity' \in [Names -> IdentityRow \cup {None}]
  BY <1>1 DEF TypeInv, TablesOK
<1> QED
  BY <1>1, <1>2, DeletedSessions, SessionsEnd, LooseStep DEF AloneInv

LEMMA IdentitySet ==
  ASSUME TypeInv, NEW n \in Names, NEW row, row = None \/ row \in IdentityRow,
         identity' = [identity EXCEPT ![n] = row], UNCHANGED <<users, sessions>>, NamesOK,
         row # None /\ row.who # None =>
           \E u \in Rows : users[u].name = n /\ PersonOf(users[u]) = row.who
  PROVE  /\ identity' \in [Names -> IdentityRow \cup {None}] /\ NamesOK'
<1>1. identity \in [Names -> IdentityRow \cup {None}]
  BY DEF TypeInv, TablesOK
<1>2. identity' \in [Names -> IdentityRow \cup {None}] /\ identity'[n] = row
      /\ \A m \in Names : m # n => identity'[m] = identity[m]
  BY <1>1
<1>3. Rows' = Rows
  BY DEF Rows
<1>4. ASSUME NEW m \in Names, identity'[m] # None, identity'[m].who # None
      PROVE  \E u \in Rows : users[u].name = m /\ PersonOf(users[u]) = identity'[m].who
  <2>1. CASE m = n
    BY <1>2, <1>4, <2>1
  <2>2. CASE m # n
    BY <1>2, <1>4, <2>2 DEF NamesOK
  <2> QED
    BY <2>1, <2>2
<1> QED
  BY <1>2, <1>3, <1>4 DEF NamesOK

LEMMA SetGameIdentityStep ==
  ASSUME TypeInv, NEW n \in Names, SetGameIdentity(n)
  PROVE  Kept
<1>1. /\ identity' = [identity EXCEPT ![n] = [src |-> "admin", who |-> PersonNamed(n)]]
      /\ UNCHANGED <<users, groups, gseq, members, sessions, req, failed, kept>>
  BY DEF SetGameIdentity
<1>2. PICK row : row = [src |-> "admin", who |-> PersonNamed(n)]
  OBVIOUS
<1>3. /\ PersonNamed(n) \in People \cup {None}
      /\ PersonNamed(n) # None => \E u \in Rows : users[u].name = n /\ PersonOf(users[u]) = PersonNamed(n)
  <2>1. CASE GetUserByUsername(n) = {}
    BY <2>1 DEF PersonNamed
  <2>2. CASE GetUserByUsername(n) # {}
    <3>1. PICK u : u = TheOne(GetUserByUsername(n))
      OBVIOUS
    <3>2. u \in GetUserByUsername(n)
      BY <2>2, <3>1, ChosenIsIn
    <3>3. u \in Rows /\ users[u].name = n /\ users[u] \in UserRow
      BY <3>2, RowFacts DEF GetUserByUsername, TypeInv
    <3>4. PersonNamed(n) = PersonOf(users[u])
      BY <2>2, <3>1 DEF PersonNamed
    <3>5. PersonOf(users[u]) \in People \cup {None}
      BY <3>3 DEF PersonOf, UserRow
    <3> QED
      BY <3>3, <3>4, <3>5
  <2> QED
    BY <2>1, <2>2
<1>4. row \in IdentityRow /\ row.who = PersonNamed(n)
  BY <1>2, <1>3 DEF IdentityRow
<1>5. identity' = [identity EXCEPT ![n] = row]
  BY <1>1, <1>2
<1>6. identity' \in [Names -> IdentityRow \cup {None}]
  BY <1>4, <1>5 DEF TypeInv, TablesOK
<1>7. sessions' \in [Sids -> SessionRow \cup {None}] /\ \A s \in Sids : sessions'[s] \in {None, sessions[s]}
  BY <1>1 DEF TypeInv, TablesOK
<1>8. AloneInv => NamesOK'
  BY <1>1, <1>3, <1>4, <1>5, IdentitySet DEF AloneInv
<1> QED
  BY <1>1, <1>6, <1>7, <1>8, LooseStep

LEMMA DeleteGameIdentityStep ==
  ASSUME TypeInv, NEW n \in Names, DeleteGameIdentity(n)
  PROVE  Kept
<1>1. /\ identity' = [identity EXCEPT ![n] = None]
      /\ UNCHANGED <<users, groups, gseq, members, sessions, req, failed, kept>>
  BY DEF DeleteGameIdentity
<1>2. identity' \in [Names -> IdentityRow \cup {None}]
  BY <1>1 DEF TypeInv, TablesOK
<1>3. sessions' \in [Sids -> SessionRow \cup {None}] /\ \A s \in Sids : sessions'[s] \in {None, sessions[s]}
  BY <1>1 DEF TypeInv, TablesOK
<1>4. AloneInv => NamesOK'
  BY <1>1, IdentitySet DEF AloneInv
<1> QED
  BY <1>1, <1>2, <1>3, <1>4, LooseStep

LEMMA DeleteUserStep ==
  ASSUME TypeInv, NEW r \in Requests, DeleteUser(r)
  PROVE  Kept
<1>1. req[r].pc = "idle" /\ UNCHANGED <<users, groups, gseq, members, identity, failed, kept>>
  BY DEF DeleteUser
<1>2. PICK u \in Rows : /\ sessions' = DeleteSessionsBySub(users[u].ext)
                        /\ Goto(r, [NoReq EXCEPT !.op = "delete", !.pc = "deactivate", !.id = u])
  BY DEF DeleteUser
<1>3. PICK v : v = [NoReq EXCEPT !.op = "delete", !.pc = "deactivate", !.id = u]
  OBVIOUS
<1>4. TablesOK /\ u \in Uids /\ identity' \in [Names -> IdentityRow \cup {None}]
      /\ failed' \subseteq Uids /\ kept' \subseteq Uids
  BY <1>1, RowFacts DEF TypeInv, TablesOK
<1>5. v \in ReqRow /\ v.pc = "deactivate" /\ v.op = "delete" /\ v.id = u /\ v.todo = {}
  BY <1>3, <1>4, IdleRow DEF ReqRow, Pcs, Ops
<1>6. Goto(r, v) /\ Refers(v)
  BY <1>2, <1>3, <1>5 DEF Refers
<1>7. sessions' \in [Sids -> SessionRow \cup {None}] /\ \A s \in Sids : sessions'[s] \in {None, sessions[s]}
  BY <1>2, DeletedSessions
<1>8. \A x : ~Revoking(req[r], x)
  BY <1>1 DEF Revoking
<1>9. ASSUME Alone, AloneInv
      PROVE  /\ Stands(v) /\ NamesOK' /\ AdminsOK'
             /\ \A x \in Rows : users[x].role = RoleOf(x) \/ x \in failed' \/ x \in Pending(v)
  <2>1. Stands(req[r]) /\ RolesOK /\ NamesOK /\ AdminsOK
    BY <1>9 DEF AloneInv, PeopleInv
  <2>2. Pending(req[r]) = {} /\ Stands(v)
    BY <1>1, <1>5, <2>1 DEF Stands, Peopled, Pending
  <2>3. NamesOK'
    BY <1>1, <1>7, <2>1, SessionsEnd
  <2>4. Rows' = Rows
    BY <1>1 DEF Rows
  <2>5. AdminsOK'
    BY <1>1, <1>6, <1>7, <1>8, <1>9, <2>1, <2>4, AdminsFrame
  <2>6. \A x \in Rows : users[x].role = RoleOf(x) \/ x \in failed'
    BY <1>1, <1>9, <2>1, <2>2, Fitting
  <2> QED
    BY <2>2, <2>3, <2>5, <2>6
<1> QED
  BY <1>1, <1>4, <1>5, <1>6, <1>7, <1>9, SessionStep

LEMMA SyncGameIdentitiesStep ==
  ASSUME TypeInv, NEW r \in Requests, syncGameIdentities(r)
  PROVE  Kept
<1> DEFINE q == req[r]
<1>1. q.pc = "games" /\ UNCHANGED <<users, groups, gseq, members, sessions, kept>>
  BY DEF syncGameIdentities
<1>2. q \in ReqRow /\ Refers(q) /\ TablesOK /\ q.id \in Rows /\ q.name \in Names
  BY <1>1, RequestFacts DEF TypeInv, Refers
<1>3. Alone /\ AloneInv => /\ Stands(q) /\ RolesOK /\ NamesOK /\ AdminsOK /\ RowsOK
                           /\ \A x \in Rows : PersonOf(users[x]) # None
  BY <1>1 DEF AloneInv, PeopleInv, Stands, Peopled
<1>4. CASE q.games = "invalid"
  <2>1. Fail(r) /\ UNCHANGED identity
    BY <1>4 DEF syncGameIdentities
  <2> QED
    BY <1>1, <1>3, <2>1, FailStep
<1>5. CASE q.games # "invalid"
  <2>1. /\ identity' = IF q.games = "absent" THEN identity
                       ELSE ReplaceSCIMGameIdentities(q.name, q.person, q.games = "verified")
        /\ Goto(r, AfterGames(q)) /\ UNCHANGED failed
    BY <1>5 DEF syncGameIdentities
  <2>2. PICK v : v = AfterGames(q)
    OBVIOUS
  <2>3. \/ q.gset /\ v = [q EXCEPT !.pc = "groups"]
        \/ ~q.gset /\ q.op = "patch" /\ q.changed /\ v = [q EXCEPT !.pc = "recalc"]
        \/ ~q.gset /\ q.op = "replace" /\ q.changed /\ v = [q EXCEPT !.pc = "revoke"]
        \/ ~q.gset /\ (q.op = "patch" => ~q.changed) /\ v = NoReq
    BY <2>2 DEF AfterGames
  <2>4. \/ /\ \/ q.gset /\ v.pc = "groups"
              \/ ~q.gset /\ q.op = "patch" /\ q.changed /\ v.pc = "recalc"
              \/ ~q.gset /\ q.op = "replace" /\ q.changed /\ v.pc = "revoke"
           /\ v \in ReqRow /\ v.op = q.op /\ v.id = q.id /\ v.ext = q.ext /\ v.role = q.role
           /\ v.prevRole = q.prevRole /\ v.todo = q.todo /\ v.gset = q.gset
        \/ ~q.gset /\ (q.op = "patch" => ~q.changed) /\ v = NoReq
    <3> HIDE DEF q
    <3> QED BY <1>2, <2>3 DEF ReqRow, Pcs
  <2>5. v \in ReqRow /\ Refers(v)
    BY <1>2, <2>4, IdleRow, StandsIdle DEF Refers
  <2>6. Goto(r, v)
    BY <2>1, <2>2
  <2>7. /\ sessions' \in [Sids -> SessionRow \cup {None}] /\ failed' \subseteq Uids
        /\ kept' \subseteq Uids
        /\ identity \in [Names -> IdentityRow \cup {None}]
    BY <1>1, <2>1 DEF TypeInv, TablesOK
  <2>8. PICK name, row : /\ name = q.name /\ row = [src |-> "scim", who |-> q.person]
    OBVIOUS
  <2>9. row \in IdentityRow /\ row.who = q.person
    BY <1>2, <2>8 DEF IdentityRow, ReqRow
  <2>10. \/ UNCHANGED identity \/ identity' = [identity EXCEPT ![name] = row]
         \/ identity' = [identity EXCEPT ![name] = None]
    BY <2>1, <2>8 DEF ReplaceSCIMGameIdentities
  <2>11. identity' \in [Names -> IdentityRow \cup {None}]
    BY <1>2, <2>7, <2>8, <2>9, <2>10
  <2>12. \A x : ~Revoking(q, x)
    BY <1>1 DEF Revoking
  <2>13. ASSUME Alone, AloneInv
         PROVE  /\ Stands(v) /\ NamesOK' /\ AdminsOK'
                /\ \A x \in Rows : users[x].role = RoleOf(x) \/ x \in failed' \/ x \in Pending(v)
    <3>0. Stands(q)
      BY <1>3, <2>13
    <3>1. Stands(v)
      <4>1. CASE v = NoReq
        BY <1>3, <2>13, <4>1, StandsIdle
      <4>2. CASE v # NoReq
        <5>1. /\ v.op = q.op /\ v.id = q.id /\ v.ext = q.ext /\ v.role = q.role
              /\ v.prevRole = q.prevRole /\ v.todo = q.todo
          BY <2>4, <4>2
        <5>2. /\ q.todo = {} /\ q.ext = users[q.id].ext /\ q.role = users[q.id].role
              /\ q.op # "create" => q.prevRole = users[q.id].role
              /\ q.op \in {"create", "replace", "patch"} /\ (q.op = "patch" => ~q.gset)
          BY <1>1, <3>0 DEF Stands
        <5>3. Peopled(v)
          BY <1>3, <2>13 DEF Peopled
        <5>4. CASE v.pc = "groups"
          <6>1. v.gset /\ v.op \in {"create", "replace"}
            BY <2>4, <4>2, <5>1, <5>2, <5>4
          <6> QED
            BY <5>1, <5>2, <5>3, <5>4, <6>1 DEF Stands
        <5>5. CASE v.pc = "recalc"
          BY <5>1, <5>2, <5>3, <5>5 DEF Stands
        <5>6. CASE v.pc = "revoke"
          <6>1. ~v.gset /\ v.op = "replace"
            BY <2>4, <4>2, <5>1, <5>6
          <6> QED
            BY <5>1, <5>2, <5>3, <5>6, <6>1 DEF Stands
        <5> QED
          BY <2>4, <4>2, <5>4, <5>5, <5>6
      <4> QED BY <4>1, <4>2
    <3>2. users[q.id].name = name /\ PersonOf(users[q.id]) = q.person
      BY <1>1, <1>2, <1>3, <2>8, <2>13 DEF Stands, RowsOK, PersonOf
    <3>3. NamesOK'
      <4>1. CASE UNCHANGED identity
        BY <1>1, <1>3, <2>13, <4>1, SessionsEnd
      <4>2. CASE identity' = [identity EXCEPT ![name] = row]
        BY <1>1, <1>2, <1>3, <2>8, <2>9, <2>13, <3>2, <4>2, IdentitySet
      <4>3. CASE identity' = [identity EXCEPT ![name] = None]
        BY <1>1, <1>2, <1>3, <2>8, <2>13, <4>3, IdentitySet
      <4> QED
        BY <2>10, <4>1, <4>2, <4>3
    <3>4. Rows' = Rows
      BY <1>1 DEF Rows
    <3>5. AdminsOK'
      BY <1>1, <1>3, <2>6, <2>12, <2>13, <3>4, AdminsFrame
    <3>6. Pending(q) \subseteq Pending(v)
      <4>1. q.todo = {} /\ (q.op = "patch" => ~q.gset)
        BY <1>1, <3>0 DEF Stands
      <4>2. CASE q.op = "patch" /\ q.changed
        <5>1. v.pc = "recalc" /\ v.id = q.id
          BY <2>4, <4>1, <4>2
        <5> QED
          BY <1>1, <4>1, <5>1 DEF Pending
      <4>3. CASE ~(q.op = "patch" /\ q.changed)
        <5>1. Pending(q) = {}
          BY <1>1, <4>1, <4>3 DEF Pending
        <5> QED
          BY <5>1
      <4> QED
        BY <4>2, <4>3
    <3>7. \A x \in Rows : users[x].role = RoleOf(x) \/ x \in failed' \/ x \in Pending(v)
      BY <1>3, <2>1, <2>13, <3>6, Fitting
    <3> QED
      BY <3>1, <3>3, <3>5, <3>7
  <2> QED
    BY <1>1, <2>5, <2>6, <2>7, <2>11, <2>13, SessionStep
<1> QED
  BY <1>4, <1>5

(* A name leads to one row, that of the person the session is for. *)
LEMMA SessionIs ==
  ASSUME TypeInv, RowsOK, NamesOK, NEW s \in Sids, sessions[s] # None,
         NEW u \in Rows, users[u].name = sessions[s].name
  PROVE  PersonOf(users[u]) = sessions[s].sub
  BY DEF RowsOK, NamesOK

LEMMA TriggerSessionInvalidationStep ==
  ASSUME TypeInv, NEW r \in Requests, triggerSessionInvalidation(r)
  PROVE  Kept
<1> DEFINE q == req[r]
<1>1. q.pc = "revoke" /\ UNCHANGED <<users, groups, gseq, members, identity>>
      /\ failed' = IF q.op = "replace" /\ ~q.gset THEN failed ELSE failed \ {q.id}
  BY DEF triggerSessionInvalidation
<1>2. \/ /\ Revokes(q) /\ q.ext # None
         /\ sessions' = DeleteSessionsBySub(q.ext) /\ kept' = kept \ {q.id}
      \/ ~(Revokes(q) /\ q.ext # None) /\ UNCHANGED <<sessions, kept>>
  BY DEF triggerSessionInvalidation
<1>3. q \in ReqRow /\ Refers(q) /\ TablesOK /\ q.id \in Rows /\ 0 \in Uids \cup {0}
  BY <1>1, RequestFacts DEF TypeInv, Refers
<1>4. PICK v : v = IF q.op = "group" THEN [q EXCEPT !.pc = "next", !.id = 0] ELSE NoReq
  OBVIOUS
<1>5. Goto(r, v)
  BY <1>4 DEF triggerSessionInvalidation, Done
<1>6. \/ q.op = "group" /\ v \in ReqRow /\ v.pc = "next" /\ v.op = q.op /\ v.id = 0 /\ v.todo = q.todo
      \/ q.op # "group" /\ v = NoReq
  <2> HIDE DEF q
  <2> QED BY <1>3, <1>4 DEF ReqRow, Pcs
<1>7. v \in ReqRow /\ Refers(v)
  BY <1>3, <1>6, IdleRow, StandsIdle DEF Refers
<1>8. /\ identity' \in [Names -> IdentityRow \cup {None}] /\ failed' \subseteq Uids
      /\ kept' \subseteq Uids
  BY <1>1, <1>2, <1>3 DEF TablesOK
<1>9. sessions' \in [Sids -> SessionRow \cup {None}] /\ \A s \in Sids : sessions'[s] \in {None, sessions[s]}
  BY <1>2, <1>3, DeletedSessions DEF TablesOK
<1>10. ASSUME Alone, AloneInv
       PROVE  /\ Stands(v) /\ NamesOK' /\ AdminsOK'
              /\ \A x \in Rows : users[x].role = RoleOf(x) \/ x \in failed' \/ x \in Pending(v)
  <2>1. Stands(q) /\ RolesOK /\ NamesOK /\ AdminsOK /\ RowsOK
        /\ \A x \in Rows : PersonOf(users[x]) # None
    BY <1>1, <1>10 DEF AloneInv, PeopleInv, Stands, Peopled
  <2>2. Stands(v)
    <3>1. CASE v = NoReq
      BY <2>1, <3>1, StandsIdle
    <3>2. CASE v # NoReq
      BY <1>6, <2>1, <3>2 DEF Stands, Peopled
    <3> QED BY <3>1, <3>2
  <2>3. NamesOK'
    BY <1>1, <1>9, <2>1, SessionsEnd
  <2>4. Rows' = Rows
    BY <1>1 DEF Rows
  <2>5. AdminsOK'
    <3> SUFFICES ASSUME NEW s \in Sids, sessions'[s] # None, sessions'[s].role = "admin",
                        NEW u \in Rows, users[u].name = sessions'[s].name,
                        users[u].role # "admin"
                 PROVE  u \in kept'
      BY <1>1, <2>4 DEF AdminsOK
    <3>1. sessions'[s] = sessions[s] /\ sessions[s] # None
      BY <1>9
    <3>2. u \in kept \/ \E d \in Requests : Revoking(req[d], u)
      BY <2>1, <3>1 DEF AdminsOK
    <3>3. u \in kept \/ Revoking(q, u)
      BY <1>10, <3>2 DEF Alone
    <3>4. CASE ~(Revokes(q) /\ q.ext # None)
      BY <1>2, <3>3, <3>4 DEF Revoking
    <3>5. CASE Revokes(q) /\ q.ext # None
      <4>1. sessions' = DeleteSessionsBySub(q.ext) /\ kept' = kept \ {q.id}
        BY <1>2, <3>5
      <4>2. sessions[s].sub # q.ext
        BY <3>1, <4>1, DeletedSessions
      <4>3. PersonOf(users[u]) # q.ext
        BY <2>1, <3>1, <4>2, SessionIs
      <4>4. PersonOf(users[q.id]) = q.ext
        BY <1>1, <1>3, <2>1, <3>5 DEF Stands, RowsOK, PersonOf
      <4>5. u # q.id
        BY <4>3, <4>4
      <4> QED
        BY <3>3, <4>1, <4>5 DEF Revoking
    <3> QED
      BY <3>4, <3>5
  <2>6. ASSUME NEW x \in Rows, x \notin failed', x \notin Pending(v)
        PROVE  users[x].role = RoleOf(x)
    <3>1. x \notin Pending(q)
      BY <1>1, <1>6, <2>1, <2>6 DEF Pending, Stands
    <3>2. CASE x \notin failed
      BY <1>10, <2>1, <3>1, <3>2, Fitting
    <3>3. CASE x \in failed
      <4>1. x = q.id /\ (q.op # "replace" \/ q.gset)
        BY <1>1, <2>6, <3>3
      <4> QED
        BY <1>1, <2>1, <4>1 DEF Stands
    <3> QED
      BY <3>2, <3>3
  <2> QED
    BY <2>2, <2>3, <2>5, <2>6
<1> QED
  BY <1>1, <1>5, <1>7, <1>8, <1>9, <1>10, SessionStep

LEMMA CreateSessionStep ==
  ASSUME TypeInv, NEW r \in Requests, CreateSession(r)
  PROVE  Kept
<1> DEFINE q == req[r]
<1>1. q.pc = "session" /\ UNCHANGED <<users, groups, gseq, members, identity, failed, kept>>
      /\ Goto(r, NoReq)
  BY DEF CreateSession, Done
<1>2. PICK row : row = [sub |-> q.person, name |-> q.name, role |-> resolveRole(q.tok)]
  OBVIOUS
<1>3. PICK s \in Sids : sessions[s] = None /\ sessions' = [sessions EXCEPT ![s] = row]
  BY <1>2 DEF CreateSession
<1>4. q \in ReqRow /\ Refers(q) /\ TablesOK /\ q.id \in Rows /\ q.name \in Names
      /\ q.person \in People
  BY <1>1, RequestFacts DEF TypeInv, Refers
<1>5. resolveRole(q.tok) \in {"admin", "user", ""} /\ (resolveRole(q.tok) = "admin" => AdminGroup \in q.tok)
  BY DEF resolveRole
<1>6. row \in SessionRow /\ row.sub = q.person /\ row.name = q.name
      /\ row.role = resolveRole(q.tok)
  BY <1>2, <1>4, <1>5 DEF SessionRow
<1>7. /\ identity' \in [Names -> IdentityRow \cup {None}] /\ failed' \subseteq Uids
      /\ kept' \subseteq Uids
      /\ sessions \in [Sids -> SessionRow \cup {None}]
  BY <1>1, <1>4 DEF TablesOK
<1>8. /\ sessions' \in [Sids -> SessionRow \cup {None}] /\ sessions'[s] = row
      /\ \A x \in Sids : x # s => sessions'[x] = sessions[x]
  BY <1>3, <1>6, <1>7
<1>9. ASSUME Alone, AloneInv
      PROVE  /\ Stands(NoReq) /\ NamesOK' /\ AdminsOK'
             /\ \A x \in Rows : users[x].role = RoleOf(x) \/ x \in failed' \/ x \in Pending(NoReq)
  <2>1. Stands(q) /\ RolesOK /\ NamesOK /\ AdminsOK /\ RowsOK
        /\ \A x \in Rows : PersonOf(users[x]) # None
    BY <1>1, <1>9 DEF AloneInv, PeopleInv, Stands, Peopled
  <2>2. /\ users[q.id].name = row.name /\ PersonOf(users[q.id]) = row.sub
        /\ users[q.id].role = roleFromGroupNames(q.tok)
    BY <1>1, <1>6, <2>1 DEF Stands, PersonOf
  <2>3. Rows' = Rows
    BY <1>1 DEF Rows
  <2>4. NamesOK'
    <3>1. ASSUME NEW x \in Sids, sessions'[x] # None
          PROVE  \E u \in Rows : users[u].name = sessions'[x].name /\ PersonOf(users[u]) = sessions'[x].sub
      <4>1. CASE x = s
        BY <1>4, <1>8, <2>2, <4>1
      <4>2. CASE x # s
        BY <1>8, <2>1, <3>1, <4>2 DEF NamesOK
      <4> QED BY <4>1, <4>2
    <3> QED
      BY <1>1, <2>1, <2>3, <3>1 DEF NamesOK
  <2>5. AdminsOK'
    <3> SUFFICES ASSUME NEW x \in Sids, sessions'[x] # None, sessions'[x].role = "admin",
                        NEW u \in Rows, users[u].name = sessions'[x].name,
                        users[u].role # "admin"
                 PROVE  u \in kept
      BY <1>1, <2>3 DEF AdminsOK
    <3>1. CASE x = s
      <4>1. users[q.id].role = "admin"
        BY <1>5, <1>6, <1>8, <2>2, <3>1 DEF roleFromGroupNames
      <4>2. u = q.id
        BY <1>4, <1>8, <2>1, <2>2, <3>1 DEF RowsOK
      <4> QED
        BY <4>1, <4>2
    <3>2. CASE x # s
      <4>1. u \in kept \/ \E d \in Requests : Revoking(req[d], u)
        BY <1>8, <2>1, <3>2 DEF AdminsOK
      <4> QED
        BY <1>1, <1>9, <4>1 DEF Revoking, Alone
    <3> QED
      BY <3>1, <3>2
  <2>6. Pending(q) = {}
    BY <1>1, <2>1 DEF Pending, Stands
  <2>7. \A x \in Rows : users[x].role = RoleOf(x) \/ x \in failed'
    BY <1>1, <1>9, <2>1, <2>6, Fitting
  <2> QED
    BY <2>1, <2>4, <2>5, <2>7, StandsIdle
<1> QED
  BY <1>1, <1>7, <1>8, <1>9, IdleRow, StandsIdle, SessionStep

-----------------------------------------------------------------------------
(* A step about the rows of users. *)
AdminsNext(v) ==
  \A s \in Sids : sessions'[s] # None /\ sessions'[s].role = "admin" =>
    \A u \in Rows' : users'[u].name = sessions'[s].name =>
      users'[u].role = "admin" \/ u \in kept' \/ Revoking(v, u)

LEMMA UserStep ==
  ASSUME TypeInv, NEW r \in Requests, NEW v \in ReqRow, Goto(r, v), TablesOK',
         Rows \subseteq Rows',
         Refers(v)',
         Alone /\ AloneInv =>
           /\ RowsOK' /\ Stands(v)' /\ NamesOK' /\ AdminsNext(v)
           /\ \A u \in Rows' : users'[u].role = RoleOf(u)' \/ u \in failed' \/ u \in Pending(v)
  PROVE  Kept
<1>1. RequestsOK'
  BY RequestNext
<1>2. ASSUME Alone, AloneInv PROVE AloneInv'
  <2>1. \A d \in Requests : req'[d] = v
    BY <1>2, Goes
  <2>2. \A d \in Requests : Stands(req[d])'
    BY <1>2, <2>1, StandsNext
  <2>3. RolesOK'
    BY <1>2, <2>1 DEF RolesOK
  <2>4. AdminsOK'
    BY <1>2, <2>1 DEF AdminsOK, AdminsNext
  <2> QED
    BY <1>2, <2>2, <2>3, <2>4 DEF AloneInv, PeopleInv
<1> QED
  BY <1>1, <1>2 DEF Kept, TypeInv

(* The row u gets the new value row. *)
LEMMA RowWritten ==
  ASSUME TypeInv, NEW u \in Uids, NEW row \in UserRow, users' = [users EXCEPT ![u] = row]
  PROVE  /\ users' \in [Uids -> UserRow \cup {None}] /\ users'[u] = row /\ Rows' = Rows \cup {u}
         /\ \A x \in Rows : x # u => users'[x] = users[x]
<1>1. users \in [Uids -> UserRow \cup {None}]
  BY DEF TypeInv, TablesOK
<1>2. row # None
  BY ConstantFacts
<1>3. users' \in [Uids -> UserRow \cup {None}] /\ users'[u] = row
      /\ \A x \in Uids : x # u => users'[x] = users[x]
  BY <1>1
<1>4. Rows' = Rows \cup {u}
  BY <1>2, <1>3 DEF Rows
<1> QED
  BY <1>3, <1>4 DEF Rows

(* A new row: nobody has its name, and no session or identity leads to it. *)
LEMMA NewRow ==
  ASSUME TypeInv, NEW u \in Uids, u \notin Rows, NEW row \in UserRow, Rows' = Rows \cup {u},
         users'[u] = row, \A x \in Rows : users'[x] = users[x], UNCHANGED <<identity, sessions>>,
         RowsOK, NamesOK, AdminsOK, ~NameTaken(u, row.name),
         row.ext = None \/ row.sub = None \/ row.ext = row.sub,
         \A x \in Rows : {row.ext, row.sub} \cap {users[x].ext, users[x].sub} \subseteq {None}
  PROVE  /\ RowsOK' /\ NamesOK'
         /\ \A s \in Sids : sessions[s] # None => sessions[s].name # row.name
<1>1. \A x \in Rows : x # u /\ users[x].name # row.name
  BY DEF NameTaken
<1>2. RowsOK'
  <2>1. ASSUME NEW x \in Rows', NEW y \in Rows', users'[x].name = users'[y].name PROVE x = y
    BY <1>1, <2>1 DEF RowsOK
  <2>2. ASSUME NEW x \in Rows'
        PROVE  users'[x].ext = None \/ users'[x].sub = None \/ users'[x].ext = users'[x].sub
    BY DEF RowsOK
  <2>3. ASSUME NEW x \in Rows', NEW y \in Rows', x # y
        PROVE  {users'[x].ext, users'[x].sub} \cap {users'[y].ext, users'[y].sub} \subseteq {None}
    <3>1. CASE x \in Rows /\ y \in Rows
      BY <2>3, <3>1 DEF RowsOK, OneRowPerPerson
    <3>2. CASE x = u /\ y \in Rows
      BY <3>2
    <3>3. CASE y = u /\ x \in Rows
      BY <3>3
    <3> QED
      BY <2>3, <3>1, <3>2, <3>3
  <2> QED
    BY <2>1, <2>2, <2>3 DEF RowsOK, OneRowPerPerson
<1>3. NamesOK'
  BY NamesFrame, SessionPeople DEF TypeInv
<1> QED
  BY <1>1, <1>2, <1>3 DEF NamesOK

(* The roles of the users that a step of the request r does not write. *)
LEMMA RolesLeft ==
  ASSUME Alone, RolesOK, NEW r \in Requests, UNCHANGED <<groups, members>>,
         NEW u \in Rows, users'[u].role = users[u].role, failed \subseteq failed', u \notin failed',
         u \notin Pending(req[r])
  PROVE  users'[u].role = RoleOf(u)'
  BY Fitting, RoleSame

(* The sessions that lead to them. *)
LEMMA AdminsLeft ==
  ASSUME Alone, AdminsOK, NEW r \in Requests, req[r].pc # "revoke",
         NEW s \in Sids, sessions[s] # None, sessions[s].role = "admin",
         NEW u \in Rows, users[u].name = sessions[s].name
  PROVE  users[u].role = "admin" \/ u \in kept
  BY DEF Alone, AdminsOK, Revoking

LEMMA InsertUserStep ==
  ASSUME TypeInv, NEW r \in Requests, InsertUser(r)
  PROVE  Kept
<1> DEFINE q == req[r]
<1>1. PICK u : u = Cardinality(Rows) + 1
  OBVIOUS
<1>2. q.pc = "insert" /\ u \in Uids
      /\ UNCHANGED <<groups, gseq, members, identity, sessions, kept>>
  BY <1>1 DEF InsertUser
<1>3. q \in ReqRow /\ Refers(q) /\ TablesOK /\ q.name \in Names
  BY <1>2, RequestFacts DEF TypeInv, Refers
<1>4. Alone /\ AloneInv => /\ Stands(q) /\ RolesOK /\ NamesOK /\ AdminsOK /\ RowsOK
                           /\ \A x \in Rows : PersonOf(users[x]) # None
  BY <1>2 DEF AloneInv, PeopleInv, Stands, Peopled
<1>5. CASE NameTaken(0, q.name)
  <2>1. Fail(r) /\ UNCHANGED users
    BY <1>5 DEF InsertUser
  <2> QED
    BY <1>2, <1>4, <2>1, FailStep
<1>6. CASE ~NameTaken(0, q.name)
  <2>1. PICK row : row = [name |-> q.name, ext |-> None, sub |-> None, role |-> "user", active |-> TRUE]
    OBVIOUS
  <2>2. PICK v : v = [q EXCEPT !.pc = "identity", !.id = u]
    OBVIOUS
  <2>3. users' = [users EXCEPT ![u] = row] /\ Goto(r, v) /\ UNCHANGED failed
    BY <1>1, <1>6, <2>1, <2>2 DEF InsertUser
  <2>4. row \in UserRow /\ row.name = q.name /\ row.ext = None /\ row.sub = None
        /\ row.role = "user"
    BY <1>3, <2>1 DEF UserRow
  <2>5. /\ users' \in [Uids -> UserRow \cup {None}] /\ users'[u] = row /\ Rows' = Rows \cup {u}
        /\ \A x \in Rows : x # u => users'[x] = users[x]
    BY <1>2, <2>3, <2>4, RowWritten
  <2>6. u \notin Rows /\ \E c \in Nat : Rows \cup {u} = 1..c
    BY <1>1, <1>3, NextId
  <2>7. \A x \in Rows : users'[x] = users[x]
    BY <2>5, <2>6
  <2>8. v \in ReqRow /\ v.pc = "identity" /\ v.id = u /\ v.op = q.op /\ v.ext = q.ext
        /\ v.name = q.name
        /\ v.role = q.role /\ v.person = q.person /\ v.todo = q.todo
    <3> HIDE DEF q
    <3> QED BY <1>2, <1>3, <2>2 DEF ReqRow, Pcs
  <2>9. TablesOK'
    <3>1. GroupRows' = GroupRows
      BY <1>2 DEF GroupRows
    <3>2. members' \subseteq GroupRows \X Rows'
      BY <1>2, <1>3, <2>5 DEF TablesOK
    <3> QED
      BY <1>2, <1>3, <2>3, <2>5, <2>6, <3>1, <3>2 DEF TablesOK
  <2>10. Refers(v)'
    BY <1>3, <2>5, <2>8 DEF Refers
  <2>11. ~NameTaken(u, row.name)
    BY <1>3, <1>6, <2>4, RowFacts DEF NameTaken
  <2>12. ASSUME Alone, AloneInv
         PROVE  /\ RowsOK' /\ Stands(v)' /\ NamesOK' /\ AdminsNext(v)
                /\ \A x \in Rows' : users'[x].role = RoleOf(x)' \/ x \in failed' \/ x \in Pending(v)
    <3>0. Stands(q) /\ RolesOK /\ NamesOK /\ AdminsOK /\ RowsOK
          /\ \A x \in Rows : PersonOf(users[x]) # None
      BY <1>4, <2>12
    <3>1. /\ RowsOK' /\ NamesOK'
          /\ \A s \in Sids : sessions[s] # None => sessions[s].name # row.name
      BY <1>2, <2>4, <2>5, <2>6, <2>7, <2>11, <3>0, NewRow
    <3>2. q.op = "create" /\ q.role = "user" /\ q.ext \in People /\ q.ext = q.person
          /\ ~Elsewhere(q.ext, 0) /\ q.todo = {} /\ q.id = 0
      BY <1>2, <3>0 DEF Stands
    <3>3. Stands(v)'
      <4>1. Peopled(v)'
        BY <2>4, <2>5, <2>7, <2>8, <3>0 DEF Peopled, PersonOf
      <4>2. ~Elsewhere(v.ext, v.id)'
        BY <1>3, <2>5, <2>7, <2>8, <3>2, RowFacts DEF Elsewhere
      <4>3. PersonOf(users[v.id])' = None /\ users'[v.id].role = "user"
        BY <2>4, <2>5, <2>8 DEF PersonOf
      <4> QED
        BY <2>8, <3>2, <4>1, <4>2, <4>3 DEF Stands
    <3>4. RoleOf(u)' = "user"
      <4>1. \A g : <<g, u>> \notin members'
        BY <1>2, <1>3, <2>6 DEF TablesOK
      <4> QED
        BY <4>1, RoleIs
    <3>5. Pending(q) = {}
      BY <1>2, <3>2 DEF Pending
    <3>6. ASSUME NEW x \in Rows', x \notin failed' PROVE users'[x].role = RoleOf(x)'
      <4>1. CASE x = u
        BY <2>4, <2>5, <3>4, <4>1
      <4>2. CASE x # u
        <5>1. x \in Rows /\ users'[x].role = users[x].role
          BY <2>5, <2>7, <4>2
        <5> QED
          BY <1>2, <2>3, <2>12, <3>0, <3>5, <3>6, <5>1, RolesLeft
      <4> QED
        BY <4>1, <4>2
    <3>7. AdminsNext(v)
      <4> SUFFICES ASSUME NEW s \in Sids, sessions'[s] # None, sessions'[s].role = "admin",
                          NEW x \in Rows', users'[x].name = sessions'[s].name
                   PROVE  users'[x].role = "admin" \/ x \in kept'
        BY DEF AdminsNext
      <4>1. x # u
        BY <1>2, <2>5, <3>1
      <4> QED
        BY <1>2, <2>5, <2>7, <2>12, <3>0, <4>1, AdminsLeft
    <3> QED
      BY <3>1, <3>3, <3>6, <3>7
  <2> QED
    BY <2>3, <2>5, <2>8, <2>9, <2>10, <2>12, UserStep
<1> QED
  BY <1>5, <1>6

(* A rename within one transaction: what is keyed by the name moves along. *)
LEMMA Renaming ==
  ASSUME TypeInv, RowsOK, NamesOK, NEW u \in Rows, NEW n \in Names, NEW p \in People,
         migrateUsernameTx(u, n), Rows' = Rows, users'[u].name = n,
         PersonOf(users'[u]) = p, PersonOf(users[u]) \in {p, None},
         \A x \in Rows : x # u => users'[x] = users[x]
  PROVE  /\ NamesOK' /\ \A x, y \in Rows : users'[x].name = users'[y].name => x = y
         /\ \A s \in Sids : sessions'[s] # None =>
              /\ sessions[s] # None /\ sessions'[s].role = sessions[s].role
              /\ \A x \in Rows : users'[x].name = sessions'[s].name => users[x].name = sessions[s].name
<1> DEFINE old == users[u].name
<1>1. ~NameTaken(u, n) /\ identity' = Moved(identity, old, n)
      /\ sessions' = SessionsRenamed(old, n)
  BY DEF migrateUsernameTx
<1>2. \A x \in Rows : x # u => users[x].name # n
  BY <1>1 DEF NameTaken
<1>3. \A x, y \in Rows : users'[x].name = users'[y].name => x = y
  BY <1>2 DEF RowsOK
<1>4. \A x \in Rows : users[x].name = old => x = u
  BY DEF RowsOK
<1>5. \A s \in Sids : sessions'[s] = IF sessions[s] # None /\ sessions[s].name = old
                                     THEN [sessions[s] EXCEPT !.name = n] ELSE sessions[s]
  BY <1>1 DEF SessionsRenamed
<1>6. ASSUME NEW s \in Sids, sessions'[s] # None
      PROVE  /\ sessions[s] # None /\ sessions[s] \in SessionRow
             /\ sessions'[s].role = sessions[s].role /\ sessions'[s].sub = sessions[s].sub
             /\ sessions'[s].name = IF sessions[s].name = old THEN n ELSE sessions[s].name
  <2>1. sessions[s] # None
    BY <1>5, <1>6
  <2>2. sessions[s] \in SessionRow
    BY <2>1, RowFacts DEF TypeInv
  <2>3. CASE sessions[s].name = old
    <3>1. sessions'[s] = [sessions[s] EXCEPT !.name = n]
      BY <1>5, <2>1, <2>3
    <3> QED
      BY <2>1, <2>2, <2>3, <3>1 DEF SessionRow
  <2>4. CASE sessions[s].name # old
    <3>1. sessions'[s] = sessions[s]
      BY <1>5, <2>4
    <3> QED
      BY <2>1, <2>2, <2>4, <3>1
  <2> QED
    BY <2>3, <2>4
<1> HIDE DEF old
<1>7. users[u].name = old
  BY DEF old
<1>8. ASSUME NEW s \in Sids, sessions'[s] # None
      PROVE  \E x \in Rows : users'[x].name = sessions'[s].name /\ PersonOf(users'[x]) = sessions'[s].sub
  <2>1. PICK x \in Rows : users[x].name = sessions[s].name /\ PersonOf(users[x]) = sessions[s].sub
    BY <1>6, <1>8 DEF NamesOK
  <2>2. sessions[s].sub # None
    BY <1>6, <1>8, SessionPeople DEF TypeInv
  <2>3. CASE x = u
    BY <1>6, <1>7, <1>8, <2>1, <2>2, <2>3
  <2>4. CASE x # u
    <3>1. sessions[s].name # old
      BY <1>4, <2>1, <2>4
    <3> QED
      BY <1>6, <1>8, <2>1, <2>4, <3>1
  <2> QED
    BY <2>3, <2>4
<1>9. ASSUME NEW m \in Names, identity'[m] # None, identity'[m].who # None
      PROVE  \E x \in Rows : users'[x].name = m /\ PersonOf(users'[x]) = identity'[m].who
  <2>1. identity \in [Names -> IdentityRow \cup {None}] /\ old \in Names
    BY <1>7, RowFacts DEF TypeInv, TablesOK, UserRow
  <2>2. CASE old = n
    <3>1. identity' = identity
      BY <1>1, <2>2 DEF Moved
    <3>2. PICK x \in Rows : users[x].name = m /\ PersonOf(users[x]) = identity[m].who
      BY <1>9, <3>1 DEF NamesOK
    <3>3. CASE x = u
      BY <1>7, <1>9, <2>2, <3>1, <3>2, <3>3
    <3>4. CASE x # u
      BY <3>1, <3>2, <3>4
    <3> QED
      BY <3>3, <3>4
  <2>3. CASE old # n
    <3>1. identity' = [identity EXCEPT ![n] = IF identity[n] = None THEN identity[old] ELSE identity[n],
                                       ![old] = None]
      BY <1>1, <2>3 DEF Moved
    <3>2. /\ identity'[old] = None /\ (m \notin {old, n} => identity'[m] = identity[m])
          /\ identity'[n] = IF identity[n] = None THEN identity[old] ELSE identity[n]
      BY <2>1, <2>3, <3>1
    <3>3. CASE m = n
      <4>1. ~(identity[n] # None /\ identity[n].who # None)
        <5> SUFFICES ASSUME identity[n] # None, identity[n].who # None PROVE FALSE
          OBVIOUS
        <5>1. PICK x \in Rows : users[x].name = n
          BY DEF NamesOK
        <5> QED
          BY <1>2, <1>7, <2>3, <5>1
      <4>2. identity'[m] = identity[old]
        BY <1>9, <3>2, <3>3, <4>1
      <4>3. PICK x \in Rows : users[x].name = old /\ PersonOf(users[x]) = identity[old].who
        BY <1>9, <2>1, <4>2 DEF NamesOK
      <4>4. x = u
        BY <1>4, <4>3
      <4> QED
        BY <1>9, <3>3, <4>2, <4>3, <4>4
    <3>4. CASE m # n
      <4>1. m # old /\ identity'[m] = identity[m]
        BY <1>9, <3>2, <3>4
      <4>2. PICK x \in Rows : users[x].name = m /\ PersonOf(users[x]) = identity[m].who
        BY <1>9, <4>1 DEF NamesOK
      <4>3. x # u
        BY <1>7, <4>1, <4>2
      <4> QED
        BY <4>1, <4>2, <4>3
    <3> QED
      BY <3>3, <3>4
  <2> QED
    BY <2>2, <2>3
<1>10. NamesOK'
  BY <1>8, <1>9 DEF NamesOK, PersonOf
<1>11. ASSUME NEW s \in Sids, sessions'[s] # None, NEW x \in Rows,
              users'[x].name = sessions'[s].name
       PROVE  users[x].name = sessions[s].name
  <2>1. CASE sessions[s].name = old
    <3>1. users'[x].name = users'[u].name
      BY <1>6, <1>11, <2>1
    <3> QED
      BY <1>3, <1>7, <2>1, <3>1
  <2>2. CASE sessions[s].name # old
    <3>1. PICK y \in Rows : users[y].name = sessions[s].name
      BY <1>6, <1>11 DEF NamesOK
    <3>2. y # u
      BY <1>7, <2>2, <3>1
    <3>3. users'[x].name = users'[y].name
      BY <1>6, <1>11, <2>2, <3>1, <3>2
    <3> QED
      BY <1>3, <3>1, <3>3
  <2> QED
    BY <2>1, <2>2
<1> QED
  BY <1>3, <1>6, <1>10, <1>11

LEMMA RenamingTypes ==
  ASSUME TypeInv, NEW u \in Rows, NEW n \in Names, migrateUsernameTx(u, n)
  PROVE  /\ identity' \in [Names -> IdentityRow \cup {None}]
         /\ sessions' \in [Sids -> SessionRow \cup {None}]
<1>1. users[u].name \in Names /\ identity \in [Names -> IdentityRow \cup {None}]
  BY RowFacts DEF TypeInv, TablesOK, UserRow
<1>2. identity' = Moved(identity, users[u].name, n)
      /\ sessions' = SessionsRenamed(users[u].name, n)
  BY DEF migrateUsernameTx
<1>3. identity' \in [Names -> IdentityRow \cup {None}]
  BY <1>1, <1>2 DEF Moved
<1>4. ASSUME NEW s \in Sids
      PROVE  (IF sessions[s] # None /\ sessions[s].name = users[u].name
              THEN [sessions[s] EXCEPT !.name = n] ELSE sessions[s]) \in SessionRow \cup {None}
  <2>1. CASE sessions[s] = None
    BY <2>1
  <2>2. CASE sessions[s] # None
    <3>1. sessions[s] \in SessionRow
      BY <2>2, RowFacts DEF TypeInv
    <3>2. [sessions[s] EXCEPT !.name = n] \in SessionRow
      BY <3>1 DEF SessionRow
    <3> QED
      BY <3>1, <3>2
  <2> QED
    BY <2>1, <2>2
<1>5. sessions' \in [Sids -> SessionRow \cup {None}]
  BY <1>2, <1>4 DEF SessionsRenamed
<1> QED
  BY <1>3, <1>5

(* What the three statements that update a row of users write. *)
LEMMA RowChanged ==
  ASSUME TypeInv, NEW u \in Rows, users' \in [Uids -> UserRow \cup {None}],
         users'[u] \in UserRow,
         \A x \in Uids : x # u => users'[x] = users[x]
  PROVE  Rows' = Rows
<1>1. users'[u] # None
  BY ConstantFacts
<1>2. u \in Uids /\ users[u] # None
  BY DEF Rows
<1> QED
  BY <1>1, <1>2 DEF Rows

LEMMA IdentityWritten ==
  ASSUME TypeInv, NEW u \in Rows, NEW n \in Names, NEW e \in People \cup {None},
         NEW a \in BOOLEAN,
         users' = [users EXCEPT ![u].name = n, ![u].ext = e, ![u].active = a]
  PROVE  /\ users' \in [Uids -> UserRow \cup {None}] /\ Rows' = Rows
         /\ \A x \in Rows : x # u => users'[x] = users[x]
         /\ users'[u] \in UserRow /\ users'[u].name = n /\ users'[u].ext = e
         /\ users'[u].sub = users[u].sub /\ users'[u].role = users[u].role
<1>1. users \in [Uids -> UserRow \cup {None}] /\ u \in Uids /\ users[u] \in UserRow
  BY RowFacts DEF TypeInv, TablesOK
<1>2. PICK row : row = [users[u] EXCEPT !.name = n, !.ext = e, !.active = a]
  OBVIOUS
<1>3. row \in UserRow /\ row.name = n /\ row.ext = e /\ row.sub = users[u].sub
      /\ row.role = users[u].role
  BY <1>1, <1>2 DEF UserRow
<1>4. users' = [users EXCEPT ![u] = row]
  BY <1>1, <1>2
<1>5. /\ users' \in [Uids -> UserRow \cup {None}] /\ users'[u] = row
      /\ \A x \in Uids : x # u => users'[x] = users[x]
  BY <1>1, <1>3, <1>4
<1>6. Rows' = Rows
  BY <1>3, <1>5, RowChanged
<1> QED
  BY <1>3, <1>5, <1>6, RowFacts DEF TypeInv

LEMMA LoginWritten ==
  ASSUME TypeInv, NEW u \in Rows, NEW n \in Names, NEW p \in People,
         NEW role \in {"admin", "user"},
         users' = [users EXCEPT ![u].name = n, ![u].sub = p, ![u].role = role]
  PROVE  /\ users' \in [Uids -> UserRow \cup {None}] /\ Rows' = Rows
         /\ \A x \in Rows : x # u => users'[x] = users[x]
         /\ users'[u] \in UserRow /\ users'[u].name = n /\ users'[u].sub = p
         /\ users'[u].ext = users[u].ext /\ users'[u].role = role
<1>1. users \in [Uids -> UserRow \cup {None}] /\ u \in Uids /\ users[u] \in UserRow
  BY RowFacts DEF TypeInv, TablesOK
<1>2. PICK row : row = [users[u] EXCEPT !.name = n, !.sub = p, !.role = role]
  OBVIOUS
<1>3. row \in UserRow /\ row.name = n /\ row.sub = p /\ row.ext = users[u].ext
      /\ row.role = role
  BY <1>1, <1>2 DEF UserRow
<1>4. users' = [users EXCEPT ![u] = row]
  BY <1>1, <1>2
<1>5. /\ users' \in [Uids -> UserRow \cup {None}] /\ users'[u] = row
      /\ \A x \in Uids : x # u => users'[x] = users[x]
  BY <1>1, <1>3, <1>4
<1>6. Rows' = Rows
  BY <1>3, <1>5, RowChanged
<1> QED
  BY <1>3, <1>5, <1>6, RowFacts DEF TypeInv

LEMMA FieldWritten ==
  ASSUME TypeInv, NEW u \in Rows, NEW role \in {"admin", "user"}, NEW a \in BOOLEAN,
         \/ users' = [users EXCEPT ![u].role = role]
         \/ role = users[u].role /\ users' = [users EXCEPT ![u].active = a]
  PROVE  /\ users' \in [Uids -> UserRow \cup {None}] /\ Rows' = Rows
         /\ \A x \in Rows : x # u => users'[x] = users[x]
         /\ \A x \in Rows : /\ users'[x].name = users[x].name /\ users'[x].ext = users[x].ext
                            /\ users'[x].sub = users[x].sub
         /\ users'[u].role = role
<1>1. users \in [Uids -> UserRow \cup {None}] /\ u \in Uids /\ users[u] \in UserRow
  BY RowFacts DEF TypeInv, TablesOK
<1>2. PICK row : /\ row \in UserRow /\ row.name = users[u].name /\ row.ext = users[u].ext
                 /\ row.sub = users[u].sub /\ row.role = role /\ users' = [users EXCEPT ![u] = row]
  <2>1. CASE users' = [users EXCEPT ![u].role = role]
    <3>1. PICK row : row = [users[u] EXCEPT !.role = role]
      OBVIOUS
    <3>2. /\ row \in UserRow /\ row.name = users[u].name /\ row.ext = users[u].ext
          /\ row.sub = users[u].sub /\ row.role = role
      BY <1>1, <3>1 DEF UserRow
    <3> QED
      BY <2>1, <3>1, <3>2
  <2>2. CASE role = users[u].role /\ users' = [users EXCEPT ![u].active = a]
    <3>1. PICK row : row = [users[u] EXCEPT !.active = a]
      OBVIOUS
    <3>2. /\ row \in UserRow /\ row.name = users[u].name /\ row.ext = users[u].ext
          /\ row.sub = users[u].sub /\ row.role = role
      BY <1>1, <2>2, <3>1 DEF UserRow
    <3> QED
      BY <2>2, <3>1, <3>2
  <2> QED
    BY <2>1, <2>2
<1>3. /\ users' \in [Uids -> UserRow \cup {None}] /\ users'[u] = row
      /\ \A x \in Uids : x # u => users'[x] = users[x]
  BY <1>1, <1>2
<1>4. Rows' = Rows
  BY <1>2, <1>3, RowChanged
<1> QED
  BY <1>2, <1>3, <1>4, RowFacts DEF TypeInv

LEMMA TablesUsers ==
  ASSUME TypeInv, users' \in [Uids -> UserRow \cup {None}], Rows' = Rows,
         UNCHANGED <<groups, gseq, members>>,
         identity' \in [Names -> IdentityRow \cup {None}],
         sessions' \in [Sids -> SessionRow \cup {None}], failed' \subseteq Uids, kept' \subseteq Uids
  PROVE  TablesOK'
<1>1. GroupRows' = GroupRows
  BY DEF GroupRows
<1> QED
  BY <1>1 DEF TypeInv, TablesOK

(* Rows that keep their names and people. *)
LEMMA PeopleSame ==
  ASSUME TypeInv, RowsOK, NamesOK, Rows' = Rows, UNCHANGED <<identity, sessions>>,
         \A x \in Rows : /\ users'[x].name = users[x].name /\ users'[x].ext = users[x].ext
                         /\ users'[x].sub = users[x].sub
  PROVE  /\ RowsOK' /\ NamesOK' /\ \A x \in Rows : PersonOf(users'[x]) = PersonOf(users[x])
<1>1. \A x \in Rows : PersonOf(users'[x]) = PersonOf(users[x])
  BY DEF PersonOf
<1>2. RowsOK'
  BY DEF RowsOK, OneRowPerPerson
<1>3. NamesOK'
  BY <1>1, NamesFrame, SessionPeople DEF TypeInv
<1> QED
  BY <1>1, <1>2, <1>3

LEMMA SetUserActiveStep ==
  ASSUME TypeInv, NEW r \in Requests, SetUserActive(r)
  PROVE  Kept
<1> DEFINE q == req[r]
<1>1. /\ q.pc = "deactivate" /\ users' = [users EXCEPT ![q.id].active = FALSE] /\ Goto(r, NoReq)
      /\ UNCHANGED <<groups, gseq, members, identity, sessions, failed, kept>>
  BY DEF SetUserActive, Done
<1>2. q \in ReqRow /\ Refers(q) /\ TablesOK /\ q.id \in Rows
      /\ users[q.id].role \in {"admin", "user"}
  BY <1>1, RequestFacts, RowFacts DEF TypeInv, Refers, UserRow
<1>3. /\ users' \in [Uids -> UserRow \cup {None}] /\ Rows' = Rows
      /\ \A x \in Rows : x # q.id => users'[x] = users[x]
      /\ \A x \in Rows : /\ users'[x].name = users[x].name /\ users'[x].ext = users[x].ext
                         /\ users'[x].sub = users[x].sub
      /\ users'[q.id].role = users[q.id].role
  BY <1>1, <1>2, FieldWritten
<1>4. TablesOK'
  BY <1>1, <1>2, <1>3, TablesUsers DEF TablesOK
<1>5. UNCHANGED NoReq
  BY DEF NoReq
<1>6. Refers(NoReq)'
  BY <1>5, IdleRow DEF Refers
<1>7. ASSUME Alone, AloneInv
      PROVE  /\ RowsOK' /\ Stands(NoReq)' /\ NamesOK' /\ AdminsNext(NoReq)
             /\ \A x \in Rows' : users'[x].role = RoleOf(x)' \/ x \in failed' \/ x \in Pending(NoReq)
  <2>1. Stands(q) /\ RolesOK /\ NamesOK /\ AdminsOK /\ RowsOK
        /\ \A x \in Rows : PersonOf(users[x]) # None
    BY <1>1, <1>7 DEF AloneInv, PeopleInv, Stands, Peopled
  <2>2. /\ RowsOK' /\ NamesOK' /\ \A x \in Rows : PersonOf(users'[x]) = PersonOf(users[x])
    BY <1>1, <1>3, <2>1, PeopleSame
  <2>3. Stands(NoReq)'
    <3>1. Peopled(NoReq)'
      BY <1>3, <1>5, <2>1, <2>2 DEF Peopled, PersonOf
    <3> QED
      BY <1>5, <3>1, IdleRow DEF Stands
  <2>4. Pending(q) = {}
    BY <1>1, <2>1 DEF Pending, Stands
  <2>5. \A x \in Rows : users'[x].role = users[x].role
    BY <1>3
  <2>6. \A x \in Rows' : users'[x].role = RoleOf(x)' \/ x \in failed'
    BY <1>1, <1>3, <1>7, <2>1, <2>4, <2>5, RolesLeft
  <2>7. AdminsNext(NoReq)
    <3> SUFFICES ASSUME NEW s \in Sids, sessions'[s] # None, sessions'[s].role = "admin",
                        NEW x \in Rows', users'[x].name = sessions'[s].name
                 PROVE  users'[x].role = "admin" \/ x \in kept'
      BY DEF AdminsNext
    <3> QED
      BY <1>1, <1>3, <1>7, <2>1, <2>5, AdminsLeft
  <2> QED
    BY <2>2, <2>3, <2>6, <2>7
<1> QED
  BY <1>1, <1>3, <1>4, <1>6, <1>7, IdleRow, UserStep

LEMMA UpdateUserRoleStep ==
  ASSUME TypeInv, NEW r \in Requests, UpdateUserRole(r)
  PROVE  Kept
<1> DEFINE q == req[r]
<1>1. /\ q.pc = "setrole" /\ users' = [users EXCEPT ![q.id].role = q.role]
      /\ UNCHANGED <<groups, gseq, members, identity, sessions, failed>>
      /\ kept' = IF q.op = "create" \/ q.ext = None THEN kept \cup {q.id} ELSE kept
  BY DEF UpdateUserRole
<1>2. PICK v : v = [q EXCEPT !.pc = "revoke"]
  OBVIOUS
<1>3. Goto(r, v)
  BY <1>2 DEF UpdateUserRole
<1>4. q \in ReqRow /\ Refers(q) /\ TablesOK /\ q.id \in Rows /\ q.id \in Uids
      /\ q.role \in {"admin", "user"}
  BY <1>1, RequestFacts, RowFacts DEF TypeInv, Refers, ReqRow
<1>5. v \in ReqRow /\ v.pc = "revoke" /\ v.id = q.id /\ v.op = q.op /\ v.ext = q.ext
      /\ v.role = q.role
      /\ v.prevRole = q.prevRole /\ v.todo = q.todo
  <2> HIDE DEF q
  <2> QED BY <1>2, <1>4 DEF ReqRow, Pcs
<1>6. /\ users' \in [Uids -> UserRow \cup {None}] /\ Rows' = Rows
      /\ \A x \in Rows : x # q.id => users'[x] = users[x]
      /\ \A x \in Rows : /\ users'[x].name = users[x].name /\ users'[x].ext = users[x].ext
                         /\ users'[x].sub = users[x].sub
      /\ users'[q.id].role = q.role
  BY <1>1, <1>4, FieldWritten
<1>7. TablesOK'
  BY <1>1, <1>4, <1>6, TablesUsers DEF TablesOK
<1>8. Refers(v)'
  BY <1>4, <1>5, <1>6 DEF Refers
<1>9. ASSUME Alone, AloneInv
      PROVE  /\ RowsOK' /\ Stands(v)' /\ NamesOK' /\ AdminsNext(v)
             /\ \A x \in Rows' : users'[x].role = RoleOf(x)' \/ x \in failed' \/ x \in Pending(v)
  <2>1. Stands(q) /\ RolesOK /\ NamesOK /\ AdminsOK /\ RowsOK
        /\ \A x \in Rows : PersonOf(users[x]) # None
    BY <1>1, <1>9 DEF AloneInv, PeopleInv, Stands, Peopled
  <2>2. /\ RowsOK' /\ NamesOK' /\ \A x \in Rows : PersonOf(users'[x]) = PersonOf(users[x])
    BY <1>1, <1>6, <2>1, PeopleSame
  <2>3. /\ q.role = RoleOf(q.id) /\ q.role # users[q.id].role /\ q.ext = users[q.id].ext
        /\ q.op \in {"create", "replace", "patch", "group"}
        /\ q.op # "create" => q.prevRole = users[q.id].role
        /\ q.op # "group" => q.todo = {}
    BY <1>1, <2>1 DEF Stands
  <2>4. PICK id : id = q.id
    OBVIOUS
  <2>5. RoleOf(id)' = q.role
    <3>1. RoleOf(id)' = RoleOf(id)
      BY <1>1, RoleSame
    <3> QED
      BY <2>3, <2>4, <3>1
  <2>6. Stands(v)'
    <3>1. Peopled(v)'
      BY <1>6, <2>1, <2>2 DEF Peopled, PersonOf
    <3>2. v.ext = users'[v.id].ext /\ users'[v.id].role = RoleOf(v.id)'
      BY <1>4, <1>5, <1>6, <2>3, <2>4, <2>5
    <3> QED
      BY <1>5, <2>3, <3>1, <3>2 DEF Stands
  <2>7. ASSUME NEW x \in Rows', x \notin failed', x \notin Pending(v)
        PROVE  users'[x].role = RoleOf(x)'
    <3>1. CASE x = id
      BY <1>6, <2>4, <2>5, <3>1
    <3>2. CASE x # id
      <4>1. x \notin Pending(q) /\ x \in Rows /\ users'[x].role = users[x].role
        BY <1>1, <1>5, <1>6, <2>4, <2>7, <3>2 DEF Pending
      <4> QED
        BY <1>1, <1>9, <2>1, <2>7, <4>1, RolesLeft
    <3> QED
      BY <3>1, <3>2
  <2>8. AdminsNext(v)
    <3> SUFFICES ASSUME NEW s \in Sids, sessions'[s] # None, sessions'[s].role = "admin",
                        NEW x \in Rows', users'[x].name = sessions'[s].name
                 PROVE  users'[x].role = "admin" \/ x \in kept' \/ Revoking(v, x)
      BY DEF AdminsNext
    <3>1. x \in Rows /\ (users[x].role = "admin" \/ x \in kept)
      BY <1>1, <1>6, <1>9, <2>1, AdminsLeft
    <3>2. kept \subseteq kept'
      BY <1>1
    <3>3. CASE x # id
      BY <1>6, <2>4, <3>1, <3>2, <3>3
    <3>4. CASE x = id
      <4>1. CASE q.op = "create" \/ q.ext = None
        BY <1>1, <2>4, <3>4, <4>1
      <4>2. CASE q.op # "create" /\ q.ext # None
        <5>1. v.role # v.prevRole /\ v.op \in {"replace", "patch", "group"} /\ v.ext # None
          BY <1>5, <2>3, <4>2
        <5>2. Revokes(v)
          BY <5>1 DEF Revokes
        <5> QED
          BY <1>5, <2>4, <3>4, <5>1, <5>2 DEF Revoking
      <4> QED
        BY <4>1, <4>2
    <3> QED
      BY <3>3, <3>4
  <2> QED
    BY <2>2, <2>6, <2>7, <2>8
<1> QED
  BY <1>3, <1>5, <1>6, <1>7, <1>8, <1>9, UserStep

LEMMA UpdateUserSCIMIdentityStep ==
  ASSUME TypeInv, NEW r \in Requests, UpdateUserSCIMIdentity(r)
  PROVE  Kept
<1> DEFINE q == req[r]
<1>1. q.pc = "identity" /\ UNCHANGED <<groups, gseq, members, kept>>
  BY DEF UpdateUserSCIMIdentity
<1>2. q \in ReqRow /\ Refers(q) /\ TablesOK /\ q.id \in Rows /\ q.name \in Names
      /\ q.active \in BOOLEAN
      /\ q.ext \in People \cup {None}
  BY <1>1, RequestFacts DEF TypeInv, Refers, ReqRow
<1>3. Alone /\ AloneInv => Stands(q) /\ RolesOK /\ NamesOK /\ AdminsOK /\ RowsOK
  BY DEF AloneInv, PeopleInv
<1>4. CASE NameTaken(q.id, q.name) \/ GetUserByExternalID(q.ext) \ {q.id} # {}
  <2>1. Fail(r) /\ UNCHANGED <<users, identity, sessions>>
    BY <1>4 DEF UpdateUserSCIMIdentity
  <2>2. ASSUME Alone, AloneInv, NEW x \in Rows, PersonOf(users[x]) = None PROVE FALSE
    <3>1. x = q.id /\ q.name = users[x].name /\ ~Elsewhere(q.ext, q.id)
      BY <1>1, <1>3, <2>2 DEF Stands, Peopled
    <3>2. ~NameTaken(q.id, q.name)
      BY <1>3, <2>2, <3>1 DEF NameTaken, RowsOK
    <3>3. GetUserByExternalID(q.ext) \ {q.id} = {}
      BY <3>1 DEF Elsewhere, GetUserByExternalID
    <3> QED
      BY <1>4, <3>2, <3>3
  <2> QED
    BY <1>1, <2>1, <2>2, FailStep
<1>5. CASE ~(NameTaken(q.id, q.name) \/ GetUserByExternalID(q.ext) \ {q.id} # {})
  <2>1. PICK v, id, n, e, a : /\ v = [q EXCEPT !.pc = "games"]
                              /\ id = q.id /\ n = q.name /\ e = q.ext /\ a = q.active
    OBVIOUS
  <2>2. /\ migrateUsernameTx(id, n) /\ Goto(r, v) /\ UNCHANGED failed
        /\ users' = [users EXCEPT ![id].name = n, ![id].ext = e, ![id].active = a]
    BY <1>5, <2>1 DEF UpdateUserSCIMIdentity
  <2>3. v \in ReqRow /\ v.pc = "games" /\ v.id = id /\ v.op = q.op /\ v.ext = e /\ v.name = n
        /\ v.role = q.role /\ v.person = q.person /\ v.todo = q.todo /\ v.prevRole = q.prevRole
        /\ v.gset = q.gset /\ v.changed = q.changed
    <3>1. v = [q EXCEPT !.pc = "games"] /\ id = q.id /\ n = q.name /\ e = q.ext
      BY <2>1
    <3> HIDE DEF q
    <3> QED BY <1>2, <3>1 DEF ReqRow, Pcs
  <2>4. id \in Rows /\ n \in Names /\ e \in People \cup {None} /\ a \in BOOLEAN
    BY <1>2, <2>1
  <2>5. /\ users' \in [Uids -> UserRow \cup {None}] /\ Rows' = Rows
        /\ \A x \in Rows : x # id => users'[x] = users[x]
        /\ users'[id] \in UserRow /\ users'[id].name = n /\ users'[id].ext = e
        /\ users'[id].sub = users[id].sub /\ users'[id].role = users[id].role
    BY <2>2, <2>4, IdentityWritten
  <2>6. TablesOK'
    BY <1>1, <1>2, <2>2, <2>4, <2>5, RenamingTypes, TablesUsers DEF TablesOK
  <2>7. Refers(v)'
    BY <1>1, <1>2, <2>3, <2>4, <2>5 DEF Refers
  <2>8. ASSUME Alone, AloneInv
        PROVE  /\ RowsOK' /\ Stands(v)' /\ NamesOK' /\ AdminsNext(v)
               /\ \A x \in Rows' : users'[x].role = RoleOf(x)' \/ x \in failed' \/ x \in Pending(v)
    <3>0. Stands(q) /\ RolesOK /\ NamesOK /\ AdminsOK /\ RowsOK
      BY <1>3, <2>8
    <3>1. /\ e \in People /\ e = q.person /\ ~Elsewhere(e, id)
          /\ PersonOf(users[id]) \in {e, None}
          /\ q.role = users[id].role /\ (q.op # "create" => q.prevRole = users[id].role) /\ q.todo = {}
          /\ q.op \in {"create", "replace", "patch"} /\ (q.op = "patch" => ~q.gset)
      BY <1>1, <2>1, <3>0 DEF Stands
    <3>2. e # None
      BY <3>1, ConstantFacts
    <3>3. PersonOf(users'[id]) = e /\ users[id].sub \in {None, e}
      BY <2>5, <3>1, <3>2 DEF PersonOf
    <3>4. /\ NamesOK' /\ \A x, y \in Rows : users'[x].name = users'[y].name => x = y
          /\ \A s \in Sids : sessions'[s] # None =>
               /\ sessions[s] # None /\ sessions'[s].role = sessions[s].role
               /\ \A x \in Rows : users'[x].name = sessions'[s].name => users[x].name = sessions[s].name
      BY <2>2, <2>4, <2>5, <3>0, <3>1, <3>3, Renaming
    <3>5. RowsOK'
      <4>1. ASSUME NEW x \in Rows
            PROVE  users'[x].ext = None \/ users'[x].sub = None \/ users'[x].ext = users'[x].sub
        <5>1. CASE x = id
          BY <2>5, <3>3, <5>1
        <5>2. CASE x # id
          BY <2>5, <3>0, <5>2 DEF RowsOK
        <5> QED BY <5>1, <5>2
      <4>2. ASSUME NEW x \in Rows, NEW y \in Rows, x # y
            PROVE  {users'[x].ext, users'[x].sub} \cap {users'[y].ext, users'[y].sub} \subseteq {None}
        <5>1. CASE x # id /\ y # id
          BY <2>5, <3>0, <4>2, <5>1 DEF RowsOK, OneRowPerPerson
        <5>2. CASE x = id
          BY <2>5, <3>1, <3>3, <4>2, <5>2 DEF Elsewhere
        <5>3. CASE y = id
          BY <2>5, <3>1, <3>3, <4>2, <5>3 DEF Elsewhere
        <5> QED BY <5>1, <5>2, <5>3
      <4> QED
        BY <2>5, <3>4, <4>1, <4>2 DEF RowsOK, OneRowPerPerson
    <3>6. Stands(v)'
      <4>1. Peopled(v)'
        <5> SUFFICES ASSUME NEW x \in Rows PROVE PersonOf(users'[x]) # None
          BY <2>5 DEF Peopled, PersonOf
        <5>1. CASE x = id
          BY <3>2, <3>3, <5>1
        <5>2. CASE x # id
          BY <1>1, <2>1, <2>5, <3>0, <5>2 DEF Stands, Peopled
        <5> QED BY <5>1, <5>2
      <4> QED
        BY <2>3, <2>4, <2>5, <3>1, <3>2, <4>1 DEF Stands
    <3>7. Pending(q) = Pending(v)
      BY <1>1, <2>1, <2>3 DEF Pending
    <3>8. \A x \in Rows : users'[x].role = users[x].role
      BY <2>5
    <3>9. \A x \in Rows' : users'[x].role = RoleOf(x)' \/ x \in failed' \/ x \in Pending(v)
      BY <1>1, <2>2, <2>5, <2>8, <3>0, <3>7, <3>8, RolesLeft
    <3>10. AdminsNext(v)
      <4> SUFFICES ASSUME NEW s \in Sids, sessions'[s] # None, sessions'[s].role = "admin",
                          NEW x \in Rows', users'[x].name = sessions'[s].name
                   PROVE  users'[x].role = "admin" \/ x \in kept'
        BY DEF AdminsNext
      <4>1. sessions[s] # None /\ sessions[s].role = "admin" /\ x \in Rows
            /\ users[x].name = sessions[s].name
        BY <2>5, <3>4
      <4> QED
        BY <1>1, <2>8, <3>0, <3>8, <4>1, AdminsLeft
    <3> QED
      BY <3>4, <3>5, <3>6, <3>9, <3>10
  <2> QED
    BY <2>2, <2>3, <2>5, <2>6, <2>7, <2>8, UserStep
<1> QED
  BY <1>4, <1>5

(* A login: the row is found or made, and takes the name and the role of   *)
(* the token.                                                              *)
LEMMA TokenRole ==
  ASSUME NEW tok
  PROVE  /\ (IF resolveRole(tok) = "" THEN "user" ELSE resolveRole(tok)) = roleFromGroupNames(tok)
         /\ roleFromGroupNames(tok) \in {"admin", "user"}
  BY DEF resolveRole, roleFromGroupNames

LEMMA HandleCallbackStep ==
  ASSUME TypeInv, NEW r \in Requests, HandleCallback(r)
  PROVE  Kept
<1> DEFINE found(p) == IF GetUserByOIDCSubject(p) # {} THEN GetUserByOIDCSubject(p)
                       ELSE GetUserByExternalID(p)
           start(p, n, tok, u) == [NoReq EXCEPT !.op = "login", !.pc = "oidcgroups", !.id = u, !.person = p,
                                                !.name = n, !.tok = tok]
<1>1. req[r].pc = "idle" /\ UNCHANGED <<groups, gseq, members, failed>>
  BY DEF HandleCallback
<1>2. PICK c \in Claims, tok \in SUBSET GroupNames :
       LET old == found(c[1])
           u   == IF old = {} THEN Cardinality(Rows) + 1 ELSE TheOne(old)
       IN /\ u \in Uids
          /\ provisionUser(u, c[1], c[2], IF resolveRole(tok) = "" THEN "user" ELSE resolveRole(tok))
          /\ Goto(r, start(c[1], c[2], tok, u))
  BY DEF HandleCallback
<1>3. PICK p, n, role : p = c[1] /\ n = c[2] /\ role = roleFromGroupNames(tok)
  OBVIOUS
<1>4. p \in People /\ n \in Names /\ role \in {"admin", "user"} /\ p # None
  BY <1>3, ConstantFacts, TokenRole
<1>5. PICK u : u = IF found(p) = {} THEN Cardinality(Rows) + 1 ELSE TheOne(found(p))
  OBVIOUS
<1>6. u \in Uids /\ provisionUser(u, p, n, role) /\ Goto(r, start(p, n, tok, u))
  BY <1>2, <1>3, <1>5, TokenRole
<1>7. PICK v : v = start(p, n, tok, u)
  OBVIOUS
<1>8. Goto(r, v)
  BY <1>6, <1>7
<1>9. v \in ReqRow /\ v.pc = "oidcgroups" /\ v.op = "login" /\ v.id = u /\ v.person = p
      /\ v.name = n
      /\ v.tok = tok /\ v.todo = {}
  BY <1>4, <1>6, <1>7, IdleRow DEF ReqRow, Pcs, Ops
<1>10. TablesOK
  BY DEF TypeInv
<1>11. Alone /\ AloneInv => /\ Pending(req[r]) = {} /\ RolesOK /\ NamesOK /\ AdminsOK /\ RowsOK
                            /\ \A x \in Rows : PersonOf(users[x]) # None
  BY <1>1 DEF AloneInv, PeopleInv, Stands, Peopled, Pending
<1>12. IF users[u] = None THEN u \notin Rows /\ found(p) = {} /\ \E k \in Nat : Rows \cup {u} = 1..k
       ELSE u \in Rows /\ p \in {users[u].ext, users[u].sub}
  <2>1. CASE found(p) = {}
    <3>1. u \notin Rows /\ \E k \in Nat : Rows \cup {u} = 1..k
      BY <1>5, <1>10, <2>1, NextId
    <3> QED
      BY <1>6, <2>1, <3>1 DEF Rows
  <2>2. CASE found(p) # {}
    <3>1. u \in found(p)
      BY <1>5, <2>2, ChosenIsIn
    <3>2. u \in Rows /\ p \in {users[u].ext, users[u].sub}
      BY <3>1 DEF GetUserByOIDCSubject, GetUserByExternalID
    <3> QED
      BY <3>2 DEF Rows
  <2> QED
    BY <2>1, <2>2
<1>13. CASE users[u] = None
  <2>1. PICK row : row = [name |-> n, ext |-> None, sub |-> p, role |-> role, active |-> TRUE]
    OBVIOUS
  <2>2. ~NameTaken(u, n) /\ users' = [users EXCEPT ![u] = row] /\ UNCHANGED <<identity, sessions, kept>>
    BY <1>6, <1>13, <2>1 DEF provisionUser
  <2>3. row \in UserRow /\ row.name = n /\ row.ext = None /\ row.sub = p /\ row.role = role
    BY <1>4, <2>1 DEF UserRow
  <2>4. /\ users' \in [Uids -> UserRow \cup {None}] /\ users'[u] = row /\ Rows' = Rows \cup {u}
        /\ \A x \in Rows : x # u => users'[x] = users[x]
    BY <1>6, <2>2, <2>3, RowWritten
  <2>5. u \notin Rows /\ found(p) = {} /\ \E k \in Nat : Rows \cup {u} = 1..k
    BY <1>12, <1>13
  <2>6. \A x \in Rows : users'[x] = users[x]
    BY <2>4, <2>5
  <2>7. TablesOK'
    <3>1. GroupRows' = GroupRows
      BY <1>1 DEF GroupRows
    <3>2. members' \subseteq GroupRows \X Rows'
      BY <1>1, <1>10, <2>4 DEF TablesOK
    <3> QED
      BY <1>1, <1>10, <2>2, <2>4, <2>5, <3>1, <3>2 DEF TablesOK
  <2>8. Refers(v)'
    BY <1>4, <1>9, <2>4 DEF Refers
  <2>9. ASSUME Alone, AloneInv
        PROVE  /\ RowsOK' /\ Stands(v)' /\ NamesOK' /\ AdminsNext(v)
               /\ \A x \in Rows' : users'[x].role = RoleOf(x)' \/ x \in failed' \/ x \in Pending(v)
    <3>0. /\ Pending(req[r]) = {} /\ RolesOK /\ NamesOK /\ AdminsOK /\ RowsOK
          /\ \A x \in Rows : PersonOf(users[x]) # None
      BY <1>11, <2>9
    <3>1. \A x \in Rows : p \notin {users[x].ext, users[x].sub}
      BY <2>5 DEF GetUserByOIDCSubject, GetUserByExternalID
    <3>2. /\ RowsOK' /\ NamesOK'
          /\ \A s \in Sids : sessions[s] # None => sessions[s].name # row.name
      <4>1. \A x \in Rows : {row.ext, row.sub} \cap {users[x].ext, users[x].sub} \subseteq {None}
        BY <2>3, <3>1
      <4>2. ~NameTaken(u, row.name)
        BY <2>2, <2>3
      <4> QED
        BY <1>6, <2>2, <2>3, <2>4, <2>5, <2>6, <3>0, <4>1, <4>2, NewRow
    <3>3. Stands(v)'
      <4>1. Peopled(v)'
        BY <1>4, <2>3, <2>4, <2>6, <3>0 DEF Peopled, PersonOf
      <4> QED
        BY <1>3, <1>4, <1>9, <2>3, <2>4, <4>1 DEF Stands
    <3>4. u \in Pending(v)
      BY <1>9 DEF Pending
    <3>5. \A x \in Rows' : users'[x].role = RoleOf(x)' \/ x \in failed' \/ x \in Pending(v)
      <4> SUFFICES ASSUME NEW x \in Rows', x # u, x \notin failed'
                   PROVE  users'[x].role = RoleOf(x)'
        BY <3>4
      <4>1. x \in Rows /\ users'[x].role = users[x].role
        BY <2>4, <2>6
      <4> QED
        BY <1>1, <2>9, <3>0, <4>1, RolesLeft
    <3>6. AdminsNext(v)
      <4> SUFFICES ASSUME NEW s \in Sids, sessions'[s] # None, sessions'[s].role = "admin",
                          NEW x \in Rows', users'[x].name = sessions'[s].name
                   PROVE  users'[x].role = "admin" \/ x \in kept'
        BY DEF AdminsNext
      <4>1. x # u
        BY <2>2, <2>4, <3>2
      <4> QED
        BY <1>1, <2>2, <2>4, <2>6, <2>9, <3>0, <4>1, AdminsLeft
    <3> QED
      BY <3>2, <3>3, <3>5, <3>6
  <2> QED
    BY <1>8, <1>9, <2>4, <2>7, <2>8, <2>9, UserStep
<1>14. CASE users[u] # None
  <2>1. /\ migrateUsernameTx(u, n)
        /\ users' = [users EXCEPT ![u].name = n, ![u].sub = p, ![u].role = role]
        /\ kept' = IF users[u].role # role THEN kept \cup {u} ELSE kept
    BY <1>6, <1>14 DEF provisionUser
  <2>2. u \in Rows /\ p \in {users[u].ext, users[u].sub}
    BY <1>12, <1>14
  <2>3. /\ users' \in [Uids -> UserRow \cup {None}] /\ Rows' = Rows
        /\ \A x \in Rows : x # u => users'[x] = users[x]
        /\ users'[u] \in UserRow /\ users'[u].name = n /\ users'[u].sub = p
        /\ users'[u].ext = users[u].ext /\ users'[u].role = role
    BY <1>4, <2>1, <2>2, LoginWritten
  <2>4. TablesOK'
    BY <1>1, <1>4, <1>6, <1>10, <2>1, <2>2, <2>3, RenamingTypes, TablesUsers DEF TablesOK
  <2>5. Refers(v)'
    BY <1>4, <1>9, <2>2, <2>3 DEF Refers
  <2>6. ASSUME Alone, AloneInv
        PROVE  /\ RowsOK' /\ Stands(v)' /\ NamesOK' /\ AdminsNext(v)
               /\ \A x \in Rows' : users'[x].role = RoleOf(x)' \/ x \in failed' \/ x \in Pending(v)
    <3>0. /\ Pending(req[r]) = {} /\ RolesOK /\ NamesOK /\ AdminsOK /\ RowsOK
          /\ \A x \in Rows : PersonOf(users[x]) # None
      BY <1>11, <2>6
    <3>1. PersonOf(users[u]) = p /\ ~Elsewhere(p, u)
      BY <1>4, <2>2, <3>0, FoundRow
    <3>2. PersonOf(users'[u]) = p /\ users'[u].ext \in {None, p}
      BY <1>4, <2>2, <2>3, <3>0 DEF PersonOf, RowsOK
    <3>3. /\ NamesOK' /\ \A x, y \in Rows : users'[x].name = users'[y].name => x = y
          /\ \A s \in Sids : sessions'[s] # None =>
               /\ sessions[s] # None /\ sessions'[s].role = sessions[s].role
               /\ \A x \in Rows : users'[x].name = sessions'[s].name => users[x].name = sessions[s].name
      BY <1>4, <2>1, <2>2, <2>3, <3>0, <3>1, <3>2, Renaming
    <3>4. RowsOK'
      <4>1. ASSUME NEW x \in Rows
            PROVE  users'[x].ext = None \/ users'[x].sub = None \/ users'[x].ext = users'[x].sub
        <5>1. CASE x = u
          BY <2>3, <3>2, <5>1
        <5>2. CASE x # u
          BY <2>3, <3>0, <5>2 DEF RowsOK
        <5> QED BY <5>1, <5>2
      <4>2. ASSUME NEW x \in Rows, NEW y \in Rows, x # y
            PROVE  {users'[x].ext, users'[x].sub} \cap {users'[y].ext, users'[y].sub} \subseteq {None}
        <5>1. CASE x # u /\ y # u
          BY <2>3, <3>0, <4>2, <5>1 DEF RowsOK, OneRowPerPerson
        <5>2. CASE x = u
          BY <2>3, <3>1, <3>2, <4>2, <5>2 DEF Elsewhere
        <5>3. CASE y = u
          BY <2>3, <3>1, <3>2, <4>2, <5>3 DEF Elsewhere
        <5> QED BY <5>1, <5>2, <5>3
      <4> QED
        BY <2>3, <3>3, <4>1, <4>2 DEF RowsOK, OneRowPerPerson
    <3>5. Stands(v)'
      <4>1. Peopled(v)'
        <5> SUFFICES ASSUME NEW x \in Rows PROVE PersonOf(users'[x]) # None
          BY <2>3 DEF Peopled, PersonOf
        <5>1. CASE x = u
          BY <1>4, <3>2, <5>1
        <5>2. CASE x # u
          BY <2>3, <3>0, <5>2
        <5> QED BY <5>1, <5>2
      <4> QED
        BY <1>3, <1>4, <1>9, <2>3, <4>1 DEF Stands
    <3>6. u \in Pending(v)
      BY <1>9 DEF Pending
    <3>7. \A x \in Rows' : users'[x].role = RoleOf(x)' \/ x \in failed' \/ x \in Pending(v)
      <4> SUFFICES ASSUME NEW x \in Rows', x # u, x \notin failed'
                   PROVE  users'[x].role = RoleOf(x)'
        BY <3>6
      <4>1. x \in Rows /\ users'[x].role = users[x].role
        BY <2>3
      <4> QED
        BY <1>1, <2>6, <3>0, <4>1, RolesLeft
    <3>8. AdminsNext(v)
      <4> SUFFICES ASSUME NEW s \in Sids, sessions'[s] # None, sessions'[s].role = "admin",
                          NEW x \in Rows', users'[x].name = sessions'[s].name
                   PROVE  users'[x].role = "admin" \/ x \in kept'
        BY DEF AdminsNext
      <4>1. sessions[s] # None /\ sessions[s].role = "admin" /\ x \in Rows
            /\ users[x].name = sessions[s].name
        BY <2>3, <3>3
      <4>2. users[x].role = "admin" \/ x \in kept
        BY <1>1, <2>6, <3>0, <4>1, AdminsLeft
      <4>3. CASE x # u
        BY <2>1, <2>3, <4>1, <4>2, <4>3
      <4>4. CASE x = u
        BY <2>1, <2>3, <4>2, <4>4
      <4> QED
        BY <4>3, <4>4
    <3> QED
      BY <3>3, <3>4, <3>5, <3>7, <3>8
  <2> QED
    BY <1>8, <1>9, <2>3, <2>4, <2>5, <2>6, UserStep
<1> QED
  BY <1>13, <1>14

-----------------------------------------------------------------------------
(* The start, every step, and the theorems.                                *)
LEMMA InitInv == Init => IInv
<1> SUFFICES ASSUME Init PROVE IInv
  OBVIOUS
<1>1. /\ identity = [n \in Names |-> None] /\ req = [r \in Requests |-> NoReq]
      /\ begun = 0 /\ failed = {} /\ kept = {}
  BY DEF Init
<1>2. PICK seeded \in BOOLEAN, c \in Claims :
       LET row == [name |-> c[2], ext |-> c[1], sub |-> c[1], role |-> "admin", active |-> TRUE] IN
       /\ users = [u \in Uids |-> IF seeded /\ u = 1 THEN row ELSE None]
       /\ groups = [g \in Gids |-> IF seeded /\ g = 1 THEN [name |-> AdminGroup, ext |-> TRUE] ELSE None]
       /\ gseq = IF seeded THEN 1 ELSE 0
       /\ members = IF seeded THEN {<<1, 1>>} ELSE {}
       /\ sessions = [s \in Sids |-> IF seeded /\ s = 1
                                    THEN [sub |-> c[1], name |-> c[2], role |-> "admin"] ELSE None]
  BY DEF Init
<1>3. PICK p, n, row, grow, srow :
        /\ p = c[1] /\ n = c[2]
        /\ row = [name |-> n, ext |-> p, sub |-> p, role |-> "admin", active |-> TRUE]
        /\ grow = [name |-> AdminGroup, ext |-> TRUE]
        /\ srow = [sub |-> p, name |-> n, role |-> "admin"]
  OBVIOUS
<1>4. p \in People /\ n \in Names /\ p # None /\ AdminGroup \in GroupNames
  BY <1>3, ConstantFacts, IdentityAssumption
<1>5. /\ row \in UserRow /\ row.name = n /\ row.ext = p /\ row.sub = p /\ row.role = "admin"
      /\ grow \in GroupRow /\ grow.name = AdminGroup
      /\ srow \in SessionRow /\ srow.sub = p /\ srow.name = n /\ srow.role = "admin"
  BY <1>3, <1>4 DEF UserRow, GroupRow, SessionRow
<1>6. row # None /\ grow # None /\ srow # None /\ PersonOf(row) = p
  BY <1>4, <1>5, ConstantFacts DEF PersonOf
<1>7. /\ users = [u \in Uids |-> IF seeded /\ u = 1 THEN row ELSE None]
      /\ groups = [g \in Gids |-> IF seeded /\ g = 1 THEN grow ELSE None]
      /\ gseq = IF seeded THEN 1 ELSE 0
      /\ members = IF seeded THEN {<<1, 1>>} ELSE {}
      /\ sessions = [s \in Sids |-> IF seeded /\ s = 1 THEN srow ELSE None]
  BY <1>2, <1>3
<1>8. 1 \in Uids /\ 1 \in Gids /\ MaxGroups \in Nat /\ MaxGroups > 0 /\ MaxRequests \in Nat
  BY ConstantFacts DEF Uids, Gids
<1>9. /\ users \in [Uids -> UserRow \cup {None}] /\ groups \in [Gids -> GroupRow \cup {None}]
      /\ identity \in [Names -> IdentityRow \cup {None}]
      /\ sessions \in [Sids -> SessionRow \cup {None}]
  BY <1>1, <1>5, <1>7
<1>10. RequestsOK
  <2>1. \A r \in Requests : req[r] = NoReq
    BY <1>1
  <2>2. req \in [Requests -> ReqRow]
    BY <1>1, IdleRow
  <2> QED
    BY <2>1, <2>2, StandsIdle DEF RequestsOK
<1>11. \A u \in Rows : PersonOf(users[u]) # None
  BY <1>4, <1>6, <1>7 DEF Rows
<1>12. \A r \in Requests : Stands(req[r])
  BY <1>1, <1>11, StandsIdle
<1>13. \A u, x \in Rows : u = x
  BY <1>7 DEF Rows
<1>14. RowsOK
  BY <1>4, <1>5, <1>7, <1>13 DEF RowsOK, OneRowPerPerson, Rows
<1>15. CASE seeded
  <2>1. Rows = {1} /\ GroupRows = {1} /\ users[1] = row /\ groups[1] = grow
    BY <1>6, <1>7, <1>8, <1>15 DEF Rows, GroupRows
  <2>2. Rows = 1..1 /\ GroupRows = 1..1 /\ gseq = 1 /\ members = {<<1, 1>>}
    BY <1>7, <1>15, <2>1
  <2>3. TablesOK
    BY <1>1, <1>8, <1>9, <2>1, <2>2 DEF TablesOK
  <2>4. NamesOK
    BY <1>1, <1>5, <1>6, <1>7, <1>15, <2>1 DEF NamesOK
  <2>5. RolesOK
    <3>1. RoleOf(1) = "admin"
      BY <1>5, <2>1, <2>2, RoleIs
    <3> QED
      BY <1>5, <2>1, <3>1 DEF RolesOK
  <2>6. AdminsOK
    BY <1>5, <2>1 DEF AdminsOK
  <2> QED
    BY <1>1, <1>8, <1>10, <1>12, <1>14, <2>3, <2>4, <2>5, <2>6
       DEF IInv, TypeInv, AloneInv, PeopleInv
<1>16. CASE ~seeded
  <2>1. Rows = {} /\ GroupRows = {} /\ \A s \in Sids : sessions[s] = None
    BY <1>7, <1>16 DEF Rows, GroupRows
  <2>2. Rows = 1..0 /\ gseq = 0 /\ members = {}
    BY <1>7, <1>16, <2>1
  <2>3. TablesOK
    BY <1>1, <1>8, <1>9, <2>1, <2>2 DEF TablesOK
  <2>4. NamesOK /\ RolesOK /\ AdminsOK
    BY <1>1, <2>1 DEF NamesOK, RolesOK, AdminsOK
  <2> QED
    BY <1>1, <1>8, <1>10, <1>12, <1>14, <2>3, <2>4 DEF IInv, TypeInv, AloneInv, PeopleInv
<1> QED
  BY <1>15, <1>16

LEMMA ArrivalStep == ASSUME TypeInv, Arrival PROVE Kept
<1>1. CASE \E r \in Requests :
             \/ CreateUser(r) \/ ReplaceUser(r) \/ PatchUser(r) \/ DeleteUser(r)
             \/ CreateGroup(r) \/ ReplaceGroup(r) \/ PatchGroup(r) \/ DeleteGroup(r)
             \/ HandleCallback(r)
  BY <1>1, CreateUserStep, ReplaceUserStep, PatchUserStep, DeleteUserStep, CreateGroupStep,
     ReplaceGroupStep, PatchGroupStep, DeleteGroupStep, HandleCallbackStep
<1>2. CASE \E n \in Names : SetGameIdentity(n) \/ DeleteGameIdentity(n)
  BY <1>2, SetGameIdentityStep, DeleteGameIdentityStep
<1> QED
  BY <1>1, <1>2 DEF Arrival

LEMMA ContinueStep == ASSUME TypeInv, Continue PROVE Kept
<1>1. CASE \E r \in Requests :
             \/ InsertUser(r) \/ UpdateUserSCIMIdentity(r) \/ syncGameIdentities(r) \/ syncUserGroups(r)
             \/ SetUserActive(r) \/ recalcUserRole(r) \/ UpdateUserRole(r)
             \/ triggerSessionInvalidation(r) \/ recalculateUsers(r)
             \/ SyncUserOIDCGroups(r) \/ CreateSession(r)
  BY <1>1, InsertUserStep, UpdateUserSCIMIdentityStep, SyncGameIdentitiesStep,
     SyncUserGroupsStep,
     SetUserActiveStep, RecalcUserRoleStep, UpdateUserRoleStep, TriggerSessionInvalidationStep,
     RecalculateUsersStep, SyncUserOIDCGroupsStep, CreateSessionStep
<1>2. CASE \E s \in Sids : getSession(s) \/ HandleLogout(s)
  BY <1>2, GetSessionStep, HandleLogoutStep
<1>3. CASE \E p \in People : HandleBackChannelLogout(p)
  BY <1>3, HandleBackChannelLogoutStep
<1> QED
  BY <1>1, <1>2, <1>3 DEF Continue

LEMMA StutterStep == ASSUME TypeInv, UNCHANGED vars PROVE Kept
<1>1. UNCHANGED <<users, groups, gseq, members, identity, sessions, req, failed, kept>>
  BY DEF vars
<1>2. identity' \in [Names -> IdentityRow \cup {None}]
      /\ sessions' \in [Sids -> SessionRow \cup {None}]
  BY <1>1 DEF TypeInv, TablesOK
<1>3. AloneInv => NamesOK'
  BY <1>1, SessionsEnd DEF AloneInv
<1> QED
  BY <1>1, <1>2, <1>3, LooseStep

LEMMA NextInv == IInv /\ [Next]_vars => IInv'
<1> SUFFICES ASSUME IInv, [Next]_vars PROVE IInv'
  OBVIOUS
<1>1. TypeInv /\ begun \in 0..MaxRequests /\ (Alone => AloneInv)
  BY DEF IInv
<1>2. Kept
  BY <1>1, ArrivalStep, ContinueStep, StutterStep DEF Next
<1>3. begun' \in 0..MaxRequests
  BY <1>1, ConstantFacts DEF Next, vars
<1> QED
  BY <1>1, <1>2, <1>3 DEF IInv, Kept, Alone

LEMMA Invariance == Spec => []IInv
  BY InitInv, NextInv, PTL DEF Spec

(* For every number of overlapping requests: the rows the handlers write   *)
(* are rows of their tables, and whatever ids a SCIM client lists, whatever *)
(* groups are deleted or made by logins meanwhile, a membership joins a    *)
(* group and a user that exist.                                            *)
THEOREM IdentityTypes == Spec => []TypeOK
<1>1. IInv => TypeOK
  BY DEF IInv, TypeInv, TablesOK, RequestsOK, ReqRow, TypeOK
<1> QED
  BY <1>1, Invariance, PTL

(* As long as requests do not overlap: POST, PUT and PATCH of the provider *)
(* and logins, in any order and under any names, end in one row for each   *)
(* person (Existing, provisionUser, UpdateUserSCIMIdentity).               *)
THEOREM OnePersonOneRow == ASSUME Alone PROVE Spec => []OneRowPerPerson
<1>1. IInv => OneRowPerPerson
  BY DEF IInv, AloneInv, PeopleInv, RowsOK
<1> QED
  BY <1>1, Invariance, PTL

(* As long as requests do not overlap: the rename within a transaction     *)
(* (migrateUsernameTx) takes along whatever is keyed by the old name, so   *)
(* that a session and a verified game identity lead to the row of the      *)
(* person they were made for, whoever bears the name later.                *)
THEOREM NamesMoveAlong == ASSUME Alone PROVE Spec => []NamesFollowPeople
<1>1. IInv => NamesFollowPeople
  <2> SUFFICES ASSUME IInv PROVE NamesFollowPeople
    OBVIOUS
  <2>1. TypeInv /\ RowsOK /\ NamesOK
    BY DEF IInv, AloneInv, PeopleInv
  <2>2. SessionOwner
    BY <2>1, SessionIs DEF SessionOwner, GetUserByUsername
  <2>3. IdentityOwner
    BY <2>1 DEF IdentityOwner, GetUserByUsername, NamesOK, RowsOK
  <2> QED
    BY <2>2, <2>3 DEF NamesFollowPeople
<1> QED
  BY <1>1, Invariance, PTL

(* As long as requests do not overlap: after any request the role stored   *)
(* with a user is the one that its groups give (recalculateUsers,          *)
(* recalcUserRole, SyncUserOIDCGroups), but for those a request failed on. *)
THEOREM RolesFollow == ASSUME Alone PROVE Spec => []RoleFollowsGroups
<1>1. IInv => RoleFollowsGroups
  <2> SUFFICES ASSUME IInv, Idle, NEW u \in Rows, u \notin failed
               PROVE  users[u].role = RoleOf(u)
    BY DEF RoleFollowsGroups
  <2>1. RolesOK /\ \A r \in Requests : Stands(req[r])
    BY DEF IInv, AloneInv, PeopleInv
  <2>2. \A r \in Requests : Pending(req[r]) = {}
    BY <2>1 DEF Idle, Stands, Pending
  <2> QED
    BY <2>1, <2>2 DEF RolesOK
<1> QED
  BY <1>1, Invariance, PTL

(* As long as requests do not overlap: whoever loses the administrator     *)
(* role through a group, a PUT or a PATCH keeps no session that passes as  *)
(* administrator (UpdateUserRole, then triggerSessionInvalidation).        *)
THEOREM DemotedAreLoggedOut == ASSUME Alone PROVE Spec => []NoStaleAdminSession
<1>1. IInv => NoStaleAdminSession
  <2> SUFFICES ASSUME IInv, Idle, NEW s \in Sids, RequireRole(s, {"admin"}),
                      NEW u \in GetUserByUsername(sessions[s].name)
               PROVE  users[u].role = "admin" \/ u \in kept
    BY DEF NoStaleAdminSession
  <2>1. AdminsOK
    BY DEF IInv, AloneInv
  <2>2. \A r \in Requests : ~Revoking(req[r], u)
    BY DEF Idle, Revoking
  <2> QED
    BY <2>1, <2>2 DEF AdminsOK, RequireRole, GetUserByUsername
<1> QED
  BY <1>1, Invariance, PTL
=============================================================================
