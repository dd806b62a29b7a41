------------------------------ MODULE Control ------------------------------
(***************************************************************************)
(* Who may do what to a server, and when: the action engine                 *)
(* (engine/engine.go), access grants and constraints (database.go), the     *)
(* handlers that consult them (pterodactyl_handler.go, agent_handler.go,    *)
(* managed_authorization.go, console_handler.go), those that change them,   *)
(* and the capability tokens a browser takes to an agent.                   *)
(*                                                                          *)
(* A request reads the deployment policy, the grants and the constraints    *)
(* one after the other while administrators and server managers change      *)
(* them.  A constraint's condition is abstracted to a value of the          *)
(* observed world ("idle", "busy") or to an expression that does not        *)
(* compile ("broken"); a disabled constraint is one that is absent; a grant *)
(* lists one capability, "*" only in rows older than the check for it.       *)
(***************************************************************************)
EXTENDS Naturals, FiniteSets, SequencesExt

CONSTANTS
  Users, Anonymous,   \* principals without a role; the public visitor, if among them
  Grantable,          \* capabilities that grants are made of
  Groups,             \* groups, each with every named user as a member
  Subjects,           \* subjects that grants are given to
  Servers, Requests,
  Paths,              \* roots of a server's files that deployment may allow
  Ceiling,            \* HOGS_SERVER_CONSTRAINT_MAX_PRIORITY
  Lifetime,           \* capability.DefaultLifetime, in ticks
  MaxRules, MaxEdits, MaxRequests, MaxClock, MaxOpen,   \* bounds; MaxOpen: tokens and consoles
  None

ASSUME ControlAssumption ==
  /\ Subjects \subseteq (Users \ {Anonymous}) \cup Groups \cup {"authenticated", "everyone"}
  /\ Grantable \subseteq {"start", "command", "file.write", "console.write", "access.manage"}
  /\ {Ceiling, Lifetime, MaxRules, MaxEdits, MaxRequests, MaxClock, MaxOpen} \subseteq Nat
  /\ IsFiniteSet(Users \cup Groups)
  /\ None \notin Servers \cup Paths \cup
       {"act", "auto", "call", "sign", "console", "read", "write"}

VARIABLES
  grants,    \* server_access_grants: by server, subject and effect the capability, or None
  rules,     \* constraints: by id the row, or None
  link,      \* pterodactyl_servers: allowed actions, whether the identifier is known; or None
  mgmt,      \* server_management: the features and file roots that deployment enables
  world,     \* what the conditions see
  req,       \* requests under way
  tokens,    \* capability tokens handed to browsers
  consoles,  \* open consoles
  clock,
  effect,    \* history: the last effect and what was found before it
  heldAt,    \* history: when a user last held the right to write files
  edits, begun

vars == <<grants, rules, link, mgmt, world, req, tokens, consoles, clock, effect, heldAt, edits, begun>>
policy == <<grants, rules, link, mgmt>>

Actions == {"start", "command:say"}                       \* gated by the link's allowed actions
Managed == {"file.write", "backup.restore", "server.update", "console.read", "console.write"}
Capabilities == Actions \cup Managed \cup {"access.manage"}
Features == {"console", "restore", "update"}
Keys == Subjects \X {"allow", "deny"}
People == Users \cup {"admin", "system"}

LinkRow == [allowed: SUBSET Actions, ident: BOOLEAN]
RuleRow == [scope: Servers \cup {"instance"}, prio: Ceiling..(Ceiling + 1),
            mode: {"require", "exempt"}, cond: {"idle", "busy", "broken"}]
RuleIds == {i \in 1..MaxRules : rules[i] # None}

-----------------------------------------------------------------------------
(* Decisions, as the code computes them *)

Matches(u, subject) ==
  \/ subject = "everyone"
  \/ subject = "authenticated" /\ u # Anonymous
  \/ subject = u
  \/ subject \in Groups /\ u # Anonymous

Covers(granted, c) == granted = "*" \/ granted = c \/ (granted = "command" /\ c = "command:say")

\* ListServerAccessGrants: ORDER BY effect, subject_type, subject; the places in that order
\* that have a row
RowsOf(eff) == << <<"authenticated", eff>>, <<"everyone", eff>> >>
               \o SetToSeq(Groups \X {eff}) \o SetToSeq((Users \ {Anonymous}) \X {eff})
RowOrder == RowsOf("allow") \o RowsOf("deny")
ListServerAccessGrants(s) ==
  {i \in DOMAIN RowOrder : RowOrder[i] \in Keys /\ grants[s][RowOrder[i]] # None}

\* mutant: the first row that matches decides
NextDecisionMutFirst(acc, hit, eff) == IF acc = "none" /\ hit THEN eff ELSE acc

\* one turn of the loop: a deny returns, an allow is remembered
NextDecision(acc, hit, eff) == IF acc # "deny" /\ hit THEN eff ELSE acc

Hits(s, u, c) == {i \in ListServerAccessGrants(s) :
                    Matches(u, RowOrder[i][1]) /\ Covers(grants[s][RowOrder[i]], c)}

EvaluateServerAccess(s, u, c) ==
  LET n == Len(RowOrder)
      hits == Hits(s, u, c)
      acc[i \in 0..n] == IF i = 0 THEN "none"
                         ELSE NextDecision(acc[i - 1], i \in hits, RowOrder[i][2])
  IN  acc[n] = "allow"

\* Administrators are not looked up; the scheduler is an administrator for EvaluateACL
Right(s, u, c) == u \in {"admin", "system"} \/ EvaluateServerAccess(s, u, c)

\* mutant: server rules come first at equal priority, and the id decides nothing else
PrecedesMutServerFirst(i, j) ==
  LET a == rules[i]  b == rules[j] IN
  \/ a.prio > b.prio
  \/ a.prio = b.prio /\ (IF (a.scope = "instance") = (b.scope = "instance") THEN i < j
                         ELSE b.scope = "instance")

\* ListEnabledConstraintsForServer: ORDER BY priority DESC, server_id IS NOT NULL, id
Precedes(i, j) ==
  LET a == rules[i]  b == rules[j] IN
  \/ a.prio > b.prio
  \/ a.prio = b.prio /\ (IF (a.scope = "instance") = (b.scope = "instance") THEN i < j
                         ELSE a.scope = "instance")
Applicable(s) == {i \in RuleIds : rules[i].scope \in {"instance", s}}

Broken(i) == rules[i].cond = "broken"
Passed(i) == (rules[i].cond = "idle") = world

\* a rule that ends the loop: an exemption that is true or a requirement that is false
Decisive(i) == ~Broken(i) /\ (Passed(i) <=> rules[i].mode = "exempt")
EvaluateConstraints(s) ==
  LET D == {i \in Applicable(s) : Decisive(i)}
      first == CHOOSE i \in D : \A j \in D \ {i} : Precedes(i, j)
  IN  D = {} \/ rules[first].mode = "exempt"

Feature(c) == CASE c \in {"console.read", "console.write"} -> "console"
                [] c = "backup.restore" -> "restore"
                [] OTHER -> "update"
\* the switch of authorizeManagedCapability
Enabled(s, c) == IF c = "file.write" THEN mgmt[s] \cap Paths # {} ELSE Feature(c) \in mgmt[s]

-----------------------------------------------------------------------------
(* What the documents say of the same decisions (docs/ACCESS_CONTROL.md) *)

\* deny by default, and deny always wins
Entitled(s, u, c) ==
  \/ u \in {"admin", "system"}
  \/ LET hits(eff) == {k \in Keys : k[2] = eff /\ grants[s][k] # None
                                    /\ Matches(u, k[1]) /\ Covers(grants[s][k], c)}
     IN  hits("allow") # {} /\ hits("deny") = {}

\* a requirement that fails has a matching exemption of higher precedence, and a requirement
\* of the instance at or above the ceiling has one of the instance
Permitted(s) ==
  \A i \in Applicable(s) :
    rules[i].mode = "require" /\ ~Broken(i) /\ ~Passed(i) =>
      \E e \in Applicable(s) :
        /\ rules[e].mode = "exempt" /\ ~Broken(e) /\ Passed(e)
        /\ rules[e].prio >= rules[i].prio
        /\ rules[i].scope = "instance" /\ rules[i].prio >= Ceiling =>
             rules[e].scope = "instance"

-----------------------------------------------------------------------------
(* Requests *)

\* via: what the request does once it is authorised; paths: the paths still to be checked;
\* refs: what the documents' definitions said when each decision was made
NoReq == [pc |-> "idle", via |-> None, user |-> None, srv |-> None, cap |-> None, copy |-> None,
          paths |-> <<>>, all |-> <<>>, refs |-> {}, failopen |-> FALSE]
Goto(r, q) == req' = [req EXCEPT ![r] = q]
Done(r) == Goto(r, NoReq)

Needed(q) == CASE q.via = "write" -> {"right"}
               [] q.via \in {"act", "auto"} -> {"deploy", "right"} \cup (IF q.failopen THEN {} ELSE {"rules"})
               [] OTHER -> {"deploy", "right", "rules"} \cup {q.all[i] : i \in DOMAIN q.all}
Effect(q) == effect' = [need |-> Needed(q), refs |-> q.refs, via |-> q.via,
                        age |-> IF q.user \in Users THEN clock - heldAt[q.user][q.srv] ELSE 0]

Begin(r, via, u, s, c, ps) ==
  /\ req[r].pc = "idle" /\ begun < MaxRequests /\ begun' = begun + 1
  /\ Goto(r, [NoReq EXCEPT !.pc = IF via = "write" THEN "acl" ELSE "gate", !.via = via, !.user = u,
                           !.srv = s, !.cap = c, !.paths = ps, !.all = ps,
                           !.copy = IF via = "act" THEN link[s] ELSE None])
  /\ effect' = None
  /\ UNCHANGED <<policy, world, tokens, consoles, clock, edits>>

\* POST action and command: the link is loaded here and again by the engine
ServerAction(r) == \E s \in Servers, u \in People \ {"system"} :
  link[s] # None /\ Begin(r, "act", u, s, "start", <<>>)
SendCommand(r) == \E s \in Servers, u \in Users :
  link[s] # None /\ Begin(r, "act", u, s, "command:say", <<>>)

\* a rule of the scheduler: evaluated as "system", then ExecuteLifecycleAction
ScheduledAction(r) == \E s \in Servers : Begin(r, "auto", "system", s, "start", <<>>)

\* the managed handlers: files (one path, or source and target), restore, update
AgentFileWrite(r) == \E s \in Servers, u \in Users, p \in Paths :
  Begin(r, "call", u, s, "file.write", <<p>>)
AgentFileOperation(r) == \E s \in Servers, u \in Users, p, t \in Paths :
  p # t /\ Begin(r, "call", u, s, "file.write", <<p, t>>)
AgentFileAccess(r) == \E s \in Servers, u \in Users, p, t \in Paths :
  Cardinality(tokens) + Cardinality(consoles) < MaxOpen /\ Begin(r, "sign", u, s, "file.write", IF p = t THEN <<p>> ELSE <<p, t>>)
AgentBackupRestore(r) == \E s \in Servers, u \in Users :
  Begin(r, "call", u, s, "backup.restore", <<>>)
AgentUpdate(r) == \E s \in Servers, u \in Users :
  Begin(r, "call", u, s, "server.update", <<>>)

\* GET console: IsAuthenticated, then the right to read and the right to write
ServeWS(r) == \E s \in Servers, u \in Users \ {Anonymous} :
  Cardinality(tokens) + Cardinality(consoles) < MaxOpen /\ Begin(r, "console", u, s, "console.read", <<>>)

\* the forms of a server manager: canManageServerAccess, then the write
ManageAccess(r) == \E s \in Servers, u \in Users : Begin(r, "write", u, s, "access.manage", <<>>)

\* A refusal ends the request; without the right to write a console is read-only
Refuse(r) ==
  LET q == req[r] IN
  IF q.cap = "console.write" THEN Goto(r, [q EXCEPT !.pc = "done", !.via = "read"]) ELSE Done(r)

Pass(r, next, ref, holds) ==
  LET q == req[r] IN
  Goto(r, [q EXCEPT !.pc = next, !.refs = IF holds THEN @ \cup {ref} ELSE @])

\* deployment policy: the engine's own read of the link, or GetServerManagement
CheckDeployment(r) ==
  LET q == req[r]
      ok == IF q.via \in {"act", "auto"} THEN link[q.srv] # None /\ q.cap \in link[q.srv].allowed
            ELSE Enabled(q.srv, q.cap)
  IN
  /\ q.pc = "gate"
  /\ IF ok THEN Pass(r, "acl", "deploy", TRUE) ELSE Refuse(r)
  /\ UNCHANGED <<policy, world, tokens, consoles, clock, effect, edits, begun>>

EvaluateACL(r) ==
  LET q == req[r] IN
  /\ q.pc = "acl"
  /\ IF Right(q.srv, q.user, q.cap)
     THEN Pass(r, IF q.via = "write" THEN "done" ELSE "rules", "right", Entitled(q.srv, q.user, q.cap))
     ELSE Refuse(r)
  /\ UNCHANGED <<policy, world, tokens, consoles, clock, effect, edits, begun>>

\* Evaluate and authorizeManagedCapability: the constraints are last
Evaluate(r) ==
  LET q == req[r] IN
  /\ q.pc = "rules"
  /\ IF EvaluateConstraints(q.srv)
     THEN Pass(r, IF q.paths # <<>> THEN "path" ELSE "done", "rules", Permitted(q.srv))
     ELSE Refuse(r)
  /\ UNCHANGED <<policy, world, tokens, consoles, clock, effect, edits, begun>>

\* a read of the database fails: every path refuses, except that the engine logs an error of
\* EvaluateConstraints and lets the action go on
StoreFails(r) ==
  LET q == req[r] IN
  /\ q.pc \in {"gate", "acl", "rules", "path"}
  /\ IF q.pc = "rules" /\ q.via \in {"act", "auto"}
     THEN Goto(r, [q EXCEPT !.pc = "done", !.failopen = TRUE])
     ELSE Refuse(r)
  /\ UNCHANGED <<policy, world, tokens, consoles, clock, effect, edits, begun>>

\* mutant: only the first path of an operation is checked
RestMutNone(ps) == <<>>

\* the paths of an operation that remain to be authorised
Rest(ps) == Tail(ps)

\* authorizeManagedPath: the management row is read again; then the whole authorisation
\* starts over for the target of a rename, copy or move
authorizeManagedPath(r) ==
  LET q == req[r]  p == Head(q.paths) IN
  /\ q.pc = "path"
  /\ IF p \in mgmt[q.srv]
     THEN Goto(r, [q EXCEPT !.pc = IF Rest(q.paths) = <<>> THEN "done" ELSE "gate",
                            !.paths = Rest(q.paths), !.refs = @ \cup {p}])
     ELSE Done(r)
  /\ UNCHANGED <<policy, world, tokens, consoles, clock, effect, edits, begun>>

-----------------------------------------------------------------------------
(* Effects of an authorised request *)

\* resolveBackend of a Pterodactyl server whose identifier is not stored yet: the copy of the
\* link is completed and written back whole (an UPDATE: a row that is gone stays gone)
resolveBackend(r) ==
  LET q == req[r]
      copy == IF q.via = "auto" THEN link[q.srv] ELSE q.copy
  IN
  /\ q.pc = "done" /\ q.via \in {"act", "auto"}
  /\ IF copy = None THEN Done(r) /\ UNCHANGED link
     ELSE /\ Goto(r, [q EXCEPT !.pc = "call"])
          /\ link' = IF ~copy.ident /\ link[q.srv] # None
                     THEN [link EXCEPT ![q.srv] = [copy EXCEPT !.ident = TRUE]] ELSE link
  /\ UNCHANGED <<grants, rules, mgmt, world, tokens, consoles, clock, effect, edits, begun>>

\* the call to the backend or to the agent
Call(r) ==
  LET q == req[r] IN
  /\ q.pc = "call" \/ (q.pc = "done" /\ q.via = "call")
  /\ Effect(q) /\ Done(r)
  /\ UNCHANGED <<policy, world, tokens, consoles, clock, edits, begun>>

\* DirectAccess signs a token for exactly this request
DirectAccess(r) ==
  LET q == req[r] IN
  /\ q.pc = "done" /\ q.via = "sign"
  /\ tokens' = tokens \cup {[user |-> q.user, srv |-> q.srv, all |-> q.all, iat |-> clock,
                             exp |-> clock + Lifetime, refs |-> q.refs]}
  /\ Done(r)
  /\ UNCHANGED <<policy, world, consoles, clock, effect, edits, begun>>

\* mutant: the expiry is not looked at
VerifyMutForever(t) == t.iat <= clock

\* accepted up to and including the second it expires
Verify(t) == t.iat <= clock /\ t.exp >= clock

\* the agent: the token must be for this method, path and target
AuthorizePaths(t, ps) == t.all = ps

\* agentAPI: a browser presents a token, as often as it likes
UseToken(t) ==
  /\ \E p, q \in Paths : \/ AuthorizePaths(t, <<p>>)
                         \/ AuthorizePaths(t, <<p, q>>)
  /\ Verify(t)
  /\ Effect([NoReq EXCEPT !.via = "token", !.user = t.user, !.srv = t.srv, !.all = t.all, !.refs = t.refs])
  /\ UNCHANGED <<policy, world, req, tokens, consoles, clock, edits, begun>>

\* the second authorisation of ServeWS is for input; its answer is kept for the connection
ConsoleOpens(r) ==
  LET q == req[r] IN
  /\ q.pc = "done" /\ q.via \in {"console", "read"}
  /\ IF q.cap = "console.read"
     THEN Goto(r, [q EXCEPT !.pc = "gate", !.cap = "console.write", !.refs = {}]) /\ UNCHANGED consoles
     ELSE Done(r) /\ consoles' = consoles \cup {[user |-> q.user, srv |-> q.srv,
                                                 write |-> q.via = "console", refs |-> q.refs]}
  /\ UNCHANGED <<policy, world, tokens, clock, effect, edits, begun>>

\* mutant: input is taken from every connection
TakesInputMutAll(c) == TRUE

TakesInput(c) == c.write

ConsoleInput(c) ==
  /\ TakesInput(c)
  /\ Effect([NoReq EXCEPT !.via = "console", !.user = c.user, !.srv = c.srv, !.refs = c.refs])
  /\ UNCHANGED <<policy, world, req, tokens, consoles, clock, edits, begun>>

ConsoleCloses(c) ==
  /\ consoles' = consoles \ {c}
  /\ UNCHANGED <<policy, world, req, tokens, clock, effect, edits, begun>>

-----------------------------------------------------------------------------
(* Changes of the policy *)

Edit == edits < MaxEdits /\ edits' = edits + 1
     /\ UNCHANGED <<world, tokens, consoles, clock, begun>>
ByAdmin == Edit /\ UNCHANGED <<req, effect>>
\* a manager whose right was checked
ByManager(r) == Edit /\ req[r].pc = "done" /\ req[r].via = "write" /\ Effect(req[r]) /\ Done(r)

\* an upsert on (server, subject, effect)
SetServerAccessGrant(s, k, c) == grants' = [grants EXCEPT ![s][k] = c]
DeleteServerAccessGrant(s, k) == grants[s][k] # None /\ grants' = [grants EXCEPT ![s][k] = None]

SetGrant == ByAdmin /\ UNCHANGED <<rules, link, mgmt>>
  /\ \E s \in Servers, k \in Keys, c \in Grantable : SetServerAccessGrant(s, k, c)
DeleteGrant == ByAdmin /\ UNCHANGED <<rules, link, mgmt>>
  /\ \E s \in Servers, k \in Keys : DeleteServerAccessGrant(s, k)
HandleAccessGrantSet(r) == ByManager(r) /\ UNCHANGED <<rules, link, mgmt>>
  /\ \E k \in Keys, c \in Grantable : SetServerAccessGrant(req[r].srv, k, c)
HandleAccessGrantDelete(r) == ByManager(r) /\ UNCHANGED <<rules, link, mgmt>>
  /\ \E k \in Keys : DeleteServerAccessGrant(req[r].srv, k)

\* a new row takes the next id; a row is changed only within its scope
NextId == 1 + Max(RuleIds \cup {0})
SetRule(row, i) == /\ IF i = NextId THEN i <= MaxRules ELSE rules[i].scope = row.scope
                   /\ rules' = [rules EXCEPT ![i] = row]

AddConstraint == ByAdmin /\ UNCHANGED <<grants, link, mgmt>>
  /\ \E row \in RuleRow : row.scope = "instance" /\ SetRule(row, NextId)
UpdateConstraint == ByAdmin /\ UNCHANGED <<grants, link, mgmt>>
  /\ \E i \in RuleIds, row \in RuleRow : row.scope = "instance" /\ SetRule(row, i)
DeleteConstraint == ByAdmin /\ UNCHANGED <<grants, link, mgmt>>
  /\ \E i \in RuleIds : rules[i].scope = "instance" /\ rules' = [rules EXCEPT ![i] = None]

\* mutant: the ceiling applies to new rows only
UnderCeilingMutNew(row, i) == i = NextId => row.prio <= Ceiling

UnderCeiling(row, i) == row.prio <= Ceiling

HandleServerConstraintSet(r) == ByManager(r) /\ UNCHANGED <<grants, link, mgmt>>
  /\ \E i \in RuleIds \cup {NextId}, row \in RuleRow :
       row.scope = req[r].srv /\ UnderCeiling(row, i) /\ SetRule(row, i)
HandleServerConstraintDelete(r) == ByManager(r) /\ UNCHANGED <<grants, link, mgmt>>
  /\ \E i \in RuleIds : rules[i].scope = req[r].srv /\ rules' = [rules EXCEPT ![i] = None]

LinkServer == ByAdmin /\ UNCHANGED <<grants, rules, mgmt>>
  /\ \E s \in Servers, row \in LinkRow : link' = [link EXCEPT ![s] = row]
UnlinkServer == ByAdmin /\ UNCHANGED <<grants, rules, mgmt>>
  /\ \E s \in Servers : link[s] # None /\ link' = [link EXCEPT ![s] = None]

\* server_management is written by inventory reconciliation alone
ReconcileManagement == ByAdmin /\ UNCHANGED <<grants, rules, link>>
  /\ \E s \in Servers, f \in Features \cup Paths :
       mgmt' = [mgmt EXCEPT ![s] = IF f \in @ THEN @ \ {f} ELSE @ \cup {f}]

\* the environment: players come and go, time passes: a tick is longer than a
\* request (steps that nothing depends on are left out)
WorldChanges ==
  /\ RuleIds # {} /\ world' = ~world
  /\ UNCHANGED <<policy, req, tokens, consoles, clock, effect, edits, begun>>
Tick ==
  /\ clock < MaxClock /\ clock' = clock + 1
  /\ tokens # {} /\ \A r \in Requests : req[r].pc = "idle"
  /\ UNCHANGED <<policy, world, req, tokens, consoles, effect, edits, begun>>

-----------------------------------------------------------------------------
Init ==
  /\ \E old \in {None, "*"} :
       grants = [s \in Servers |-> [k \in Keys |-> IF k = <<"authenticated", "allow">> THEN old ELSE None]]
  /\ rules = [i \in 1..MaxRules |-> None]
  /\ link = [s \in Servers |-> [allowed |-> Actions, ident |-> FALSE]]
  /\ mgmt = [s \in Servers |-> Features \cup Paths]
  /\ world = TRUE /\ req = [r \in Requests |-> NoReq] /\ tokens = {} /\ consoles = {}
  /\ clock = 0 /\ effect = None /\ heldAt = [u \in Users |-> [s \in Servers |-> 0]]
  /\ edits = 0 /\ begun = 0

Arrive(r) == \/ ServerAction(r) \/ SendCommand(r) \/ ScheduledAction(r) \/ AgentFileWrite(r)
             \/ AgentFileOperation(r) \/ AgentFileAccess(r) \/ AgentBackupRestore(r)
             \/ AgentUpdate(r) \/ ServeWS(r) \/ ManageAccess(r)
Step(r) == \/ CheckDeployment(r) \/ EvaluateACL(r) \/ Evaluate(r) \/ StoreFails(r)
           \/ authorizeManagedPath(r) \/ resolveBackend(r) \/ Call(r) \/ DirectAccess(r)
           \/ ConsoleOpens(r) \/ HandleAccessGrantSet(r) \/ HandleAccessGrantDelete(r)
           \/ HandleServerConstraintSet(r) \/ HandleServerConstraintDelete(r)

Change == \/ SetGrant \/ DeleteGrant \/ AddConstraint \/ UpdateConstraint \/ DeleteConstraint
          \/ LinkServer \/ UnlinkServer \/ ReconcileManagement

Act == \/ \E r \in Requests : Arrive(r) \/ Step(r)
       \/ \E t \in tokens : UseToken(t)
       \/ \E c \in consoles : ConsoleInput(c) \/ ConsoleCloses(c)
       \/ Change \/ WorldChanges \/ Tick

\* the history of a right is kept beside every step
Next == /\ Act
        /\ heldAt' = [u \in Users |-> [s \in Servers |->
                        IF Entitled(s, u, "file.write")' THEN clock' ELSE heldAt[u][s]]]

Spec == Init /\ [][Next]_vars

PathSymmetry == Permutations(Paths)

-----------------------------------------------------------------------------
(***************************************************************************)
(* Type invariant.  No constraint a server's manager made or inherited by   *)
(* an edit has a priority above the ceiling (HandleServerConstraintSet),    *)
(* and a token lives exactly its lifetime.                                  *)
(***************************************************************************)
TypeOK ==
  /\ grants \in [Servers -> [Keys -> Grantable \cup {"*", None}]]
  /\ rules \in [1..MaxRules -> RuleRow \cup {None}]
  /\ \A i \in RuleIds : rules[i].scope # "instance" => rules[i].prio <= Ceiling
  /\ link \in [Servers -> LinkRow \cup {None}]
  /\ mgmt \in [Servers -> SUBSET (Features \cup Paths)]
  /\ \A r \in Requests : /\ req[r].pc \in {"idle", "gate", "acl", "rules", "path", "done", "call"}
                         /\ req[r].pc = "idle" <=> req[r].via = None
                         /\ req[r].pc = "path" => req[r].paths # <<>>
  /\ \A t \in tokens : t.exp = t.iat + Lifetime
  /\ clock \in 0..MaxClock /\ world \in BOOLEAN

(***************************************************************************)
(* Every effect on a server (a lifecycle action, a command, a file          *)
(* operation, a restore, an input to the console, a change of its policy)   *)
(* was allowed when it was decided, in the words of the documents: the      *)
(* deployment enabled it, the user held the right with every deny applied,  *)
(* every path was inside an enabled root, and no requirement failed that    *)
(* was not exempted with higher precedence, none of the instance at or      *)
(* above the ceiling by a server's own exemption.                           *)
(***************************************************************************)
ActedWithinRights == effect # None => effect.need \subseteq effect.refs

(***************************************************************************)
(* Who loses the right to write files has no effect on them later than the  *)
(* lifetime of a token after that moment (a tick is longer than a request). *)
(***************************************************************************)
RevocationBounded ==
  effect # None /\ effect.via = "token" => effect.age <= Lifetime
=============================================================================
