----------------------------- MODULE Inventory -----------------------------
(***************************************************************************)
(* The inventory API (api/inventory_handler.go): a reconciler plans and     *)
(* applies a complete manifest while administrators edit the same tables in *)
(* the GUI.                                                                 *)
(*                                                                          *)
(* Three classes of rows are told apart, because apply treats them so:      *)
(*  - nodes and hooks (agents; templates, webhooks, notification channels): *)
(*    the manifest is authoritative, whatever it omits is deleted;          *)
(*  - servers: authoritative too, with a hosting-owned part that is         *)
(*    reconciled and a GUI-owned part that is only seeded;                  *)
(*  - rules (constraints, settings): only what the previous manifest        *)
(*    declared is deleted.                                                  *)
(* A digest is the SHA-256 of the manifest and stands for the manifest; the *)
(* generation label is left out.                                            *)
(***************************************************************************)
EXTENDS Naturals, FiniteSets

CONSTANTS
  Clients,      \* reconcilers
  Nodes, Hooks, Rules, Servers,
  None,
  MaxApplies,   \* bound: requests of the reconcilers
  MaxEdits      \* bound: edits in the GUI

ASSUME None \notin Nodes \cup Hooks \cup Rules \cup Servers

VARIABLES
  nodes, hooks,   \* rows of the authoritative tables
  servers,        \* by id: the node of its backend, its GUI-owned part; None if absent
  rules,          \* by name: None, or who wrote it
  state,          \* inventory_state: the manifest applied last, None before the first
  client,         \* the requests under way
  version,        \* history: how many applies were committed
  loaded,         \* history: the version whose configuration the runtime has loaded
  touched,        \* history: the GUI changed authoritative rows since the last commit
  late,           \* history: rows the GUI added after the first apply
  raced,          \* history: an apply was committed over another's commit
  applies, edits

inventoryVars == <<nodes, hooks, servers, rules, state, client, version, loaded, touched,
                   late, raced, applies, edits>>
tables == <<nodes, hooks, servers, rules>>

\* A GUI-owned part: "seed" as the manifest gives it, "edited" by an operator
ServerRow == [node: Nodes \cup {None}, gui: {"seed", "edited"}]
Manifest == [nodes: SUBSET Nodes, hooks: SUBSET Hooks, rules: SUBSET Rules,
             servers: [Servers -> Nodes \cup {"none", "absent"}]]

ASSUME InventoryAssumption ==
  /\ None \notin ServerRow \cup Manifest \cup {"gui", "inventory"}
  /\ Rules \cap (Nodes \cup Hooks \cup Servers) = {}
  /\ MaxApplies \in Nat /\ MaxEdits \in Nat

Empty == [nodes |-> {}, hooks |-> {}, rules |-> {}, servers |-> [s \in Servers |-> "absent"]]

Declared(m) == {s \in Servers : m.servers[s] # "absent"}
ServerRows == {s \in Servers : servers[s] # None}
AuthRows == nodes \cup hooks \cup ServerRows
Resources(m) == m.nodes \cup m.hooks \cup m.rules \cup Declared(m)

\* validateManifest: an agent backend names a node of the same manifest
validateManifest(m) == \A s \in Declared(m) : m.servers[s] \in m.nodes \cup {"none"}

\* loadState: before the first apply, an empty manifest and no digest
loadState == IF state = None THEN Empty ELSE state

\* diffInventory compares what inventoryServerReconcileView shows of a server
Updates(old, new) == {s \in Declared(old) \cap Declared(new) : old.servers[s] # new.servers[s]}
diffInventory(old, new) ==
  [create |-> Resources(new) \ Resources(old), update |-> Updates(old, new),
   delete |-> Resources(old) \ Resources(new)]

\* mutant: the tables are not looked at
firstAdoptionDeletesMutNone(m) == {}

\* firstAdoptionDeletes: rows made before the first apply are listed as deletes
firstAdoptionDeletes(m) == IF state = None THEN AuthRows \ Resources(m) ELSE {}

Deletes(m) == diffInventory(loadState, m).delete \cup firstAdoptionDeletes(m)
hasDeletes(m) == Deletes(m) # {}

NoRequest == [pc |-> "idle", man |-> Empty, expect |-> None, confirm |-> FALSE,
         prev |-> Empty, listed |-> {}, alone |-> TRUE, commit |-> 0]
Set(c, q) == client' = [client EXCEPT ![c] = q]

-----------------------------------------------------------------------------
(* The reconciler's requests *)

\* POST plan: the client learns the digest and whether the plan deletes
Plan(c) ==
  /\ client[c].pc \in {"idle", "answered"} /\ applies < MaxApplies
  /\ \E m \in Manifest, match \in BOOLEAN :
       /\ validateManifest(m)
       /\ Set(c, [NoRequest EXCEPT !.pc = "planned", !.man = m,
                              !.expect = IF match THEN state ELSE None, !.confirm = hasDeletes(m)])
  /\ applies' = applies + 1
  /\ UNCHANGED <<tables, state, version, loaded, touched, late, raced, edits>>

\* PUT: If-Match (412) and the prune confirmation (409) are checked before the transaction
Apply(c) ==
  LET q == client[c] IN
  /\ q.pc = "planned"
  /\ IF (q.expect # None /\ q.expect # state) \/ (hasDeletes(q.man) /\ ~q.confirm)
     THEN Set(c, NoRequest)
     ELSE Set(c, [q EXCEPT !.pc = "commit", !.prev = loadState, !.listed = Deletes(q.man)])
  /\ UNCHANGED <<tables, state, version, loaded, touched, late, raced, applies, edits>>

\* mutant: rows the manifest omits stay
deleteMissingMutKeep(rows, keep) == rows \cup keep

\* applyNodes and the tables of hooks: insert, update, deleteMissing
deleteMissing(rows, keep) == (rows \cup keep) \cap keep

\* mutant: a server without an agent backend keeps the manifest's word as its node
applyServersMutNode(m) ==
  [s \in Servers |->
     IF m.servers[s] = "absent" THEN None
     ELSE [node |-> m.servers[s], gui |-> IF servers[s] # None THEN servers[s].gui ELSE "seed"]]

\* applyServers: an existing server keeps its GUI-owned part, a new one is seeded
applyServers(m) ==
  [s \in Servers |->
     IF m.servers[s] = "absent" THEN None
     ELSE [node |-> IF m.servers[s] = "none" THEN None ELSE m.servers[s],
           gui  |-> IF servers[s] # None THEN servers[s].gui ELSE "seed"]]

\* applyConstraints and applySettings: only names of the previous manifest are deleted
applyConstraints(m, prev) ==
  [r \in Rules |-> IF r \in m.rules THEN "inventory"
                   ELSE IF r \in prev.rules THEN None ELSE rules[r]]

\* applyManifest: one transaction over all tables, the state row and the events
applyManifest(c) ==
  LET q == client[c] IN
  /\ q.pc = "commit"
  /\ nodes' = deleteMissing(nodes, q.man.nodes)
  /\ hooks' = deleteMissing(hooks, q.man.hooks)
  /\ servers' = applyServers(q.man)
  /\ rules' = applyConstraints(q.man, q.prev)
  /\ state' = q.man /\ version' = version + 1 /\ touched' = FALSE
  /\ raced' = (raced \/ ~q.alone)
  /\ late' = late \ (AuthRows \ AuthRows')
  /\ client' = [d \in Clients |-> IF d = c THEN [q EXCEPT !.pc = "reload", !.commit = version + 1]
                                  ELSE [client[d] EXCEPT !.alone = @ /\ client[d].pc # "commit"]]
  /\ UNCHANGED <<loaded, applies, edits>>

\* the transaction fails and is rolled back (400), or its client goes away before it
ApplyFails(c) ==
  /\ client[c].pc = "commit"
  /\ Set(c, NoRequest)
  /\ UNCHANGED <<tables, state, version, loaded, touched, late, raced, applies, edits>>

\* mutant: the hook is skipped when the diff is empty, as it is on a retry
HookRunsMutChanges(q) == Resources(q.man) # Resources(q.prev) \/ Updates(q.prev, q.man) # {}

\* whether the hook runs: after every commit
HookRuns(q) == TRUE

\* afterApply: LoadJobs and TriggerAll read the tables as they are now; LoadJobs may fail (500)
afterApply(c) ==
  LET q == client[c] IN
  /\ q.pc = "reload"
  /\ \/ /\ loaded' = IF HookRuns(q) THEN version ELSE loaded
        /\ Set(c, [NoRequest EXCEPT !.pc = "answered", !.commit = q.commit])
     \/ HookRuns(q) /\ Set(c, NoRequest) /\ UNCHANGED loaded
  /\ UNCHANGED <<tables, state, version, touched, late, raced, applies, edits>>

-----------------------------------------------------------------------------
(* Administrators in the GUI and through the other handlers *)

Edit == edits < MaxEdits /\ edits' = edits + 1
     /\ UNCHANGED <<state, version, loaded, raced, applies>>

\* a row that an apply in progress has not seen
Adds(x) == /\ late' = IF state = None THEN late ELSE late \cup {x}
           /\ client' = [d \in Clients |-> [client[d] EXCEPT !.alone = @ /\ client[d].pc # "commit"]]

CreateHook(h) ==
  /\ Edit /\ h \notin hooks
  /\ hooks' = hooks \cup {h} /\ Adds(h) /\ touched' = TRUE
  /\ UNCHANGED <<nodes, servers, rules>>

DeleteHook(h) ==
  /\ Edit /\ h \in hooks
  /\ hooks' = hooks \ {h} /\ touched' = TRUE
  /\ UNCHANGED <<nodes, servers, rules, late, client>>

CreateAgent(n) ==
  /\ Edit /\ n \notin nodes
  /\ nodes' = nodes \cup {n} /\ Adds(n) /\ touched' = TRUE
  /\ UNCHANGED <<hooks, servers, rules>>

DeleteAgent(n) ==
  /\ Edit /\ n \in nodes
  /\ nodes' = nodes \ {n} /\ touched' = TRUE
  /\ UNCHANGED <<hooks, servers, rules, late, client>>

AddServer(s) ==
  /\ Edit /\ servers[s] = None
  /\ servers' = [servers EXCEPT ![s] = [node |-> None, gui |-> "edited"]]
  /\ Adds(s) /\ touched' = TRUE
  /\ UNCHANGED <<nodes, hooks, rules>>

\* tags, commands, access grants, presentation
EditServer(s) ==
  /\ Edit /\ servers[s] # None
  /\ servers' = [servers EXCEPT ![s].gui = "edited"]
  /\ UNCHANGED <<nodes, hooks, rules, late, client, touched>>

DeleteServer(s) ==
  /\ Edit /\ servers[s] # None
  /\ servers' = [servers EXCEPT ![s] = None] /\ touched' = TRUE
  /\ UNCHANGED <<nodes, hooks, rules, late, client>>

SetRule(r) ==
  /\ Edit
  /\ rules' = [rules EXCEPT ![r] = IF @ = None THEN "gui" ELSE None]
  /\ UNCHANGED <<nodes, hooks, servers, late, client, touched>>

-----------------------------------------------------------------------------
InventoryInit ==
  /\ nodes = {} /\ hooks = {} /\ servers = [s \in Servers |-> None]
  /\ rules = [r \in Rules |-> None] /\ state = None
  /\ client = [c \in Clients |-> NoRequest]
  /\ version = 0 /\ loaded = 0 /\ touched = FALSE /\ late = {} /\ raced = FALSE
  /\ applies = 0 /\ edits = 0

InventoryNext ==
  \/ \E c \in Clients : Plan(c) \/ Apply(c) \/ applyManifest(c) \/ ApplyFails(c) \/ afterApply(c)
  \/ \E h \in Hooks : CreateHook(h) \/ DeleteHook(h)
  \/ \E n \in Nodes : CreateAgent(n) \/ DeleteAgent(n)
  \/ \E s \in Servers : AddServer(s) \/ EditServer(s) \/ DeleteServer(s)
  \/ \E r \in Rules : SetRule(r)

InventorySpec == InventoryInit /\ [][InventoryNext]_inventoryVars

-----------------------------------------------------------------------------
(***************************************************************************)
(* Types; the runtime never has a configuration that was not committed.     *)
(***************************************************************************)
InventoryTypeOK ==
  /\ nodes \subseteq Nodes /\ hooks \subseteq Hooks
  /\ servers \in [Servers -> ServerRow \cup {None}]
  /\ rules \in [Rules -> {"gui", "inventory", None}]
  /\ state \in Manifest \cup {None}
  /\ \A c \in Clients : client[c].pc \in {"idle", "planned", "commit", "reload", "answered"}
  /\ loaded \in 0..version /\ touched \in BOOLEAN /\ raced \in BOOLEAN
  /\ applies \in 0..MaxApplies /\ edits \in 0..MaxEdits

(***************************************************************************)
(* Between an apply and the next edit in the GUI the authoritative tables   *)
(* hold exactly what the stored manifest declares, however applies overlap; *)
(* every server's node exists; and while no apply was committed over        *)
(* another's, no rule an apply wrote outlives its declaration (a rule that  *)
(* the state forgets is never deleted again).                               *)
(***************************************************************************)
StateMatchesTables ==
  state # None =>
    /\ ~touched => /\ nodes = state.nodes /\ hooks = state.hooks
                   /\ ServerRows = Declared(state)
                   /\ \A s \in ServerRows : servers[s].node \in nodes \cup {None}
    /\ ~raced => \A r \in Rules : rules[r] = "inventory" => r \in state.rules

(***************************************************************************)
(* What an apply removes was listed in its plan and confirmed, if nothing   *)
(* was added to the tables since the lists were compared, nor by the GUI    *)
(* after the first apply: "An unconfirmed destructive apply returns 409"    *)
(* (docs/INVENTORY_API.md).                                                 *)
(***************************************************************************)
Pruned == (AuthRows \ AuthRows')
ConfirmedBy(c) == Pruned \subseteq client[c].listed /\ (Pruned # {} => client[c].confirm)
PruneConfirmedAlone ==
  [][\A c \in Clients : applyManifest(c) /\ client[c].alone /\ late = {} => ConfirmedBy(c)]_inventoryVars

(***************************************************************************)
(* An apply that was answered with success has its configuration, or a      *)
(* later one, loaded in the runtime, also when an earlier reload failed and *)
(* the client sent the same manifest again ("callers can retry an apply     *)
(* safely if a reload fails").                                              *)
(***************************************************************************)
AnsweredIsLoaded ==
  \A c \in Clients : client[c].pc = "answered" => loaded >= client[c].commit
=============================================================================
