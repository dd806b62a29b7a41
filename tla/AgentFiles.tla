----------------------------- MODULE AgentFiles -----------------------------
(***************************************************************************)
(* The data directory of one managed server on its node: the whitelist      *)
(* operation (cmd/hogs-agent/whitelist.go), the file manager                *)
(* (cmd/hogs-agent/http_api.go, main.go) and the actions on the unit, which *)
(* share the unit's lock; an editor that reads without it; and the game,    *)
(* systemd and the operator at the host, who know nothing of the lock.      *)
(*                                                                          *)
(* A whitelist entry is followed by its name, an equivalence class of       *)
(* IdentitiesEqual.  A file is its data and a stamp, its size and           *)
(* modification time, which every write renews and a rename keeps.  Data is *)
(* a list of names, Junk that the game's decoder refuses, or Cut: a copy    *)
(* that is not finished.  Temporary files have unique names and are left    *)
(* out.                                                                     *)
(***************************************************************************)
EXTENDS Naturals, FiniteSets, TLC

CONSTANTS
  Ops,         \* requests of the agent's HTTP API that run at a time
  Names,       \* names on a whitelist
  Drivers,     \* game drivers, as their slug
  None, Junk, Cut,  \* no value; data a decoder refuses; data of an unfinished copy
  MaxAsks,     \* bound: requests
  MaxOutside,  \* bound: starts and stops from outside, edits in the game
  MaxCrashes   \* bound: crashes of the agent

\* A list is none of the three values beside the lists
ASSUME AgentFilesAssumption ==
  /\ None \notin Ops \cup Names \cup {Junk, Cut}
  /\ \A l \in SUBSET Names : l \notin {None, Junk, Cut}

\* The file of the list and a second one in the same directory
Paths == {"list", "copy"}

VARIABLES
  driver,     \* the server's game driver
  unit,       \* "running" or "stopped", as systemd has it
  game,       \* the whitelist in the memory of a running game
  files,      \* the data directory
  clock,      \* the stamp of the last write
  lock,       \* serverOperationLock
  op,         \* requests under way
  opened,     \* what an editor has read
  promised,   \* history: by name, what the agent last answered about it
  asks, outside, crashes

vars == <<driver, unit, game, files, clock, lock, op, opened, promised, asks, outside, crashes>>
bounds == <<asks, outside, crashes>>

Lists == SUBSET Names
Data == {Junk, Cut} \cup Lists
File == [data: Data, stamp: Nat]
NoFile == [data |-> None, stamp |-> 0]

\* The embedded drivers: Minecraft and Factorio take commands and write their
\* file when stopped, Valheim has a file only, Palworld has no list
Commands(d) == d = "minecraft"
SupportsFile(d) == d \in {"minecraft", "valheim"}
WhileRunning(d) == d = "valheim"

Running == unit = "running"

\* Decode: an absent file is an empty list
Decodes(f) == f.data \notin {Junk, Cut}
Decode(f) == IF f.data \in {None, Junk, Cut} THEN {} ELSE f.data

\* mutant: the size alone
fileETagMutSize(f) == Cardinality(Decode(f)) + 1

\* fileETag: size and modification time
fileETag(f) == f.stamp

Idle == [pc |-> "idle", kind |-> "none", path |-> "list", target |-> "copy", name |-> None,
         prev |-> None, match |-> 0, seen |-> None, data |-> {}, running |-> FALSE, upset |-> FALSE]

Kinds == {"none", "list", "add", "remove", "write", "delete", "copy", "move", "start", "stop"}
Waiting == {"idle", "lock"}
Holding == {"begin", "online", "second", "read", "recheck", "write", "replace", "rename", "create", "copying"}

Init ==
  /\ driver \in Drivers /\ unit = "stopped" /\ game = {}
  /\ files = [p \in Paths |-> NoFile] /\ clock = 0
  /\ lock = None /\ op = [o \in Ops |-> Idle]
  /\ opened = [path |-> "list", stamp |-> 0, data |-> None]
  /\ promised = [n \in Names |-> "any"]
  /\ asks = 0 /\ outside = 0 /\ crashes = 0

Goes(o, pc) == op' = [op EXCEPT ![o].pc = pc]

\* mutant: the lock is not released
ReturnMutKeeps(o) == op' = [op EXCEPT ![o] = Idle] /\ lock' = lock

\* The handler returns: the deferred Unlock follows the answer
Return(o) == op' = [op EXCEPT ![o] = Idle] /\ lock' = None

Write(p, data) ==
  /\ files' = [files EXCEPT ![p] = [data |-> data, stamp |-> clock + 1]]
  /\ clock' = clock + 1

Forget(S) == promised' = [n \in Names |-> IF n \in S THEN "any" ELSE promised[n]]

\* Whoever edits the list by hand takes over what the agent promised of it
ByHand(touched) == Forget(IF "list" \in touched THEN Names ELSE {})

\* An answer of success is a promise, unless the game changed the list meanwhile
\* or, not sure, never said that it did as it was told
Promise(o, sure) ==
  LET q == op[o] IN
  promised' = [n \in Names |->
                 IF q.kind \notin {"add", "remove"} \/ n \notin {q.name, q.prev} THEN promised[n]
                 ELSE IF q.upset \/ ~sure THEN "any"
                 ELSE IF q.kind = "add" /\ n = q.name THEN "in" ELSE "out"]

-----------------------------------------------------------------------------
(* Requests *)

\* GET and POST whitelist
AskWhitelist(o) ==
  /\ op[o].pc = "idle" /\ asks < MaxAsks /\ asks' = asks + 1
  /\ \E kind \in {"list", "add", "remove"}, n \in Names, prev \in Names \cup {None} :
       /\ kind # "add" => prev = None
       /\ op' = [op EXCEPT ![o] = [Idle EXCEPT !.pc = "lock", !.kind = kind, !.name = n,
                                               !.prev = IF prev = n THEN None ELSE prev]]
  /\ UNCHANGED <<driver, unit, game, files, clock, lock, opened, promised, outside, crashes>>

\* The file manager's requests and the actions on the unit
AskFile(o) ==
  /\ op[o].pc = "idle" /\ asks < MaxAsks /\ asks' = asks + 1
  /\ \E kind \in {"write", "delete", "copy", "move", "start", "stop"}, p \in Paths, t \in Paths,
        data \in {Names, Junk} :
       /\ kind # "write" => data = Names
       /\ kind \in {"copy", "move"} <=> p # t
       /\ op' = [op EXCEPT ![o] = [Idle EXCEPT !.pc = "lock", !.kind = kind, !.path = p,
                                               !.target = t, !.data = data]]
  /\ UNCHANGED <<driver, unit, game, files, clock, lock, opened, promised, outside, crashes>>

\* A save of the editor carries the ETag of what it read
AskSave(o) ==
  /\ op[o].pc = "idle" /\ asks < MaxAsks /\ asks' = asks + 1 /\ opened.stamp # 0
  /\ op' = [op EXCEPT ![o] = [Idle EXCEPT !.pc = "lock", !.kind = "write", !.path = opened.path,
                                          !.match = fileETag(opened), !.seen = opened.data,
                                          !.data = Names]]
  /\ UNCHANGED <<driver, unit, game, files, clock, lock, opened, promised, outside, crashes>>

\* handleFileRead: no lock; Open and Stat are of one file
handleFileRead(p) ==
  /\ files[p] # NoFile
  /\ opened' = [path |-> p, stamp |-> files[p].stamp, data |-> files[p].data]
  /\ UNCHANGED <<driver, unit, game, files, clock, lock, op, promised, bounds>>

\* serverOperationLock: the handlers wait for one mutex per unit
Acquire(o) ==
  /\ op[o].pc = "lock" /\ lock = None
  /\ lock' = o /\ Goes(o, "begin")
  /\ Forget(IF op[o].kind \in {"add", "remove"} THEN {op[o].name, op[o].prev} ELSE {})
  /\ UNCHANGED <<driver, unit, game, files, clock, opened, bounds>>

\* A path that leaves the data directory or has a symlink, a state systemd does
\* not tell, an identity that is refused, a full disk: every check, and every
\* write before the rename, may end the request with an error
Fail(o) ==
  /\ op[o].pc \in Holding \ {"copying"}
  /\ Return(o)
  /\ UNCHANGED <<driver, unit, game, files, clock, opened, promised, bounds>>

-----------------------------------------------------------------------------
(* handleWhitelist *)

\* fileAllowed
FileAllowed == SupportsFile(driver) /\ (~Running \/ WhileRunning(driver))

\* whitelistOperation: the state of the unit decides the way
whitelistOperation(o) ==
  /\ op[o].pc = "begin" /\ op[o].kind \in {"list", "add", "remove"}
  /\ \/ /\ Commands(driver) /\ Running
        /\ Goes(o, "online") /\ UNCHANGED lock
     \/ /\ ~(Commands(driver) /\ Running) /\ FileAllowed
        /\ op' = [op EXCEPT ![o].pc = "read", ![o].running = Running] /\ UNCHANGED lock
     \/ /\ ~(Commands(driver) /\ Running) /\ ~FileAllowed
        /\ Return(o)
  /\ UNCHANGED <<driver, unit, game, files, clock, opened, promised, bounds>>

\* The game (external) carries a command out and saves its list
Console(kind, n) ==
  /\ game' = IF kind = "add" THEN game \cup {n} ELSE IF kind = "remove" THEN game \ {n} ELSE game
  /\ IF kind = "list" THEN UNCHANGED <<files, clock>> ELSE Write("list", game')

\* executeCommand: an error, with or without effect; success; and a game that
\* says nothing to an accepted command, which readRCONResponse takes for success
executeCommand(kind, n, result) ==
  \/ result = "error" /\ UNCHANGED <<game, files, clock>>
  \/ result \in {"error", "success"} /\ Running /\ Console(kind, n)
  \/ result = "silence" /\ Running /\ UNCHANGED <<game, files, clock>>

\* onlineWhitelistOperation: the new entry, then the removal of the previous one
onlineWhitelistOperation(o) ==
  LET q == op[o]
      more == q.pc = "online" /\ q.kind = "add" /\ q.prev # None
  IN
  /\ q.pc \in {"online", "second"}
  /\ \E result \in {"error", "success", "silence"} :
       /\ IF q.pc = "online" THEN executeCommand(q.kind, q.name, result)
                             ELSE executeCommand("remove", q.prev, result)
       /\ \/ result = "error" /\ Return(o) /\ UNCHANGED promised
          \/ /\ result # "error" /\ more
             /\ op' = [op EXCEPT ![o].pc = "second", ![o].upset = @ \/ result = "silence"]
             /\ UNCHANGED <<lock, promised>>
          \/ result # "error" /\ ~more /\ Promise(o, result = "success") /\ Return(o)
  /\ UNCHANGED <<driver, unit, opened, bounds>>

\* The list fileWhitelistOperation is to write
Edited(q, list) ==
  IF q.kind = "add" THEN (list \ {q.prev}) \cup {q.name} ELSE list \ {q.name}

\* readFileWhitelist; without a change nothing is written
readFileWhitelist(o) ==
  LET q == op[o]
      list == Decode(files["list"]) IN
  /\ q.pc = "read"
  /\ \/ ~Decodes(files["list"]) /\ Return(o) /\ UNCHANGED promised
     \/ /\ Decodes(files["list"]) /\ (q.kind = "list" \/ Edited(q, list) = list)
        /\ Promise(o, TRUE) /\ Return(o)
     \/ /\ Decodes(files["list"]) /\ q.kind # "list" /\ Edited(q, list) # list
        /\ op' = [op EXCEPT ![o].pc = "recheck", ![o].data = Edited(q, list)]
        /\ UNCHANGED <<lock, promised>>
  /\ UNCHANGED <<driver, unit, game, files, clock, opened, bounds>>

\* mutant: the state is not asked again
RecheckMutNone(o) ==
  /\ op[o].pc = "recheck"
  /\ Goes(o, "write")
  /\ UNCHANGED <<driver, unit, game, files, clock, lock, opened, promised, bounds>>

\* server_started, server_stopped: the state is asked again before the write
Recheck(o) ==
  /\ op[o].pc = "recheck"
  /\ IF Running = op[o].running THEN Goes(o, "write") /\ UNCHANGED lock ELSE Return(o)
  /\ UNCHANGED <<driver, unit, game, files, clock, opened, promised, bounds>>

\* writeFileWhitelist: a temporary file renamed over the list
writeFileWhitelist(o) ==
  /\ op[o].pc = "write"
  /\ Write("list", op[o].data)
  /\ Promise(o, TRUE) /\ Return(o)
  /\ UNCHANGED <<driver, unit, game, opened, bounds>>

-----------------------------------------------------------------------------
(* The file manager *)

\* handleFileWrite: If-Match is compared before the body is received
handleFileWrite(o) ==
  LET q == op[o] IN
  /\ q.pc = "begin" /\ q.kind = "write"
  /\ IF q.match # 0 /\ (files[q.path] = NoFile \/ fileETag(files[q.path]) # q.match)
     THEN Return(o) ELSE Goes(o, "replace") /\ UNCHANGED lock
  /\ UNCHANGED <<driver, unit, game, files, clock, opened, promised, bounds>>

\* ... and the temporary file is renamed over the path
Replace(o) ==
  /\ op[o].pc = "replace"
  /\ Write(op[o].path, op[o].data)
  /\ ByHand({op[o].path}) /\ Return(o)
  /\ UNCHANGED <<driver, unit, game, opened, bounds>>

\* fileDelete
fileDelete(o) ==
  LET p == op[o].path IN
  /\ op[o].pc = "begin" /\ op[o].kind = "delete"
  /\ files' = [files EXCEPT ![p] = NoFile]
  /\ ByHand({p} \ {r \in Paths : files[r] = NoFile}) /\ Return(o)
  /\ UNCHANGED <<driver, unit, game, clock, opened, bounds>>

\* mutant: the target is not looked at
fileOperationMutOver(o) ==
  LET q == op[o] IN
  /\ q.pc = "begin" /\ q.kind \in {"copy", "move"}
  /\ IF files[q.path] = NoFile THEN Return(o)
     ELSE Goes(o, IF q.kind = "copy" THEN "create" ELSE "rename") /\ UNCHANGED lock
  /\ UNCHANGED <<driver, unit, game, files, clock, opened, promised, bounds>>

\* fileOperation: an absent source or an existing target ends it
fileOperation(o) ==
  LET q == op[o] IN
  /\ q.pc = "begin" /\ q.kind \in {"copy", "move"}
  /\ IF files[q.path] = NoFile \/ files[q.target] # NoFile THEN Return(o)
     ELSE Goes(o, IF q.kind = "copy" THEN "create" ELSE "rename") /\ UNCHANGED lock
  /\ UNCHANGED <<driver, unit, game, files, clock, opened, promised, bounds>>

\* os.Rename, which replaces whatever is at the target now
Rename(o) ==
  LET q == op[o] IN
  /\ q.pc = "rename"
  /\ files' = [files EXCEPT ![q.target] = files[q.path], ![q.path] = NoFile]
  /\ ByHand(Paths) /\ Return(o)
  /\ UNCHANGED <<driver, unit, game, clock, opened, bounds>>

\* copyFileExclusive: O_EXCL, the target exists from now on and is not whole
Create(o) ==
  LET q == op[o] IN
  /\ q.pc = "create"
  /\ IF files[q.target] # NoFile
     THEN Return(o) /\ UNCHANGED <<files, clock, promised>>
     ELSE /\ Write(q.target, Cut) /\ ByHand({q.target})
          /\ op' = [op EXCEPT ![o].pc = "copying", ![o].data = files[q.path].data]
          /\ UNCHANGED lock
  /\ UNCHANGED <<driver, unit, game, opened, bounds>>

\* The copy ends, or fails and is removed; a file the game put there meanwhile stays
Copied(o) ==
  LET q == op[o] IN
  /\ q.pc = "copying"
  /\ \/ files[q.target].data = Cut /\ Write(q.target, q.data)
     \/ files[q.target].data # Cut /\ UNCHANGED <<files, clock>>
     \/ files' = [files EXCEPT ![q.target] = NoFile] /\ UNCHANGED clock
  /\ ByHand({q.target}) /\ Return(o)
  /\ UNCHANGED <<driver, unit, game, opened, bounds>>

-----------------------------------------------------------------------------
(* The unit *)

Starts == unit' = "running" /\ game' = IF Running THEN game ELSE Decode(files["list"])
Stops == unit' = "stopped" /\ game' = {}

\* handleAction
executeAction(o) ==
  /\ op[o].pc = "begin" /\ op[o].kind \in {"start", "stop"}
  /\ IF op[o].kind = "start" THEN Starts ELSE Stops
  /\ Return(o)
  /\ UNCHANGED <<driver, files, clock, opened, promised, bounds>>

\* The holder of the lock meets a change it could not have known of
Upset(S) == op' = [o \in Ops |-> IF op[o].pc \in S THEN [op[o] EXCEPT !.upset = TRUE] ELSE op[o]]

\* systemd or an operator (external); only a start between the second look at
\* the unit and the rename goes unseen
ExternalStart ==
  /\ outside < MaxOutside /\ outside' = outside + 1 /\ ~Running
  /\ Starts /\ Upset({"write"})
  /\ UNCHANGED <<driver, files, clock, lock, opened, promised, asks, crashes>>

ExternalStop ==
  /\ outside < MaxOutside /\ outside' = outside + 1 /\ Running
  /\ Stops
  /\ UNCHANGED <<driver, files, clock, lock, op, opened, promised, asks, crashes>>

\* A player with the right to it changes the list in the game (external)
GameEdit(n) ==
  /\ outside < MaxOutside /\ outside' = outside + 1 /\ Running /\ Commands(driver)
  /\ \E kind \in {"add", "remove"} : Console(kind, n)
  /\ Forget({n}) /\ Upset(Holding)
  /\ UNCHANGED <<driver, unit, lock, opened, asks, crashes>>

\* The agent dies with its requests and its locks; the unit runs on
Crash ==
  /\ crashes < MaxCrashes /\ crashes' = crashes + 1
  /\ op' = [o \in Ops |-> Idle] /\ lock' = None
  /\ UNCHANGED <<driver, unit, game, files, clock, opened, promised, asks, outside>>

Next ==
  \/ \E o \in Ops :
       \/ AskWhitelist(o) \/ AskFile(o) \/ AskSave(o) \/ Acquire(o) \/ Fail(o)
       \/ whitelistOperation(o) \/ onlineWhitelistOperation(o)
       \/ readFileWhitelist(o) \/ Recheck(o) \/ writeFileWhitelist(o)
       \/ handleFileWrite(o) \/ Replace(o) \/ fileDelete(o)
       \/ fileOperation(o) \/ Rename(o) \/ Create(o) \/ Copied(o) \/ executeAction(o)
  \/ \E p \in Paths : handleFileRead(p)
  \/ \E n \in Names : GameEdit(n)
  \/ ExternalStart \/ ExternalStop \/ Crash

Spec == Init /\ [][Next]_vars

\* No request and no name is special
OpSymmetry == {f @@ g : f \in Permutations(Ops), g \in Permutations(Names)}

-----------------------------------------------------------------------------
(* Type invariant: the requests past the lock are exactly its holder, so    *)
(* every return of a handler releases serverOperationLock and no two        *)
(* handlers of a unit run at a time.                                        *)
TypeOK ==
  /\ driver \in Drivers /\ unit \in {"running", "stopped"} /\ game \in Lists
  /\ files \in [Paths -> {NoFile} \cup File] /\ clock \in Nat
  /\ \A p \in Paths : files[p].stamp <= clock
  /\ lock \in Ops \cup {None}
  /\ \A o \in Ops : /\ op[o].pc \in Waiting \cup Holding /\ op[o].kind \in Kinds
                    /\ op[o].pc \in Holding <=> lock = o
  /\ promised \in [Names -> {"any", "in", "out"}]

\* The list that counts: a running game's own, or the file the next start loads
Effective == IF Commands(driver) /\ Running THEN game ELSE Decode(files["list"])

(* PromiseKept: what the whitelist operation answered last about a player   *)
(* holds: the player is on the list the game goes by, or is not.  Requests  *)
(* that overlap, starts and stops between the read of the file and the      *)
(* second look at the unit, removals of a previous name that fail half way  *)
(* and crashes do not break it.  A change of the list in the game or by     *)
(* hand, and a start after the second look, end the promise; a command that *)
(* the game left unanswered is a success that promises nothing.             *)
PromiseKept ==
  \A n \in Names : /\ promised[n] = "in" => n \in Effective
                   /\ promised[n] = "out" => n \notin Effective

(* ChecksStillHold: what a file request checked still holds when it acts.   *)
(* A save with If-Match replaces exactly the data its editor read, a move   *)
(* finds nothing at its target; only the game, which takes no lock, can     *)
(* come between.                                                            *)
ChecksStillHold ==
  \A o \in Ops :
    LET q == op[o] IN
    q.upset \/ ( /\ q.pc = "replace" /\ q.match # 0 => files[q.path].data = q.seen
                 /\ q.pc = "rename" => files[q.target] = NoFile )
=============================================================================
