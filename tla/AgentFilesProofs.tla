-------------------------- MODULE AgentFilesProofs --------------------------
(***************************************************************************)
(* Proofs about the data directory of a managed server, for any set of     *)
(* requests and of names, any game driver and any number of starts, stops, *)
(* edits in the game and crashes: one handler at a time is past the unit's *)
(* lock, what the whitelist operation promised holds, and what a file      *)
(* request checked still holds when it acts.                               *)
(***************************************************************************)
EXTENDS AgentFiles, TLAPS

Lifted == {"list", "add", "remove"}

Request ==
  [pc: Waiting \cup Holding, kind: Kinds, path: Paths, target: Paths,
   name: Names \cup {None}, prev: Names \cup {None}, match: Nat, seen: {None} \cup Data,
   data: Data, running: BOOLEAN, upset: BOOLEAN]

Directory == [Paths -> {NoFile} \cup [data: Data, stamp: Nat \ {0}]]

Types ==
  /\ driver \in Drivers /\ unit \in {"running", "stopped"} /\ game \in Lists
  /\ files \in Directory /\ clock \in Nat
  /\ lock \in Ops \cup {None} /\ op \in [Ops -> Request]
  /\ opened \in [path: Paths, stamp: Nat, data: {None} \cup Data]
  /\ promised \in [Names -> {"any", "in", "out"}]
  /\ \A o \in Ops : op[o].pc \in Holding <=> lock = o

(* What a request q is about at the step it has come to. *)
StepOK(q) ==
  /\ q.kind \in Lifted => q.name \in Names
  /\ q.kind = "add" => q.prev # q.name
  /\ q.kind = "remove" => q.prev = None
  /\ q.kind \in {"copy", "move"} => q.path # q.target
  /\ q.pc \in {"online", "second", "read"} => q.kind \in Lifted
  /\ q.pc \in {"recheck", "write"} => q.kind \in {"add", "remove"}
  /\ q.pc \in {"online", "second"} => Commands(driver)
  /\ q.pc = "second" => q.kind = "add" /\ q.prev # None
  /\ q.pc \in {"read", "recheck", "write"} => ~(Commands(driver) /\ q.running)
  /\ q.pc = "replace" => q.kind = "write"
  /\ q.pc \in {"rename", "create", "copying"} => q.kind \in {"copy", "move"}

StepInv == \A o \in Ops : StepOK(op[o])

(* Whoever read d under the stamp s knows what a file with that stamp holds. *)
Knows(s, d, fs) == s # 0 => \A p \in Paths : fs[p].stamp = s => fs[p].data = d

(* Every write makes a stamp of its own, and a rename keeps it with the data. *)
StampInv ==
  /\ \A p \in Paths : files[p].stamp <= clock /\ Knows(files[p].stamp, files[p].data, files)
  /\ opened.stamp <= clock /\ Knows(opened.stamp, opened.data, files)
  /\ \A o \in Ops : op[o].match <= clock /\ Knows(op[o].match, op[o].seen, files)

(* What the checks of the file request q found of the directory fs. *)
CheckOK(q, fs) ==
  /\ q.pc \in {"rename", "create"} => fs[q.path] # NoFile
  /\ q.pc = "replace" /\ q.match # 0 /\ ~q.upset => fs[q.path].stamp = q.match
  /\ q.pc = "rename" /\ ~q.upset => fs[q.target] = NoFile

CheckInv == \A o \in Ops : CheckOK(op[o], files)

(* The promise p about n is kept by the list l. *)
Kept(p, n, l) == (p = "in" => n \in l) /\ (p = "out" => n \notin l)

(* ... by the file, and by the game g that runs and has a list of its own. *)
KeptBy(p, n, fs, g, u) ==
  /\ Kept(p, n, Decode(fs["list"]))
  /\ Commands(driver) /\ u = "running" => Kept(p, n, g)

FileInv == \A n \in Names : KeptBy(promised[n], n, files, game, unit)

(* What the whitelist request q, at its step, may rely on: nothing is      *)
(* promised about its names; the new entry is in place when the previous   *)
(* one is to go; a game started since has loaded the file that was read;   *)
(* and the list it is to write keeps what is promised about other names.   *)
ListOK(q, fs, g, u, pr) ==
  /\ q.pc \in Holding /\ q.kind \in {"add", "remove"} =>
       \A n \in Names : n \in {q.name, q.prev} => pr[n] = "any"
  /\ q.pc = "second" /\ ~q.upset => KeptBy("in", q.name, fs, g, u)
  /\ q.pc = "read" /\ ~q.upset /\ Commands(driver) /\ u = "running" => g = Decode(fs["list"])
  /\ q.pc \in {"recheck", "write"} =>
       /\ q.data \in Lists
       /\ \A n \in Names :
            Kept(IF n \notin {q.name, q.prev} THEN pr[n]
                 ELSE IF q.kind = "add" /\ n = q.name THEN "in" ELSE "out", n, q.data)
  /\ q.pc = "write" /\ ~q.upset => ~(Commands(driver) /\ u = "running")

ListInv == \A o \in Ops : ListOK(op[o], files, game, unit, promised)

IInv == Types /\ StepInv /\ StampInv /\ CheckInv /\ FileInv /\ ListInv

-----------------------------------------------------------------------------
(* No other request is past the lock. *)
LEMMA Exclusive ==
  ASSUME Types, NEW o \in Ops, op[o].pc \in Holding, NEW r \in Ops, r # o
  PROVE  op[r].pc \in Waiting /\ lock = o
BY DEF Types, Request

(* A request before the lock relies on nothing. *)
LEMMA WaitingOK ==
  ASSUME NEW q \in Request, q.pc \in Waiting, NEW fs, NEW g, NEW u, NEW pr
  PROVE  CheckOK(q, fs) /\ ListOK(q, fs, g, u, pr) /\ q.pc \notin Holding
BY DEF CheckOK, ListOK, Waiting, Holding

LEMMA IdleOK ==
  /\ Idle \in Request /\ Idle.pc \in Waiting /\ Idle.match = 0 /\ Idle.seen = None
  /\ StepOK(Idle)
BY DEF Idle, Request, Waiting, Kinds, Paths, Data, Lists, StepOK, Lifted

(* A directory made of files that were there and of new ones. *)
Stamped ==
  /\ files' \in Directory /\ clock' \in Nat /\ clock <= clock'
  /\ \A p \in Paths : files'[p].stamp <= clock' /\ Knows(files'[p].stamp, files'[p].data, files')
  /\ \A s \in Nat, d \in {None} \cup Data :
       s <= clock /\ Knows(s, d, files) => Knows(s, d, files')

LEMMA NoFileOK ==
  /\ NoFile.stamp = 0 /\ NoFile.data = None
  /\ \A f \in {NoFile} \cup [data: Data, stamp: Nat \ {0}] :
       /\ f.stamp \in Nat /\ f.data \in {None} \cup Data
       /\ f # NoFile => f.data \in Data /\ f.stamp # 0
BY DEF NoFile

LEMMA Decodable ==
  ASSUME NEW fs \in Directory, NEW p \in Paths
  PROVE  Decode(fs[p]) \in Lists
BY NoFileOK DEF Directory, Decode, Data, Lists

LEMMA DecodeList ==
  ASSUME NEW l \in Lists, NEW f, f.data = l
  PROVE  Decode(f) = l /\ Decodes(f)
BY AgentFilesAssumption DEF Decode, Decodes, Lists

(* A file that stays in the directory, elsewhere or not. *)
LEMMA MovedFiles ==
  ASSUME Types, StampInv, clock' = clock, files' \in Directory,
         \A p \in Paths : files'[p] = NoFile \/ \E r \in Paths : files'[p] = files[r]
  PROVE  Stamped
<1>1. \A s \in Nat, d \in {None} \cup Data : Knows(s, d, files) => Knows(s, d, files')
  BY NoFileOK DEF Knows
<1>2. ASSUME NEW p \in Paths
      PROVE  files'[p].stamp <= clock' /\ Knows(files'[p].stamp, files'[p].data, files')
  <2>1. CASE files'[p] = NoFile
    BY <2>1, NoFileOK DEF Knows, Types
  <2>2. CASE \E r \in Paths : files'[p] = files[r]
    <3>1. PICK r \in Paths : files'[p] = files[r]
      BY <2>2
    <3>2. /\ files[r].stamp \in Nat /\ files[r].data \in {None} \cup Data
          /\ files[r].stamp <= clock /\ Knows(files[r].stamp, files[r].data, files)
      BY NoFileOK DEF Types, Directory, StampInv
    <3> QED BY <1>1, <3>1, <3>2
  <2> QED BY <2>1, <2>2
<1> QED BY <1>1, <1>2 DEF Stamped, Types

LEMMA SameFiles ==
  ASSUME Types, StampInv, UNCHANGED <<files, clock>>
  PROVE  Stamped
BY MovedFiles DEF Types

(* A file that is taken away. *)
LEMMA RemovedFile ==
  ASSUME Types, StampInv, NEW p \in Paths, files' = [files EXCEPT ![p] = NoFile], clock' = clock
  PROVE  Stamped
<1>1. files' \in Directory
  BY DEF Types, Directory
<1>2. \A r \in Paths : files'[r] = NoFile \/ files'[r] = files[r]
  BY DEF Types, Directory
<1> QED BY <1>1, <1>2, MovedFiles

LEMMA WrittenFile ==
  ASSUME Types, StampInv, NEW p \in Paths, NEW d \in Data, Write(p, d)
  PROVE  /\ Stamped /\ files'[p].data = d /\ files'[p] # NoFile
         /\ \A r \in Paths : r # p => files'[r] = files[r]
<1> DEFINE f == [data |-> d, stamp |-> clock + 1]
<1>1. /\ files' = [files EXCEPT ![p] = f] /\ clock' = clock + 1
      /\ clock \in Nat
  BY DEF Write, Types
<1>2. f \in [data: Data, stamp: Nat \ {0}] /\ f.stamp = clock + 1 /\ f.data = d
  BY <1>1
<1> HIDE DEF f
<1>3. /\ files' \in Directory /\ files'[p] = f
      /\ \A r \in Paths : r # p => files'[r] = files[r]
  BY <1>1, <1>2 DEF Types, Directory
<1>4. \A r \in Paths : files[r].stamp \in Nat /\ files[r].data \in {None} \cup Data
  BY NoFileOK DEF Types, Directory
<1>5. \A s \in Nat, e \in {None} \cup Data :
        s <= clock /\ Knows(s, e, files) => Knows(s, e, files')
  BY <1>1, <1>2, <1>3 DEF Knows
<1>6. ASSUME NEW r \in Paths
      PROVE  files'[r].stamp <= clock' /\ Knows(files'[r].stamp, files'[r].data, files')
  <2>1. CASE r = p
    <3>1. \A x \in Paths : files'[x].stamp = clock + 1 => x = p
      BY <1>1, <1>3, <1>4 DEF StampInv
    <3> QED BY <2>1, <3>1, <1>1, <1>2, <1>3 DEF Knows
  <2>2. CASE r # p
    <3>1. files'[r] = files[r] /\ files[r].stamp \in Nat /\ files[r].data \in {None} \cup Data
      BY <2>2, <1>3, <1>4
    <3>2. files[r].stamp <= clock /\ Knows(files[r].stamp, files[r].data, files)
      BY DEF StampInv
    <3>3. Knows(files[r].stamp, files[r].data, files')
      BY <3>1, <3>2, <1>5
    <3> QED BY <3>1, <3>2, <3>3, <1>1
  <2> QED BY <2>1, <2>2
<1>7. f # NoFile
  BY <1>1, <1>2, NoFileOK
<1>8. clock' \in Nat /\ clock <= clock'
  BY <1>1
<1>9. Stamped
  BY <1>3, <1>5, <1>6, <1>8 DEF Stamped
<1> QED BY <1>2, <1>3, <1>7, <1>9

(* The stamps that were read stay known. *)
LEMMA StampsKept ==
  ASSUME Types, StampInv, Stamped, op' \in [Ops -> Request], opened' = opened,
         \A r \in Ops : \/ op'[r].match = 0
                        \/ op'[r].match = op[r].match /\ op'[r].seen = op[r].seen
  PROVE  StampInv'
<1>1. /\ opened.stamp \in Nat /\ opened.data \in {None} \cup Data /\ clock \in Nat
      /\ \A r \in Ops : op[r].match \in Nat /\ op[r].seen \in {None} \cup Data
  BY DEF Types, Request
<1>2. opened'.stamp <= clock' /\ Knows(opened'.stamp, opened'.data, files')
  BY <1>1 DEF StampInv, Stamped
<1>3. ASSUME NEW r \in Ops
      PROVE  op'[r].match <= clock' /\ Knows(op'[r].match, op'[r].seen, files')
  <2>1. CASE op'[r].match = 0
    BY <2>1, <1>1 DEF Knows, Stamped
  <2>2. CASE op'[r].match = op[r].match /\ op'[r].seen = op[r].seen
    BY <2>2, <1>1 DEF StampInv, Stamped
  <2> QED BY <2>1, <2>2
<1> QED BY <1>2, <1>3 DEF StampInv, Stamped
-----------------------------------------------------------------------------
(* The holder returns: no request relies on anything. *)
LEMMA ReturnInv ==
  ASSUME IInv, NEW o \in Ops, op[o].pc \in Holding, Return(o),
         UNCHANGED <<driver, opened>>, unit' \in {"running", "stopped"}, game' \in Lists,
         promised' \in [Names -> {"any", "in", "out"}], Stamped, FileInv'
  PROVE  IInv'
<1> USE DEF IInv
<1>1. op' = [op EXCEPT ![o] = Idle] /\ lock' = None
  BY DEF Return
<1>2. op' \in [Ops -> Request]
  BY <1>1, IdleOK DEF Types
<1>3. \A r \in Ops : op'[r] = Idle \/ op'[r] = op[r]
  BY <1>1 DEF Types
<1>4. \A r \in Ops : op'[r].pc \in Waiting
  BY <1>1, IdleOK, Exclusive DEF Types
<1>5. \A r \in Ops : op'[r].pc \notin Holding
  BY <1>4 DEF Waiting, Holding
<1>6. Types'
  BY <1>1, <1>2, <1>5, AgentFilesAssumption DEF Types, Stamped
<1>7. StepInv'
  BY <1>3, IdleOK DEF StepInv, StepOK
<1>8. StampInv'
  BY <1>2, <1>3, IdleOK, StampsKept
<1>9. \A r \in Ops : /\ CheckOK(op'[r], files')
                     /\ ListOK(op'[r], files', game', unit', promised')
  BY <1>2, <1>4, WaitingOK
<1>10. CheckInv'
  BY <1>9 DEF CheckInv, CheckOK
<1>11. ListInv'
  BY <1>9 DEF ListInv, ListOK, KeptBy
<1> QED BY <1>6, <1>7, <1>8, <1>10, <1>11

(* The holder goes on as v. *)
LEMMA GoesInv ==
  ASSUME IInv, NEW o \in Ops, op[o].pc \in Holding, NEW v \in Request,
         op' = [op EXCEPT ![o] = v], v.pc \in Holding,
         v.match = op[o].match, v.seen = op[o].seen,
         UNCHANGED <<driver, lock, opened>>, unit' \in {"running", "stopped"}, game' \in Lists,
         promised' \in [Names -> {"any", "in", "out"}], Stamped, FileInv',
         StepOK(v), CheckOK(v, files'), ListOK(v, files', game', unit', promised')
  PROVE  IInv'
<1> USE DEF IInv
<1>1. op' \in [Ops -> Request] /\ op'[o] = v /\ \A r \in Ops : r # o => op'[r] = op[r]
  BY DEF Types
<1>2. \A r \in Ops : r # o => op'[r].pc \in Waiting
  BY <1>1, Exclusive
<1>3. Types'
  BY <1>1 DEF Types, Stamped
<1>4. StepInv'
  BY <1>1 DEF StepInv, StepOK
<1>5. StampInv'
  BY <1>1, StampsKept
<1>6. \A r \in Ops : CheckOK(op'[r], files')
  BY <1>1, <1>2, WaitingOK
<1>7. \A r \in Ops : ListOK(op'[r], files', game', unit', promised')
  BY <1>1, <1>2, WaitingOK
<1>8. CheckInv'
  BY <1>6 DEF CheckInv, CheckOK
<1>9. ListInv'
  BY <1>7 DEF ListInv, ListOK, KeptBy
<1> QED BY <1>3, <1>4, <1>5, <1>8, <1>9

(* A request that arrives as v. *)
LEMMA AskInv ==
  ASSUME IInv, NEW o \in Ops, op[o].pc = "idle", NEW v \in Request, v.pc = "lock",
         op' = [op EXCEPT ![o] = v], StepOK(v),
         v.match = 0 \/ (v.match = opened.stamp /\ v.seen = opened.data),
         UNCHANGED <<driver, unit, game, files, clock, lock, opened, promised>>
  PROVE  IInv'
<1> USE DEF IInv
<1>1. op' \in [Ops -> Request] /\ op'[o] = v /\ \A r \in Ops : r # o => op'[r] = op[r]
  BY DEF Types
<1>2. v.pc \in Waiting /\ v.pc \notin Holding /\ op[o].pc \notin Holding
  BY DEF Waiting, Holding
<1>3. Types'
  BY <1>1, <1>2 DEF Types
<1>4. StepInv'
  BY <1>1 DEF StepInv, StepOK
<1>5. StampInv'
  <2>1. v.match <= clock /\ Knows(v.match, v.seen, files)
    BY DEF StampInv, Knows, Types
  <2> QED BY <1>1, <2>1 DEF StampInv, Knows
<1>6. \A r \in Ops : CheckOK(op'[r], files') /\ ListOK(op'[r], files', game', unit', promised')
  BY <1>1, <1>2, WaitingOK DEF CheckInv, ListInv
<1>7. CheckInv'
  BY <1>6 DEF CheckInv, CheckOK
<1>8. ListInv'
  BY <1>6 DEF ListInv, ListOK, KeptBy
<1>9. FileInv'
  BY DEF FileInv, KeptBy
<1> QED BY <1>3, <1>4, <1>5, <1>7, <1>8, <1>9

LEMMA AskWhitelistInv ==
  ASSUME IInv, NEW o \in Ops, AskWhitelist(o)
  PROVE  IInv'
<1>1. PICK kind \in {"list", "add", "remove"}, n \in Names, prev \in Names \cup {None} :
        /\ kind # "add" => prev = None
        /\ op' = [op EXCEPT ![o] = [Idle EXCEPT !.pc = "lock", !.kind = kind, !.name = n,
                                                !.prev = IF prev = n THEN None ELSE prev]]
  BY DEF AskWhitelist
<1> DEFINE v == [Idle EXCEPT !.pc = "lock", !.kind = kind, !.name = n,
                             !.prev = IF prev = n THEN None ELSE prev]
<1>2. /\ v \in Request /\ v.pc = "lock" /\ v.match = 0 /\ v.kind = kind /\ v.name = n
      /\ v.prev # v.name /\ (kind = "remove" => v.prev = None)
  BY <1>1, AgentFilesAssumption DEF Idle, Request, Waiting, Kinds, Paths, Data, Lists
<1>3. op' = [op EXCEPT ![o] = v]
  BY <1>1
<1> HIDE DEF v
<1>4. StepOK(v)
  BY <1>2 DEF StepOK, Lifted
<1> QED BY <1>2, <1>3, <1>4, AskInv DEF AskWhitelist

LEMMA AskFileInv ==
  ASSUME IInv, NEW o \in Ops, AskFile(o)
  PROVE  IInv'
<1>1. PICK kind \in {"write", "delete", "copy", "move", "start", "stop"}, p \in Paths, t \in Paths,
           data \in {Names, Junk} :
        /\ kind \in {"copy", "move"} <=> p # t
        /\ op' = [op EXCEPT ![o] = [Idle EXCEPT !.pc = "lock", !.kind = kind, !.path = p,
                                                !.target = t, !.data = data]]
  BY DEF AskFile
<1> DEFINE v == [Idle EXCEPT !.pc = "lock", !.kind = kind, !.path = p,
                             !.target = t, !.data = data]
<1>2. /\ v \in Request /\ v.pc = "lock" /\ v.match = 0 /\ v.kind = kind
      /\ v.path = p /\ v.target = t
  BY DEF Idle, Request, Waiting, Kinds, Paths, Data, Lists
<1>3. op' = [op EXCEPT ![o] = v]
  BY <1>1
<1> HIDE DEF v
<1>4. StepOK(v)
  BY <1>1, <1>2 DEF StepOK, Lifted
<1> QED BY <1>2, <1>3, <1>4, AskInv DEF AskFile

LEMMA AskSaveInv ==
  ASSUME IInv, NEW o \in Ops, AskSave(o)
  PROVE  IInv'
<1> DEFINE v == [Idle EXCEPT !.pc = "lock", !.kind = "write", !.path = opened.path,
                             !.match = opened.stamp, !.seen = opened.data, !.data = Names]
<1>1. op' = [op EXCEPT ![o] = v]
  BY DEF AskSave, fileETag
<1>2. /\ v \in Request /\ v.pc = "lock" /\ v.kind = "write"
      /\ v.match = opened.stamp /\ v.seen = opened.data
  BY DEF IInv, Types, Idle, Request, Waiting, Kinds, Paths, Data, Lists
<1> HIDE DEF v
<1>3. StepOK(v)
  BY <1>2 DEF StepOK, Lifted
<1> QED BY <1>1, <1>2, <1>3, AskInv DEF AskSave

LEMMA ReadInv ==
  ASSUME IInv, NEW p \in Paths, handleFileRead(p)
  PROVE  IInv'
<1> USE DEF IInv
<1>1. /\ opened' = [path |-> p, stamp |-> files[p].stamp, data |-> files[p].data]
      /\ UNCHANGED <<driver, unit, game, files, clock, lock, op, promised>>
  BY DEF handleFileRead
<1>2. files[p].stamp \in Nat /\ files[p].data \in {None} \cup Data
  BY NoFileOK DEF Types, Directory
<1>3. Types'
  BY <1>1, <1>2 DEF Types
<1>4. StepInv' /\ CheckInv'
  BY <1>1 DEF StepInv, StepOK, CheckInv, CheckOK
<1>5. StampInv'
  BY <1>1 DEF StampInv, Knows
<1>6. FileInv' /\ ListInv'
  BY <1>1 DEF FileInv, ListInv, ListOK, KeptBy
<1> QED BY <1>3, <1>4, <1>5, <1>6
-----------------------------------------------------------------------------
(* Promises may be taken back. *)
LEMMA FewerPromises ==
  ASSUME IInv, UNCHANGED <<driver, unit, game>>, files'["list"] = files["list"],
         \A n \in Names : promised'[n] \in {promised[n], "any"}
  PROVE  FileInv'
<1>1. "list" \in Paths
  BY DEF Paths
<1> QED BY <1>1 DEF IInv, FileInv, KeptBy, Kept

LEMMA ForgetTypes ==
  ASSUME IInv, NEW S, Forget(S)
  PROVE  /\ promised' \in [Names -> {"any", "in", "out"}]
         /\ \A n \in Names : promised'[n] = IF n \in S THEN "any" ELSE promised[n]
BY DEF IInv, Types, Forget

(* An edit by hand of the list ends every promise. *)
LEMMA ByHandInv ==
  ASSUME IInv, NEW T, ByHand(T), UNCHANGED <<driver, unit, game>>,
         "list" \in T \/ files'["list"] = files["list"]
  PROVE  promised' \in [Names -> {"any", "in", "out"}] /\ FileInv'
<1> DEFINE S == IF "list" \in T THEN Names ELSE {}
<1>1. Forget(S)
  BY DEF ByHand
<1>2. /\ promised' \in [Names -> {"any", "in", "out"}]
      /\ \A n \in Names : promised'[n] = IF n \in S THEN "any" ELSE promised[n]
  BY <1>1, ForgetTypes
<1>3. CASE "list" \in T
  BY <1>2, <1>3 DEF FileInv, KeptBy, Kept
<1>4. CASE "list" \notin T
  BY <1>2, <1>4, FewerPromises
<1> QED BY <1>2, <1>3, <1>4

LEMMA AcquireInv ==
  ASSUME IInv, NEW o \in Ops, Acquire(o)
  PROVE  IInv'
<1> USE DEF IInv
<1> DEFINE v == [op[o] EXCEPT !.pc = "begin"]
           S == IF op[o].kind \in {"add", "remove"} THEN {op[o].name, op[o].prev} ELSE {}
<1>1. /\ op[o].pc = "lock" /\ lock = None /\ lock' = o /\ op' = [op EXCEPT ![o] = v]
      /\ UNCHANGED <<driver, unit, game, files, clock, opened>> /\ Forget(S)
  BY DEF Acquire, Goes, Types
<1>2. /\ v \in Request /\ v.pc = "begin" /\ v.match = op[o].match /\ v.seen = op[o].seen
      /\ v.kind = op[o].kind /\ v.name = op[o].name /\ v.prev = op[o].prev
      /\ v.path = op[o].path /\ v.target = op[o].target
  BY DEF Types, Request, Holding
<1>3. /\ promised' \in [Names -> {"any", "in", "out"}]
      /\ \A n \in Names : promised'[n] = IF n \in S THEN "any" ELSE promised[n]
  BY <1>1, ForgetTypes
<1>4. v.kind \in {"add", "remove"} =>
        \A n \in Names : n \in {v.name, v.prev} => promised'[n] = "any"
  BY <1>2, <1>3
<1>5. \A n \in Names : promised'[n] \in {promised[n], "any"}
  BY <1>3
<1> HIDE DEF v, S
<1>6. op' \in [Ops -> Request] /\ op'[o] = v /\ \A r \in Ops : r # o => op'[r] = op[r]
  BY <1>1, <1>2 DEF Types
<1>7. \A r \in Ops : op[r].pc \in Waiting /\ op[r].pc \notin Holding
  BY <1>1, AgentFilesAssumption DEF Types, Request
<1>8. Types'
  BY <1>1, <1>2, <1>3, <1>6, <1>7 DEF Types, Holding
<1>9. StepInv'
  BY <1>1, <1>2, <1>6 DEF StepInv, StepOK
<1>10. StampInv'
  BY <1>1, <1>2, <1>6, SameFiles, StampsKept
<1>11. CheckOK(v, files') /\ ListOK(v, files', game', unit', promised')
  BY <1>2, <1>4 DEF CheckOK, ListOK
<1>12. \A r \in Ops : CheckOK(op'[r], files') /\ ListOK(op'[r], files', game', unit', promised')
  BY <1>6, <1>7, <1>11, WaitingOK
<1>13. CheckInv'
  BY <1>12 DEF CheckInv, CheckOK
<1>14. ListInv'
  BY <1>1, <1>12 DEF ListInv, ListOK, KeptBy
<1>15. FileInv'
  BY <1>1, <1>5, FewerPromises
<1> QED BY <1>8, <1>9, <1>10, <1>13, <1>14, <1>15
-----------------------------------------------------------------------------
(* A request that only goes on to another step, or leaves. *)
LEMMA LeaveInv ==
  ASSUME IInv, NEW o \in Ops, op[o].pc \in Holding, Return(o),
         UNCHANGED <<driver, unit, game, files, clock, opened, promised>>
  PROVE  IInv'
<1>1. FileInv' /\ Stamped
  BY FewerPromises, SameFiles DEF IInv
<1> QED BY <1>1, ReturnInv DEF IInv, Types

LEMMA WalkInv ==
  ASSUME IInv, NEW o \in Ops, op[o].pc \in Holding, NEW v \in Request,
         op' = [op EXCEPT ![o] = v], v.pc \in Holding,
         v.match = op[o].match, v.seen = op[o].seen,
         UNCHANGED <<driver, lock, unit, game, files, clock, opened, promised>>,
         StepOK(v), CheckOK(v, files), ListOK(v, files, game, unit, promised)
  PROVE  IInv'
<1>1. FileInv' /\ Stamped
  BY FewerPromises, SameFiles DEF IInv
<1> QED BY <1>1, GoesInv DEF IInv, Types

(* What is known of the holder. *)
LEMMA Holder ==
  ASSUME IInv, NEW o \in Ops
  PROVE  /\ op[o] \in Request /\ StepOK(op[o]) /\ CheckOK(op[o], files)
         /\ ListOK(op[o], files, game, unit, promised)
         /\ op[o].match <= clock /\ Knows(op[o].match, op[o].seen, files)
BY DEF IInv, Types, StepInv, CheckInv, ListInv, StampInv

(* The row of a request that has gone to the step l. *)
LEMMA Gone ==
  ASSUME NEW q \in Request, NEW l \in Waiting \cup Holding
  PROVE  LET v == [q EXCEPT !.pc = l] IN
         /\ v \in Request /\ v.pc = l /\ v.kind = q.kind /\ v.path = q.path
         /\ v.target = q.target /\ v.name = q.name /\ v.prev = q.prev /\ v.match = q.match
         /\ v.seen = q.seen /\ v.data = q.data /\ v.running = q.running /\ v.upset = q.upset
BY DEF Request

LEMMA FailInv ==
  ASSUME IInv, NEW o \in Ops, Fail(o)
  PROVE  IInv'
BY LeaveInv DEF Fail, Holding

LEMMA WhitelistInv ==
  ASSUME IInv, NEW o \in Ops, whitelistOperation(o)
  PROVE  IInv'
<1>1. /\ op[o].pc = "begin" /\ op[o].kind \in Lifted /\ op[o].pc \in Holding
      /\ UNCHANGED <<driver, unit, game, files, clock, opened, promised>>
  BY DEF whitelistOperation, Holding, Lifted
<1>2. /\ op[o] \in Request /\ StepOK(op[o]) /\ ListOK(op[o], files, game, unit, promised)
      /\ op = [r \in Ops |-> op[r]]
  BY Holder DEF IInv, Types
<1>3. CASE Commands(driver) /\ Running /\ Goes(o, "online") /\ UNCHANGED lock
  <2> DEFINE v == [op[o] EXCEPT !.pc = "online"]
  <2>1. op' = [op EXCEPT ![o] = v]
    BY <1>2, <1>3 DEF Goes
  <2>2. /\ v \in Request /\ v.pc = "online" /\ v.kind = op[o].kind /\ v.path = op[o].path
        /\ v.target = op[o].target /\ v.name = op[o].name /\ v.prev = op[o].prev
        /\ v.match = op[o].match /\ v.seen = op[o].seen
    BY <1>2, Gone DEF Holding
  <2> HIDE DEF v
  <2>3. StepOK(v) /\ CheckOK(v, files) /\ v.pc \in Holding
    BY <1>1, <1>2, <1>3, <2>2 DEF StepOK, CheckOK, Holding
  <2>4. ListOK(v, files, game, unit, promised)
    BY <1>1, <1>2, <2>2, <2>3 DEF ListOK
  <2> QED BY <1>1, <1>3, <2>1, <2>2, <2>3, <2>4, WalkInv
<1>4. CASE /\ ~(Commands(driver) /\ Running) /\ UNCHANGED lock
           /\ op' = [op EXCEPT ![o].pc = "read", ![o].running = Running]
  <2> DEFINE v == [op[o] EXCEPT !.pc = "read", !.running = Running]
  <2>1. op' = [op EXCEPT ![o] = v]
    BY <1>2, <1>4
  <2>2. Running \in BOOLEAN
    BY Zenon DEF Running
  <2>3. /\ v \in Request /\ v.pc = "read" /\ v.kind = op[o].kind /\ v.path = op[o].path
        /\ v.target = op[o].target /\ v.name = op[o].name /\ v.prev = op[o].prev
        /\ v.match = op[o].match /\ v.seen = op[o].seen /\ v.running = Running
    BY <1>2, <2>2 DEF Request, Holding
  <2> HIDE DEF v
  <2>4. StepOK(v) /\ CheckOK(v, files) /\ v.pc \in Holding
    BY <1>1, <1>2, <1>4, <2>3 DEF StepOK, CheckOK, Holding
  <2>5. ListOK(v, files, game, unit, promised)
    BY <1>1, <1>2, <1>4, <2>3, <2>4 DEF ListOK, Running
  <2> QED BY <1>1, <1>4, <2>1, <2>3, <2>4, <2>5, WalkInv
<1>5. CASE Return(o)
  BY <1>1, <1>5, LeaveInv
<1> QED BY <1>3, <1>4, <1>5 DEF whitelistOperation

(* The game carries a command out: the file has its list, and what was     *)
(* promised about any other name stays kept.                               *)
LEMMA ConsoleKept ==
  ASSUME IInv, Commands(driver), Running, NEW kind \in Lifted, NEW n \in Names,
         Console(kind, n), UNCHANGED <<driver, unit>>
  PROVE  /\ game' \in Lists /\ Stamped
         /\ \A p \in Paths : files[p] # NoFile => files'[p] # NoFile
         /\ \A m \in Names, p \in {"any", "in", "out"} :
              (kind = "list" \/ m # n) /\ KeptBy(p, m, files, game, unit)
                => KeptBy(p, m, files', game', unit')
         /\ kind = "add" => KeptBy("in", n, files', game', unit')
         /\ kind = "remove" => KeptBy("out", n, files', game', unit')
<1>1. CASE kind = "list"
  <2>1. UNCHANGED <<files, clock, game>>
    BY <1>1 DEF Console
  <2>2. Stamped
    BY <2>1, SameFiles DEF IInv
  <2> QED BY <1>1, <2>1, <2>2 DEF KeptBy, IInv, Types
<1>2. CASE kind \in {"add", "remove"}
  <2>1. /\ game' = IF kind = "add" THEN game \cup {n} ELSE game \ {n}
        /\ Write("list", game') /\ game' \in Lists /\ game' \in Data /\ "list" \in Paths
    BY <1>2 DEF Console, IInv, Types, Lists, Data, Paths
  <2>2. /\ Stamped /\ files'["list"].data = game' /\ files'["list"] # NoFile
        /\ \A r \in Paths : r # "list" => files'[r] = files[r]
    BY <2>1, WrittenFile DEF IInv
  <2>3. Decode(files'["list"]) = game'
    BY <2>1, <2>2, DecodeList
  <2>4. \A m \in Names, p \in {"any", "in", "out"} :
          m # n /\ KeptBy(p, m, files, game, unit) => KeptBy(p, m, files', game', unit')
    BY <2>1, <2>3 DEF KeptBy, Kept, Running
  <2>5. /\ kind = "add" => KeptBy("in", n, files', game', unit')
        /\ kind = "remove" => KeptBy("out", n, files', game', unit')
    BY <2>1, <2>3 DEF KeptBy, Kept
  <2> QED BY <1>2, <2>1, <2>2, <2>4, <2>5
<1> QED BY <1>1, <1>2 DEF Lifted

LEMMA CommandKept ==
  ASSUME IInv, Commands(driver), NEW kind \in Lifted, NEW n \in Names,
         NEW result \in {"error", "success", "silence"}, executeCommand(kind, n, result),
         UNCHANGED <<driver, unit>>
  PROVE  /\ game' \in Lists /\ Stamped
         /\ \A m \in Names, p \in {"any", "in", "out"} :
              (kind = "list" \/ m # n) /\ KeptBy(p, m, files, game, unit)
                => KeptBy(p, m, files', game', unit')
         /\ result = "success" /\ kind = "add" => KeptBy("in", n, files', game', unit')
         /\ result = "success" /\ kind = "remove" => KeptBy("out", n, files', game', unit')
<1>1. CASE Running /\ Console(kind, n)
  BY <1>1, ConsoleKept
<1>2. CASE result # "success" /\ UNCHANGED <<game, files, clock>>
  <2>1. Stamped
    BY <1>2, SameFiles DEF IInv
  <2> QED BY <1>2, <2>1 DEF KeptBy, IInv, Types
<1> QED BY <1>1, <1>2 DEF executeCommand

LEMMA PromiseTypes ==
  ASSUME IInv, NEW o \in Ops, NEW sure, Promise(o, sure)
  PROVE  /\ promised' \in [Names -> {"any", "in", "out"}]
         /\ \A n \in Names :
              promised'[n] = IF \/ op[o].kind \notin {"add", "remove"}
                                \/ n \notin {op[o].name, op[o].prev}
                             THEN promised[n]
                             ELSE IF op[o].upset \/ ~sure THEN "any"
                             ELSE IF op[o].kind = "add" /\ n = op[o].name THEN "in" ELSE "out"
BY DEF IInv, Types, Promise

LEMMA OnlineInv ==
  ASSUME IInv, NEW o \in Ops, onlineWhitelistOperation(o)
  PROVE  IInv'
<1> DEFINE q == op[o]
           more == q.pc = "online" /\ q.kind = "add" /\ q.prev # None
           k == IF q.pc = "online" THEN q.kind ELSE "remove"
           n == IF q.pc = "online" THEN q.name ELSE q.prev
<1>1. PICK result \in {"error", "success", "silence"} :
        /\ executeCommand(k, n, result)
        /\ \/ result = "error" /\ Return(o) /\ UNCHANGED promised
           \/ /\ result # "error" /\ more
              /\ op' = [op EXCEPT ![o].pc = "second", ![o].upset = @ \/ result = "silence"]
              /\ UNCHANGED <<lock, promised>>
           \/ result # "error" /\ ~more /\ Promise(o, result = "success") /\ Return(o)
  BY DEF onlineWhitelistOperation
<1>2. /\ q.pc \in {"online", "second"} /\ q.pc \in Holding
      /\ UNCHANGED <<driver, unit, opened>>
  BY DEF onlineWhitelistOperation, Holding
<1>3. /\ q \in Request /\ StepOK(q) /\ ListOK(q, files, game, unit, promised)
      /\ op = [r \in Ops |-> op[r]]
  BY Holder DEF IInv, Types
<1>4. /\ Commands(driver) /\ q.kind \in Lifted /\ q.name \in Names /\ k \in Lifted /\ n \in Names
      /\ q.pc = "second" => q.kind = "add" /\ q.prev # q.name
      /\ q.kind = "remove" => q.prev = None
  BY <1>2, <1>3 DEF StepOK, Lifted, Request
<1>5. /\ game' \in Lists /\ Stamped
      /\ \A m \in Names, p \in {"any", "in", "out"} :
           (k = "list" \/ m # n) /\ KeptBy(p, m, files, game, unit)
             => KeptBy(p, m, files', game', unit')
      /\ result = "success" /\ k = "add" => KeptBy("in", n, files', game', unit')
      /\ result = "success" /\ k = "remove" => KeptBy("out", n, files', game', unit')
  BY <1>1, <1>2, <1>4, CommandKept
<1>6. q.kind \in {"add", "remove"} => \A m \in Names : m \in {q.name, q.prev} => promised[m] = "any"
  BY <1>2, <1>3 DEF ListOK
<1>7. ASSUME NEW m \in Names
      PROVE  KeptBy(promised[m], m, files', game', unit')
  <2>1. KeptBy(promised[m], m, files, game, unit) /\ promised[m] \in {"any", "in", "out"}
    BY DEF IInv, FileInv, Types
  <2>2. CASE promised[m] = "any"
    BY <2>2 DEF KeptBy, Kept
  <2>3. CASE promised[m] # "any"
    <3>1. k = "list" \/ m # n
      BY <1>2, <1>4, <1>6, <2>3 DEF Lifted
    <3> QED BY <2>1, <3>1, <1>5
  <2> QED BY <2>2, <2>3
<1>8. unit' \in {"running", "stopped"} /\ promised \in [Names -> {"any", "in", "out"}]
  BY <1>2 DEF IInv, Types
<1>9. CASE Return(o) /\ UNCHANGED promised
  <2>1. FileInv'
    BY <1>2, <1>7, <1>9 DEF FileInv, KeptBy
  <2> QED BY <1>2, <1>5, <1>8, <1>9, <2>1, ReturnInv
<1>10. CASE /\ result # "error" /\ more
            /\ op' = [op EXCEPT ![o].pc = "second", ![o].upset = @ \/ result = "silence"]
            /\ UNCHANGED <<lock, promised>>
  <2>1. PICK b \in BOOLEAN : b = (q.upset \/ result = "silence")
    BY Zenon
  <2> DEFINE v == [q EXCEPT !.pc = "second", !.upset = b]
  <2>2. op' = [op EXCEPT ![o] = v]
    BY <1>3, <1>10, <2>1
  <2>3. /\ v \in Request /\ v.pc = "second" /\ v.kind = q.kind /\ v.path = q.path
        /\ v.target = q.target /\ v.name = q.name /\ v.prev = q.prev
        /\ v.match = q.match /\ v.seen = q.seen /\ v.upset = b
    BY <1>3 DEF Request, Holding
  <2>4. result # "silence" => result = "success"
    BY <1>10
  <2> HIDE DEF v
  <2>5. StepOK(v) /\ CheckOK(v, files') /\ v.pc \in Holding
    BY <1>3, <1>4, <1>10, <2>3 DEF StepOK, CheckOK, Holding, Lifted
  <2>6. ~b => KeptBy("in", q.name, files', game', unit')
    BY <1>5, <1>10, <2>1, <2>4
  <2>7. ListOK(v, files', game', unit', promised')
    BY <1>6, <1>10, <2>3, <2>6 DEF ListOK
  <2>8. FileInv'
    BY <1>2, <1>7, <1>10 DEF FileInv, KeptBy
  <2> QED BY <1>2, <1>5, <1>8, <1>10, <2>2, <2>3, <2>5, <2>7, <2>8, GoesInv
<1>11. CASE result # "error" /\ ~more /\ Promise(o, result = "success") /\ Return(o)
  <2>1. /\ promised' \in [Names -> {"any", "in", "out"}]
        /\ \A m \in Names :
             promised'[m] = IF q.kind \notin {"add", "remove"} \/ m \notin {q.name, q.prev}
                            THEN promised[m]
                            ELSE IF q.upset \/ ~(result = "success") THEN "any"
                            ELSE IF q.kind = "add" /\ m = q.name THEN "in" ELSE "out"
    BY <1>11, PromiseTypes
  <2>2. ASSUME NEW m \in Names
        PROVE  KeptBy(promised'[m], m, files', game', unit')
    <3>1. CASE promised'[m] = promised[m]
      BY <3>1, <1>7
    <3>2. CASE promised'[m] = "any"
      BY <3>2 DEF KeptBy, Kept
    <3>3. CASE promised'[m] # promised[m] /\ promised'[m] # "any"
      <4>1. /\ q.kind \in {"add", "remove"} /\ m \in {q.name, q.prev}
            /\ ~q.upset /\ result = "success"
            /\ promised'[m] = IF q.kind = "add" /\ m = q.name THEN "in" ELSE "out"
        BY <3>3, <2>1
      <4>2. CASE q.pc = "online"
        <5>1. m = q.name /\ n = q.name /\ k = q.kind
          BY <4>1, <4>2, <1>4, <1>11, AgentFilesAssumption
        <5> QED BY <4>1, <5>1, <1>5
      <4>3. CASE q.pc = "second"
        <5>1. KeptBy("in", q.name, files, game, unit)
          BY <1>3, <4>1, <4>3 DEF ListOK
        <5>2. KeptBy("in", q.name, files', game', unit')
          BY <1>4, <1>5, <4>3, <5>1
        <5>3. KeptBy("out", q.prev, files', game', unit')
          BY <1>5, <4>1, <4>3
        <5> QED BY <1>4, <4>1, <4>3, <5>2, <5>3
      <4> QED BY <1>2, <4>2, <4>3
    <3> QED BY <3>1, <3>2, <3>3
  <2>3. FileInv'
    BY <1>2, <2>2 DEF FileInv, KeptBy
  <2> QED BY <1>2, <1>5, <1>8, <1>11, <2>1, <2>3, ReturnInv
<1> QED BY <1>1, <1>9, <1>10, <1>11

(* The edited list has the request's names as they are to be and every     *)
(* other as it was.                                                        *)
LEMMA EditedKept ==
  ASSUME NEW q \in Request, StepOK(q), q.kind \in {"add", "remove"}, NEW l \in Lists
  PROVE  /\ Edited(q, l) \in Lists
         /\ \A n \in Names :
              IF n \notin {q.name, q.prev} THEN n \in Edited(q, l) <=> n \in l
              ELSE n \in Edited(q, l) <=> q.kind = "add" /\ n = q.name
<1>1. CASE q.kind = "add"
  BY <1>1 DEF Edited, StepOK, Lists, Lifted
<1>2. CASE q.kind = "remove"
  <2>1. q.prev = None
    BY <1>2 DEF StepOK
  <2> QED BY <1>2, <2>1, AgentFilesAssumption DEF Edited, Lists
<1> QED BY <1>1, <1>2

LEMMA ReadListInv ==
  ASSUME IInv, NEW o \in Ops, readFileWhitelist(o)
  PROVE  IInv'
<1> DEFINE q == op[o]
           list == Decode(files["list"])
<1>1. /\ q.pc = "read" /\ q.pc \in Holding
      /\ UNCHANGED <<driver, unit, game, files, clock, opened>>
  BY DEF readFileWhitelist, Holding
<1>2. /\ q \in Request /\ StepOK(q) /\ ListOK(q, files, game, unit, promised)
      /\ op = [r \in Ops |-> op[r]]
  BY Holder DEF IInv, Types
<1>3. /\ q.kind \in Lifted /\ ~(Commands(driver) /\ q.running)
      /\ ~q.upset /\ Commands(driver) /\ unit = "running" => game = list
  BY <1>1, <1>2 DEF StepOK, ListOK
<1>4. list \in Lists
  BY Decodable DEF IInv, Types, Paths
<1>5. /\ Stamped /\ unit' \in {"running", "stopped"} /\ game' \in Lists
      /\ promised \in [Names -> {"any", "in", "out"}]
      /\ \A m \in Names : KeptBy(promised[m], m, files, game, unit)
  BY <1>1, SameFiles DEF IInv, Types, FileInv
<1> HIDE DEF list
<1>6. CASE Return(o) /\ UNCHANGED promised
  BY <1>1, <1>6, LeaveInv
<1>7. CASE (q.kind = "list" \/ Edited(q, list) = list) /\ Promise(o, TRUE) /\ Return(o)
  <2>1. /\ promised' \in [Names -> {"any", "in", "out"}]
        /\ \A m \in Names :
             promised'[m] = IF q.kind \notin {"add", "remove"} \/ m \notin {q.name, q.prev}
                            THEN promised[m]
                            ELSE IF q.upset THEN "any"
                            ELSE IF q.kind = "add" /\ m = q.name THEN "in" ELSE "out"
    BY <1>7, PromiseTypes
  <2>2. ASSUME NEW m \in Names
        PROVE  KeptBy(promised'[m], m, files, game, unit)
    <3>1. CASE promised'[m] = promised[m]
      BY <3>1, <1>5
    <3>2. CASE promised'[m] = "any"
      BY <3>2 DEF KeptBy, Kept
    <3>3. CASE promised'[m] # promised[m] /\ promised'[m] # "any"
      <4>1. /\ q.kind \in {"add", "remove"} /\ m \in {q.name, q.prev} /\ ~q.upset
            /\ promised'[m] = IF q.kind = "add" /\ m = q.name THEN "in" ELSE "out"
        BY <3>3, <2>1
      <4>2. m \in list <=> q.kind = "add" /\ m = q.name
        BY <1>2, <1>4, <1>7, <4>1, EditedKept
      <4> QED BY <1>3, <4>1, <4>2 DEF KeptBy, Kept, list
    <3> QED BY <3>1, <3>2, <3>3
  <2>3. FileInv'
    BY <1>1, <2>2 DEF FileInv, KeptBy
  <2> QED BY <1>1, <1>5, <1>7, <2>1, <2>3, ReturnInv
<1>8. CASE /\ q.kind # "list" /\ UNCHANGED <<lock, promised>>
           /\ op' = [op EXCEPT ![o].pc = "recheck", ![o].data = Edited(q, list)]
  <2>1. PICK d : d = Edited(q, list)
    OBVIOUS
  <2>2. /\ q.kind \in {"add", "remove"} /\ d \in Lists /\ d \in Data
        /\ \A n \in Names : IF n \notin {q.name, q.prev} THEN n \in d <=> n \in list
                            ELSE n \in d <=> q.kind = "add" /\ n = q.name
    <3>1. q.kind \in {"add", "remove"}
      BY <1>3, <1>8 DEF Lifted
    <3> QED BY <3>1, <1>2, <1>4, <2>1, EditedKept DEF Data
  <2> DEFINE v == [q EXCEPT !.pc = "recheck", !.data = d]
  <2>3. op' = [op EXCEPT ![o] = v]
    BY <1>2, <1>8, <2>1
  <2>4. /\ v \in Request /\ v.pc = "recheck" /\ v.kind = q.kind /\ v.path = q.path
        /\ v.target = q.target /\ v.name = q.name /\ v.prev = q.prev /\ v.data = d
        /\ v.match = q.match /\ v.seen = q.seen /\ v.running = q.running
    BY <1>2, <2>2 DEF Request, Holding
  <2> HIDE DEF v
  <2>5. StepOK(v) /\ CheckOK(v, files) /\ v.pc \in Holding
    BY <1>2, <1>3, <2>2, <2>4 DEF StepOK, CheckOK, Holding
  <2>6. \A n \in Names : Kept(promised[n], n, list)
    BY <1>5 DEF KeptBy, list
  <2>7. \A n \in Names : Kept(IF n \notin {q.name, q.prev} THEN promised[n]
                              ELSE IF q.kind = "add" /\ n = q.name THEN "in" ELSE "out", n, d)
    BY <2>2, <2>6 DEF Kept
  <2>8. \A n \in Names : n \in {q.name, q.prev} => promised[n] = "any"
    BY <1>1, <1>2, <2>2 DEF ListOK
  <2>9. ListOK(v, files, game, unit, promised)
    BY <2>2, <2>4, <2>7, <2>8 DEF ListOK
  <2> QED BY <1>1, <1>8, <2>3, <2>4, <2>5, <2>9, WalkInv
<1> QED BY <1>6, <1>7, <1>8 DEF readFileWhitelist, list

LEMMA RecheckInv ==
  ASSUME IInv, NEW o \in Ops, Recheck(o)
  PROVE  IInv'
<1> DEFINE q == op[o]
<1>1. /\ q.pc = "recheck" /\ q.pc \in Holding
      /\ UNCHANGED <<driver, unit, game, files, clock, opened, promised>>
  BY DEF Recheck, Holding
<1>2. /\ q \in Request /\ StepOK(q) /\ ListOK(q, files, game, unit, promised)
      /\ op = [r \in Ops |-> op[r]]
  BY Holder DEF IInv, Types
<1>3. CASE Return(o)
  BY <1>1, <1>3, LeaveInv
<1>4. CASE Running = q.running /\ Goes(o, "write") /\ UNCHANGED lock
  <2> DEFINE v == [q EXCEPT !.pc = "write"]
  <2>1. op' = [op EXCEPT ![o] = v]
    BY <1>2, <1>4 DEF Goes
  <2>2. /\ v \in Request /\ v.pc = "write" /\ v.kind = q.kind /\ v.path = q.path
        /\ v.target = q.target /\ v.name = q.name /\ v.prev = q.prev /\ v.data = q.data
        /\ v.match = q.match /\ v.seen = q.seen /\ v.running = q.running
    BY <1>2, Gone DEF Holding
  <2> HIDE DEF v
  <2>3. StepOK(v) /\ CheckOK(v, files) /\ v.pc \in Holding
    BY <1>1, <1>2, <2>2 DEF StepOK, CheckOK, Holding
  <2>4. ~(Commands(driver) /\ unit = "running")
    BY <1>1, <1>2, <1>4 DEF StepOK, Running
  <2>5. ListOK(v, files, game, unit, promised)
    BY <1>1, <1>2, <2>2, <2>4 DEF ListOK
  <2> QED BY <1>1, <1>4, <2>1, <2>2, <2>3, <2>5, WalkInv
<1> QED BY <1>3, <1>4 DEF Recheck

LEMMA WriteListInv ==
  ASSUME IInv, NEW o \in Ops, writeFileWhitelist(o)
  PROVE  IInv'
<1> DEFINE q == op[o]
<1>1. /\ q.pc = "write" /\ q.pc \in Holding /\ Write("list", q.data)
      /\ Promise(o, TRUE) /\ Return(o) /\ UNCHANGED <<driver, unit, game, opened>>
  BY DEF writeFileWhitelist, Holding
<1>2. q \in Request /\ StepOK(q) /\ ListOK(q, files, game, unit, promised)
  BY Holder
<1>3. /\ q.data \in Lists /\ q.data \in Data /\ q.kind \in {"add", "remove"}
      /\ ~q.upset => ~(Commands(driver) /\ unit = "running")
      /\ \A n \in Names :
           Kept(IF n \notin {q.name, q.prev} THEN promised[n]
                ELSE IF q.kind = "add" /\ n = q.name THEN "in" ELSE "out", n, q.data)
  BY <1>1, <1>2 DEF StepOK, ListOK, Data
<1>4. Stamped /\ Decode(files'["list"]) = q.data
  <2>1. "list" \in Paths
    BY DEF Paths
  <2>2. Stamped /\ files'["list"].data = q.data
    BY <1>1, <1>3, <2>1, WrittenFile DEF IInv
  <2> QED BY <1>3, <2>2, DecodeList
<1>5. /\ promised' \in [Names -> {"any", "in", "out"}]
      /\ \A m \in Names :
           promised'[m] = IF m \notin {q.name, q.prev} THEN promised[m]
                          ELSE IF q.upset THEN "any"
                          ELSE IF q.kind = "add" /\ m = q.name THEN "in" ELSE "out"
  BY <1>1, <1>3, PromiseTypes
<1>6. ASSUME NEW m \in Names
      PROVE  KeptBy(promised'[m], m, files', game', unit')
  <2>1. Kept(promised'[m], m, q.data)
    BY <1>3, <1>5 DEF Kept
  <2>2. Commands(driver) /\ unit = "running" => Kept(promised'[m], m, game)
    <3>1. Commands(driver) /\ unit = "running" => Kept(promised[m], m, game)
      BY DEF IInv, FileInv, KeptBy
    <3> QED BY <1>3, <1>5, <3>1 DEF Kept
  <2> QED BY <1>1, <1>4, <2>1, <2>2 DEF KeptBy
<1>7. FileInv'
  BY <1>1, <1>6 DEF FileInv, KeptBy
<1> QED BY <1>1, <1>4, <1>5, <1>7, ReturnInv DEF IInv, Types
-----------------------------------------------------------------------------
(* A file request that has checked and goes on to the step l. *)
LEMMA CheckedInv ==
  ASSUME IInv, NEW o \in Ops, op[o].pc = "begin", NEW l \in {"replace", "rename", "create"},
         Goes(o, l), UNCHANGED <<driver, unit, game, files, clock, lock, opened, promised>>,
         l = "replace" => op[o].kind = "write",
         l = "replace" /\ op[o].match # 0 => files[op[o].path].stamp = op[o].match,
         l # "replace" => op[o].kind \in {"copy", "move"} /\ files[op[o].path] # NoFile,
         l = "rename" => files[op[o].target] = NoFile
  PROVE  IInv'
<1> DEFINE q == op[o]
           v == [q EXCEPT !.pc = l]
<1>1. /\ q \in Request /\ StepOK(q) /\ l \in Waiting \cup Holding
      /\ op = [r \in Ops |-> op[r]] /\ op' = [op EXCEPT ![o].pc = l]
  BY Holder DEF IInv, Types, Holding, Goes
<1>2. op' = [op EXCEPT ![o] = v]
  BY <1>1
<1>3. /\ v \in Request /\ v.pc = l /\ v.kind = q.kind /\ v.path = q.path
      /\ v.target = q.target /\ v.name = q.name /\ v.prev = q.prev
      /\ v.match = q.match /\ v.seen = q.seen
  BY <1>1, Gone
<1> HIDE DEF v
<1>4. StepOK(v) /\ CheckOK(v, files) /\ v.pc \in Holding
  BY <1>1, <1>3 DEF StepOK, CheckOK, Holding
<1>5. ListOK(v, files, game, unit, promised)
  BY <1>3 DEF ListOK
<1>6. q.pc \in Holding
  BY DEF Holding
<1> QED BY <1>2, <1>3, <1>4, <1>5, <1>6, WalkInv

LEMMA CheckSaveInv ==
  ASSUME IInv, NEW o \in Ops, handleFileWrite(o)
  PROVE  IInv'
<1>1. /\ op[o].pc = "begin" /\ op[o].kind = "write" /\ op[o].pc \in Holding
      /\ UNCHANGED <<driver, unit, game, files, clock, opened, promised>>
  BY DEF handleFileWrite, Holding
<1>2. CASE Return(o)
  BY <1>1, <1>2, LeaveInv
<1>3. CASE /\ ~(op[o].match # 0 /\ (\/ files[op[o].path] = NoFile
                                    \/ fileETag(files[op[o].path]) # op[o].match))
           /\ Goes(o, "replace") /\ UNCHANGED lock
  BY <1>1, <1>3, CheckedInv DEF fileETag
<1> QED BY <1>2, <1>3 DEF handleFileWrite

LEMMA CheckMoveInv ==
  ASSUME IInv, NEW o \in Ops, fileOperation(o)
  PROVE  IInv'
<1>1. /\ op[o].pc = "begin" /\ op[o].kind \in {"copy", "move"} /\ op[o].pc \in Holding
      /\ UNCHANGED <<driver, unit, game, files, clock, opened, promised>>
  BY DEF fileOperation, Holding
<1>2. CASE Return(o)
  BY <1>1, <1>2, LeaveInv
<1>3. CASE /\ ~(files[op[o].path] = NoFile \/ files[op[o].target] # NoFile)
           /\ Goes(o, IF op[o].kind = "copy" THEN "create" ELSE "rename") /\ UNCHANGED lock
  BY <1>1, <1>3, CheckedInv
<1> QED BY <1>2, <1>3 DEF fileOperation

(* The holder has changed files by hand and returns. *)
LEMMA HandInv ==
  ASSUME IInv, NEW o \in Ops, op[o].pc \in Holding, Return(o), Stamped,
         NEW T, ByHand(T), "list" \in T \/ files'["list"] = files["list"],
         UNCHANGED <<driver, unit, game, opened>>
  PROVE  IInv'
<1>1. promised' \in [Names -> {"any", "in", "out"}] /\ FileInv'
  BY ByHandInv
<1> QED BY <1>1, ReturnInv DEF IInv, Types

LEMMA ReplaceInv ==
  ASSUME IInv, NEW o \in Ops, Replace(o)
  PROVE  IInv'
<1>1. /\ op[o].pc \in Holding /\ Write(op[o].path, op[o].data) /\ ByHand({op[o].path})
      /\ Return(o) /\ UNCHANGED <<driver, unit, game, opened>>
  BY DEF Replace, Holding
<1>2. op[o].path \in Paths /\ op[o].data \in Data /\ "list" \in Paths
  BY Holder DEF Request, Paths
<1>3. Stamped /\ \A r \in Paths : r # op[o].path => files'[r] = files[r]
  BY <1>1, <1>2, WrittenFile DEF IInv
<1>4. "list" \in {op[o].path} \/ files'["list"] = files["list"]
  BY <1>2, <1>3
<1> QED BY <1>1, <1>3, <1>4, HandInv

LEMMA DeleteInv ==
  ASSUME IInv, NEW o \in Ops, fileDelete(o)
  PROVE  IInv'
<1> DEFINE p == op[o].path
           T == {p} \ {r \in Paths : files[r] = NoFile}
<1>1. /\ op[o].pc \in Holding /\ files' = [files EXCEPT ![p] = NoFile] /\ ByHand(T)
      /\ Return(o) /\ UNCHANGED <<driver, unit, game, clock, opened>>
  BY DEF fileDelete, Holding
<1>2. p \in Paths /\ "list" \in Paths
  BY Holder DEF Request, Paths
<1>3. Stamped
  BY <1>1, <1>2, RemovedFile DEF IInv
<1>4. "list" \in T \/ files'["list"] = files["list"]
  BY <1>1, <1>2 DEF IInv, Types, Directory
<1> QED BY <1>1, <1>3, <1>4, HandInv

LEMMA RenameInv ==
  ASSUME IInv, NEW o \in Ops, Rename(o)
  PROVE  IInv'
<1> DEFINE q == op[o]
<1>1. /\ op[o].pc \in Holding /\ ByHand(Paths) /\ Return(o)
      /\ files' = [files EXCEPT ![q.target] = files[q.path], ![q.path] = NoFile]
      /\ UNCHANGED <<driver, unit, game, clock, opened>>
  BY DEF Rename, Holding
<1>2. q.path \in Paths /\ q.target \in Paths /\ "list" \in Paths
  BY Holder DEF Request, Paths
<1>3. files' \in Directory
  BY <1>1, <1>2 DEF IInv, Types, Directory
<1>4. \A p \in Paths : files'[p] = NoFile \/ \E r \in Paths : files'[p] = files[r]
  BY <1>1, <1>2 DEF IInv, Types, Directory
<1>5. Stamped
  BY <1>1, <1>3, <1>4, MovedFiles DEF IInv
<1> QED BY <1>1, <1>2, <1>5, HandInv

LEMMA CreateInv ==
  ASSUME IInv, NEW o \in Ops, Create(o)
  PROVE  IInv'
<1> DEFINE q == op[o]
<1>1. /\ q.pc = "create" /\ q.pc \in Holding /\ UNCHANGED <<driver, unit, game, opened>>
  BY DEF Create, Holding
<1>2. CASE Return(o) /\ UNCHANGED <<files, clock, promised>>
  BY <1>1, <1>2, LeaveInv
<1>3. CASE /\ Write(q.target, Cut) /\ ByHand({q.target}) /\ UNCHANGED lock
           /\ op' = [op EXCEPT ![o].pc = "copying", ![o].data = files[q.path].data]
  <2>1. /\ q \in Request /\ StepOK(q) /\ CheckOK(q, files)
        /\ op = [r \in Ops |-> op[r]] /\ "list" \in Paths /\ Cut \in Data
    BY Holder DEF IInv, Types, Paths, Data
  <2>2. PICK d \in Data : d = files[q.path].data
    BY <1>1, <2>1, NoFileOK DEF CheckOK, IInv, Types, Directory, Request
  <2> DEFINE v == [q EXCEPT !.pc = "copying", !.data = d]
  <2>3. op' = [op EXCEPT ![o] = v]
    BY <1>3, <2>1, <2>2
  <2>4. /\ v \in Request /\ v.pc = "copying" /\ v.kind = q.kind /\ v.path = q.path
        /\ v.target = q.target /\ v.name = q.name /\ v.prev = q.prev
        /\ v.match = q.match /\ v.seen = q.seen
    BY <2>1 DEF Request, Holding
  <2> HIDE DEF v
  <2>5. StepOK(v) /\ CheckOK(v, files') /\ v.pc \in Holding
    BY <1>1, <2>1, <2>4 DEF StepOK, CheckOK, Holding
  <2>6. ListOK(v, files', game', unit', promised')
    BY <1>1, <2>1, <2>4 DEF ListOK, StepOK
  <2>7. Stamped /\ \A r \in Paths : r # q.target => files'[r] = files[r]
    BY <1>3, <2>1, WrittenFile DEF IInv, Request
  <2>8. promised' \in [Names -> {"any", "in", "out"}] /\ FileInv'
    BY <1>1, <1>3, <2>1, <2>7, ByHandInv
  <2> QED BY <1>1, <1>3, <2>3, <2>4, <2>5, <2>6, <2>7, <2>8, GoesInv DEF IInv, Types
<1> QED BY <1>2, <1>3 DEF Create

LEMMA CopiedInv ==
  ASSUME IInv, NEW o \in Ops, Copied(o)
  PROVE  IInv'
<1> DEFINE q == op[o]
<1>1. /\ q.pc \in Holding /\ ByHand({q.target}) /\ Return(o)
      /\ UNCHANGED <<driver, unit, game, opened>>
  BY DEF Copied, Holding
<1>2. q.target \in Paths /\ q.data \in Data /\ "list" \in Paths
  BY Holder DEF Request, Paths
<1>3. CASE Write(q.target, q.data)
  <2>1. Stamped /\ \A r \in Paths : r # q.target => files'[r] = files[r]
    BY <1>2, <1>3, WrittenFile DEF IInv
  <2> QED BY <1>1, <1>2, <2>1, HandInv
<1>4. CASE UNCHANGED <<files, clock>>
  BY <1>1, <1>4, SameFiles, HandInv DEF IInv
<1>5. CASE files' = [files EXCEPT ![q.target] = NoFile] /\ UNCHANGED clock
  <2>1. Stamped
    BY <1>2, <1>5, RemovedFile DEF IInv
  <2>2. "list" \in {q.target} \/ files'["list"] = files["list"]
    BY <1>2, <1>5 DEF IInv, Types, Directory
  <2> QED BY <1>1, <2>1, <2>2, HandInv
<1> QED BY <1>3, <1>4, <1>5 DEF Copied
-----------------------------------------------------------------------------
(* A game that starts loads the file, which keeps every promise. *)
LEMMA StartsKept ==
  ASSUME IInv, Starts, UNCHANGED <<driver, files>>
  PROVE  /\ unit' = "running" /\ game' \in Lists
         /\ \A n \in Names, p \in {"any", "in", "out"} :
              KeptBy(p, n, files, game, unit) => KeptBy(p, n, files', game', unit')
         /\ ~Running => game' = Decode(files'["list"])
<1>1. Decode(files["list"]) \in Lists /\ game \in Lists /\ "list" \in Paths
  BY Decodable DEF IInv, Types, Paths
<1>2. unit' = "running" /\ game' = IF Running THEN game ELSE Decode(files["list"])
  BY DEF Starts
<1> QED BY <1>1, <1>2 DEF KeptBy, Kept, Running

LEMMA StopsKept ==
  ASSUME IInv, Stops, UNCHANGED <<driver, files>>
  PROVE  /\ unit' = "stopped" /\ game' \in Lists
         /\ \A n \in Names, p \in {"any", "in", "out"} :
              KeptBy(p, n, files, game, unit) => KeptBy(p, n, files', game', unit')
BY DEF Stops, Lists, KeptBy, Kept

(* Promises that are kept stay kept when none is added. *)
LEMMA PromisesStay ==
  ASSUME IInv, UNCHANGED <<driver, promised>>,
         \A n \in Names, p \in {"any", "in", "out"} :
           KeptBy(p, n, files, game, unit) => KeptBy(p, n, files', game', unit')
  PROVE  FileInv'
<1>1. \A n \in Names : KeptBy(promised[n], n, files', game', unit')
  BY DEF IInv, Types, FileInv
<1> QED BY <1>1 DEF FileInv, KeptBy

LEMMA ActionInv ==
  ASSUME IInv, NEW o \in Ops, executeAction(o)
  PROVE  IInv'
<1>1. /\ op[o].pc \in Holding /\ (Starts \/ Stops) /\ Return(o)
      /\ UNCHANGED <<driver, files, clock, opened, promised>>
  BY DEF executeAction, Holding
<1>2. /\ unit' \in {"running", "stopped"} /\ game' \in Lists
      /\ \A n \in Names, p \in {"any", "in", "out"} :
           KeptBy(p, n, files, game, unit) => KeptBy(p, n, files', game', unit')
  BY <1>1, StartsKept, StopsKept
<1>3. Stamped /\ FileInv'
  BY <1>1, <1>2, SameFiles, PromisesStay DEF IInv
<1> QED BY <1>1, <1>2, <1>3, ReturnInv DEF IInv, Types

(* The row of a request that met a change from outside. *)
LEMMA UpsetRow ==
  ASSUME NEW q \in Request
  PROVE  LET v == [q EXCEPT !.upset = TRUE] IN
         /\ v \in Request /\ v.pc = q.pc /\ v.kind = q.kind /\ v.path = q.path
         /\ v.target = q.target /\ v.name = q.name /\ v.prev = q.prev /\ v.match = q.match
         /\ v.seen = q.seen /\ v.data = q.data /\ v.running = q.running /\ v.upset = TRUE
BY DEF Request

(* A step from outside: no request moves. *)
LEMMA OutsideInv ==
  ASSUME IInv, NEW S, Upset(S), UNCHANGED <<driver, lock, opened>>,
         unit' \in {"running", "stopped"}, game' \in Lists,
         promised' \in [Names -> {"any", "in", "out"}], Stamped, FileInv',
         \A r \in Ops : op[r].pc \in Holding =>
           CheckOK(op'[r], files') /\ ListOK(op'[r], files', game', unit', promised')
  PROVE  IInv'
<1> USE DEF IInv
<1>1. op' = [o \in Ops |-> IF op[o].pc \in S THEN [op[o] EXCEPT !.upset = TRUE] ELSE op[o]]
  BY DEF Upset
<1>2. \A r \in Ops : /\ op'[r] \in Request /\ op'[r].pc = op[r].pc /\ op'[r].kind = op[r].kind
                     /\ op'[r].path = op[r].path /\ op'[r].target = op[r].target
                     /\ op'[r].name = op[r].name /\ op'[r].prev = op[r].prev
                     /\ op'[r].match = op[r].match /\ op'[r].seen = op[r].seen
                     /\ op'[r].running = op[r].running
  BY <1>1, UpsetRow DEF Types
<1>3. op' \in [Ops -> Request]
  BY <1>1, <1>2
<1>4. Types'
  BY <1>2, <1>3 DEF Types, Stamped
<1>5. StepInv'
  BY <1>2 DEF StepInv, StepOK
<1>6. StampInv'
  BY <1>2, <1>3, StampsKept
<1>7. \A r \in Ops : CheckOK(op'[r], files') /\ ListOK(op'[r], files', game', unit', promised')
  <2>1. \A r \in Ops : op[r].pc \in Waiting \/ op[r].pc \in Holding
    BY DEF Types, Request
  <2> QED BY <2>1, <1>2, WaitingOK
<1>8. CheckInv'
  BY <1>7 DEF CheckInv, CheckOK
<1>9. ListInv'
  BY <1>7 DEF ListInv, ListOK, KeptBy
<1> QED BY <1>4, <1>5, <1>6, <1>8, <1>9

LEMMA ExternalStartInv ==
  ASSUME IInv, ExternalStart
  PROVE  IInv'
<1>1. /\ ~Running /\ Starts /\ Upset({"write"})
      /\ UNCHANGED <<driver, files, clock, lock, opened, promised>>
  BY DEF ExternalStart
<1>2. /\ unit' = "running" /\ game' \in Lists /\ game' = Decode(files'["list"])
      /\ \A n \in Names, p \in {"any", "in", "out"} :
           KeptBy(p, n, files, game, unit) => KeptBy(p, n, files', game', unit')
  BY <1>1, StartsKept
<1>3. Stamped /\ FileInv'
  BY <1>1, <1>2, SameFiles, PromisesStay DEF IInv
<1>4. ASSUME NEW r \in Ops, op[r].pc \in Holding
      PROVE  CheckOK(op'[r], files') /\ ListOK(op'[r], files', game', unit', promised')
  <2>1. /\ op[r] \in Request /\ StepOK(op[r]) /\ CheckOK(op[r], files)
        /\ ListOK(op[r], files, game, unit, promised)
    BY Holder
  <2>2. CASE op[r].pc = "write"
    <3> DEFINE v == [op[r] EXCEPT !.upset = TRUE]
    <3>1. op'[r] = v
      BY <1>1, <2>2 DEF Upset
    <3>2. /\ v.pc = "write" /\ v.kind = op[r].kind /\ v.name = op[r].name
          /\ v.prev = op[r].prev /\ v.data = op[r].data /\ v.upset = TRUE
      BY <2>1, <2>2, UpsetRow
    <3> HIDE DEF v
    <3> QED BY <1>1, <2>1, <2>2, <3>1, <3>2 DEF CheckOK, ListOK
  <2>3. CASE op[r].pc # "write"
    <3>1. op'[r] = op[r]
      BY <1>1, <2>3 DEF Upset
    <3>2. op[r].pc = "second" => op[r].name \in Names
      BY <2>1 DEF StepOK, Lifted
    <3>3. op[r].pc = "second" /\ ~op[r].upset => KeptBy("in", op[r].name, files', game', unit')
      BY <1>2, <2>1, <3>2 DEF ListOK
    <3> QED BY <1>1, <1>2, <2>1, <2>3, <3>1, <3>3 DEF CheckOK, ListOK
  <2> QED BY <2>2, <2>3
<1> QED BY <1>1, <1>2, <1>3, <1>4, OutsideInv DEF IInv, Types

LEMMA ExternalStopInv ==
  ASSUME IInv, ExternalStop
  PROVE  IInv'
<1>1. Stops /\ UNCHANGED <<driver, files, clock, lock, op, opened, promised>>
  BY DEF ExternalStop
<1>2. /\ unit' = "stopped" /\ game' \in Lists
      /\ \A n \in Names, p \in {"any", "in", "out"} :
           KeptBy(p, n, files, game, unit) => KeptBy(p, n, files', game', unit')
  BY <1>1, StopsKept
<1>3. Stamped /\ FileInv'
  BY <1>1, <1>2, SameFiles, PromisesStay DEF IInv
<1>4. ASSUME NEW r \in Ops
      PROVE  CheckOK(op'[r], files') /\ ListOK(op'[r], files', game', unit', promised')
  <2>1. /\ StepOK(op[r]) /\ CheckOK(op[r], files) /\ ListOK(op[r], files, game, unit, promised)
    BY Holder
  <2>2. op[r].pc = "second" => op[r].name \in Names
    BY <2>1 DEF StepOK, Lifted
  <2>3. op[r].pc = "second" /\ ~op[r].upset => KeptBy("in", op[r].name, files', game', unit')
    BY <1>2, <2>1, <2>2 DEF ListOK
  <2> QED BY <1>1, <1>2, <2>1, <2>3 DEF CheckOK, ListOK
<1>5. Upset({})
  BY <1>1 DEF IInv, Types, Upset
<1> QED BY <1>1, <1>2, <1>3, <1>4, <1>5, OutsideInv DEF IInv, Types

LEMMA GameEditInv ==
  ASSUME IInv, NEW n \in Names, GameEdit(n)
  PROVE  IInv'
<1>1. /\ Running /\ Commands(driver) /\ Forget({n}) /\ Upset(Holding)
      /\ UNCHANGED <<driver, unit, lock, opened>>
  BY DEF GameEdit
<1>2. PICK kind \in {"add", "remove"} : Console(kind, n)
  BY DEF GameEdit
<1>3. /\ game' \in Lists /\ Stamped
      /\ \A p \in Paths : files[p] # NoFile => files'[p] # NoFile
      /\ \A m \in Names, p \in {"any", "in", "out"} :
           m # n /\ KeptBy(p, m, files, game, unit) => KeptBy(p, m, files', game', unit')
  BY <1>1, <1>2, ConsoleKept DEF Lifted
<1>4. /\ promised' \in [Names -> {"any", "in", "out"}]
      /\ \A m \in Names : promised'[m] = IF m = n THEN "any" ELSE promised[m]
  BY <1>1, ForgetTypes
<1>5. ASSUME NEW m \in Names
      PROVE  KeptBy(promised'[m], m, files', game', unit')
  <2>1. CASE m = n
    BY <1>4, <2>1 DEF KeptBy, Kept
  <2>2. CASE m # n
    BY <1>3, <1>4, <2>2 DEF IInv, FileInv, Types
  <2> QED BY <2>1, <2>2
<1>6. FileInv'
  BY <1>1, <1>5 DEF FileInv, KeptBy
<1>7. ASSUME NEW r \in Ops, op[r].pc \in Holding
      PROVE  CheckOK(op'[r], files') /\ ListOK(op'[r], files', game', unit', promised')
  <2>1. /\ op[r] \in Request /\ CheckOK(op[r], files)
        /\ ListOK(op[r], files, game, unit, promised)
    BY Holder
  <2> DEFINE v == [op[r] EXCEPT !.upset = TRUE]
  <2>2. op'[r] = v
    BY <1>1, <1>7 DEF Upset
  <2>3. /\ v.pc = op[r].pc /\ v.kind = op[r].kind /\ v.name = op[r].name /\ v.path = op[r].path
        /\ v.prev = op[r].prev /\ v.data = op[r].data /\ v.upset = TRUE
    BY <2>1, UpsetRow
  <2> HIDE DEF v
  <2>4. CheckOK(v, files')
    BY <1>3, <2>1, <2>3 DEF CheckOK, Request
  <2>5. v.pc \in {"recheck", "write"} =>
          /\ v.data \in Lists
          /\ \A m \in Names :
               Kept(IF m \notin {v.name, v.prev} THEN promised'[m]
                    ELSE IF v.kind = "add" /\ m = v.name THEN "in" ELSE "out", m, v.data)
    BY <1>4, <2>1, <2>3 DEF ListOK, Kept
  <2>6. v.pc \in Holding /\ v.kind \in {"add", "remove"} =>
          \A m \in Names : m \in {v.name, v.prev} => promised'[m] = "any"
    BY <1>4, <2>1, <2>3 DEF ListOK
  <2>7. ListOK(v, files', game', unit', promised')
    BY <2>3, <2>5, <2>6 DEF ListOK
  <2> QED BY <2>2, <2>4, <2>7
<1> QED BY <1>1, <1>3, <1>4, <1>6, <1>7, OutsideInv DEF IInv, Types

LEMMA CrashInv ==
  ASSUME IInv, Crash
  PROVE  IInv'
<1> USE DEF IInv
<1>1. /\ op' = [o \in Ops |-> Idle] /\ lock' = None
      /\ UNCHANGED <<driver, unit, game, files, clock, opened, promised>>
  BY DEF Crash
<1>2. \A r \in Ops : op'[r] = Idle
  BY <1>1
<1>3. Types'
  BY <1>1, <1>2, IdleOK, AgentFilesAssumption DEF Types, Waiting, Holding
<1>4. StepInv'
  BY <1>1, <1>2, IdleOK DEF StepInv, StepOK
<1>5. StampInv'
  BY <1>1, <1>2, <1>3, IdleOK, SameFiles, StampsKept DEF Types
<1>6. \A r \in Ops : CheckOK(op'[r], files') /\ ListOK(op'[r], files', game', unit', promised')
  BY <1>2, IdleOK, WaitingOK
<1>7. CheckInv'
  BY <1>6 DEF CheckInv, CheckOK
<1>8. ListInv'
  BY <1>1, <1>6 DEF ListInv, ListOK, KeptBy
<1>9. FileInv'
  BY <1>1, FewerPromises
<1> QED BY <1>3, <1>4, <1>5, <1>7, <1>8, <1>9
-----------------------------------------------------------------------------
LEMMA InitInv ==
  ASSUME Init
  PROVE  IInv
<1>1. \A r \in Ops : op[r] = Idle
  BY DEF Init
<1>2. files \in Directory /\ \A p \in Paths : files[p] = NoFile
  BY DEF Init, Directory
<1>3. Types
  BY <1>1, <1>2, IdleOK, AgentFilesAssumption
     DEF Init, Types, Lists, Paths, Waiting, Holding
<1>4. StepInv
  BY <1>1, IdleOK DEF StepInv
<1>5. StampInv
  BY <1>1, <1>2, IdleOK, NoFileOK DEF Init, StampInv, Knows
<1>6. CheckInv /\ ListInv
  BY <1>1, IdleOK, WaitingOK DEF CheckInv, ListInv
<1>7. FileInv
  BY DEF Init, FileInv, KeptBy, Kept
<1> QED BY <1>3, <1>4, <1>5, <1>6, <1>7 DEF IInv

LEMMA StepKeeps ==
  ASSUME IInv, [Next]_vars
  PROVE  IInv'
<1>1. CASE UNCHANGED vars
  BY <1>1 DEF vars, IInv, Types, StepInv, StepOK, StampInv, Knows, CheckInv, CheckOK,
              FileInv, KeptBy, ListInv, ListOK
<1>2. ASSUME NEW o \in Ops, AskWhitelist(o) \/ AskFile(o) \/ AskSave(o) \/ Acquire(o) \/ Fail(o)
      PROVE  IInv'
  BY <1>2, AskWhitelistInv, AskFileInv, AskSaveInv, AcquireInv, FailInv
<1>3. ASSUME NEW o \in Ops,
             \/ whitelistOperation(o) \/ onlineWhitelistOperation(o) \/ readFileWhitelist(o)
             \/ Recheck(o) \/ writeFileWhitelist(o)
      PROVE  IInv'
  BY <1>3, WhitelistInv, OnlineInv, ReadListInv, RecheckInv, WriteListInv
<1>4. ASSUME NEW o \in Ops,
             \/ handleFileWrite(o) \/ Replace(o) \/ fileDelete(o) \/ fileOperation(o)
             \/ Rename(o) \/ Create(o) \/ Copied(o) \/ executeAction(o)
      PROVE  IInv'
  BY <1>4, CheckSaveInv, ReplaceInv, DeleteInv, CheckMoveInv, RenameInv, CreateInv, CopiedInv,
     ActionInv
<1>5. ASSUME NEW p \in Paths, handleFileRead(p)
      PROVE  IInv'
  BY <1>5, ReadInv
<1>6. ASSUME NEW n \in Names, GameEdit(n)
      PROVE  IInv'
  BY <1>6, GameEditInv
<1>7. CASE ExternalStart \/ ExternalStop \/ Crash
  BY <1>7, ExternalStartInv, ExternalStopInv, CrashInv
<1> QED BY <1>1, <1>2, <1>3, <1>4, <1>5, <1>6, <1>7 DEF Next

(* Invariance: the agent's handlers keep the inductive invariant, whatever *)
(* the game, systemd and the operator do beside them.                      *)
THEOREM Invariance == Spec => []IInv
<1>1. Init => IInv
  BY InitInv
<1>2. IInv /\ [Next]_vars => IInv'
  BY StepKeeps
<1> QED BY <1>1, <1>2, PTL DEF Spec

(* OneHandler: every return of a handler, the early ones and the errors    *)
(* too, releases serverOperationLock, and no two handlers of a unit are    *)
(* past it at a time.                                                      *)
THEOREM OneHandler == Spec => []TypeOK
<1>1. IInv => TypeOK
  <2> SUFFICES ASSUME IInv PROVE TypeOK
    OBVIOUS
  <2>1. files \in [Paths -> {NoFile} \cup File] /\ \A p \in Paths : files[p].stamp <= clock
    BY DEF IInv, Types, StampInv, Directory, File
  <2>2. \A o \in Ops : op[o].pc \in Waiting \cup Holding /\ op[o].kind \in Kinds
    BY DEF IInv, Types, Request
  <2> QED BY <2>1, <2>2 DEF IInv, Types, TypeOK
<1> QED BY <1>1, Invariance, PTL

(* AnswersHold: what whitelistOperation answered about a player holds of   *)
(* the list the game goes by, until someone else changes it.               *)
THEOREM AnswersHold == Spec => []PromiseKept
<1>1. IInv => PromiseKept
  BY DEF IInv, FileInv, KeptBy, Kept, PromiseKept, Effective, Running
<1> QED BY <1>1, Invariance, PTL

(* SavesReplaceWhatWasRead: handleFileWrite replaces exactly the data the  *)
(* editor read, and the rename of fileOperation finds its target free,     *)
(* unless the game wrote in between.                                       *)
THEOREM SavesReplaceWhatWasRead == Spec => []ChecksStillHold
<1>1. IInv => ChecksStillHold
  <2> SUFFICES ASSUME IInv, NEW o \in Ops, ~op[o].upset
               PROVE  /\ op[o].pc = "replace" /\ op[o].match # 0 =>
                           files[op[o].path].data = op[o].seen
                      /\ op[o].pc = "rename" => files[op[o].target] = NoFile
    BY DEF ChecksStillHold
  <2>1. /\ op[o].path \in Paths /\ CheckOK(op[o], files)
        /\ Knows(op[o].match, op[o].seen, files)
    BY Holder DEF Request
  <2> QED BY <2>1 DEF CheckOK, Knows
<1> QED BY <1>1, Invariance, PTL
=============================================================================
