--------------------------- MODULE CacheProofs ---------------------------
(***************************************************************************)
(* Proofs about the two caches of HOGS: module MapCache, the responses of  *)
(* a map server on disk, for any requests, versions and bounds; and module *)
(* Observations, the statuses of game servers in memory.                   *)
(***************************************************************************)
EXTENDS MapCache, Observations, FiniteSetTheorems, TLAPS

ReqRow == [pc : Free \cup Inside, phase : 1..3, entry : {None} \cup Metadata,
           own : Versions \cup {0}, got : Versions \cup {0},
           state : {"HIT", "STALE", "REVALIDATED"}, lock : 0..MaxReqs]

Types ==
  /\ origin \in Versions /\ body \in {None} \cup Versions /\ meta \in {None} \cup Metadata
  /\ locks \in 0..MaxReqs
  /\ refs \in [Objects -> Nat] /\ holder \in [Objects -> Reqs \cup {None}]
  /\ req \in [Reqs -> ReqRow]
  /\ torn \in BOOLEAN /\ crossed \in BOOLEAN
  /\ asked \in 0..MaxReqs

(* The requests that use a lock object, and the part that needs its mutex. *)
LockUsers(l) == {r \in Reqs : req[r].lock = l}
Critical(q) == q.phase > 1 /\ q.pc # "unref"

(* Where a request of each phase can be, and what it then has. *)
StepOK(q) ==
  /\ q.phase = 1 => q.pc \in Free \ {"unref"} /\ q.state = "HIT"
  /\ q.phase > 1 => q.pc \in Inside \cup {"unref"}
  /\ q.pc \in {"fetch", "refresh"} => q.phase = 3
  /\ q.lock # 0 <=> q.phase > 1 \/ q.pc = "wait"
  /\ q.pc \in {"stat", "refresh"} => q.entry # None
  /\ q.pc \in {"receive", "body", "json", "refresh"} => q.got \in Versions

StepInv == \A r \in Reqs : StepOK(req[r]) /\ (req[r].pc # "idle" => asked > 0)

(* Users are counted, they all use the object in the map, and its mutex    *)
(* belongs to the one that is past it.                                     *)
LockInv ==
  /\ \A l \in Objects : refs[l] = Cardinality(LockUsers(l))
  /\ \A l \in Objects : refs[l] > 0 => locks = l
  /\ \A r \in Reqs : req[r].lock # 0 => req[r].lock = locks
  /\ \A r \in Reqs : Critical(req[r]) => holder[req[r].lock] = r
  /\ \A l \in Objects : holder[l] # None =>
       /\ req[holder[l]].lock = l /\ Critical(req[holder[l]])

(* What a request knows of the files: its entry is of one version, a 304 is *)
(* about it, and with the mutex the body is the one it stored or looked up. *)
StoreReq(q) ==
  /\ crossed \/ q.entry = None \/ q.entry.of = q.entry.tag
  /\ q.pc = "refresh" => crossed \/ q.got = q.entry.tag
  /\ q.pc = "json" => body \in {None, q.got}
  /\ q.phase = 3 /\ q.pc \in {"stat", "fetch", "refresh"} /\ q.entry # None =>
       torn \/ crossed \/ body \in {None, q.entry.of}

(* Metadata is of one version, and the files belong together. *)
StoreInv ==
  /\ crossed \/ meta = None \/ meta.of = meta.tag
  /\ \A r \in Reqs : StoreReq(req[r])
  /\ StoredTogether

(* The inductive invariant. *)
IInv == Types /\ StepInv /\ LockInv /\ StoreInv

-----------------------------------------------------------------------------
(* The requests, the mutex and the files: what a step of one request keeps. *)

(* A request whose next row fits its step keeps the rows and the steps.     *)
LEMMA RowStep ==
  ASSUME Types, StepInv, NEW r \in Reqs, NEW v \in ReqRow, StepOK(v),
         req' = [req EXCEPT ![r] = v], asked' \in {asked, asked + 1},
         v.pc # "idle" => asked' > 0
  PROVE  /\ req' \in [Reqs -> ReqRow] /\ req'[r] = v
         /\ \A s \in Reqs : s # r => req'[s] = req[s]
         /\ StepInv'
<1>1. /\ req' \in [Reqs -> ReqRow] /\ req'[r] = v
      /\ \A s \in Reqs : s # r => req'[s] = req[s]
  BY DEF Types
<1>2. asked \in Nat
  BY MapCacheAssumption DEF Types
<1>3. \A s \in Reqs : StepOK(req'[s]) /\ (req'[s].pc # "idle" => asked' > 0)
  <2> TAKE s \in Reqs
  <2>1. CASE s = r
    BY <2>1, <1>1
  <2>2. CASE s # r
    BY <2>2, <1>1, <1>2 DEF StepInv
  <2> QED BY <2>1, <2>2
<1>4. StepInv'
  BY <1>3 DEF StepInv, StepOK
<1> QED BY <1>1, <1>4

(* Two requests past the mutex are one: both use the object in the map.     *)
LEMMA Exclusive ==
  ASSUME Types, StepInv, LockInv, NEW r \in Reqs, NEW s \in Reqs,
         Critical(req[r]), Critical(req[s])
  PROVE  r = s
<1>1. req[r].lock # 0 /\ req[s].lock # 0
  BY DEF StepInv, StepOK, Critical
<1>2. req[r].lock = locks /\ req[s].lock = locks
  BY <1>1 DEF LockInv
<1> QED BY <1>2 DEF LockInv

(* Past the test of the entry a request has the mutex.                      *)
LEMMA PastIsCritical ==
  ASSUME Types, StepInv, NEW r \in Reqs,
         \/ req[r].pc \in {"fetch", "refresh", "receive", "body", "json", "unlock"}
         \/ req[r].phase = 3 /\ req[r].pc # "unref"
  PROVE  Critical(req[r]) /\ req[r].lock \in Objects
<1>1. req[r] \in ReqRow /\ StepOK(req[r])
  BY DEF Types, StepInv
<1>2. req[r].phase \in 1..3 /\ req[r].lock \in 0..MaxReqs
  BY <1>1 DEF ReqRow
<1>3. req[r].phase > 1
  BY <1>1, <1>2 DEF StepOK, Free
<1>4. req[r].pc # "unref"
  OBVIOUS
<1>5. req[r].lock # 0
  BY <1>1, <1>3 DEF StepOK
<1> QED BY <1>2, <1>3, <1>4, <1>5, MapCacheAssumption DEF Critical, Objects

(* A step that keeps the mutex, the object of the request and its being     *)
(* past the mutex keeps the structure of the locks.                         *)
LEMMA LockKept ==
  ASSUME Types, LockInv, NEW r \in Reqs, NEW v \in ReqRow,
         req'[r] = v, \A s \in Reqs : s # r => req'[s] = req[s],
         v.lock = req[r].lock, Critical(v) <=> Critical(req[r]), UNCHANGED mutex
  PROVE  LockInv'
<1>1. \A s \in Reqs : req'[s].lock = req[s].lock /\ (Critical(req'[s]) <=> Critical(req[s]))
  <2> TAKE s \in Reqs
  <2>1. CASE s = r
    BY <2>1
  <2>2. CASE s # r
    BY <2>2
  <2> QED BY <2>1, <2>2
<1>2. \A l \in Objects : LockUsers(l)' = LockUsers(l)
  BY <1>1 DEF LockUsers
<1>3. locks' = locks /\ refs' = refs /\ holder' = holder
  BY DEF mutex
<1>4. \A l \in Objects : holder[l] # None => holder[l] \in Reqs
  BY DEF Types
<1>5. (\A l \in Objects : refs[l] = Cardinality(LockUsers(l)))'
  BY <1>2, <1>3 DEF LockInv
<1>6. (\A l \in Objects : refs[l] > 0 => locks = l)'
  BY <1>3 DEF LockInv
<1>7. (\A s \in Reqs : req[s].lock # 0 => req[s].lock = locks)'
  BY <1>1, <1>3 DEF LockInv
<1>8. (\A s \in Reqs : Critical(req[s]) => holder[req[s].lock] = s)'
  <2>1. \A s \in Reqs : Critical(req'[s]) => holder[req'[s].lock] = s
    BY <1>1 DEF LockInv
  <2> QED BY <2>1, <1>3 DEF Critical
<1>9. (\A l \in Objects : holder[l] # None =>
         /\ req[holder[l]].lock = l /\ Critical(req[holder[l]]))'
  <2>1. \A l \in Objects : holder[l] # None =>
          /\ req'[holder[l]].lock = l /\ Critical(req'[holder[l]])
    BY <1>1, <1>4 DEF LockInv
  <2> QED BY <2>1, <1>3 DEF Critical
<1> QED BY <1>5, <1>6, <1>7, <1>8, <1>9 DEF LockInv

(* A step that keeps the files keeps what the others know of them.          *)
LEMMA StoreKept ==
  ASSUME StoreInv, NEW r \in Reqs, NEW v \in ReqRow,
         req'[r] = v, \A s \in Reqs : s # r => req'[s] = req[s],
         req[r].pc # "json", StoreReq(v), UNCHANGED <<disk, history>>
  PROVE  StoreInv'
<1>1. body' = body /\ meta' = meta /\ torn' = torn /\ crossed' = crossed
  BY DEF disk, history
<1>2. \A s \in Reqs : StoreReq(req'[s])
  <2> TAKE s \in Reqs
  <2>1. CASE s = r
    BY <2>1
  <2>2. CASE s # r
    BY <2>2 DEF StoreInv
  <2> QED BY <2>1, <2>2
<1>3. (\A s \in Reqs : StoreReq(req[s]))'
  BY <1>1, <1>2 DEF StoreReq
<1>4. StoredTogether'
  <2>1. StoredTogether
    BY DEF StoreInv
  <2>2. \A s \in Reqs : req[s].pc = "json" => req'[s].pc = "json"
    OBVIOUS
  <2> QED BY <2>1, <2>2, <1>1 DEF StoredTogether
<1> QED BY <1>1, <1>3, <1>4 DEF StoreInv

(* A step of one request between the operations on the mutex; what it does  *)
(* to the files is left to the caller.                                      *)
LEMMA InnerStep ==
  ASSUME IInv, NEW r \in Reqs, NEW v \in ReqRow, StepOK(v),
         req' = [req EXCEPT ![r] = v],
         v.lock = req[r].lock, Critical(v) <=> Critical(req[r]),
         v.pc # "idle" => asked' > 0, asked' \in {asked, asked + 1}, asked' \in 0..MaxReqs,
         UNCHANGED <<origin, mutex, torn>>, crossed' \in BOOLEAN,
         body' \in {None} \cup Versions, meta' \in {None} \cup Metadata
  PROVE  /\ Types' /\ StepInv' /\ LockInv'
         /\ req'[r] = v /\ \A s \in Reqs : s # r => req'[s] = req[s]
<1>1. Types /\ StepInv /\ LockInv
  BY DEF IInv
<1>2. /\ req' \in [Reqs -> ReqRow] /\ req'[r] = v
      /\ \A s \in Reqs : s # r => req'[s] = req[s]
      /\ StepInv'
  BY <1>1, RowStep
<1>3. LockInv'
  BY <1>1, <1>2, LockKept
<1>4. Types'
  BY <1>1, <1>2 DEF Types, mutex
<1> QED BY <1>2, <1>3, <1>4

(* The same for a step that touches no file.                                *)
LEMMA QuietStep ==
  ASSUME IInv, NEW r \in Reqs, NEW v \in ReqRow, StepOK(v),
         req' = [req EXCEPT ![r] = v], req[r].pc # "json",
         v.lock = req[r].lock, Critical(v) <=> Critical(req[r]), StoreReq(v),
         v.pc # "idle" => asked' > 0, asked' \in {asked, asked + 1}, asked' \in 0..MaxReqs,
         UNCHANGED <<origin, disk, mutex, history>>
  PROVE  IInv'
<1>1. /\ UNCHANGED <<origin, mutex, torn>> /\ crossed' \in BOOLEAN
      /\ body' \in {None} \cup Versions /\ meta' \in {None} \cup Metadata
  BY DEF disk, history, IInv, Types
<1>2. /\ Types' /\ StepInv' /\ LockInv'
      /\ req'[r] = v /\ \A s \in Reqs : s # r => req'[s] = req[s]
  BY <1>1, InnerStep
<1>3. StoreInv'
  BY <1>2, StoreKept DEF IInv
<1> QED BY <1>2, <1>3 DEF IInv

(* The row of a request, and that the requests that run were counted.       *)
LEMMA RowFacts ==
  ASSUME IInv, NEW r \in Reqs
  PROVE  /\ req[r] \in ReqRow /\ StepOK(req[r]) /\ StoreReq(req[r])
         /\ req[r].pc \in Free \cup Inside /\ req[r].phase \in 1..3
         /\ req[r].entry \in {None} \cup Metadata
         /\ req[r].own \in Versions \cup {0} /\ req[r].got \in Versions \cup {0}
         /\ req[r].state \in {"HIT", "STALE", "REVALIDATED"} /\ req[r].lock \in 0..MaxReqs
         /\ asked \in 0..MaxReqs /\ asked \in Nat /\ (req[r].pc # "idle" => asked > 0)
<1>1. req[r] \in ReqRow /\ asked \in 0..MaxReqs
  BY DEF IInv, Types
<1>2. StepOK(req[r]) /\ (req[r].pc # "idle" => asked > 0)
  BY DEF IInv, StepInv
<1>3. StoreReq(req[r])
  BY DEF IInv, StoreInv
<1>4. asked \in Nat
  BY <1>1, MapCacheAssumption
<1> QED BY <1>1, <1>2, <1>3, <1>4 DEF ReqRow

(* A request that only moves on, to a step that says nothing of the files.  *)
LEMMA GoesStep ==
  ASSUME IInv, NEW r \in Reqs, NEW pc \in Free \cup Inside, Goes(r, pc),
         req[r].pc \notin {"idle", "json", "unref", "wait"},
         pc \notin {"unref", "refresh", "json", "wait", "stat", "fetch"},
         req[r].phase = 1 => pc \in Free, req[r].phase > 1 => pc \in Inside,
         pc \in {"receive", "body"} => req[r].got \in Versions,
         UNCHANGED <<origin, disk, mutex, history, bounds>>
  PROVE  IInv'
<1> DEFINE v == [req[r] EXCEPT !.pc = pc]
<1>1. req' = [req EXCEPT ![r] = v]
  BY DEF Goes
<1>2. v \in ReqRow
  BY RowFacts DEF ReqRow
<1>3. /\ v.pc = pc /\ v.phase = req[r].phase /\ v.entry = req[r].entry /\ v.own = req[r].own
      /\ v.got = req[r].got /\ v.state = req[r].state /\ v.lock = req[r].lock
  BY RowFacts DEF ReqRow
<1> HIDE DEF v
<1>4. StepOK(v)
  BY <1>3, RowFacts DEF StepOK
<1>5. Critical(v) <=> Critical(req[r])
  BY <1>3 DEF Critical
<1>6. StoreReq(v)
  BY <1>3, RowFacts DEF StoreReq
<1>7. asked' = asked /\ UNCHANGED <<origin, disk, mutex, history>>
  BY DEF bounds
<1> QED BY <1>1, <1>2, <1>3, <1>4, <1>5, <1>6, <1>7, RowFacts, QuietStep

(* The row of a lookup without a result.                                    *)
MissedRow(q) ==
  [q EXCEPT !.entry = None,
            !.pc = CASE q.phase = 1 -> "acquire" [] q.phase = 2 -> "meta" [] OTHER -> "fetch",
            !.phase = IF q.phase = 2 THEN 3 ELSE q.phase]

LEMMA MissedFacts ==
  ASSUME IInv, NEW r \in Reqs, Missed(r), req[r].pc \in {"meta", "stat", "rmmeta"}
  PROVE  LET v == MissedRow(req[r]) IN
         /\ req' = [req EXCEPT ![r] = v] /\ v \in ReqRow /\ StepOK(v)
         /\ v.lock = req[r].lock /\ (Critical(v) <=> Critical(req[r]))
         /\ v.entry = None /\ v.pc \in {"acquire", "meta", "fetch"}
<1> DEFINE q == req[r]
           v == MissedRow(req[r])
           pc == CASE q.phase = 1 -> "acquire" [] q.phase = 2 -> "meta" [] OTHER -> "fetch"
           ph == IF q.phase = 2 THEN 3 ELSE q.phase
<1>0. req' = [req EXCEPT ![r].entry = None, ![r].pc = pc, ![r].phase = ph]
  BY DEF Missed
<1>2. /\ q.phase = 1 => pc = "acquire" /\ ph = 1
      /\ q.phase = 2 => pc = "meta" /\ ph = 3
      /\ q.phase = 3 => pc = "fetch" /\ ph = 3
  OBVIOUS
<1>3. q.phase \in {1, 2, 3}
  BY RowFacts
<1>4. v = [q EXCEPT !.entry = None, !.pc = pc, !.phase = ph]
  BY DEF MissedRow
<1> HIDE DEF pc, ph
<1>1. req' = [req EXCEPT ![r] = v]
  <2>1. req = [s \in Reqs |-> req[s]]
    BY DEF IInv, Types
  <2> QED BY <1>0, <1>4, <2>1
<1>5. pc \in Free \cup Inside /\ ph \in 1..3
  BY <1>2, <1>3 DEF Free, Inside
<1>6. v \in ReqRow
  BY <1>4, <1>5, RowFacts DEF ReqRow
<1>7. /\ v.pc = pc /\ v.phase = ph /\ v.entry = None
      /\ v.got = req[r].got /\ v.state = req[r].state /\ v.lock = req[r].lock
  BY <1>4, RowFacts DEF ReqRow
<1> HIDE DEF v
<1>8. StepOK(v)
  BY <1>2, <1>3, <1>7, RowFacts DEF StepOK, Free, Inside
<1>9. Critical(v) <=> Critical(req[r])
  BY <1>2, <1>3, <1>7 DEF Critical
<1>10. v.pc \in {"acquire", "meta", "fetch"}
  BY <1>2, <1>3, <1>7
<1> QED BY <1>1, <1>6, <1>7, <1>8, <1>9, <1>10 DEF v

(* A lookup without a result that removed nothing.                          *)
LEMMA MissedStep ==
  ASSUME IInv, NEW r \in Reqs, Missed(r), req[r].pc \in {"meta", "stat"},
         UNCHANGED <<origin, disk, mutex, history, bounds>>
  PROVE  IInv'
<1> DEFINE v == MissedRow(req[r])
<1> HIDE DEF v
<1>1. /\ req' = [req EXCEPT ![r] = v] /\ v \in ReqRow /\ StepOK(v)
      /\ v.lock = req[r].lock /\ (Critical(v) <=> Critical(req[r]))
      /\ v.entry = None /\ v.pc \in {"acquire", "meta", "fetch"}
  BY MissedFacts DEF v
<1>2. StoreReq(v)
  BY <1>1 DEF StoreReq
<1>3. asked' = asked /\ UNCHANGED <<origin, disk, mutex, history>>
  BY DEF bounds
<1> QED BY <1>1, <1>2, <1>3, RowFacts, QuietStep

-----------------------------------------------------------------------------
(* One lemma for each operation of a request. *)
LEMMA MapProxyStep ==
  ASSUME IInv, NEW r \in Reqs, MapProxy(r)
  PROVE  IInv'
<1> PICK own \in {0, origin} :
           req' = [req EXCEPT ![r] = [Idle EXCEPT !.pc = "meta", !.own = own]]
  BY DEF MapProxy
<1> DEFINE v == [Idle EXCEPT !.pc = "meta", !.own = own]
<1>1. /\ v.pc = "meta" /\ v.phase = 1 /\ v.entry = None /\ v.own = own /\ v.got = 0
      /\ v.state = "HIT" /\ v.lock = 0
  BY DEF Idle
<1>2. v \in ReqRow
  <2>1. own \in Versions \cup {0} /\ 0 \in 0..MaxReqs /\ 1 \in 1..3
    BY MapCacheAssumption DEF IInv, Types
  <2> QED BY <2>1 DEF Idle, ReqRow, Free
<1> HIDE DEF v
<1>3. req' = [req EXCEPT ![r] = v]
  BY DEF v
<1>4. req[r].pc = "idle" /\ req[r].phase = 1 /\ req[r].lock = 0
  BY RowFacts DEF MapProxy, StepOK, Inside
<1>5. StepOK(v) /\ StoreReq(v) /\ (Critical(v) <=> Critical(req[r]))
  BY <1>1, <1>4 DEF StepOK, StoreReq, Critical, Free
<1>6. asked' = asked + 1 /\ asked' \in 0..MaxReqs /\ asked' > 0
  BY RowFacts, MapCacheAssumption DEF MapProxy
<1>7. UNCHANGED <<origin, disk, mutex, history>>
  BY DEF MapProxy
<1> QED BY <1>1, <1>2, <1>3, <1>4, <1>5, <1>6, <1>7, QuietStep

LEMMA LookupMetaStep ==
  ASSUME IInv, NEW r \in Reqs, LookupMeta(r)
  PROVE  IInv'
<1>1. req[r].pc = "meta" /\ UNCHANGED <<origin, disk, mutex, history, bounds>>
  BY DEF LookupMeta
<1>2. CASE meta = None
  BY <1>1, <1>2, MissedStep DEF LookupMeta
<1>3. CASE meta # None
  <2> DEFINE v == [req[r] EXCEPT !.pc = "stat", !.entry = meta]
  <2>1. req' = [req EXCEPT ![r] = v]
    <3>1. req' = [req EXCEPT ![r].pc = "stat", ![r].entry = meta]
      BY <1>3 DEF LookupMeta
    <3>2. req = [s \in Reqs |-> req[s]]
      BY DEF IInv, Types
    <3> QED BY <3>1, <3>2
  <2>2. meta \in Metadata
    BY <1>3 DEF IInv, Types
  <2>3. v \in ReqRow
    BY <2>2, RowFacts DEF ReqRow, Free
  <2>4. /\ v.pc = "stat" /\ v.phase = req[r].phase /\ v.entry = meta /\ v.got = req[r].got
        /\ v.state = req[r].state /\ v.lock = req[r].lock
    BY RowFacts DEF ReqRow
  <2> HIDE DEF v
  <2>5. StepOK(v) /\ (Critical(v) <=> Critical(req[r]))
    BY <1>1, <1>3, <2>4, RowFacts DEF StepOK, Critical, Free, Inside
  <2>6. StoreReq(v)
    <3>1. crossed \/ meta.of = meta.tag
      BY <1>3 DEF IInv, StoreInv
    <3>2. CASE v.phase = 3
      <4>1. Critical(req[r])
        BY <3>2, <2>4, <1>1, PastIsCritical DEF IInv
      <4>2. \A s \in Reqs : req[s].pc # "json"
        BY <4>1, <1>1, Exclusive, PastIsCritical DEF IInv
      <4>3. torn \/ crossed \/ body = None \/ body = meta.of
        BY <4>2, <1>3 DEF IInv, StoreInv, StoredTogether
      <4> QED BY <3>1, <4>3, <2>4 DEF StoreReq
    <3>3. CASE v.phase # 3
      BY <3>1, <3>3, <2>4 DEF StoreReq
    <3> QED BY <3>2, <3>3
  <2>7. asked' = asked /\ UNCHANGED <<origin, disk, mutex, history>>
    BY <1>1 DEF bounds
  <2> QED BY <1>1, <2>1, <2>3, <2>4, <2>5, <2>6, <2>7, RowFacts, QuietStep
<1> QED BY <1>2, <1>3

LEMMA LookupBodyStep ==
  ASSUME IInv, NEW r \in Reqs, LookupBody(r)
  PROVE  IInv'
<1>1. req[r].pc = "stat" /\ UNCHANGED <<origin, disk, mutex, history, bounds>>
  BY DEF LookupBody
<1>2. Goes(r, "rmbody") \/ Goes(r, "open") \/ Missed(r) \/ (req[r].phase = 3 /\ Goes(r, "fetch"))
  BY RowFacts DEF LookupBody
<1>3. CASE Goes(r, "rmbody")
  BY <1>1, <1>3, GoesStep DEF Free, Inside
<1>4. CASE Goes(r, "open")
  BY <1>1, <1>4, GoesStep DEF Free, Inside
<1>5. CASE Missed(r)
  BY <1>1, <1>5, MissedStep
<1>6. CASE req[r].phase = 3 /\ Goes(r, "fetch")
  <2> DEFINE v == [req[r] EXCEPT !.pc = "fetch"]
  <2>1. req' = [req EXCEPT ![r] = v]
    BY <1>6 DEF Goes
  <2>2. v \in ReqRow
    BY RowFacts DEF ReqRow, Inside
  <2>3. /\ v.pc = "fetch" /\ v.phase = 3 /\ v.entry = req[r].entry /\ v.got = req[r].got
        /\ v.state = req[r].state /\ v.lock = req[r].lock
    BY <1>6, RowFacts DEF ReqRow
  <2> HIDE DEF v
  <2>4. StepOK(v) /\ StoreReq(v) /\ (Critical(v) <=> Critical(req[r]))
    BY <1>1, <1>6, <2>3, RowFacts DEF StepOK, StoreReq, Critical, Free, Inside
  <2>5. asked' = asked /\ UNCHANGED <<origin, disk, mutex, history>>
    BY <1>1 DEF bounds
  <2> QED BY <1>1, <2>1, <2>2, <2>3, <2>4, <2>5, RowFacts, QuietStep
<1> QED BY <1>2, <1>3, <1>4, <1>5, <1>6

(* What is left to show when a step of one request changes the files.       *)
LEMMA FileStep ==
  ASSUME IInv, NEW r \in Reqs, NEW v \in ReqRow, StepOK(v),
         req' = [req EXCEPT ![r] = v],
         v.lock = req[r].lock, Critical(v) <=> Critical(req[r]), v.pc # "idle",
         req[r].pc # "idle", UNCHANGED <<origin, mutex, history, bounds>>,
         body' \in {None} \cup Versions, meta' \in {None} \cup Metadata,
         crossed \/ meta' = None \/ meta'.of = meta'.tag,
         \A s \in Reqs : s # r /\ req[s].pc = "json" => body' \in {None, req[s].got},
         \A s \in Reqs : s # r /\ req[s].phase = 3 /\ req[s].pc \in {"stat", "fetch", "refresh"}
                         /\ req[s].entry # None =>
                           torn \/ crossed \/ body' \in {None, req[s].entry.of},
         crossed \/ v.entry = None \/ v.entry.of = v.entry.tag,
         v.pc \notin {"stat", "refresh"},
         v.pc = "fetch" => v.entry = None,
         v.pc = "json" => body' = v.got,
         \/ torn \/ crossed \/ body' = None \/ meta' = None \/ v.pc = "json"
         \/ body' = meta'.of /\ body' = meta'.tag
         \/ req[r].pc # "json" /\ body' = body /\ meta' = meta
  PROVE  IInv'
<1>1. asked' = asked /\ torn' = torn /\ crossed' = crossed /\ crossed' \in BOOLEAN
      /\ UNCHANGED <<origin, mutex, torn>>
  BY DEF bounds, history, IInv, Types
<1>2. /\ Types' /\ StepInv' /\ LockInv'
      /\ req'[r] = v /\ \A s \in Reqs : s # r => req'[s] = req[s]
  BY <1>1, RowFacts, InnerStep
<1>3. (\A s \in Reqs : StoreReq(req[s]))'
  <2> SUFFICES ASSUME NEW s \in Reqs PROVE StoreReq(req[s])'
    OBVIOUS
  <2>1. CASE s = r
    BY <2>1, <1>1, <1>2 DEF StoreReq
  <2>2. CASE s # r
    <3>1. req'[s] = req[s] /\ StoreReq(req[s])
      BY <2>2, <1>2 DEF IInv, StoreInv
    <3> QED BY <2>2, <3>1, <1>1 DEF StoreReq
  <2> QED BY <2>1, <2>2
<1>4. StoredTogether'
  <2>1. CASE \/ torn \/ crossed \/ body' = None \/ meta' = None \/ v.pc = "json"
             \/ body' = meta'.of /\ body' = meta'.tag
    BY <2>1, <1>1, <1>2 DEF StoredTogether
  <2>2. CASE req[r].pc # "json" /\ body' = body /\ meta' = meta
    <3>1. \A s \in Reqs : req[s].pc = "json" => req'[s].pc = "json"
      BY <2>2, <1>2
    <3>2. StoredTogether
      BY DEF IInv, StoreInv
    <3> QED BY <2>2, <3>1, <3>2, <1>1 DEF StoredTogether
  <2> QED BY <2>1, <2>2
<1>5. StoreInv'
  BY <1>1, <1>3, <1>4 DEF StoreInv
<1> QED BY <1>2, <1>5 DEF IInv

LEMMA RemoveBodyStep ==
  ASSUME IInv, NEW r \in Reqs, RemoveBody(r)
  PROVE  IInv'
<1> DEFINE v == [req[r] EXCEPT !.pc = "rmmeta"]
<1>1. req[r].pc = "rmbody" /\ body' = None /\ meta' = meta /\ req' = [req EXCEPT ![r] = v]
      /\ UNCHANGED <<origin, mutex, history, bounds>>
  BY DEF RemoveBody, Goes
<1>2. v \in ReqRow
  BY RowFacts DEF ReqRow, Free
<1>3. /\ v.pc = "rmmeta" /\ v.phase = req[r].phase /\ v.entry = req[r].entry
      /\ v.got = req[r].got
      /\ v.state = req[r].state /\ v.lock = req[r].lock
  BY RowFacts DEF ReqRow
<1> HIDE DEF v
<1>4. StepOK(v) /\ (Critical(v) <=> Critical(req[r]))
  BY <1>1, <1>3, RowFacts DEF StepOK, Critical, Free, Inside
<1>5. meta' \in {None} \cup Metadata /\ (crossed \/ meta' = None \/ meta'.of = meta'.tag)
  BY <1>1 DEF IInv, Types, StoreInv
<1>6. crossed \/ v.entry = None \/ v.entry.of = v.entry.tag
  BY <1>3, RowFacts DEF StoreReq
<1> QED BY <1>1, <1>2, <1>3, <1>4, <1>5, <1>6, FileStep

LEMMA RemoveMetaStep ==
  ASSUME IInv, NEW r \in Reqs, RemoveMeta(r)
  PROVE  IInv'
<1> DEFINE v == MissedRow(req[r])
<1> HIDE DEF v
<1>1. req[r].pc = "rmmeta" /\ body' = body /\ meta' = None /\ Missed(r)
      /\ UNCHANGED <<origin, mutex, history, bounds>>
  BY DEF RemoveMeta
<1>2. /\ req' = [req EXCEPT ![r] = v] /\ v \in ReqRow /\ StepOK(v)
      /\ v.lock = req[r].lock /\ (Critical(v) <=> Critical(req[r]))
      /\ v.entry = None /\ v.pc \in {"acquire", "meta", "fetch"}
  BY <1>1, MissedFacts DEF v
<1>3. body' \in {None} \cup Versions
  BY <1>1 DEF IInv, Types
<1>4. \A s \in Reqs : StoreReq(req[s])
  BY DEF IInv, StoreInv
<1> QED BY <1>1, <1>2, <1>3, <1>4, FileStep DEF StoreReq

LEMMA ServeStep ==
  ASSUME IInv, NEW r \in Reqs, Serve(r)
  PROVE  IInv'
<1>1. req[r].pc = "open" /\ UNCHANGED <<origin, disk, mutex, history, bounds>>
  BY DEF Serve
<1>2. \/ Goes(r, "rmbody") \/ (req[r].phase = 1 /\ Goes(r, "idle"))
      \/ (req[r].phase # 1 /\ Goes(r, "unlock"))
  BY RowFacts DEF Serve, StepOK
<1>3. CASE Goes(r, "rmbody")
  BY <1>1, <1>3, GoesStep DEF Free, Inside
<1>4. CASE req[r].phase = 1 /\ Goes(r, "idle")
  BY <1>1, <1>4, GoesStep DEF Free, Inside
<1>5. CASE req[r].phase # 1 /\ Goes(r, "unlock")
  BY <1>1, <1>5, GoesStep DEF Free, Inside
<1> QED BY <1>2, <1>3, <1>4, <1>5

(* The steps at the origin that only lead on.                               *)
LEMMA FetchSteps ==
  ASSUME IInv, NEW r \in Reqs,
         writeMapUnavailable(r) \/ Bypass(r) \/ Receive(r) \/ Abort(r)
  PROVE  IInv'
<1>1. UNCHANGED <<origin, disk, mutex, history, bounds>>
  BY DEF writeMapUnavailable, Bypass, Receive, Abort
<1>2. CASE Receive(r)
  <2>1. req[r].pc = "receive" /\ Goes(r, "body")
    BY <1>2 DEF Receive
  <2>2. req[r].got \in Versions /\ req[r].phase # 1
    BY <2>1, RowFacts DEF StepOK, Free
  <2> QED BY <1>1, <2>1, <2>2, GoesStep DEF Free, Inside
<1>3. CASE writeMapUnavailable(r) \/ Bypass(r) \/ Abort(r)
  <2>1. req[r].pc \in {"fetch", "receive"} /\ Goes(r, "unlock")
    BY <1>3 DEF writeMapUnavailable, Bypass, Abort
  <2>2. req[r].phase # 1
    BY <2>1, RowFacts DEF StepOK, Free
  <2> QED BY <1>1, <2>1, <2>2, GoesStep DEF Free, Inside
<1> QED BY <1>2, <1>3

LEMMA ServeStaleStep ==
  ASSUME IInv, NEW r \in Reqs, ServeStale(r)
  PROVE  IInv'
<1> DEFINE v == [req[r] EXCEPT !.pc = "open", !.state = "STALE"]
<1>1. req[r].pc = "fetch" /\ UNCHANGED <<origin, disk, mutex, history, bounds>>
  BY DEF ServeStale
<1>2. req' = [req EXCEPT ![r] = v]
  <2>1. req = [s \in Reqs |-> req[s]]
    BY DEF IInv, Types
  <2> QED BY <2>1 DEF ServeStale
<1>3. v \in ReqRow
  BY RowFacts DEF ReqRow, Inside
<1>4. /\ v.pc = "open" /\ v.phase = req[r].phase /\ v.entry = req[r].entry /\ v.got = req[r].got
      /\ v.state = "STALE" /\ v.lock = req[r].lock
  BY RowFacts DEF ReqRow
<1> HIDE DEF v
<1>5. StepOK(v) /\ StoreReq(v) /\ (Critical(v) <=> Critical(req[r]))
  BY <1>1, <1>4, RowFacts DEF StepOK, StoreReq, Critical, Free, Inside
<1>6. asked' = asked /\ UNCHANGED <<origin, disk, mutex, history>>
  BY <1>1 DEF bounds
<1> QED BY <1>1, <1>2, <1>3, <1>4, <1>5, <1>6, RowFacts, QuietStep

LEMMA BeginStep ==
  ASSUME IInv, NEW r \in Reqs, Begin(r)
  PROVE  IInv'
<1> DEFINE v == [req[r] EXCEPT !.pc = "receive", !.got = origin]
<1>1. req[r].pc = "fetch" /\ UNCHANGED <<origin, disk, mutex, history, bounds>>
  BY DEF Begin
<1>2. req' = [req EXCEPT ![r] = v]
  <2>1. req = [s \in Reqs |-> req[s]]
    BY DEF IInv, Types
  <2> QED BY <2>1 DEF Begin
<1>3. origin \in Versions
  BY DEF IInv, Types
<1>4. v \in ReqRow
  BY <1>3, RowFacts DEF ReqRow, Inside
<1>5. /\ v.pc = "receive" /\ v.phase = req[r].phase /\ v.entry = req[r].entry /\ v.got = origin
      /\ v.state = req[r].state /\ v.lock = req[r].lock
  BY RowFacts DEF ReqRow
<1> HIDE DEF v
<1>6. StepOK(v) /\ StoreReq(v) /\ (Critical(v) <=> Critical(req[r]))
  BY <1>1, <1>3, <1>5, RowFacts DEF StepOK, StoreReq, Critical, Free, Inside
<1>7. asked' = asked /\ UNCHANGED <<origin, disk, mutex, history>>
  BY <1>1 DEF bounds
<1> QED BY <1>1, <1>2, <1>4, <1>5, <1>6, <1>7, RowFacts, QuietStep

LEMMA NotModifiedStep ==
  ASSUME IInv, NEW r \in Reqs, NotModified(r)
  PROVE  IInv'
<1>1. req[r].pc = "fetch" /\ UNCHANGED <<origin, disk, mutex, torn, bounds>>
  BY DEF NotModified
<1>2. CASE req[r].entry = None
  <2>1. Goes(r, "unlock") /\ UNCHANGED <<origin, disk, mutex, history, bounds>>
    BY <1>1, <1>2 DEF NotModified, history
  <2>2. req[r].phase # 1
    BY <1>1, RowFacts DEF StepOK, Free
  <2> QED BY <1>1, <2>1, <2>2, GoesStep DEF Free, Inside
<1>3. CASE req[r].entry # None
  <2> DEFINE v == [req[r] EXCEPT !.pc = "refresh", !.got = origin]
  <2>1. req' = [req EXCEPT ![r] = v]
    <3>1. req = [s \in Reqs |-> req[s]]
      BY DEF IInv, Types
    <3> QED BY <3>1, <1>3 DEF NotModified
  <2>2. /\ crossed' = (crossed \/ req[r].entry.tag # origin) /\ torn' = torn
        /\ body' = body /\ meta' = meta
    BY <1>1, <1>3 DEF NotModified, disk
  <2>3. origin \in Versions
    BY DEF IInv, Types
  <2>4. v \in ReqRow
    BY <2>3, RowFacts DEF ReqRow, Inside
  <2>5. /\ v.pc = "refresh" /\ v.phase = req[r].phase /\ v.entry = req[r].entry
        /\ v.got = origin /\ v.state = req[r].state /\ v.lock = req[r].lock
    BY RowFacts DEF ReqRow
  <2> HIDE DEF v
  <2>6. StepOK(v) /\ (Critical(v) <=> Critical(req[r]))
    BY <1>1, <1>3, <2>3, <2>5, RowFacts DEF StepOK, Critical, Free, Inside
  <2>7. asked' = asked /\ UNCHANGED <<origin, mutex, torn>> /\ crossed' \in BOOLEAN
        /\ body' \in {None} \cup Versions /\ meta' \in {None} \cup Metadata
    <3>1. crossed' \in BOOLEAN
      BY <2>2, Zenon
    <3> QED BY <3>1, <2>2, <1>1 DEF bounds, IInv, Types
  <2>8. /\ Types' /\ StepInv' /\ LockInv'
        /\ req'[r] = v /\ \A s \in Reqs : s # r => req'[s] = req[s]
    BY <1>1, <2>1, <2>4, <2>5, <2>6, <2>7, RowFacts, InnerStep
  <2>9. (crossed => crossed') /\ (crossed' \/ req[r].entry.tag = origin)
    BY <2>2
  <2>10. (\A s \in Reqs : StoreReq(req[s]))'
    <3> SUFFICES ASSUME NEW s \in Reqs PROVE StoreReq(req[s])'
      OBVIOUS
    <3>1. CASE s = r
      BY <3>1, <1>1, <2>2, <2>5, <2>8, <2>9, RowFacts DEF StoreReq
    <3>2. CASE s # r
      <4>1. req'[s] = req[s] /\ StoreReq(req[s])
        BY <3>2, <2>8 DEF IInv, StoreInv
      <4> QED BY <4>1, <2>2, <2>9 DEF StoreReq
    <3> QED BY <3>1, <3>2
  <2>11. StoredTogether'
    <3>1. \A s \in Reqs : req[s].pc = "json" => req'[s].pc = "json"
      BY <1>1, <2>8
    <3>2. StoredTogether
      BY DEF IInv, StoreInv
    <3> QED BY <3>1, <3>2, <2>2, <2>9 DEF StoredTogether
  <2>12. (crossed \/ meta = None \/ meta.of = meta.tag)'
    BY <2>2, <2>9 DEF IInv, StoreInv
  <2> QED BY <2>8, <2>10, <2>11, <2>12 DEF IInv, StoreInv
<1> QED BY <1>2, <1>3

LEMMA RevalidateStep ==
  ASSUME IInv, NEW r \in Reqs, Revalidate(r)
  PROVE  IInv'
<1> DEFINE v == [req[r] EXCEPT !.pc = "open", !.state = "REVALIDATED"]
           q == req[r]
<1>1. req[r].pc = "refresh" /\ body' = body /\ UNCHANGED <<origin, mutex, history, bounds>>
  BY DEF Revalidate
<1>2. req' = [req EXCEPT ![r] = v]
  <2>1. req = [s \in Reqs |-> req[s]]
    BY DEF IInv, Types
  <2> QED BY <2>1 DEF Revalidate
<1>3. v \in ReqRow
  BY RowFacts DEF ReqRow, Inside
<1>4. /\ v.pc = "open" /\ v.phase = req[r].phase /\ v.entry = req[r].entry /\ v.got = req[r].got
      /\ v.state = "REVALIDATED" /\ v.lock = req[r].lock
  BY RowFacts DEF ReqRow
<1> HIDE DEF v
<1>5. StepOK(v) /\ (Critical(v) <=> Critical(req[r]))
  BY <1>1, <1>4, RowFacts DEF StepOK, Critical, Free, Inside
<1>6. q.entry \in Metadata /\ q.got \in Versions /\ q.phase = 3
  BY <1>1, RowFacts DEF StepOK
<1>7. /\ crossed \/ q.entry.of = q.entry.tag
      /\ crossed \/ q.got = q.entry.tag
      /\ torn \/ crossed \/ body = None \/ body = q.entry.of
  BY <1>1, <1>6, RowFacts, MapCacheAssumption DEF StoreReq
<1>8. /\ meta' \in {None} \cup Metadata /\ (crossed \/ meta' = None \/ meta'.of = meta'.tag)
      /\ \/ torn \/ crossed \/ body = None \/ meta' = None
         \/ body = meta'.of /\ body = meta'.tag
         \/ meta' = meta
  <2>1. CASE meta' = meta
    BY <2>1 DEF IInv, Types, StoreInv
  <2>2. CASE \E tag \in {q.got, q.entry.tag} : meta' = [q.entry EXCEPT !.age = "fresh", !.tag = tag]
    <3> PICK tag \in {q.got, q.entry.tag} : meta' = [q.entry EXCEPT !.age = "fresh", !.tag = tag]
      BY <2>2
    <3>1. tag \in Versions /\ (crossed \/ tag = q.entry.tag)
      BY <1>6, <1>7 DEF Metadata
    <3>2. meta' \in Metadata /\ meta'.of = q.entry.of /\ meta'.tag = tag
      BY <3>1, <1>6 DEF Metadata
    <3> QED BY <3>1, <3>2, <1>7
  <2> QED BY <2>1, <2>2 DEF Revalidate
<1>9. body' \in {None} \cup Versions
  BY <1>1 DEF IInv, Types
<1>10. \A s \in Reqs : StoreReq(req[s])
  BY DEF IInv, StoreInv
<1>11. \A s \in Reqs : req[s].pc = "json" => body' \in {None, req[s].got}
  BY <1>1, <1>10 DEF StoreReq
<1>12. \A s \in Reqs : req[s].phase = 3 /\ req[s].pc \in {"stat", "fetch", "refresh"}
                       /\ req[s].entry # None =>
                         torn \/ crossed \/ body' \in {None, req[s].entry.of}
  BY <1>1, <1>10 DEF StoreReq
<1>13. crossed \/ v.entry = None \/ v.entry.of = v.entry.tag
  BY <1>4, <1>7
<1>14. \/ torn \/ crossed \/ body' = None \/ meta' = None \/ v.pc = "json"
       \/ body' = meta'.of /\ body' = meta'.tag
       \/ req[r].pc # "json" /\ body' = body /\ meta' = meta
  BY <1>1, <1>8
<1>15. v.lock = req[r].lock /\ v.pc \notin {"idle", "stat", "refresh", "fetch", "json"}
       /\ req[r].pc # "idle"
  BY <1>1, <1>4
<1> HIDE DEF q
<1> QED
  BY <1>1, <1>2, <1>3, <1>5, <1>8, <1>9, <1>11, <1>12, <1>13, <1>14, <1>15, FileStep

LEMMA CommitBodyStep ==
  ASSUME IInv, NEW r \in Reqs, CommitBody(r)
  PROVE  IInv'
<1> DEFINE v == [req[r] EXCEPT !.pc = "json"]
<1>1. req[r].pc = "body" /\ body' = req[r].got /\ meta' = meta /\ req' = [req EXCEPT ![r] = v]
      /\ UNCHANGED <<origin, mutex, history, bounds>>
  BY DEF CommitBody, Goes
<1>2. v \in ReqRow
  BY RowFacts DEF ReqRow, Inside
<1>3. /\ v.pc = "json" /\ v.phase = req[r].phase /\ v.entry = req[r].entry /\ v.got = req[r].got
      /\ v.state = req[r].state /\ v.lock = req[r].lock
  BY RowFacts DEF ReqRow
<1> HIDE DEF v
<1>4. StepOK(v) /\ (Critical(v) <=> Critical(req[r]))
  BY <1>1, <1>3, RowFacts DEF StepOK, Critical, Free, Inside
<1>5. req[r].got \in Versions
  BY <1>1, RowFacts DEF StepOK
<1>6. meta' \in {None} \cup Metadata /\ (crossed \/ meta' = None \/ meta'.of = meta'.tag)
  BY <1>1 DEF IInv, Types, StoreInv
<1>7. crossed \/ v.entry = None \/ v.entry.of = v.entry.tag
  BY <1>3, RowFacts DEF StoreReq
<1>8. \A s \in Reqs : s # r => /\ req[s].pc # "json"
                               /\ ~(req[s].phase = 3 /\ req[s].pc \in {"stat", "fetch", "refresh"})
  <2> SUFFICES ASSUME NEW s \in Reqs, s # r PROVE ~Critical(req[s])
    BY PastIsCritical DEF IInv
  <2>1. Critical(req[r])
    BY <1>1, PastIsCritical DEF IInv
  <2> QED BY <2>1, Exclusive DEF IInv
<1> QED BY <1>1, <1>2, <1>3, <1>4, <1>5, <1>6, <1>7, <1>8, FileStep

LEMMA CommitMetaStep ==
  ASSUME IInv, NEW r \in Reqs, CommitMeta(r)
  PROVE  IInv'
<1> DEFINE v == [req[r] EXCEPT !.pc = "unlock"]
           m == [of |-> req[r].got, tag |-> req[r].got, age |-> "fresh"]
<1>1. req[r].pc = "json" /\ req' = [req EXCEPT ![r] = v]
      /\ UNCHANGED <<origin, mutex, history, bounds>>
  BY DEF CommitMeta, Goes
<1>2. v \in ReqRow
  BY RowFacts DEF ReqRow, Inside
<1>3. /\ v.pc = "unlock" /\ v.phase = req[r].phase /\ v.entry = req[r].entry
      /\ v.got = req[r].got
      /\ v.state = req[r].state /\ v.lock = req[r].lock
  BY RowFacts DEF ReqRow
<1> HIDE DEF v
<1>4. StepOK(v) /\ (Critical(v) <=> Critical(req[r]))
  BY <1>1, <1>3, RowFacts DEF StepOK, Critical, Free, Inside
<1>5. req[r].got \in Versions
  BY <1>1, RowFacts DEF StepOK
<1>6. m \in Metadata /\ m.of = req[r].got /\ m.tag = req[r].got
  BY <1>5 DEF Metadata
<1>7. body \in {None, req[r].got}
  BY <1>1, RowFacts DEF StoreReq
<1>8. \/ meta' = m /\ body' = body
      \/ meta' = None /\ body' = None
  BY DEF CommitMeta
<1> HIDE DEF m
<1>9. /\ meta' \in {None} \cup Metadata /\ body' \in {None} \cup Versions
      /\ meta' = None \/ meta'.of = meta'.tag
      /\ body' = None \/ meta' = None \/ (body' = meta'.of /\ body' = meta'.tag)
  BY <1>5, <1>6, <1>7, <1>8
<1>10. crossed \/ v.entry = None \/ v.entry.of = v.entry.tag
  BY <1>3, RowFacts DEF StoreReq
<1>11. \A s \in Reqs : StoreReq(req[s])
  BY DEF IInv, StoreInv
<1>12. /\ \A s \in Reqs : req[s].pc = "json" => body' \in {None, req[s].got}
       /\ \A s \in Reqs : req[s].phase = 3 /\ req[s].pc \in {"stat", "fetch", "refresh"}
                          /\ req[s].entry # None =>
                            torn \/ crossed \/ body' \in {None, req[s].entry.of}
  BY <1>8, <1>11 DEF StoreReq
<1>13. v.lock = req[r].lock /\ v.pc \notin {"idle", "stat", "refresh", "fetch", "json"}
       /\ req[r].pc # "idle"
  BY <1>1, <1>3
<1> QED BY <1>1, <1>2, <1>4, <1>9, <1>10, <1>12, <1>13, FileStep

-----------------------------------------------------------------------------
(* The operations on the lock. *)

(* Acquiring takes the object in the map or one that nobody uses or holds.  *)
LEMMA FreeObject ==
  ASSUME IInv, asked > 0, locks = 0
  PROVE  \E n \in Objects : refs[n] = 0 /\ holder[n] = None
<1>1. 1 \in Objects
  BY MapCacheAssumption DEF IInv, Types, Objects
<1>2. refs[1] \in Nat /\ ~(refs[1] > 0)
  BY <1>1 DEF IInv, Types, LockInv
<1>3. holder[1] = None
  <2> SUFFICES ASSUME holder[1] # None PROVE FALSE
    OBVIOUS
  <2>1. holder[1] \in Reqs /\ req[holder[1]].lock = 1
    BY <1>1 DEF IInv, Types, LockInv
  <2> QED BY <2>1 DEF IInv, LockInv
<1> QED BY <1>1, <1>2, <1>3

LEMMA UsersFinite ==
  ASSUME NEW l PROVE IsFiniteSet(LockUsers(l)) /\ IsFiniteSet(LockUsers(l)')
<1>1. LockUsers(l) \in SUBSET Reqs /\ LockUsers(l)' \in SUBSET Reqs
  BY DEF LockUsers
<1> QED BY <1>1, FS_Subset, MapCacheAssumption

LEMMA AcquireStep ==
  ASSUME IInv, NEW r \in Reqs, Acquire(r)
  PROVE  IInv'
<1>1. req[r].pc = "acquire" /\ holder' = holder /\ UNCHANGED <<origin, disk, history, bounds>>
  BY DEF Acquire
<1>2. PICK l \in Objects :
        /\ locks \in {0, l} /\ locks' = l /\ refs' = [refs EXCEPT ![l] = @ + 1]
        /\ req' = [req EXCEPT ![r].pc = "wait", ![r].lock = l]
  <2> DEFINE k == IF locks # 0 THEN locks
                  ELSE CHOOSE n \in Objects : refs[n] = 0 /\ holder[n] = None
  <2>1. /\ locks' = k /\ refs' = [refs EXCEPT ![k] = @ + 1]
        /\ req' = [req EXCEPT ![r].pc = "wait", ![r].lock = k]
    BY DEF Acquire
  <2>2. k \in Objects /\ locks \in {0, k}
    <3>1. CASE locks # 0
      BY <3>1, MapCacheAssumption DEF IInv, Types, Objects
    <3>2. CASE locks = 0
      BY <3>2, <1>1, RowFacts, FreeObject
    <3> QED BY <3>1, <3>2
  <2> HIDE DEF k
  <2> QED BY <2>1, <2>2
<1> DEFINE v == [req[r] EXCEPT !.pc = "wait", !.lock = l]
<1>3. req' = [req EXCEPT ![r] = v]
  <2>1. req = [s \in Reqs |-> req[s]]
    BY DEF IInv, Types
  <2> QED BY <2>1, <1>2
<1>4. v \in ReqRow
  <2>1. l \in 0..MaxReqs
    BY MapCacheAssumption DEF Objects
  <2> QED BY <2>1, RowFacts DEF ReqRow, Free
<1>5. /\ v.pc = "wait" /\ v.phase = req[r].phase /\ v.entry = req[r].entry /\ v.got = req[r].got
      /\ v.state = req[r].state /\ v.lock = l
  BY RowFacts DEF ReqRow
<1> HIDE DEF v
<1>6. l # 0 /\ l \in 0..MaxReqs
  BY MapCacheAssumption DEF Objects
<1>7. req[r].phase = 1 /\ req[r].lock = 0
  BY <1>1, RowFacts DEF StepOK, Inside
<1>8. StepOK(v) /\ ~Critical(v) /\ ~Critical(req[r]) /\ StoreReq(v)
  BY <1>1, <1>5, <1>6, <1>7, RowFacts DEF StepOK, Critical, StoreReq, Free
<1>9. asked' = asked
  BY <1>1 DEF bounds
<1>10. /\ req' \in [Reqs -> ReqRow] /\ req'[r] = v
       /\ \A s \in Reqs : s # r => req'[s] = req[s]
       /\ StepInv'
  BY <1>1, <1>3, <1>4, <1>8, <1>9, RowFacts, RowStep DEF IInv
<1>11. StoreInv'
  BY <1>1, <1>4, <1>8, <1>10, StoreKept DEF IInv
<1>12. Types'
  <2>1. refs' \in [Objects -> Nat]
    BY <1>2 DEF IInv, Types
  <2> QED BY <1>1, <1>2, <1>6, <1>9, <1>10, <2>1 DEF IInv, Types, disk, history
<1>13. LockInv'
  <2>1. LockUsers(l)' = LockUsers(l) \cup {r} /\ r \notin LockUsers(l)
    BY <1>5, <1>6, <1>7, <1>10 DEF LockUsers
  <2>2. \A m \in Objects : m # l => LockUsers(m)' = LockUsers(m)
    <3> SUFFICES ASSUME NEW m \in Objects, m # l PROVE LockUsers(m)' = LockUsers(m)
      OBVIOUS
    <3>1. m # 0
      BY MapCacheAssumption DEF Objects
    <3>2. \A s \in Reqs : req'[s].lock = m <=> req[s].lock = m
      BY <1>5, <1>7, <1>10, <3>1
    <3> QED BY <3>2 DEF LockUsers
  <2>3. Cardinality(LockUsers(l)') = Cardinality(LockUsers(l)) + 1
    BY <2>1, UsersFinite, FS_AddElement
  <2>4. refs \in [Objects -> Nat] /\ \A m \in Objects : refs[m] = Cardinality(LockUsers(m))
    BY DEF IInv, Types, LockInv
  <2>5. refs'[l] = refs[l] + 1 /\ \A m \in Objects : m # l => refs'[m] = refs[m]
    BY <1>2, <2>4
  <2>6. (\A m \in Objects : refs[m] = Cardinality(LockUsers(m)))'
    BY <2>2, <2>3, <2>4, <2>5
  <2>7. (\A m \in Objects : refs[m] > 0 => locks = m)'
    <3>1. \A m \in Objects : m # l => ~(refs[m] > 0)
      <4>1. \A m \in Objects : m # 0
        BY MapCacheAssumption DEF Objects
      <4> QED BY <1>2, <4>1 DEF IInv, LockInv
    <3> QED BY <1>2, <2>5, <3>1
  <2>8. (\A s \in Reqs : req[s].lock # 0 => req[s].lock = locks)'
    BY <1>2, <1>5, <1>10 DEF IInv, LockInv
  <2>9. (\A s \in Reqs : Critical(req[s]) => holder[req[s].lock] = s)'
    <3>1. \A s \in Reqs : Critical(req'[s]) => holder[req'[s].lock] = s
      BY <1>8, <1>10 DEF IInv, LockInv
    <3> QED BY <3>1, <1>1 DEF Critical
  <2>10. (\A m \in Objects : holder[m] # None =>
            /\ req[holder[m]].lock = m /\ Critical(req[holder[m]]))'
    <3>1. \A m \in Objects : holder[m] # None =>
            /\ req'[holder[m]].lock = m /\ Critical(req'[holder[m]])
      <4> SUFFICES ASSUME NEW m \in Objects, holder[m] # None
                   PROVE  req'[holder[m]].lock = m /\ Critical(req'[holder[m]])
        OBVIOUS
      <4>1. holder[m] \in Reqs /\ req[holder[m]].lock = m /\ Critical(req[holder[m]])
        BY DEF IInv, Types, LockInv
      <4>2. holder[m] # r
        BY <4>1, <1>8
      <4> QED BY <4>1, <4>2, <1>10
    <3> QED BY <3>1, <1>1 DEF Critical
  <2> QED BY <2>6, <2>7, <2>8, <2>9, <2>10 DEF LockInv
<1> QED BY <1>10, <1>11, <1>12, <1>13 DEF IInv

LEMMA LockStep ==
  ASSUME IInv, NEW r \in Reqs, Lock(r)
  PROVE  IInv'
<1> DEFINE l == req[r].lock
           v == [req[r] EXCEPT !.pc = "meta", !.phase = 2]
<1>1. /\ req[r].pc = "wait" /\ holder[l] = None /\ holder' = [holder EXCEPT ![l] = r]
      /\ locks' = locks /\ refs' = refs /\ UNCHANGED <<origin, disk, history, bounds>>
  BY DEF Lock
<1>2. req' = [req EXCEPT ![r] = v]
  <2>1. req = [s \in Reqs |-> req[s]]
    BY DEF IInv, Types
  <2> QED BY <2>1 DEF Lock
<1>3. v \in ReqRow
  <2>1. 2 \in 1..3 /\ "meta" \in Free
    BY DEF Free
  <2> QED BY <2>1, RowFacts DEF ReqRow
<1>4. /\ v.pc = "meta" /\ v.phase = 2 /\ v.entry = req[r].entry /\ v.got = req[r].got
      /\ v.state = req[r].state /\ v.lock = l
  BY RowFacts DEF ReqRow
<1> HIDE DEF v
<1>5. l # 0 /\ l \in Objects /\ l = locks
  BY <1>1, RowFacts, MapCacheAssumption DEF StepOK, Objects, IInv, LockInv
<1>6. StepOK(v) /\ Critical(v) /\ StoreReq(v)
  BY <1>1, <1>4, <1>5, RowFacts DEF StepOK, Critical, StoreReq, Inside
<1>7. asked' = asked
  BY <1>1 DEF bounds
<1>8. /\ req' \in [Reqs -> ReqRow] /\ req'[r] = v
      /\ \A s \in Reqs : s # r => req'[s] = req[s]
      /\ StepInv'
  BY <1>1, <1>2, <1>3, <1>6, <1>7, RowFacts, RowStep DEF IInv
<1>9. StoreInv'
  BY <1>1, <1>3, <1>6, <1>8, StoreKept DEF IInv
<1>10. Types'
  <2>1. holder' \in [Objects -> Reqs \cup {None}]
    BY <1>1, <1>5 DEF IInv, Types
  <2> QED BY <1>1, <1>7, <1>8, <2>1 DEF IInv, Types, disk, history
<1>11. LockInv'
  <2>1. \A s \in Reqs : req'[s].lock = req[s].lock
    BY <1>4, <1>8
  <2>2. \A m \in Objects : LockUsers(m)' = LockUsers(m)
    BY <2>1 DEF LockUsers
  <2>3. holder'[l] = r /\ \A m \in Objects : m # l => holder'[m] = holder[m]
    BY <1>1, <1>5 DEF IInv, Types
  <2>4. (\A m \in Objects : refs[m] = Cardinality(LockUsers(m)))'
    BY <1>1, <2>2 DEF IInv, LockInv
  <2>5. (\A m \in Objects : refs[m] > 0 => locks = m)'
    BY <1>1 DEF IInv, LockInv
  <2>6. (\A s \in Reqs : req[s].lock # 0 => req[s].lock = locks)'
    BY <1>1, <2>1 DEF IInv, LockInv
  <2>7. (\A s \in Reqs : Critical(req[s]) => holder[req[s].lock] = s)'
    <3>1. \A s \in Reqs : Critical(req'[s]) => holder'[req'[s].lock] = s
      <4> SUFFICES ASSUME NEW s \in Reqs, Critical(req'[s]), s # r
                   PROVE  FALSE
        BY <1>4, <1>8, <2>3
      <4>1. Critical(req[s]) /\ holder[req[s].lock] = s
        BY <1>8 DEF IInv, LockInv
      <4>2. req[s].lock = l
        BY <4>1, <1>5 DEF IInv, StepInv, StepOK, LockInv, Critical
      <4> QED BY <4>1, <4>2, <1>1, MapCacheAssumption
    <3> QED BY <3>1 DEF Critical
  <2>8. (\A m \in Objects : holder[m] # None =>
           /\ req[holder[m]].lock = m /\ Critical(req[holder[m]]))'
    <3>1. \A m \in Objects : holder'[m] # None =>
            /\ req'[holder'[m]].lock = m /\ Critical(req'[holder'[m]])
      <4> SUFFICES ASSUME NEW m \in Objects, holder'[m] # None
                   PROVE  req'[holder'[m]].lock = m /\ Critical(req'[holder'[m]])
        OBVIOUS
      <4>1. CASE m = l
        BY <4>1, <2>3, <1>4, <1>6, <1>8
      <4>2. CASE m # l
        <5>1. holder[m] \in Reqs /\ req[holder[m]].lock = m
          BY <4>2, <2>3 DEF IInv, Types, LockInv
        <5>2. m # 0 /\ m = locks
          BY <5>1, MapCacheAssumption DEF Objects, IInv, LockInv
        <5> QED BY <4>2, <5>2, <1>5
      <4> QED BY <4>1, <4>2
    <3> QED BY <3>1 DEF Critical
  <2> QED BY <2>4, <2>5, <2>6, <2>7, <2>8 DEF LockInv
<1> QED BY <1>8, <1>9, <1>10, <1>11 DEF IInv

LEMMA UnlockStep ==
  ASSUME IInv, NEW r \in Reqs, Unlock(r)
  PROVE  IInv'
<1> DEFINE l == req[r].lock
           v == [req[r] EXCEPT !.pc = "unref"]
<1>1. /\ req[r].pc = "unlock" /\ holder' = [holder EXCEPT ![l] = None]
      /\ req' = [req EXCEPT ![r] = v]
      /\ locks' = locks /\ refs' = refs /\ UNCHANGED <<origin, disk, history, bounds>>
  BY DEF Unlock, Goes
<1>2. v \in ReqRow
  BY RowFacts DEF ReqRow, Free
<1>3. /\ v.pc = "unref" /\ v.phase = req[r].phase /\ v.entry = req[r].entry
      /\ v.got = req[r].got
      /\ v.state = req[r].state /\ v.lock = l
  BY RowFacts DEF ReqRow
<1> HIDE DEF v
<1>4. Critical(req[r]) /\ l \in Objects /\ l # 0 /\ l = locks
  <2>1. Critical(req[r]) /\ l \in Objects
    BY <1>1, PastIsCritical DEF IInv
  <2>2. l # 0
    BY <2>1, MapCacheAssumption DEF Objects
  <2> QED BY <2>1, <2>2 DEF IInv, LockInv
<1>5. StepOK(v) /\ ~Critical(v) /\ StoreReq(v)
  BY <1>1, <1>3, RowFacts DEF StepOK, Critical, StoreReq, Free
<1>6. asked' = asked
  BY <1>1 DEF bounds
<1>7. /\ req' \in [Reqs -> ReqRow] /\ req'[r] = v
      /\ \A s \in Reqs : s # r => req'[s] = req[s]
      /\ StepInv'
  BY <1>1, <1>2, <1>5, <1>6, RowFacts, RowStep DEF IInv
<1>8. StoreInv'
  BY <1>1, <1>2, <1>5, <1>7, StoreKept DEF IInv
<1>9. Types'
  <2>1. holder' \in [Objects -> Reqs \cup {None}]
    BY <1>1, <1>4 DEF IInv, Types
  <2> QED BY <1>1, <1>6, <1>7, <2>1 DEF IInv, Types, disk, history
<1>10. LockInv'
  <2>1. \A s \in Reqs : req'[s].lock = req[s].lock
    BY <1>3, <1>7
  <2>2. \A m \in Objects : LockUsers(m)' = LockUsers(m)
    BY <2>1 DEF LockUsers
  <2>3. holder'[l] = None /\ \A m \in Objects : m # l => holder'[m] = holder[m]
    BY <1>1, <1>4 DEF IInv, Types
  <2>4. (\A m \in Objects : refs[m] = Cardinality(LockUsers(m)))'
    BY <1>1, <2>2 DEF IInv, LockInv
  <2>5. (\A m \in Objects : refs[m] > 0 => locks = m)'
    BY <1>1 DEF IInv, LockInv
  <2>6. (\A s \in Reqs : req[s].lock # 0 => req[s].lock = locks)'
    BY <1>1, <2>1 DEF IInv, LockInv
  <2>7. (\A s \in Reqs : Critical(req[s]) => holder[req[s].lock] = s)'
    <3>1. \A s \in Reqs : ~Critical(req'[s])
      <4> SUFFICES ASSUME NEW s \in Reqs, Critical(req'[s]), s # r PROVE FALSE
        BY <1>5, <1>7
      <4>1. Critical(req[s])
        BY <1>7
      <4> QED BY <4>1, <1>4, Exclusive DEF IInv
    <3> QED BY <3>1 DEF Critical
  <2>8. (\A m \in Objects : holder[m] # None =>
           /\ req[holder[m]].lock = m /\ Critical(req[holder[m]]))'
    <3>1. \A m \in Objects : holder'[m] = None
      <4> SUFFICES ASSUME NEW m \in Objects, holder'[m] # None PROVE FALSE
        OBVIOUS
      <4>1. m # l /\ holder[m] # None
        BY <2>3
      <4>2. holder[m] \in Reqs /\ req[holder[m]].lock = m
        BY <4>1 DEF IInv, Types, LockInv
      <4>3. m # 0
        BY MapCacheAssumption DEF Objects
      <4> QED BY <4>1, <4>2, <4>3, <1>4 DEF IInv, LockInv
    <3> QED BY <3>1
  <2> QED BY <2>4, <2>5, <2>6, <2>7, <2>8 DEF LockInv
<1> QED BY <1>7, <1>8, <1>9, <1>10 DEF IInv

LEMMA IdleFacts ==
  /\ Idle \in ReqRow /\ StepOK(Idle) /\ ~Critical(Idle) /\ Idle.lock = 0 /\ Idle.pc = "idle"
  /\ Idle.entry = None
<1>1. /\ Idle.pc = "idle" /\ Idle.phase = 1 /\ Idle.state = "HIT" /\ Idle.lock = 0
      /\ Idle.entry = None
  BY DEF Idle
<1>2. 0 \in 0..MaxReqs /\ 1 \in 1..3 /\ "idle" \in Free
  BY MapCacheAssumption DEF Free
<1>3. Idle \in ReqRow
  BY <1>2 DEF Idle, ReqRow
<1> QED BY <1>1, <1>3 DEF StepOK, Critical, Free

LEMMA UnrefStep ==
  ASSUME IInv, NEW r \in Reqs, Unref(r)
  PROVE  IInv'
<1>1. req[r].pc = "unref" /\ req[r].lock # 0 /\ req[r].lock \in Objects /\ req[r].lock = locks
  <2>1. req[r].pc = "unref"
    BY DEF Unref
  <2>2. req[r].phase > 1 /\ req[r].lock # 0
    BY <2>1, RowFacts DEF StepOK
  <2> QED BY <2>1, <2>2, RowFacts, MapCacheAssumption DEF Objects, IInv, LockInv
<1>2. PICK l \in Objects : l = req[r].lock
  BY <1>1
<1>3. /\ refs' = [refs EXCEPT ![l] = @ - 1] /\ locks' = (IF refs[l] = 1 THEN 0 ELSE locks)
      /\ req' = [req EXCEPT ![r] = Idle] /\ holder' = holder
      /\ UNCHANGED <<origin, disk, history, bounds>>
  BY <1>2 DEF Unref
<1>4. StoreReq(Idle)
  BY IdleFacts DEF StoreReq
<1>5. asked' = asked
  BY <1>3 DEF bounds
<1>6. /\ req' \in [Reqs -> ReqRow] /\ req'[r] = Idle
      /\ \A s \in Reqs : s # r => req'[s] = req[s]
      /\ StepInv'
  BY <1>3, <1>5, IdleFacts, RowStep DEF IInv
<1>7. StoreInv'
  BY <1>1, <1>3, <1>4, <1>6, IdleFacts, StoreKept DEF IInv
<1>8. LockUsers(l)' = LockUsers(l) \ {r} /\ r \in LockUsers(l)
  BY <1>1, <1>2, <1>6, IdleFacts DEF LockUsers
<1>9. /\ Cardinality(LockUsers(l)') = Cardinality(LockUsers(l)) - 1
      /\ Cardinality(LockUsers(l)') = 0 => LockUsers(l)' = {}
  BY <1>8, UsersFinite, FS_RemoveElement, FS_EmptySet
<1>10. Cardinality(LockUsers(l)') \in Nat
  BY UsersFinite, FS_CardinalityType
<1>11. refs \in [Objects -> Nat] /\ \A m \in Objects : refs[m] = Cardinality(LockUsers(m))
  BY DEF IInv, Types, LockInv
<1>12. refs'[l] = Cardinality(LockUsers(l)') /\ \A m \in Objects : m # l => refs'[m] = refs[m]
  BY <1>3, <1>9, <1>11
<1>13. refs' \in [Objects -> Nat]
  BY <1>3, <1>10, <1>11, <1>12
<1>14. Types'
  <2>1. 0 \in 0..MaxReqs
    BY MapCacheAssumption
  <2> QED BY <1>3, <1>5, <1>6, <1>13, <2>1 DEF IInv, Types, disk, history
<1>15. LockInv'
  <2>1. \A m \in Objects : m # l => LockUsers(m)' = LockUsers(m)
    <3> SUFFICES ASSUME NEW m \in Objects, m # l PROVE LockUsers(m)' = LockUsers(m)
      OBVIOUS
    <3>1. m # 0
      BY MapCacheAssumption DEF Objects
    <3>2. \A s \in Reqs : req'[s].lock = m <=> req[s].lock = m
      BY <1>2, <1>6, <3>1, IdleFacts
    <3> QED BY <3>2 DEF LockUsers
  <2>2. (\A m \in Objects : refs[m] = Cardinality(LockUsers(m)))'
    BY <2>1, <1>11, <1>12
  <2>3. (\A m \in Objects : refs[m] > 0 => locks = m)'
    <3>1. \A m \in Objects : m # l => ~(refs[m] > 0)
      BY <1>1, <1>2 DEF IInv, LockInv
    <3>2. refs'[l] > 0 => locks' = l
      BY <1>1, <1>2, <1>3, <1>9, <1>11, <1>12
    <3> QED BY <1>12, <3>1, <3>2
  <2>4. (\A s \in Reqs : req[s].lock # 0 => req[s].lock = locks)'
    <3> SUFFICES ASSUME NEW s \in Reqs, req'[s].lock # 0 PROVE req'[s].lock = locks'
      OBVIOUS
    <3>1. s # r /\ req'[s] = req[s] /\ req[s].lock = l
      BY <1>1, <1>2, <1>6, IdleFacts DEF IInv, LockInv
    <3>2. s \in LockUsers(l)'
      BY <3>1 DEF LockUsers
    <3>3. refs[l] # 1
      BY <3>2, <1>9, <1>11
    <3> QED BY <3>1, <3>3, <1>1, <1>2, <1>3
  <2>5. (\A s \in Reqs : Critical(req[s]) => holder[req[s].lock] = s)'
    <3>1. \A s \in Reqs : Critical(req'[s]) => holder[req'[s].lock] = s
      BY <1>6, IdleFacts DEF IInv, LockInv
    <3> QED BY <3>1, <1>3 DEF Critical
  <2>6. (\A m \in Objects : holder[m] # None =>
           /\ req[holder[m]].lock = m /\ Critical(req[holder[m]]))'
    <3>1. \A m \in Objects : holder[m] # None =>
            /\ req'[holder[m]].lock = m /\ Critical(req'[holder[m]])
      <4> SUFFICES ASSUME NEW m \in Objects, holder[m] # None
                   PROVE  req'[holder[m]].lock = m /\ Critical(req'[holder[m]])
        OBVIOUS
      <4>1. holder[m] \in Reqs /\ req[holder[m]].lock = m /\ Critical(req[holder[m]])
        BY DEF IInv, Types, LockInv
      <4>2. holder[m] # r
        BY <4>1, <1>1 DEF Critical
      <4> QED BY <4>1, <4>2, <1>6
    <3> QED BY <3>1, <1>3 DEF Critical
  <2> QED BY <2>2, <2>3, <2>4, <2>5, <2>6 DEF LockInv
<1> QED BY <1>6, <1>7, <1>14, <1>15 DEF IInv

-----------------------------------------------------------------------------
(* The start, the steps of no request, and the theorems. *)
LEMMA StartFacts ==
  ASSUME NEW Q, Q = [r \in Reqs |-> Idle],
         req = Q, locks = 0, refs = [l \in Objects |-> 0], holder = [l \in Objects |-> None]
  PROVE  StepInv /\ LockInv /\ req \in [Reqs -> ReqRow] /\ \A r \in Reqs : req[r] = Idle
<1>1. \A r \in Reqs : req[r] = Idle
  OBVIOUS
<1>2. req \in [Reqs -> ReqRow]
  BY IdleFacts
<1>3. StepInv
  BY <1>1, IdleFacts DEF StepInv
<1>4. \A l \in Objects : LockUsers(l) = {}
  <2> SUFFICES ASSUME NEW l \in Objects PROVE LockUsers(l) = {}
    OBVIOUS
  <2>1. l # 0
    BY MapCacheAssumption DEF Objects
  <2> QED BY <1>1, <2>1, IdleFacts DEF LockUsers
<1>5. LockInv
  BY <1>1, <1>4, IdleFacts, FS_EmptySet DEF LockInv
<1> QED BY <1>1, <1>2, <1>3, <1>5

LEMMA InitIInv == Init => IInv
<1> SUFFICES ASSUME Init PROVE IInv
  OBVIOUS
<1>1. StepInv /\ LockInv /\ req \in [Reqs -> ReqRow] /\ \A r \in Reqs : req[r] = Idle
  BY StartFacts DEF Init
<1>2. 0 \in 0..MaxReqs
  BY MapCacheAssumption
<1>3. Types
  BY <1>1, <1>2, MapCacheAssumption DEF Init, Types
<1>4. StoreInv
  BY <1>1, IdleFacts DEF Init, StoreInv, StoreReq, StoredTogether
<1> QED BY <1>1, <1>3, <1>4 DEF IInv

LEMMA CrashStep ==
  ASSUME IInv, Crash
  PROVE  IInv'
<1>1. /\ req' = [r \in Reqs |-> Idle] /\ locks' = 0 /\ refs' = [l \in Objects |-> 0]
      /\ holder' = [l \in Objects |-> None] /\ origin' = origin /\ body' = body
      /\ meta' = meta /\ crossed' = crossed /\ asked' = asked
      /\ torn' = (torn \/ \E r \in Reqs : req[r].pc = "json")
  BY DEF Crash, disk
<1>2. (StepInv /\ LockInv /\ req \in [Reqs -> ReqRow] /\ \A r \in Reqs : req[r] = Idle)'
  <2>1. \A r \in Reqs : req'[r] = Idle
    BY <1>1
  <2>2. req' \in [Reqs -> ReqRow]
    BY <1>1, IdleFacts
  <2>3. StepInv'
    BY <2>1, IdleFacts DEF StepInv, StepOK
  <2>4. \A l \in Objects : LockUsers(l)' = {}
    <3> SUFFICES ASSUME NEW l \in Objects PROVE LockUsers(l)' = {}
      OBVIOUS
    <3>1. l # 0
      BY MapCacheAssumption DEF Objects
    <3> QED BY <2>1, <3>1, IdleFacts DEF LockUsers
  <2>5. LockInv'
    BY <1>1, <2>1, <2>4, IdleFacts, FS_EmptySet DEF LockInv, Critical
  <2> QED BY <2>1, <2>2, <2>3, <2>5
<1>3. torn' \in BOOLEAN
  BY <1>1, Zenon
<1>4. Types'
  <2>1. 0 \in 0..MaxReqs
    BY MapCacheAssumption
  <2> QED BY <1>1, <1>2, <1>3, <2>1 DEF IInv, Types
<1>5. StoredTogether'
  BY <1>1 DEF IInv, StoreInv, StoredTogether
<1>6. (\A r \in Reqs : StoreReq(req[r]))'
  BY <1>2, IdleFacts DEF StoreReq
<1>7. StoreInv'
  BY <1>1, <1>5, <1>6 DEF IInv, StoreInv
<1> QED BY <1>2, <1>4, <1>7 DEF IInv

(* The map, time and the pruner change only the origin or the files.        *)
LEMMA OtherSteps ==
  ASSUME IInv, (\E v \in Versions : Render(v)) \/ Age \/ PruneBody \/ PruneMeta
  PROVE  IInv'
<1>1. UNCHANGED <<mutex, req, history, asked>>
  BY DEF Render, Age, PruneBody, PruneMeta, bounds
<1>2. locks' = locks /\ refs' = refs /\ holder' = holder /\ req' = req /\ torn' = torn
      /\ crossed' = crossed /\ asked' = asked
  BY <1>1 DEF mutex, history
<1>3. /\ origin' \in Versions /\ body' \in {None, body}
      /\ \/ meta' \in {None, meta}
         \/ /\ meta # None /\ meta' \in Metadata /\ meta'.of = meta.of /\ meta'.tag = meta.tag
  <2>1. origin \in Versions /\ meta \in {None} \cup Metadata
    BY DEF IInv, Types
  <2>2. CASE \E v \in Versions : Render(v)
    BY <2>1, <2>2 DEF Render, disk
  <2>3. CASE Age
    <3>1. meta \in Metadata /\ origin' = origin /\ body' = body
          /\ \/ meta' = [meta EXCEPT !.age = "stale"]
             \/ meta' = [meta EXCEPT !.age = "expired"]
      BY <2>1, <2>3 DEF Age
    <3> QED BY <2>1, <2>3, <3>1 DEF Metadata, Age
  <2>4. CASE PruneBody \/ PruneMeta
    BY <2>1, <2>4 DEF PruneBody, PruneMeta
  <2> QED BY <2>2, <2>3, <2>4
<1>4. Types'
  BY <1>2, <1>3 DEF IInv, Types
<1>5. StepInv'
  BY <1>2 DEF IInv, StepInv
<1>6. LockInv'
  BY <1>2 DEF IInv, LockInv, LockUsers
<1>7. (\A r \in Reqs : StoreReq(req[r]))'
  <2> SUFFICES ASSUME NEW r \in Reqs PROVE StoreReq(req[r])'
    OBVIOUS
  <2>1. StoreReq(req[r])
    BY DEF IInv, StoreInv
  <2> QED BY <2>1, <1>2, <1>3 DEF StoreReq
<1>8. StoredTogether' /\ (crossed \/ meta = None \/ meta.of = meta.tag)'
  BY <1>2, <1>3 DEF IInv, StoreInv, StoredTogether
<1> QED BY <1>4, <1>5, <1>6, <1>7, <1>8 DEF IInv, StoreInv

(* The inductive invariant holds for any requests, versions and bounds:     *)
(* requests follow the steps of serveCachedMap, lock objects are counted    *)
(* and held as acquire and release do it, and requests with the lock know   *)
(* the files.                                                               *)
THEOREM Invariance == Spec => []IInv
<1>1. IInv /\ [Next]_vars => IInv'
  <2> SUFFICES ASSUME IInv, [Next]_vars PROVE IInv'
    OBVIOUS
  <2>1. CASE UNCHANGED vars
    <3>1. /\ origin' = origin /\ body' = body /\ meta' = meta /\ locks' = locks /\ refs' = refs
          /\ holder' = holder /\ req' = req /\ torn' = torn /\ crossed' = crossed
          /\ asked' = asked
      BY <2>1 DEF vars
    <3> QED
      BY <3>1 DEF IInv, Types, StepInv, LockInv, LockUsers, StoreInv, StoreReq, StoredTogether
  <2>2. ASSUME NEW r \in Reqs,
               \/ MapProxy(r) \/ LookupMeta(r) \/ LookupBody(r) \/ RemoveBody(r)
               \/ RemoveMeta(r) \/ Serve(r)
        PROVE  IInv'
    BY <2>2, MapProxyStep, LookupMetaStep, LookupBodyStep, RemoveBodyStep, RemoveMetaStep,
       ServeStep
  <2>3. ASSUME NEW r \in Reqs, Acquire(r) \/ Lock(r) \/ Unlock(r) \/ Unref(r)
        PROVE  IInv'
    BY <2>3, AcquireStep, LockStep, UnlockStep, UnrefStep
  <2>4. ASSUME NEW r \in Reqs,
               \/ ServeStale(r) \/ writeMapUnavailable(r) \/ NotModified(r) \/ Bypass(r)
               \/ Begin(r) \/ Revalidate(r) \/ Receive(r) \/ Abort(r)
        PROVE  IInv'
    BY <2>4, ServeStaleStep, FetchSteps, NotModifiedStep, BeginStep, RevalidateStep
  <2>5. ASSUME NEW r \in Reqs, CommitBody(r) \/ CommitMeta(r)
        PROVE  IInv'
    BY <2>5, CommitBodyStep, CommitMetaStep
  <2>6. CASE (\E v \in Versions : Render(v)) \/ Age \/ PruneBody \/ PruneMeta
    BY <2>6, OtherSteps
  <2>7. CASE Crash
    BY <2>7, CrashStep
  <2> QED BY <2>1, <2>2, <2>3, <2>4, <2>5, <2>6, <2>7 DEF Next
<1> QED BY <1>1, InitIInv, PTL DEF Spec

(* TypeOK, the structure of the counted locks of acquire and release, for   *)
(* any number of requests: what is counted are the users, an object with    *)
(* users is the one in the map, and only the holder of its mutex is past    *)
(* it, so the origin is asked by one request of a key at a time.            *)
THEOREM LocksAreCounted == Spec => []TypeOK
<1>1. IInv => TypeOK
  <2> SUFFICES ASSUME IInv PROVE TypeOK
    OBVIOUS
  <2>1. \A l \in Objects : /\ refs[l] = Cardinality({r \in Reqs : req[r].lock = l})
                           /\ refs[l] > 0 => locks = l
    BY DEF IInv, LockInv, LockUsers
  <2>2. \A r \in Reqs :
          /\ req[r].pc \in Free \cup Inside
          /\ req[r].phase > 1 /\ req[r].pc \in Inside => holder[req[r].lock] = r
    <3> SUFFICES ASSUME NEW r \in Reqs
                 PROVE  /\ req[r].pc \in Free \cup Inside
                        /\ req[r].phase > 1 /\ req[r].pc \in Inside => holder[req[r].lock] = r
      OBVIOUS
    <3>1. req[r].pc \in Inside => req[r].pc # "unref"
      BY DEF Inside
    <3> QED BY <3>1, RowFacts DEF IInv, LockInv, Critical
  <2> QED BY <2>1, <2>2 DEF IInv, Types, TypeOK
<1> QED BY <1>1, Invariance, PTL

(* StoredTogether for any number of requests and versions: the files that   *)
(* commit renames one after the other belong to one version whenever nobody *)
(* is between the renames, unless a crash tore them or a 304 for a client's *)
(* own validator was taken for the entry's.                                 *)
THEOREM FilesBelongTogether == Spec => []StoredTogether
<1>1. IInv => StoredTogether
  BY DEF IInv, StoreInv
<1> QED BY <1>1, Invariance, PTL

-----------------------------------------------------------------------------
(* The second part is about the cache of server statuses, for any number   *)
(* of polls and pages, any protocols and any number of players.            *)

PollSteps == {"idle", "asked", "active", "answered", "announce"}
PageSteps == {"idle", "query", "hidden", "store", "announce"}

(* Types of the cache and of the observers' locals. *)
ObservationsTypes ==
    /\ game \in [up : BOOLEAN, players : 0..MaxPlayers]
    /\ cache \in Status \cup {NoStatus} /\ told \in Status \cup {NoStatus}
    /\ fresh \in BOOLEAN
    /\ at \in [Observers -> PollSteps \cup PageSteps]
    /\ \A p \in Pages : at[p] \in PageSteps
    /\ \A p \in Polls : at[p] \in PollSteps
    /\ seen \in [Pages -> Status \cup {NoStatus}]
    /\ got \in [Observers -> Status]
    /\ last \in 0..MaxPlayers
    /\ passed \subseteq Pages
    /\ outrun \in BOOLEAN /\ overlapped \in BOOLEAN /\ gap \in BOOLEAN

(* The cached count that a page brings back. *)
Carries(p) == seen[p] # NoStatus /\ seen[p].known

(* A page holds an entry only for Minecraft, and, unless a poll overtook   *)
(* it, one with the newest count; with an entry in hand it stores that     *)
(* count, and always the game's message.                                   *)
PageInv ==
    \A p \in Pages :
        /\ at[p] \in {"idle", "announce"} => seen[p] = NoStatus
        /\ seen[p] # NoStatus => protocol = "minecraft"
        /\ Carries(p) /\ p \notin passed => seen[p].players = last
        /\ at[p] = "store" /\ got[p].known =>
              /\ Carries(p) => got[p].players = seen[p].players
              /\ ~Carries(p) => protocol # "minecraft"
              /\ protocol = "minecraft" => got[p].details

(* An old count comes with the game's message, so no page looks at it.     *)
CrossedInv ==
    outrun => /\ protocol = "minecraft"
               /\ cache # NoStatus /\ cache.known => cache.details

(* What listeners will know once the change under way is announced.        *)
Agrees(status) ==
    /\ status.online = cache.online
    /\ cache.online /\ cache.known /\ ~gap => status.players = cache.players

(* At most one change is unannounced unless two overlapped, and it is the  *)
(* one that the cache holds.                                               *)
ToldInv ==
    /\ cache = NoStatus => Unannounced = {} /\ ~overlapped /\ told = NoStatus
    /\ cache # NoStatus => told # NoStatus
    /\ cache # NoStatus /\ ~gap => cache.known
    /\ ~overlapped => \A o, p \in Unannounced : o = p
    /\ cache # NoStatus /\ ~overlapped =>
          /\ \A o \in Unannounced : Agrees(got[o])
          /\ Unannounced = {} => Agrees(told)

(* The inductive invariant. *)
ObservationsInv == ObservationsTypes /\ PageInv /\ CrossedInv /\ CountIsNewest /\ ToldInv

-----------------------------------------------------------------------------
(* The statuses that observers make are statuses. *)
LEMMA OnlineIsStatus ==
    ASSUME ObservationsAssumption, NEW known \in BOOLEAN, NEW n \in 0..MaxPlayers,
           NEW details \in BOOLEAN
    PROVE  /\ Online(known, n, details) \in Status
           /\ Online(known, n, details).online
           /\ Online(known, n, details).known = known
           /\ Online(known, n, details).details = details
           /\ known => Online(known, n, details).players = n
  BY DEF Online, Status, ObservationsAssumption

LEMMA OfflineIsStatus ==
  ASSUME ObservationsAssumption
  PROVE  Offline \in Status /\ ~Offline.online /\ ~Offline.known
  BY DEF Offline, Status, ObservationsAssumption

(* Set keeps types and what listeners are told, whoever stores whatever    *)
(* (src/query/cache.go).                                                   *)
LEMMA SetKeeps ==
    ASSUME ObservationsAssumption, ObservationsTypes, ToldInv, NEW o \in Observers,
           at[o] # "announce",
           NEW status \in Status, Set(o, status)
    PROVE  /\ ToldInv'
           /\ cache' = status /\ fresh' \in BOOLEAN /\ told' \in Status \cup {NoStatus}
           /\ gap' \in BOOLEAN /\ overlapped' \in BOOLEAN
           /\ at' \in [Observers -> PollSteps \cup PageSteps]
           /\ got' \in [Observers -> Status]
           /\ at'[o] \in {"idle", "announce"}
           /\ \A p \in Observers \ {o} : at'[p] = at[p] /\ got'[p] = got[p]
<1>1. PICK announce \in BOOLEAN :
          /\ announce => /\ cache # NoStatus
                         /\ observationChanged(cache, status) \/ NamesDecide(cache, status)
          /\ (cache # NoStatus /\ observationChanged(cache, status)) => announce
          /\ at' = [at EXCEPT ![o] = IF announce THEN "announce" ELSE "idle"]
          /\ got' = [got EXCEPT ![o] = IF announce THEN status ELSE Offline]
          /\ overlapped' = IF announce THEN Unannounced # {} ELSE overlapped
          /\ gap' = (~status.known \/ (gap /\ ~announce))
  BY DEF Set
<1>2. cache' = status /\ fresh' = TRUE /\ told' = IF cache = NoStatus THEN status ELSE told
  BY DEF Set
<1>3. status # NoStatus /\ status.known \in BOOLEAN /\ status.online \in BOOLEAN
  BY DEF Status, ObservationsAssumption
<1>4. gap' \in BOOLEAN /\ overlapped' \in BOOLEAN
  <2>1. CASE announce
    BY <1>1, <1>3, <2>1
  <2>2. CASE ~announce
    BY <1>1, <1>3, <2>2 DEF ObservationsTypes
  <2> QED BY <2>1, <2>2
<1>5. /\ at' \in [Observers -> PollSteps \cup PageSteps]
      /\ got' \in [Observers -> Status]
      /\ at'[o] = (IF announce THEN "announce" ELSE "idle")
      /\ got'[o] = (IF announce THEN status ELSE Offline)
      /\ \A p \in Observers \ {o} : at'[p] = at[p] /\ got'[p] = got[p]
  BY <1>1, OfflineIsStatus DEF ObservationsTypes, PollSteps, PageSteps
<1>6. told' \in Status \cup {NoStatus}
  BY <1>2 DEF ObservationsTypes
<1>7. ToldInv'
  <2>1. CASE announce
    <3>1. cache # NoStatus /\ Unannounced' = Unannounced \cup {o} /\ gap' = ~status.known
      BY <1>1, <1>5, <2>1 DEF Unannounced
    <3>2. ASSUME ~overlapped' PROVE Unannounced' = {o}
      BY <1>1, <2>1, <3>1, <3>2
    <3>3. got'[o] = status
      BY <1>5, <2>1
    <3> QED
      BY <1>2, <1>3, <3>1, <3>2, <3>3 DEF ToldInv, Agrees
  <2>2. CASE ~announce
    <3>1. Unannounced' = Unannounced /\ overlapped' = overlapped
          /\ gap' = (~status.known \/ gap)
      BY <1>1, <1>5, <2>2 DEF Unannounced
    <3>2. CASE cache = NoStatus
      BY <1>2, <1>3, <3>1, <3>2 DEF ToldInv, Agrees
    <3>3. CASE cache # NoStatus
      <4>1. cache \in Status /\ told' = told /\ ~observationChanged(cache, status)
        BY <1>1, <1>2, <2>2, <3>3 DEF ObservationsTypes
      <4>2. cache.online = status.online
            /\ (status.online /\ cache.known /\ status.known => cache.players = status.players)
        BY <4>1 DEF observationChanged
      <4>3. ASSUME NEW s, Agrees(s) PROVE Agrees(s)'
        BY <1>2, <3>1, <3>3, <4>2, <4>3 DEF Agrees, ToldInv
      <4>4. \A q \in Unannounced : got'[q] = got[q]
        BY <1>5 DEF Unannounced
      <4>5. cache # NoStatus /\ ~overlapped =>
              /\ \A q \in Unannounced : Agrees(got[q])'
              /\ Unannounced = {} => Agrees(told)'
        BY <4>1, <4>3, <4>4 DEF ToldInv, Agrees
      <4> QED
        BY <1>2, <1>3, <3>1, <3>3, <4>1, <4>5 DEF ToldInv
    <3> QED BY <3>2, <3>3
  <2> QED BY <2>1, <2>2
<1> QED
  BY <1>2, <1>4, <1>5, <1>6, <1>7

(* HOGS starts without an entry. *)
LEMMA InitObservations ==
  ASSUME ObservationsAssumption
  PROVE  ObservationsInit => ObservationsInv
<1> SUFFICES ASSUME ObservationsInit PROVE ObservationsInv
  OBVIOUS
<1>1. ObservationsTypes
  <2>1. 0 \in 0..MaxPlayers
    BY DEF ObservationsAssumption
  <2>2. \A o \in Observers : at[o] = "idle"
    BY DEF ObservationsInit
  <2> QED
    BY <2>1, <2>2, OfflineIsStatus DEF ObservationsInit, ObservationsTypes, PollSteps, PageSteps,
       Observers
<1>2. PageInv
  BY DEF ObservationsInit, PageInv, Carries, Observers
<1>3. CrossedInv /\ CountIsNewest
  BY DEF ObservationsInit, CrossedInv, CountIsNewest
<1>4. ToldInv
  BY DEF ObservationsInit, ToldInv, Unannounced
<1> QED
  BY <1>1, <1>2, <1>3, <1>4 DEF ObservationsInv

(* A listener is told (src/cmd/hogs, the observer of the cache). *)
LEMMA AnnounceObservations ==
    ASSUME ObservationsAssumption, ObservationsInv, NEW o \in Observers, Announce(o)
    PROVE  ObservationsInv'
<1> USE DEF ObservationsInv
<1>1. /\ at'[o] = "idle" /\ at[o] = "announce" /\ told' = got[o] /\ got'[o] = Offline
      /\ \A p \in Observers \ {o} : at'[p] = at[p] /\ got'[p] = got[p]
      /\ UNCHANGED <<outside, cache, fresh, seen, histories>>
  BY DEF Announce, ObservationsTypes
<1>2. ObservationsTypes'
  BY <1>1, OfflineIsStatus DEF ObservationsTypes, Announce, outside, histories, PollSteps,
     PageSteps
<1>3. PageInv'
  <2> SUFFICES ASSUME NEW p \in Pages
               PROVE  /\ at'[p] \in {"idle", "announce"} => at[p] \in {"idle", "announce"}
                      /\ at'[p] = "store" => at[p] = "store" /\ got'[p] = got[p]
    BY <1>1 DEF PageInv, Carries, outside, histories
  <2> QED
    BY <1>1 DEF Observers
<1>4. CrossedInv' /\ CountIsNewest'
  BY <1>1 DEF CrossedInv, CountIsNewest, outside, histories
<1>5. ToldInv'
  <2>1. Unannounced' = Unannounced \ {o} /\ o \in Unannounced
    BY <1>1 DEF Unannounced
  <2>2. cache # NoStatus /\ told' # NoStatus
    BY <1>1, <2>1 DEF ToldInv, ObservationsTypes, ObservationsAssumption
  <2>3. ~overlapped => Unannounced' = {} /\ Agrees(got[o])
    BY <2>1, <2>2 DEF ToldInv
  <2>4. ~overlapped => Agrees(told)'
    BY <1>1, <2>3 DEF Agrees, histories
  <2> QED
    BY <1>1, <2>1, <2>2, <2>3, <2>4 DEF ToldInv, histories
<1> QED
  BY <1>2, <1>3, <1>4, <1>5

(* A step of a poll that stores nothing. *)
LEMMA PollingObservations ==
    ASSUME ObservationsAssumption, ObservationsInv, NEW o \in Polls, at[o] # "announce",
           NEW step \in PollSteps \ {"announce"}, NEW status \in Status,
           at' = [at EXCEPT ![o] = step],
           got' = [got EXCEPT ![o] = status],
           UNCHANGED <<outside, cache, fresh, seen, told, histories>>
    PROVE  ObservationsInv'
<1> USE DEF ObservationsInv
<1>1. o \in Observers \ Pages
  BY DEF Observers, ObservationsAssumption
<1>2. /\ at'[o] = step /\ got'[o] = status
      /\ \A p \in Observers \ {o} : at'[p] = at[p] /\ got'[p] = got[p]
      /\ \A p \in Pages : p \in Observers \ {o}
  BY <1>1 DEF ObservationsTypes, Observers
<1>3. ObservationsTypes'
  BY <1>1, <1>2 DEF ObservationsTypes, outside, histories, PollSteps
<1>4. PageInv'
  BY <1>2 DEF PageInv, Carries, outside, histories
<1>5. CrossedInv' /\ CountIsNewest'
  BY DEF CrossedInv, CountIsNewest, outside, histories
<1>6. ToldInv'
  <2>1. Unannounced' = Unannounced
    BY <1>1, <1>2 DEF Unannounced
  <2>2. \A q \in Unannounced : got'[q] = got[q]
    BY <1>2 DEF Unannounced
  <2> QED
    BY <2>1, <2>2 DEF ToldInv, Agrees, histories
<1> QED
  BY <1>3, <1>4, <1>5, <1>6

(* A poll stores what it was told, or that the agent did not answer        *)
(* (src/query/cache.go, SetAgentObservation).                              *)
LEMMA StorePollObservations ==
    ASSUME ObservationsAssumption, ObservationsInv, NEW o \in Polls, at[o] # "announce",
           NEW status \in Status,
           SetAgentObservation(o, status), UNCHANGED <<outside, seen>>
    PROVE  ObservationsInv'
<1> USE DEF ObservationsInv
<1>1. o \in Observers \ Pages
  BY DEF Observers, ObservationsAssumption
<1>2. /\ Merged(status) \in Status
      /\ Merged(status).known = status.known
      /\ status.known => Merged(status).players = status.players
  <2>1. CASE status.online /\ cache # NoStatus
    <3>1. Merged(status) = Online(status.known, status.players, cache.details)
      BY <2>1 DEF Merged
    <3>2. cache.details \in BOOLEAN /\ status.known \in BOOLEAN
          /\ status.players \in 0..MaxPlayers
      BY <2>1 DEF ObservationsTypes, Status
    <3> QED
      BY <3>1, <3>2, OnlineIsStatus
  <2>2. CASE ~(status.online /\ cache # NoStatus)
    BY <2>2 DEF Merged
  <2> QED BY <2>1, <2>2
<1>3. /\ ToldInv'
      /\ cache' = Merged(status) /\ fresh' \in BOOLEAN /\ told' \in Status \cup {NoStatus}
      /\ gap' \in BOOLEAN /\ overlapped' \in BOOLEAN
      /\ at' \in [Observers -> PollSteps \cup PageSteps]
      /\ got' \in [Observers -> Status]
      /\ at'[o] \in {"idle", "announce"}
      /\ \A p \in Observers \ {o} : at'[p] = at[p] /\ got'[p] = got[p]
  BY <1>1, <1>2, SetKeeps DEF SetAgentObservation
<1>4. /\ last' = (IF status.known THEN status.players ELSE last)
      /\ passed' = {p \in Pages : at[p] # "idle"} /\ outrun' = FALSE
      /\ UNCHANGED <<outside, seen>>
  BY DEF SetAgentObservation
<1>5. \A p \in Pages : p \in Observers \ {o} /\ at'[p] = at[p] /\ got'[p] = got[p]
  BY <1>1, <1>3 DEF Observers
<1>6. ObservationsTypes'
  <2>1. last' \in 0..MaxPlayers
    BY <1>4 DEF ObservationsTypes, Status
  <2>2. \A p \in Polls : at'[p] \in PollSteps
    BY <1>3 DEF ObservationsTypes, Observers, PollSteps
  <2> QED
    BY <1>2, <1>3, <1>4, <1>5, <2>1, <2>2 DEF ObservationsTypes, outside
<1>7. PageInv'
  <2> SUFFICES ASSUME NEW p \in Pages, seen[p] # NoStatus
               PROVE  p \in passed'
    BY <1>4, <1>5 DEF PageInv, Carries, outside
  <2> QED
    BY <1>4 DEF PageInv
<1>8. CrossedInv' /\ CountIsNewest'
  BY <1>2, <1>3, <1>4 DEF CrossedInv, CountIsNewest
<1> QED
  BY <1>3, <1>6, <1>7, <1>8

(* What the queriers return: Minecraft's never has a count of its own, and *)
(* has its message whenever the game is up (src/query).                    *)
LEMMA AnswerIsStatus ==
    ASSUME ObservationsAssumption, ObservationsTypes, NEW status \in Answers
    PROVE  /\ status \in Status
           /\ ~status.online => ~status.known
           /\ protocol = "minecraft" => ~status.known
           /\ protocol = "minecraft" /\ status.online => status.details
<1>1. game.players \in 0..MaxPlayers /\ 0 \in 0..MaxPlayers
  BY DEF ObservationsTypes, ObservationsAssumption
<1> DEFINE Made(known, n, details) ==
              status = Online(known, n, details)
<1>2. CASE protocol = "minecraft"
  <2>1. status = Offline \/ Made(FALSE, 0, TRUE)
    BY <1>2 DEF Answers, MinecraftAnswers
  <2> QED
    BY <1>1, <1>2, <2>1, OfflineIsStatus, OnlineIsStatus
<1>3. CASE protocol # "minecraft"
  <2>1. \/ status = Offline \/ Made(FALSE, 0, FALSE) \/ Made(FALSE, 0, TRUE)
        \/ Made(TRUE, game.players, FALSE)
    BY <1>3 DEF Answers, SatisfactoryAnswers, FactorioAnswers, ValheimAnswers
  <2> QED
    BY <1>1, <1>3, <2>1, OfflineIsStatus, OnlineIsStatus
<1> QED BY <1>2, <1>3

(* A page looks at the cache (src/api/server_handler.go). *)
LEMMA GetObservations ==
    ASSUME ObservationsAssumption, ObservationsInv, NEW o \in Pages, GetServerStatus(o)
    PROVE  ObservationsInv'
<1> USE DEF ObservationsInv
<1>1. PICK step \in {"query", "hidden"} : at' = [at EXCEPT ![o] = step]
  BY DEF GetServerStatus
<1>2. /\ o \in Observers /\ at'[o] = step /\ at[o] = "idle"
      /\ \A p \in Observers \ {o} : at'[p] = at[p]
      /\ seen'[o] = Get /\ \A p \in Pages \ {o} : seen'[p] = seen[p]
      /\ passed' = passed \ {o}
      /\ UNCHANGED <<outside, cache, fresh, got, told, last, outrun, overlapped, gap>>
  BY <1>1 DEF GetServerStatus, ObservationsTypes, Observers
<1>3. Get \in Status \cup {NoStatus} /\ (Get # NoStatus => Get = cache /\ NeedsMinecraftDetails(Get))
  BY DEF GetServerStatus, Get, ObservationsTypes
<1>4. ObservationsTypes'
  <2>1. \A p \in Pages : at'[p] \in PageSteps
    BY <1>2 DEF ObservationsTypes, PageSteps, Observers
  <2>2. \A p \in Polls : at'[p] \in PollSteps
    BY <1>2 DEF ObservationsTypes, Observers, ObservationsAssumption
  <2>3. at' \in [Observers -> PollSteps \cup PageSteps]
    BY <1>1 DEF ObservationsTypes, PageSteps
  <2>4. seen' \in [Pages -> Status \cup {NoStatus}]
    BY <1>3 DEF GetServerStatus, ObservationsTypes
  <2> QED
    BY <1>2, <2>1, <2>2, <2>3, <2>4 DEF ObservationsTypes, outside
<1>5. PageInv'
  <2>1. ASSUME Carries(o)' PROVE seen'[o].players = last
    BY <1>2, <1>3, <2>1 DEF Carries, NeedsMinecraftDetails, CrossedInv, CountIsNewest
  <2>2. seen'[o] # NoStatus => protocol = "minecraft"
    BY <1>2, <1>3 DEF NeedsMinecraftDetails
  <2>3. \A p \in Pages \ {o} : (p \notin passed') = (p \notin passed) /\ p \in Observers \ {o}
    BY <1>2 DEF Observers
  <2> QED
    BY <1>2, <2>1, <2>2, <2>3 DEF PageInv, Carries, outside
<1>6. CrossedInv' /\ CountIsNewest'
  BY <1>2 DEF CrossedInv, CountIsNewest, outside
<1>7. ToldInv'
  <2>1. Unannounced' = Unannounced
    BY <1>2 DEF Unannounced
  <2> QED
    BY <1>2, <2>1 DEF ToldInv, Agrees
<1> QED
  BY <1>4, <1>5, <1>6, <1>7

(* A page asks the game. *)
LEMMA QueryObservations ==
    ASSUME ObservationsAssumption, ObservationsInv, NEW o \in Pages, Query(o)
    PROVE  ObservationsInv'
<1> USE DEF ObservationsInv
<1>1. PICK status \in Answers :
          got' = [got EXCEPT ![o] =
                    IF seen[o] # NoStatus /\ seen[o].known /\ status.online
                    THEN Online(TRUE, seen[o].players, status.details)
                    ELSE status]
  BY DEF Query
<1>2. /\ o \in Observers /\ at'[o] = "store" /\ at[o] = "query"
      /\ \A p \in Observers \ {o} : at'[p] = at[p] /\ got'[p] = got[p]
      /\ got'[o] = (IF Carries(o) /\ status.online
                    THEN Online(TRUE, seen[o].players, status.details) ELSE status)
      /\ UNCHANGED <<outside, cache, fresh, seen, told, histories>>
  BY <1>1 DEF Query, ObservationsTypes, Observers, Carries
<1>3. /\ status \in Status /\ status.details \in BOOLEAN
      /\ ~status.online => ~status.known
      /\ protocol = "minecraft" => ~status.known
      /\ protocol = "minecraft" /\ status.online => status.details
  BY AnswerIsStatus DEF Status
<1>4. /\ got'[o] \in Status
      /\ got'[o].known =>
              /\ Carries(o) => got'[o].players = seen[o].players
              /\ ~Carries(o) => protocol # "minecraft"
              /\ protocol = "minecraft" => got'[o].details
  <2>1. CASE Carries(o) /\ status.online
    <3>1. seen[o].players \in 0..MaxPlayers
      BY <2>1 DEF Carries, ObservationsTypes, Status
    <3>2. got'[o] = Online(TRUE, seen[o].players, status.details)
      BY <1>2, <2>1
    <3>3. /\ got'[o] \in Status /\ got'[o].players = seen[o].players
          /\ got'[o].details = status.details
      <4> DEFINE n == seen[o].players  d == status.details
      <4>1. TRUE \in BOOLEAN /\ n \in 0..MaxPlayers /\ d \in BOOLEAN
        BY <1>3, <3>1
      <4> HIDE DEF n, d
      <4>2. /\ Online(TRUE, n, d) \in Status /\ Online(TRUE, n, d).players = n
            /\ Online(TRUE, n, d).details = d
        BY <4>1, OnlineIsStatus
      <4> QED
        BY <3>2, <4>2 DEF n, d
    <3> QED
      BY <1>3, <2>1, <3>3
  <2>2. CASE ~(Carries(o) /\ status.online)
    BY <1>2, <1>3, <2>2
  <2> QED BY <2>1, <2>2
<1>5. ObservationsTypes'
  <2>1. \A p \in Pages : at'[p] \in PageSteps
    BY <1>2 DEF ObservationsTypes, PageSteps, Observers
  <2>2. \A p \in Polls : at'[p] \in PollSteps
    BY <1>2 DEF ObservationsTypes, Observers, ObservationsAssumption
  <2>3. at' \in [Observers -> PollSteps \cup PageSteps]
    BY DEF Query, ObservationsTypes, PageSteps
  <2>4. got' \in [Observers -> Status]
    BY <1>1, <1>2, <1>4 DEF ObservationsTypes
  <2> QED
    BY <1>2, <2>1, <2>2, <2>3, <2>4 DEF ObservationsTypes, outside, histories
<1>6. PageInv'
  <2>1. \A p \in Pages \ {o} : p \in Observers \ {o}
    BY DEF Observers
  <2> QED
    BY <1>2, <1>4, <2>1 DEF PageInv, Carries, outside, histories
<1>7. CrossedInv' /\ CountIsNewest'
  BY <1>2 DEF CrossedInv, CountIsNewest, outside, histories
<1>8. ToldInv'
  <2>1. Unannounced' = Unannounced /\ \A q \in Unannounced : got'[q] = got[q]
    BY <1>2 DEF Unannounced
  <2> QED
    BY <1>2, <2>1 DEF ToldInv, Agrees, histories
<1> QED
  BY <1>5, <1>6, <1>7, <1>8

(* A page stores a status: what it means for the counts is left to the     *)
(* caller.                                                                 *)
LEMMA StorePageObservations ==
    ASSUME ObservationsAssumption, ObservationsInv, NEW o \in Pages, at[o] # "announce",
           NEW status \in Status,
           Set(o, status), seen' = [seen EXCEPT ![o] = NoStatus],
           last' \in 0..MaxPlayers, outrun' \in BOOLEAN,
           UNCHANGED <<outside, passed>>,
           last' # last => protocol # "minecraft",
           CrossedInv', CountIsNewest'
    PROVE  ObservationsInv'
<1> USE DEF ObservationsInv
<1>1. o \in Observers
  BY DEF Observers
<1>2. /\ ToldInv'
      /\ cache' = status /\ fresh' \in BOOLEAN /\ told' \in Status \cup {NoStatus}
      /\ gap' \in BOOLEAN /\ overlapped' \in BOOLEAN
      /\ at' \in [Observers -> PollSteps \cup PageSteps]
      /\ got' \in [Observers -> Status]
      /\ at'[o] \in {"idle", "announce"}
      /\ \A p \in Observers \ {o} : at'[p] = at[p] /\ got'[p] = got[p]
  BY <1>1, SetKeeps
<1>3. seen'[o] = NoStatus /\ \A p \in Pages \ {o} : seen'[p] = seen[p]
  BY DEF ObservationsTypes
<1>4. ObservationsTypes'
  <2>1. \A p \in Pages : at'[p] \in PageSteps
    BY <1>2 DEF ObservationsTypes, PageSteps, Observers
  <2>2. \A p \in Polls : at'[p] \in PollSteps
    BY <1>2 DEF ObservationsTypes, Observers, ObservationsAssumption
  <2>3. seen' \in [Pages -> Status \cup {NoStatus}]
    BY DEF ObservationsTypes
  <2> QED
    BY <1>2, <2>1, <2>2, <2>3 DEF ObservationsTypes, outside
<1>5. PageInv'
  <2>1. \A p \in Pages \ {o} : p \in Observers \ {o}
    BY DEF Observers
  <2>2. \A p \in Pages \ {o} : Carries(p) => last' = last
    BY DEF PageInv, Carries
  <2> QED
    BY <1>2, <1>3, <2>1, <2>2 DEF PageInv, Carries, outside
<1> QED
  BY <1>2, <1>4, <1>5

(* A page hides the server. *)
LEMMA StoreHiddenObservations ==
    ASSUME ObservationsAssumption, ObservationsInv, NEW o \in Pages, StoreHidden(o)
    PROVE  ObservationsInv'
<1>1. cache' = Offline /\ outrun' = FALSE /\ last' = last /\ last' \in 0..MaxPlayers
  BY DEF StoreHidden, Set, ObservationsInv, ObservationsTypes
<1>2. CrossedInv' /\ CountIsNewest'
  BY <1>1, OfflineIsStatus DEF CrossedInv, CountIsNewest
<1> QED
  BY <1>1, <1>2, StorePageObservations, OfflineIsStatus DEF StoreHidden

(* A page stores the answer of the game, with a count that was newest when *)
(* it looked.                                                              *)
LEMMA StoreAnswerObservations ==
    ASSUME ObservationsAssumption, ObservationsInv, NEW o \in Pages, StoreAnswer(o)
    PROVE  ObservationsInv'
<1>1. /\ at[o] = "store" /\ cache' = got[o] /\ Set(o, got[o])
      /\ last' = (IF got[o].known /\ ~Carries(o) THEN got[o].players ELSE last)
      /\ outrun' = (Carries(o) /\ o \in passed)
      /\ seen' = [seen EXCEPT ![o] = NoStatus] /\ UNCHANGED <<outside, passed>>
  BY DEF StoreAnswer, Carries, Set
<1>2. got[o] \in Status /\ got[o].players \in 0..MaxPlayers /\ last \in 0..MaxPlayers
  BY DEF ObservationsInv, ObservationsTypes, Observers, Status
<1>3. /\ seen[o] # NoStatus => protocol = "minecraft"
      /\ Carries(o) /\ o \notin passed => seen[o].players = last
      /\ got[o].known => /\ Carries(o) => got[o].players = seen[o].players
                         /\ ~Carries(o) => protocol # "minecraft"
                         /\ protocol = "minecraft" => got[o].details
  BY <1>1 DEF ObservationsInv, PageInv
<1>4. last' \in 0..MaxPlayers /\ (last' # last => protocol # "minecraft")
  BY <1>1, <1>2, <1>3
<1>5. CrossedInv'
  BY <1>1, <1>3 DEF CrossedInv, Carries, outside
<1>6. CountIsNewest'
  BY <1>1, <1>3 DEF CountIsNewest
<1>7. outrun' \in BOOLEAN
  BY <1>1
<1>8. at[o] # "announce"
  BY <1>1
<1> QED
  BY <1>1, <1>2, <1>4, <1>5, <1>6, <1>7, <1>8, StorePageObservations

(* Time, the game and a restart. *)
LEMMA EnvironmentObservations ==
    ASSUME ObservationsAssumption, ObservationsInv, Expire \/ Play
    PROVE  ObservationsInv'
<1>1. /\ fresh' \in BOOLEAN /\ game' \in [up : BOOLEAN, players : 0..MaxPlayers]
      /\ UNCHANGED <<protocol, cache, at, seen, got, told, histories>>
  BY DEF Expire, Play, ObservationsInv, ObservationsTypes, outside
<1> QED
  BY <1>1 DEF ObservationsInv, ObservationsTypes, PageInv, Carries, CrossedInv, CountIsNewest,
     ToldInv, Agrees,
              Unannounced, histories

LEMMA RestartObservations ==
    ASSUME ObservationsAssumption, ObservationsInv, Restart
    PROVE  ObservationsInv'
<1>1. ObservationsTypes'
  <2>1. 0 \in 0..MaxPlayers
    BY DEF ObservationsAssumption
  <2>2. \A o \in Observers : at'[o] = "idle"
    BY DEF Restart
  <2> QED
    BY <2>1, <2>2, OfflineIsStatus
       DEF Restart, ObservationsInv, ObservationsTypes, PollSteps, PageSteps, Observers, outside
<1>2. PageInv'
  BY DEF Restart, PageInv, Carries, Observers
<1>3. CrossedInv' /\ CountIsNewest'
  BY DEF Restart, CrossedInv, CountIsNewest
<1>4. ToldInv'
  BY DEF Restart, ToldInv, Unannounced
<1> QED
  BY <1>1, <1>2, <1>3, <1>4 DEF ObservationsInv

(* Every step keeps the invariant. *)
LEMMA NextObservations ==
  ASSUME ObservationsAssumption
  PROVE  ObservationsInv /\ [ObservationsNext]_observationsVars => ObservationsInv'
<1> SUFFICES ASSUME ObservationsInv, [ObservationsNext]_observationsVars PROVE ObservationsInv'
  OBVIOUS
<1>1. ASSUME NEW o \in Observers, Announce(o) PROVE ObservationsInv'
  BY <1>1, AnnounceObservations
<1>2. ASSUME NEW o \in Polls,
             pollStatuses(o) \/ UnitInactive(o) \/ UnitActive(o) \/ playerStatus(o) \/ Rejected(o)
      PROVE  ObservationsInv'
  <2>1. o \in Observers /\ got[o] \in Status /\ got = [got EXCEPT ![o] = got[o]]
    BY DEF Observers, ObservationsInv, ObservationsTypes
  <2>2. CASE pollStatuses(o)
    BY <2>1, <2>2, PollingObservations DEF pollStatuses, PollSteps
  <2>3. CASE UnitInactive(o)
    BY <2>3, PollingObservations, OfflineIsStatus DEF UnitInactive, PollSteps
  <2>4. CASE UnitActive(o)
    BY <2>1, <2>4, PollingObservations DEF UnitActive, PollSteps
  <2>5. CASE playerStatus(o)
    <3>1. PICK known \in BOOLEAN : got' = [got EXCEPT ![o] = Online(known, game.players, FALSE)]
      BY <2>5 DEF playerStatus
    <3>2. Online(known, game.players, FALSE) \in Status
      BY OnlineIsStatus DEF ObservationsInv, ObservationsTypes
    <3> QED
      BY <2>5, <3>1, <3>2, PollingObservations DEF playerStatus, PollSteps
  <2>6. CASE Rejected(o)
    BY <2>6, PollingObservations, OfflineIsStatus DEF Rejected, PollSteps
  <2> QED
    BY <1>2, <2>2, <2>3, <2>4, <2>5, <2>6
<1>3. ASSUME NEW o \in Polls, Observed(o) \/ Unreachable(o) PROVE ObservationsInv'
  <2>1. got[o] \in Status
    BY DEF Observers, ObservationsInv, ObservationsTypes
  <2> QED
    BY <1>3, <2>1, StorePollObservations, OfflineIsStatus DEF Observed, Unreachable
<1>4. ASSUME NEW o \in Pages,
             GetServerStatus(o) \/ StoreHidden(o) \/ Query(o) \/ StoreAnswer(o)
      PROVE  ObservationsInv'
  BY <1>4, GetObservations, StoreHiddenObservations, QueryObservations, StoreAnswerObservations
<1>5. CASE Expire \/ Play
  BY <1>5, EnvironmentObservations
<1>6. CASE Restart
  BY <1>6, RestartObservations
<1>7. CASE UNCHANGED observationsVars
  BY <1>7 DEF ObservationsInv, ObservationsTypes, PageInv, Carries, CrossedInv, CountIsNewest,
     ToldInv, Agrees,
              Unannounced, observationsVars
<1> QED
  BY <1>1, <1>2, <1>3, <1>4, <1>5, <1>6, <1>7 DEF ObservationsNext

(* The inductive invariant holds: what pages have in hand, what the cache  *)
(* shows and what listeners will be told fit together.                     *)
THEOREM ObservationsInvariance == ObservationsSpec => []ObservationsInv
<1>1. ObservationsInit => ObservationsInv
  BY InitObservations, ObservationsAssumption
<1>2. ObservationsInv /\ [ObservationsNext]_observationsVars => ObservationsInv'
  BY NextObservations, ObservationsAssumption
<1> QED
  BY <1>1, <1>2, PTL DEF ObservationsSpec

(* A known count in the cache is the newest one, unless a page stored an   *)
(* answer that a poll had overtaken (src/query/cache.go, SetAgentObservation, *)
(* and src/api/server_handler.go, GetServerStatus).                        *)
THEOREM CountsAreNewest == ObservationsSpec => []CountIsNewest
<1>1. ObservationsInv => CountIsNewest
  BY DEF ObservationsInv
<1> QED
  BY <1>1, ObservationsInvariance, PTL

(* Once every change is announced, listeners know what the cache holds, if *)
(* no two changes overlapped (src/query/cache.go, Set and SetOnChange).    *)
THEOREM ListenersKnow == ObservationsSpec => []ToldIsCached
<1>1. ObservationsInv => ToldIsCached
  BY DEF ObservationsInv, ToldInv, ToldIsCached, Agrees
<1> QED
  BY <1>1, ObservationsInvariance, PTL
=============================================================================
