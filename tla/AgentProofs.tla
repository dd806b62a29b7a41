---------------------------- MODULE AgentProofs -----------------------------
(***************************************************************************)
(* Proofs about the node agent's operations, for any set of requests and   *)
(* any number of worlds, crashes and starts from outside: the server's     *)
(* world is never destroyed, and an operation that does not report a       *)
(* broken rollback leaves it in the data directory.  The second part is    *)
(* about the gateway of the same agent, which starts the unit under the    *)
(* same mutex.                                                             *)
(***************************************************************************)
EXTENDS AgentOps, Gateway, TLAPS

(* The step of the operation that holds the lock. *)
Where == IF lock = NoOp THEN "free" ELSE pc[lock]

Swapped == {"start", "waitStart", "ready", "verify", "cleanup", "rbStop",
            "rbMove"}
Aside == {"activate", "undo", "rbBack"} \cup Swapped
Broken == {"restartBroken", "rbStartBroken"}

(* Which temporary directories exist at which step, and that none of them  *)
(* but the rollback path holds the server's world.                         *)
DiskInv ==
    /\ stage # current /\ failed # current
    /\ Where \in {"moveAway", "activate"} => stage # NoWorld
    /\ Where \in Aside <=> rollback # NoWorld
    /\ Where \in Swapped => data # NoWorld /\ data # current
    /\ failed # NoWorld => Where \in {"rbBack", "rbStart", "rbStartBroken"}

(* Where the server's world is while nothing went wrong beyond repair. *)
PlaceInv ==
    crashes = 0 /\ (\A o \in Ops : result[o] # "broken") /\ Where \notin Broken
        => current = IF Where \in Aside THEN rollback ELSE data

IInv == TypeOK /\ DiskInv /\ WorldSurvives /\ PlaceInv

-----------------------------------------------------------------------------
(* An operation past the lock is the one that holds it. *)
LEMMA Holder ==
    ASSUME TypeOK, NEW o \in Ops, NEW l \in Steps, pc[o] = l
    PROVE  lock = o /\ lock # NoOp /\ Where = l
BY ConstantsAssumption DEF TypeOK, OpType, Where, NoOp

(* A step of the holder to l. *)
LEMMA GotoStep ==
    ASSUME TypeOK, NEW o \in Ops, pc[o] \in Steps, NEW l \in Steps,
           pc' = [pc EXCEPT ![o] = l], was' \in [Ops -> BOOLEAN],
           UNCHANGED <<lock, kind, result>>
    PROVE  OpType' /\ Where' = l
<1>1. lock = o /\ lock # NoOp
  BY Holder
<1>2. pc' = [pc EXCEPT ![o] = l] /\ UNCHANGED <<kind, result>>
  OBVIOUS
<1>3. "done" \notin Steps
  BY DEF Steps
<1>4. OpType'
  BY <1>1, <1>2, <1>3 DEF TypeOK, OpType
<1> QED BY <1>1, <1>2, <1>4 DEF Where, TypeOK, OpType

(* The holder returns. *)
LEMMA ReturnStep ==
    ASSUME TypeOK, NEW o \in Ops, pc[o] \in Steps,
           NEW r \in {"ok", "error", "broken", "rolledBack", "notBack"},
           Return(o, r)
    PROVE  /\ OpType' /\ Where' = "free" /\ stage' = NoWorld
           /\ result' = [result EXCEPT ![o] = r]
<1>1. lock = o /\ lock # NoOp
  BY Holder
<1>2. /\ pc' = [pc EXCEPT ![o] = "done"] /\ result' = [result EXCEPT ![o] = r]
      /\ lock' = NoOp /\ UNCHANGED <<kind, was>> /\ stage' = NoWorld
  BY DEF Return
<1>3. \A p \in Ops : pc[p] \in Steps => p = o
  BY <1>1 DEF TypeOK, OpType
<1>4. "done" \notin Steps
  BY DEF Steps
<1>5. OpType'
  BY <1>2, <1>3, <1>4, ConstantsAssumption DEF TypeOK, OpType, NoOp
<1> QED BY <1>2, <1>5 DEF Where

(* Starting the unit makes a world at most, where there was none. *)
LEMMA StartStep ==
    ASSUME TypeOK, UnitStarts
    PROVE  /\ worlds' \in Worlds /\ worlds <= worlds'
           /\ unit' \in BOOLEAN /\ game' \in 0..worlds' /\ data' \in 0..worlds'
           /\ \/ data' = data /\ worlds' = worlds
              \/ data = NoWorld /\ data' = worlds + 1 /\ worlds' = worlds + 1
BY ConstantsAssumption
   DEF TypeOK, DiskType, UnitStarts, MakeWorld, Worlds, NoWorld
-----------------------------------------------------------------------------
(* A step that moves no directory keeps the invariant if the new step asks *)
(* for no more than the old one.                                           *)
LEMMA SameDisk ==
    ASSUME IInv, NEW o \in Ops, NEW m \in Steps,
           pc' = [pc EXCEPT ![o] = m], was' \in [Ops -> BOOLEAN],
           UNCHANGED <<lock, kind, result, places, worlds, current, external,
                       crashes, unsavedLoss>>,
           unit' \in BOOLEAN, game' \in 0..worlds, saved' \subseteq 1..worlds,
           stopIgnored' \in BOOLEAN,
           pc[o] \in Steps \ (Broken \cup {"rbBack", "rbStart"}),
           m \in {"moveAway", "activate"} => pc[o] \in {"moveAway", "activate"},
           m \in Aside <=> pc[o] \in Aside, m \in Swapped => pc[o] \in Swapped
    PROVE  IInv'
<1>1. Where = pc[o] /\ Where' = m /\ OpType'
  BY Holder, GotoStep DEF IInv
<1> USE DEF IInv, places
<1>2. TypeOK'
  BY <1>1 DEF TypeOK, DiskType, HistoryType
<1>3. failed = NoWorld
  BY <1>1 DEF DiskInv, Broken
<1>4. DiskInv'
  BY <1>1, <1>3 DEF DiskInv
<1>5. WorldSurvives'
  BY DEF WorldSurvives, OnDisk
<1>6. PlaceInv'
  BY <1>1 DEF PlaceInv
<1> QED BY <1>2, <1>4, <1>5, <1>6

(* The holder returns from a step at which no directory is moved away: the *)
(* unit may have been started, and a broken restore says so.               *)
LEMMA ReturnDisk ==
    ASSUME IInv, NEW o \in Ops, pc[o] \in Steps \ Aside,
           NEW r \in {"ok", "error", "broken", "rolledBack", "notBack"},
           Return(o, r), pc[o] \in Broken => r = "broken",
           UnitStarts \/ (/\ unit' \in BOOLEAN /\ game' \in 0..worlds
                           /\ UNCHANGED <<data, worlds>>),
           UNCHANGED <<rollback, saved, history>>,
           failed' = NoWorld,
           leftover \subseteq leftover',
           leftover' \subseteq leftover \cup ({failed} \ {NoWorld})
    PROVE  IInv'
<1>1. /\ Where = pc[o] /\ OpType' /\ Where' = "free" /\ stage' = NoWorld
      /\ result' = [result EXCEPT ![o] = r]
  BY Holder, ReturnStep DEF IInv
<1>2. /\ worlds' \in Worlds /\ worlds <= worlds' /\ worlds \in Nat /\ worlds' \in Nat
      /\ unit' \in BOOLEAN /\ game' \in 0..worlds' /\ data' \in 0..worlds'
      /\ \/ data' = data
         \/ data = NoWorld /\ data' = worlds + 1
  BY StartStep DEF IInv, TypeOK, DiskType, Worlds
<1>3. TypeOK'
  BY <1>1, <1>2 DEF IInv, TypeOK, DiskType, HistoryType, history, NoWorld
<1>4. rollback = NoWorld /\ rollback' = NoWorld
  BY <1>1 DEF IInv, DiskInv
<1>5. DiskInv'
  BY <1>1, <1>4 DEF IInv, DiskInv, TypeOK, HistoryType, history, NoWorld, Aside, Swapped
<1>6. current \in Nat \ {0} /\ current' = current
  BY <1>2 DEF IInv, TypeOK, HistoryType, history
<1>7. WorldSurvives'
  BY <1>2, <1>4, <1>6 DEF IInv, WorldSurvives, OnDisk, DiskInv, NoWorld
<1>8. PlaceInv'
  <2> SUFFICES ASSUME crashes' = 0, \A p \in Ops : result'[p] # "broken"
               PROVE  current' = data'
    BY <1>1 DEF PlaceInv, Aside, Swapped
  <2>1. r # "broken" /\ pc[o] \notin Broken
    BY <1>1 DEF IInv, TypeOK, OpType
  <2>2. \A p \in Ops : result[p] # "broken"
    BY <1>1, <2>1 DEF IInv, TypeOK, OpType, Steps
  <2>3. crashes = 0
    BY DEF history
  <2>4. current = data
    BY <1>1, <2>1, <2>2, <2>3 DEF IInv, PlaceInv
  <2> QED BY <1>2, <1>6, <2>4 DEF NoWorld
<1> QED BY <1>3, <1>5, <1>7, <1>8 DEF IInv

-----------------------------------------------------------------------------
(* The steps before the swap and of the verification. *)
LEMMA QuietSteps ==
    ASSUME IInv, NEW o \in Ops,
           \/ QueryState(o) \/ Stop(o) \/ WaitStop(o) \/ SafetyBackup(o)
           \/ WaitStart(o) \/ AwaitReady(o) \/ VerifyStopped(o)
           \/ RollbackStop(o) \/ RunUpdate(o)
    PROVE  IInv'
<1>1. /\ unit \in BOOLEAN /\ game \in 0..worlds /\ saved \subseteq 1..worlds
      /\ data \in 0..worlds /\ was \in [Ops -> BOOLEAN] /\ stopIgnored \in BOOLEAN
  BY DEF IInv, TypeOK, DiskType, OpType, HistoryType, Worlds
<1>0. /\ NoWorld \in 0..worlds
      /\ data # NoWorld => {data} \subseteq 1..worlds
  BY DEF IInv, TypeOK, DiskType, Worlds, NoWorld
<1>2. CASE QueryState(o)
  <2>1. CASE Return(o, "error")
    <3>1. failed = NoWorld
      BY <1>2, Holder DEF QueryState, IInv, DiskInv, Steps
    <3> QED BY <1>1, <1>2, <2>1, <3>1, ReturnDisk
            DEF QueryState, Steps, Aside, Swapped, Broken
  <2>2. CASE ~Return(o, "error")
    <3>1. PICK m \in {"stop", "safety"} : pc' = [pc EXCEPT ![o] = m]
      BY <1>2, <2>2 DEF QueryState
    <3>2. was' \in [Ops -> BOOLEAN]
      BY <1>1, <1>2, <2>2 DEF QueryState
    <3> QED BY <1>1, <1>2, <2>2, <3>1, <3>2, SameDisk
            DEF QueryState, places, history, Steps, Aside, Swapped, Broken
  <2> QED BY <2>1, <2>2
<1>3. CASE Stop(o)
  <2>1. CASE Return(o, "error")
    <3>1. failed = NoWorld
      BY <1>3, Holder DEF Stop, IInv, DiskInv, Steps
    <3>2. unit' \in BOOLEAN /\ game' \in 0..worlds
      BY <1>1, <1>0, <1>3 DEF Stop, UnitStops
    <3> QED BY <1>1, <1>3, <2>1, <3>1, <3>2, ReturnDisk
            DEF Stop, Steps, Aside, Swapped, Broken
  <2>2. CASE ~Return(o, "error")
    <3>1. unit' \in BOOLEAN /\ game' \in 0..worlds
      BY <1>1, <1>0, <1>3 DEF Stop, UnitStops
    <3> QED BY <1>1, <1>3, <2>2, <3>1, SameDisk
            DEF Stop, Goto, places, history, Steps, Aside, Swapped, Broken
  <2> QED BY <2>1, <2>2
<1>4. CASE WaitStop(o)
  BY <1>1, <1>4, SameDisk DEF WaitStop, Goto, history, Steps, Aside, Swapped, Broken
<1>5. CASE SafetyBackup(o)
  <2>1. saved' \subseteq 1..worlds
    BY <1>1, <1>0, <1>5 DEF SafetyBackup
  <2>2. PICK m \in {"stage", "update", "restart"} : Goto(o, m)
    BY <1>5 DEF SafetyBackup
  <2> QED BY <1>1, <1>5, <2>1, <2>2, SameDisk
          DEF SafetyBackup, Goto, history, Steps, Aside, Swapped, Broken
<1>6. CASE WaitStart(o)
  BY <1>1, <1>6, SameDisk DEF WaitStart, Goto, history, Steps, Aside, Swapped, Broken
<1>7. CASE AwaitReady(o)
  BY <1>1, <1>7, SameDisk DEF AwaitReady, Goto, history, Steps, Aside, Swapped, Broken
<1>8. CASE VerifyStopped(o)
  BY <1>1, <1>8, SameDisk DEF VerifyStopped, Goto, history, Steps, Aside, Swapped, Broken
<1>9. CASE RollbackStop(o)
  <2>1. unit' \in BOOLEAN /\ game' \in 0..worlds /\ stopIgnored' \in BOOLEAN
    BY <1>1, <1>0, <1>9 DEF RollbackStop, UnitStops
  <2> QED BY <1>1, <1>9, <2>1, SameDisk
          DEF RollbackStop, Goto, Steps, Aside, Swapped, Broken
<1>10. CASE RunUpdate(o)
  BY <1>1, <1>10, SameDisk DEF RunUpdate, Goto, history, Steps, Aside, Swapped, Broken
<1> QED BY <1>2, <1>3, <1>4, <1>5, <1>6, <1>7, <1>8, <1>9, <1>10

(* What every step that moves a directory starts from. *)
LEMMA Facts ==
    ASSUME IInv
    PROVE  /\ worlds \in Nat \ {0} /\ worlds <= MaxWorlds /\ MaxWorlds \in Nat
           /\ data \in 0..worlds /\ stage \in 0..worlds
           /\ rollback \in 0..worlds /\ failed \in 0..worlds
           /\ leftover \subseteq 1..worlds /\ current \in 1..worlds
BY ConstantsAssumption DEF IInv, TypeOK, DiskType, HistoryType, Worlds

(* The directories and the step after an action of the holder, and the     *)
(* invariant in terms of them.                                             *)
LEMMA DiskStep ==
    ASSUME IInv, NEW o \in Ops, pc[o] \in Steps, NEW m \in Steps, Goto(o, m),
           UNCHANGED <<lock, history>>,
           worlds' \in Worlds, worlds <= worlds',
           unit' \in BOOLEAN, game' \in 0..worlds', saved' \subseteq 1..worlds',
           data' \in 0..worlds', stage' \in 0..worlds', rollback' \in 0..worlds',
           failed' \in 0..worlds', leftover' \subseteq 1..worlds',
           stage' # current, failed' # current,
           m \in {"moveAway", "activate"} => stage' # NoWorld,
           m \in Aside <=> rollback' # NoWorld,
           m \in Swapped => data' # NoWorld /\ data' # current,
           failed' # NoWorld => m \in {"rbBack", "rbStart", "rbStartBroken"},
           current \in {data', rollback'} \cup leftover',
           \/ m \in Broken
           \/ /\ pc[o] \notin Broken
              /\ current = (IF pc[o] \in Aside THEN rollback ELSE data) =>
                     current = (IF m \in Aside THEN rollback' ELSE data')
    PROVE  IInv'
<1>1. Where = pc[o] /\ Where' = m /\ OpType' /\ UNCHANGED result
  <2>1. /\ pc' = [pc EXCEPT ![o] = m] /\ UNCHANGED <<lock, kind, result>>
        /\ was' \in [Ops -> BOOLEAN]
    BY DEF Goto, IInv, TypeOK, OpType
  <2> QED BY <2>1, Holder, GotoStep DEF IInv
<1>2. UNCHANGED <<current, external, crashes, stopIgnored, unsavedLoss>>
  BY DEF history
<1>3. current \in 1..worlds /\ worlds \in Nat /\ worlds' \in Nat
  BY Facts DEF Worlds
<1>4. current' \in 1..worlds'
  BY <1>2, <1>3
<1>5. HistoryType'
  BY <1>2, <1>4 DEF IInv, TypeOK, HistoryType
<1>6. TypeOK'
  BY <1>1, <1>5 DEF TypeOK, DiskType
<1>7. DiskInv'
  BY <1>1, <1>2 DEF DiskInv
<1>8. WorldSurvives'
  BY <1>2, <1>3 DEF WorldSurvives, OnDisk, NoWorld
<1>9. PlaceInv'
  BY <1>1, <1>2 DEF PlaceInv, IInv
<1> QED BY <1>6, <1>7, <1>8, <1>9 DEF IInv

(* The steps that move a directory. *)
LEMMA MovingSteps ==
    ASSUME IInv, NEW o \in Ops,
           \/ StageSnapshot(o) \/ MoveAway(o) \/ Activate(o) \/ Undo(o)
           \/ StartRestored(o) \/ RollbackMove(o) \/ RollbackBack(o)
    PROVE  IInv'
<1>1. /\ unit \in BOOLEAN /\ game \in 0..worlds /\ saved \subseteq 1..worlds
      /\ worlds \in Worlds
  BY DEF IInv, TypeOK, DiskType
<1>2. ASSUME NEW l \in Steps, pc[o] = l
      PROVE  /\ l \in {"moveAway", "activate"} => stage # NoWorld
             /\ l \in Aside <=> rollback # NoWorld
             /\ l \in Swapped => data # NoWorld /\ data # current
             /\ l \notin {"rbBack", "rbStart", "rbStartBroken"} => failed = NoWorld
             /\ stage # current /\ failed # current
             /\ current \in {data, rollback} \cup leftover
  <2>1. Where = l
    BY <1>2, Holder DEF IInv
  <2> QED BY <2>1, Facts DEF IInv, DiskInv, WorldSurvives, OnDisk, NoWorld
<1>3. CASE StageSnapshot(o)
  <2>1. /\ pc[o] = "stage" /\ "stage" \in Steps
        /\ UNCHANGED <<unit, game, data, rollback, failed, leftover, lock, history>>
    BY <1>3 DEF StageSnapshot, Steps
  <2>2. PICK m \in {"moveAway", "restart"} :
          /\ Goto(o, m)
          /\ \/ /\ worlds < MaxWorlds /\ worlds' = worlds + 1
                /\ stage' = worlds + 1 /\ saved' = saved \cup {worlds + 1}
             \/ m = "restart" /\ UNCHANGED <<worlds, stage, saved>>
    BY <1>3 DEF StageSnapshot
  <2>3. /\ worlds' \in Worlds /\ worlds <= worlds' /\ worlds' \in Nat
        /\ saved' \subseteq 1..worlds' /\ stage' \in 0..worlds'
        /\ stage' # current /\ (m = "moveAway" => stage' # NoWorld)
    <3>1. CASE worlds' = worlds + 1 /\ stage' = worlds + 1 /\ worlds < MaxWorlds
               /\ saved' = saved \cup {worlds + 1}
      BY <1>1, <3>1, Facts DEF Worlds, NoWorld
    <3>2. CASE m = "restart" /\ UNCHANGED <<worlds, stage, saved>>
      BY <1>1, <1>2, <2>1, <3>2, Facts DEF Worlds, NoWorld
    <3> QED BY <2>2, <3>1, <3>2
  <2>5. /\ game' \in 0..worlds' /\ data' \in 0..worlds' /\ rollback' \in 0..worlds'
        /\ failed' \in 0..worlds' /\ leftover' \subseteq 1..worlds'
    BY <1>1, <2>1, <2>3, Facts
  <2>4. m \in Steps /\ m \notin Aside /\ m \notin Swapped /\ m # "activate"
        /\ "stage" \notin Aside /\ "stage" \notin Broken
    BY DEF Steps, Aside, Swapped, Broken
  <2> QED BY <1>1, <1>2, <2>1, <2>2, <2>3, <2>4, <2>5, DiskStep
<1>4. CASE MoveAway(o)
  <2>1. /\ pc[o] = "moveAway" /\ "moveAway" \in Steps
        /\ UNCHANGED <<unit, game, stage, failed, leftover, saved, worlds, lock,
                       history>>
    BY <1>4 DEF MoveAway, Steps
  <2>2. CASE /\ data # NoWorld /\ rollback' = data /\ data' = NoWorld
             /\ Goto(o, "activate")
    <3>1. "activate" \in Steps /\ "activate" \in Aside /\ "activate" \notin Swapped
          /\ "moveAway" \notin Aside /\ "moveAway" \notin Broken
      BY DEF Steps, Aside, Swapped, Broken
    <3>2. data' \in 0..worlds /\ current \in {data', rollback'} \cup leftover'
      BY <1>2, <2>1, <2>2, <3>1, Facts DEF NoWorld
    <3> QED BY <1>1, <1>2, <2>1, <2>2, <3>1, <3>2, Facts, DiskStep
  <2>3. CASE UNCHANGED <<data, rollback>> /\ Goto(o, "restart")
    <3>1. "restart" \in Steps /\ "restart" \notin Aside /\ "restart" \notin Swapped
          /\ "moveAway" \notin Aside /\ "moveAway" \notin Broken
      BY DEF Steps, Aside, Swapped, Broken
    <3> QED BY <1>1, <1>2, <2>1, <2>3, <3>1, Facts, DiskStep
  <2> QED BY <1>4, <2>2, <2>3 DEF MoveAway
<1>5. CASE Activate(o)
  <2>1. /\ pc[o] = "activate" /\ "activate" \in Steps
        /\ "activate" \in Aside /\ "activate" \notin Broken
        /\ UNCHANGED <<unit, game, rollback, failed, leftover, saved, worlds, lock,
                       history>>
    BY <1>5 DEF Activate, Steps, Aside, Broken
  <2>2. CASE /\ data = NoWorld /\ data' = stage /\ stage' = NoWorld
             /\ \E m \in {"start", "verify"} : Goto(o, m)
    <3>1. PICK m \in {"start", "verify"} : Goto(o, m)
      BY <2>2
    <3>2. m \in Steps /\ m \in Aside /\ m \notin {"moveAway", "activate"}
      BY DEF Steps, Aside, Swapped
    <3>3. stage' \in 0..worlds /\ stage' # current
          /\ current \in {data', rollback'} \cup leftover'
      BY <1>2, <2>1, <2>2, Facts DEF NoWorld
    <3> QED BY <1>1, <1>2, <2>1, <2>2, <3>1, <3>2, <3>3, Facts, DiskStep
  <2>3. CASE UNCHANGED <<data, stage>> /\ Goto(o, "undo")
    <3>1. "undo" \in Steps /\ "undo" \in Aside /\ "undo" \notin Swapped
      BY DEF Steps, Aside, Swapped
    <3> QED BY <1>1, <1>2, <2>1, <2>3, <3>1, Facts, DiskStep
  <2> QED BY <1>5, <2>2, <2>3 DEF Activate
<1>6. CASE Undo(o)
  <2>1. /\ pc[o] = "undo" /\ "undo" \in Steps /\ "undo" \in Aside
        /\ "undo" \notin Broken /\ rollback' = NoWorld
        /\ UNCHANGED <<unit, game, stage, failed, saved, worlds, lock, history>>
    BY <1>6 DEF Undo, Steps, Aside, Broken
  <2>2. NoWorld \in 0..worlds /\ {rollback} \subseteq 1..worlds
    BY <1>2, <2>1, Facts DEF NoWorld
  <2>3. CASE /\ data = NoWorld /\ data' = rollback /\ UNCHANGED leftover
             /\ Goto(o, "restart")
    <3>1. "restart" \in Steps /\ "restart" \notin Aside /\ "restart" \notin Swapped
      BY DEF Steps, Aside, Swapped
    <3>2. current \in {data', rollback'} \cup leftover'
      BY <1>2, <2>1, <2>3, Facts DEF NoWorld
    <3> QED BY <1>1, <1>2, <2>1, <2>2, <2>3, <3>1, <3>2, Facts, DiskStep
  <2>4. CASE /\ leftover' = leftover \cup {rollback} /\ UNCHANGED data
             /\ Goto(o, "restartBroken")
    <3>1. "restartBroken" \in Steps /\ "restartBroken" \notin Aside
          /\ "restartBroken" \notin Swapped /\ "restartBroken" \in Broken
      BY DEF Steps, Aside, Swapped, Broken
    <3>2. current \in {data', rollback'} \cup leftover'
      BY <1>2, <2>1, <2>4, Facts
    <3>3. leftover' \subseteq 1..worlds
      BY <2>2, <2>4, Facts
    <3> QED BY <1>1, <1>2, <2>1, <2>2, <2>4, <3>1, <3>2, <3>3, Facts, DiskStep
  <2> QED BY <1>6, <2>3, <2>4 DEF Undo
<1>7. CASE StartRestored(o)
  <2>1. /\ pc[o] = "start" /\ "start" \in Steps /\ "start" \in Aside
        /\ "start" \in Swapped /\ "start" \notin Broken
        /\ UNCHANGED <<stage, rollback, failed, leftover, saved, lock, history>>
    BY <1>7 DEF StartRestored, Steps, Aside, Swapped, Broken
  <2>2. PICK m \in {"waitStart", "rbStop"} : Goto(o, m)
    BY <1>7 DEF StartRestored
  <2>3. m \in Steps /\ m \in Aside /\ m \notin {"moveAway", "activate"}
    BY DEF Steps, Aside, Swapped
  <2>4. /\ unit' \in BOOLEAN /\ game' \in 0..worlds'
        /\ UNCHANGED <<data, worlds>>
    BY <1>1, <1>2, <1>7, <2>1, StartStep DEF StartRestored, IInv
  <2>5. worlds' \in Worlds /\ worlds <= worlds'
    BY <1>1, <2>4, Facts
  <2> QED BY <1>1, <1>2, <2>1, <2>2, <2>3, <2>4, <2>5, Facts, DiskStep
<1>8. CASE RollbackMove(o)
  <2>1. /\ pc[o] = "rbMove" /\ "rbMove" \in Steps /\ "rbMove" \in Aside
        /\ "rbMove" \in Swapped /\ "rbMove" \notin Broken /\ Goto(o, "rbBack")
        /\ UNCHANGED <<unit, game, stage, rollback, leftover, saved, worlds, lock,
                       history>>
    BY <1>8 DEF RollbackMove, Steps, Aside, Swapped, Broken
  <2>2. "rbBack" \in Steps /\ "rbBack" \in Aside /\ "rbBack" \notin Swapped
    BY DEF Steps, Aside, Swapped
  <2>3. CASE data # NoWorld /\ failed' = data /\ data' = NoWorld
    <3>1. data' \in 0..worlds /\ current \in {data', rollback'} \cup leftover'
      BY <1>2, <2>1, <2>3, Facts DEF NoWorld
    <3> QED BY <1>1, <1>2, <2>1, <2>2, <2>3, <3>1, Facts, DiskStep
  <2>4. CASE UNCHANGED <<data, failed>>
    BY <1>1, <1>2, <2>1, <2>2, <2>4, Facts, DiskStep
  <2> QED BY <1>8, <2>3, <2>4 DEF RollbackMove
<1>9. CASE RollbackBack(o)
  <2>1. /\ pc[o] = "rbBack" /\ "rbBack" \in Steps /\ "rbBack" \in Aside
        /\ "rbBack" \notin Broken /\ rollback' = NoWorld
        /\ UNCHANGED <<unit, game, stage, failed, saved, worlds, lock, history>>
    BY <1>9 DEF RollbackBack, Steps, Aside, Broken
  <2>2. NoWorld \in 0..worlds /\ {rollback} \subseteq 1..worlds
    BY <1>2, <2>1, Facts DEF NoWorld
  <2>3. CASE /\ data = NoWorld /\ data' = rollback /\ UNCHANGED leftover
             /\ Goto(o, "rbStart")
    <3>1. "rbStart" \in Steps /\ "rbStart" \notin Aside /\ "rbStart" \notin Swapped
      BY DEF Steps, Aside, Swapped
    <3>2. current \in {data', rollback'} \cup leftover'
      BY <1>2, <2>1, <2>3, Facts DEF NoWorld
    <3> QED BY <1>1, <1>2, <2>1, <2>2, <2>3, <3>1, <3>2, Facts, DiskStep
  <2>4. CASE /\ leftover' = leftover \cup {rollback} /\ UNCHANGED data
             /\ Goto(o, "rbStartBroken")
    <3>1. "rbStartBroken" \in Steps /\ "rbStartBroken" \notin Aside
          /\ "rbStartBroken" \notin Swapped /\ "rbStartBroken" \in Broken
      BY DEF Steps, Aside, Swapped, Broken
    <3>2. current \in {data', rollback'} \cup leftover'
      BY <1>2, <2>1, <2>4, Facts
    <3>3. leftover' \subseteq 1..worlds
      BY <2>2, <2>4, Facts
    <3> QED BY <1>1, <1>2, <2>1, <2>2, <2>4, <3>1, <3>2, <3>3, Facts, DiskStep
  <2> QED BY <1>9, <2>3, <2>4 DEF RollbackBack
<1> QED BY <1>3, <1>4, <1>5, <1>6, <1>7, <1>8, <1>9

(* The steps at which an operation reports and returns. *)
LEMMA ReturningSteps ==
    ASSUME IInv, NEW o \in Ops,
           \/ RestartOriginal(o) \/ RestartBroken(o) \/ RollbackStart(o)
           \/ UpdateStart(o)
    PROVE  IInv'
<1>1. unit \in BOOLEAN /\ game \in 0..worlds
  BY DEF IInv, TypeOK, DiskType
<1>2. UnitStarts \/ (/\ unit' \in BOOLEAN /\ game' \in 0..worlds
                      /\ UNCHANGED <<data, worlds>>)
  BY <1>1 DEF RestartOriginal, RestartBroken, RollbackStart, UpdateStart
<1>3. ASSUME NEW l \in Steps, pc[o] = l,
             l \notin {"rbBack", "rbStart", "rbStartBroken"}
      PROVE  failed = NoWorld
  BY <1>3, Holder DEF IInv, DiskInv
<1>4. CASE RestartOriginal(o)
  BY <1>2, <1>3, <1>4, ReturnDisk
     DEF RestartOriginal, Steps, Aside, Swapped, Broken
<1>5. CASE RestartBroken(o)
  BY <1>2, <1>3, <1>5, ReturnDisk
     DEF RestartBroken, Steps, Aside, Swapped, Broken
<1>6. CASE RollbackStart(o)
  <2>1. /\ pc[o] \in Steps \ Aside
        /\ \E r \in {"rolledBack", "broken"} :
              Return(o, r) /\ (pc[o] \in Broken => r = "broken")
    BY <1>6 DEF RollbackStart, Steps, Aside, Swapped, Broken
  <2>2. /\ failed' = NoWorld /\ leftover \subseteq leftover'
        /\ leftover' \subseteq leftover \cup ({failed} \ {NoWorld})
        /\ UNCHANGED <<rollback, saved, history>>
    BY <1>6 DEF RollbackStart
  <2> QED BY <1>2, <2>1, <2>2, ReturnDisk
<1>7. CASE UpdateStart(o)
  BY <1>2, <1>3, <1>7, ReturnDisk
     DEF UpdateStart, Steps, Aside, Swapped, Broken
<1> QED BY <1>4, <1>5, <1>6, <1>7

(* The success of a restore: the verified world takes the place of the one *)
(* that is removed.                                                        *)
LEMMA CleanUpKeeps ==
    ASSUME IInv, NEW o \in Ops, CleanUp(o)
    PROVE  IInv'
<1>1. /\ pc[o] = "cleanup" /\ "cleanup" \in Steps /\ "cleanup" \in Aside
      /\ "cleanup" \in Swapped /\ rollback' = NoWorld /\ current' = data
      /\ Return(o, "ok")
      /\ UNCHANGED <<unit, game, data, failed, saved, worlds, external, crashes,
                     stopIgnored>>
  BY DEF CleanUp, Steps, Aside, Swapped
<1>2. /\ Where' = "free" /\ OpType' /\ stage' = NoWorld
  BY <1>1, ReturnStep DEF IInv
<1>3. Where = "cleanup"
  BY <1>1, Holder DEF IInv
<1>4. data # NoWorld /\ failed = NoWorld /\ rollback # NoWorld
  BY <1>1, <1>3 DEF IInv, DiskInv
<1>5. /\ {data} \subseteq 1..worlds /\ {rollback} \subseteq 1..worlds
      /\ NoWorld \in 0..worlds
  BY <1>4, Facts DEF NoWorld
<1>6. DiskType'
  <2>1. leftover' \subseteq 1..worlds
    BY <1>5, Facts DEF CleanUp
  <2> QED BY <1>1, <1>2, <1>5, <2>1 DEF IInv, TypeOK, DiskType
<1>7. HistoryType'
  <2>1. unsavedLoss' \in BOOLEAN
    BY DEF CleanUp, IInv, TypeOK, HistoryType
  <2> QED BY <1>1, <1>5, <2>1 DEF IInv, TypeOK, HistoryType
<1>8. DiskInv'
  BY <1>1, <1>2, <1>4 DEF DiskInv, Aside, Swapped
<1>9. WorldSurvives'
  BY <1>1, <1>4 DEF WorldSurvives, OnDisk
<1>10. PlaceInv'
  BY <1>1, <1>2 DEF PlaceInv, Aside, Swapped
<1> QED BY <1>2, <1>6, <1>7, <1>8, <1>9, <1>10 DEF IInv, TypeOK

(* Every step of an operation keeps the invariant. *)
LEMMA StepKeeps ==
    ASSUME IInv, NEW o \in Ops, Step(o)
    PROVE  IInv'
BY QuietSteps, MovingSteps, ReturningSteps, CleanUpKeeps DEF Step

(* A step of something else than the holder keeps it: it moves no          *)
(* directory, and makes the data directory at most where there is none.    *)
LEMMA OutsideKeeps ==
    ASSUME IInv, OpType', Where' = Where, UNCHANGED <<lock, crashes, current>>,
           \A o \in Ops : result'[o] # "broken" => result[o] # "broken",
           UNCHANGED <<stage, rollback, failed, leftover>>,
           worlds' \in Worlds, worlds <= worlds',
           unit' \in BOOLEAN, game' \in 0..worlds', data' \in 0..worlds',
           saved' \subseteq 1..worlds',
           data' = data \/ (data = NoWorld /\ data' = worlds + 1),
           external' \in Nat, stopIgnored' \in BOOLEAN, unsavedLoss' \in BOOLEAN
    PROVE  IInv'
<1>1. current \in 1..worlds /\ worlds \in Nat /\ worlds' \in Nat
  BY Facts DEF Worlds
<1>2. DiskType'
  BY <1>1, Facts DEF DiskType
<1>3. HistoryType'
  BY <1>1 DEF IInv, TypeOK, HistoryType
<1>4. DiskInv'
  BY <1>1 DEF IInv, DiskInv, NoWorld
<1>5. WorldSurvives'
  BY <1>1 DEF IInv, WorldSurvives, OnDisk, NoWorld
<1>6. PlaceInv'
  BY <1>1 DEF IInv, PlaceInv, NoWorld
<1> QED BY <1>2, <1>3, <1>4, <1>5, <1>6 DEF IInv, TypeOK

(* What is left alone keeps its type. *)
LEMMA OutsideFrame ==
    ASSUME IInv
    PROVE  /\ UNCHANGED <<lock, opVars>> =>
                 /\ OpType' /\ Where' = Where
                 /\ \A o \in Ops : result'[o] # "broken" => result[o] # "broken"
           /\ UNCHANGED <<unit, game, data, worlds>> =>
                 /\ worlds' \in Worlds /\ worlds <= worlds' /\ unit' \in BOOLEAN
                 /\ game' \in 0..worlds' /\ data' \in 0..worlds'
           /\ UNCHANGED history =>
                 /\ external' \in Nat /\ stopIgnored' \in BOOLEAN
                 /\ unsavedLoss' \in BOOLEAN /\ UNCHANGED <<crashes, current>>
           /\ saved \subseteq 1..worlds
<1>1. UNCHANGED <<lock, opVars>> => OpType' /\ Where' = Where /\ UNCHANGED result
  BY DEF IInv, TypeOK, OpType, Where, opVars
<1>2. worlds \in Nat
  BY Facts
<1>3. UNCHANGED <<unit, game, data, worlds>> =>
                 /\ worlds' \in Worlds /\ worlds <= worlds' /\ unit' \in BOOLEAN
                 /\ game' \in 0..worlds' /\ data' \in 0..worlds'
  BY <1>2 DEF IInv, TypeOK, DiskType
<1>4. UNCHANGED history =>
                 /\ external' \in Nat /\ stopIgnored' \in BOOLEAN
                 /\ unsavedLoss' \in BOOLEAN /\ UNCHANGED <<crashes, current>>
  BY DEF IInv, TypeOK, HistoryType, history
<1> QED BY <1>1, <1>3, <1>4 DEF IInv, TypeOK, DiskType

(* The requests, the short handlers and the surroundings keep the          *)
(* invariant.                                                              *)
LEMMA OtherSteps ==
    ASSUME IInv,
           \/ \E o \in Ops : Request(o) \/ Acquire(o)
           \/ HandleStart \/ HandleStop \/ HandleFiles \/ HandleBackup
           \/ GameWrites \/ GameDies \/ ExternalStart
    PROVE  IInv'
<1>1. /\ saved \subseteq 1..worlds /\ worlds \in Worlds /\ worlds \in Nat
      /\ worlds <= worlds /\ NoWorld \in 0..worlds /\ MaxWorlds \in Nat
      /\ data # NoWorld => {data} \subseteq 1..worlds
      /\ data \in 0..worlds
  BY Facts DEF IInv, TypeOK, DiskType, NoWorld
<1>2. ASSUME NEW o \in Ops, Request(o) PROVE IInv'
  <2>1. /\ pc[o] = "idle" /\ UNCHANGED <<lock, kind, was>>
        /\ \/ pc' = [pc EXCEPT ![o] = "lock"] /\ UNCHANGED result
           \/ /\ pc' = [pc EXCEPT ![o] = "done"]
              /\ result' = [result EXCEPT ![o] = "error"]
    BY <1>2 DEF Request
  <2>2. "idle" \notin Steps /\ "lock" \notin Steps /\ "done" \notin Steps
    BY DEF Steps
  <2>3. lock # o
    BY <2>1, <2>2 DEF IInv, TypeOK, OpType
  <2>4. OpType'
    BY <2>1, <2>2, <2>3 DEF IInv, TypeOK, OpType
  <2>5. Where' = Where
    BY <2>1, <2>3 DEF IInv, TypeOK, OpType, Where
  <2>6. \A p \in Ops : result'[p] # "broken" => result[p] # "broken"
    BY <2>1 DEF IInv, TypeOK, OpType
  <2> QED BY <1>1, <1>2, <2>4, <2>5, <2>6, OutsideFrame, OutsideKeeps
          DEF Request, places
<1>3. ASSUME NEW o \in Ops, Acquire(o) PROVE IInv'
  <2>1. /\ pc[o] = "lock" /\ lock = NoOp /\ lock' = o /\ o # NoOp
        /\ pc' = [pc EXCEPT ![o] = "state"] /\ UNCHANGED <<kind, was, result>>
    BY <1>3, ConstantsAssumption DEF Acquire, Goto, NoOp
  <2>2. "state" \in Steps /\ "free" \notin Aside /\ "state" \notin Aside
        /\ "free" \notin Broken /\ "state" \notin Swapped
    BY DEF Steps, Aside, Swapped, Broken
  <2>3. \A p \in Ops : pc[p] \notin Steps
    BY <2>1, ConstantsAssumption DEF IInv, TypeOK, OpType, NoOp
  <2>4. OpType'
    BY <2>1, <2>2, <2>3 DEF IInv, TypeOK, OpType
  <2>5. Where = "free" /\ Where' = "state"
    BY <2>1 DEF IInv, TypeOK, OpType, Where
  <2>6. UNCHANGED <<unit, game, places, saved, worlds, history>>
    BY <1>3 DEF Acquire
  <2>7. TypeOK'
    BY <2>4, <2>6 DEF IInv, TypeOK, DiskType, HistoryType, places, history
  <2>8. DiskInv'
    BY <2>2, <2>5, <2>6 DEF IInv, DiskInv, places, history
  <2>9. WorldSurvives'
    BY <2>6 DEF IInv, WorldSurvives, OnDisk, places, history
  <2>10. PlaceInv'
    BY <2>1, <2>2, <2>5, <2>6 DEF IInv, PlaceInv, places, history
  <2> QED BY <2>7, <2>8, <2>9, <2>10 DEF IInv
<1>4. CASE HandleStart \/ ExternalStart
  <2>1. /\ UnitStarts
        /\ UNCHANGED <<stage, rollback, failed, leftover, saved, lock, opVars,
                       current, crashes, stopIgnored, unsavedLoss>>
        /\ external' \in {external, external + 1}
    BY <1>4 DEF HandleStart, ExternalStart, history
  <2>2. /\ external' \in Nat /\ stopIgnored' \in BOOLEAN /\ unsavedLoss' \in BOOLEAN
    BY <2>1 DEF IInv, TypeOK, HistoryType
  <2>3. /\ worlds' \in Worlds /\ worlds <= worlds' /\ worlds' \in Nat
        /\ unit' \in BOOLEAN /\ game' \in 0..worlds' /\ data' \in 0..worlds'
        /\ data' = data \/ (data = NoWorld /\ data' = worlds + 1)
    BY <2>1, StartStep DEF IInv, Worlds
  <2>4. saved' \subseteq 1..worlds'
    BY <1>1, <2>1, <2>3
  <2>5. /\ OpType' /\ Where' = Where
        /\ \A o \in Ops : result'[o] # "broken" => result[o] # "broken"
    BY <2>1, OutsideFrame
  <2> QED BY <2>1, <2>2, <2>3, <2>4, <2>5, OutsideKeeps
<1>5. CASE HandleStop \/ GameDies
  <2>1. /\ UnitStops
        /\ UNCHANGED <<places, saved, worlds, lock, opVars, history>>
    BY <1>5 DEF HandleStop, GameDies
  <2>2. unit' \in BOOLEAN /\ game' \in 0..worlds'
    BY <1>1, <2>1 DEF UnitStops
  <2>3. data' = data /\ data' \in 0..worlds' /\ saved' \subseteq 1..worlds'
        /\ worlds' \in Worlds /\ worlds <= worlds'
    BY <1>1, <2>1 DEF places
  <2> QED BY <2>1, <2>2, <2>3, OutsideFrame, OutsideKeeps DEF places
<1>6. CASE HandleFiles
  <2>1. /\ UNCHANGED <<unit, game, stage, rollback, failed, leftover, lock, opVars,
                       history>>
        /\ \/ UNCHANGED <<data, worlds>> /\ saved' = saved \ {data}
           \/ MakeWorld /\ UNCHANGED saved
    BY <1>6 DEF HandleFiles
  <2>2. /\ worlds' \in Worlds /\ worlds <= worlds' /\ worlds' \in Nat
        /\ data' \in 0..worlds'
        /\ data' = data \/ (data = NoWorld /\ data' = worlds + 1)
    BY <1>1, <2>1 DEF MakeWorld, Worlds
  <2>3. saved' \subseteq 1..worlds'
    <3>1. saved' \subseteq saved
      BY <2>1
    <3> QED BY <1>1, <2>2, <3>1
  <2>4. unit' \in BOOLEAN /\ game' \in 0..worlds'
    <3>1. game \in 0..worlds /\ unit \in BOOLEAN
      BY DEF IInv, TypeOK, DiskType
    <3>2. game' \in 0..worlds'
      BY <1>1, <2>1, <2>2, <3>1
    <3> QED BY <2>1, <3>1, <3>2
  <2> QED BY <2>1, <2>2, <2>3, <2>4, OutsideFrame, OutsideKeeps
<1>7. CASE HandleBackup \/ GameWrites
  <2>1. UNCHANGED <<unit, game, places, worlds, lock, opVars, history>>
    BY <1>7 DEF HandleBackup, GameWrites
  <2>2. saved' \subseteq 1..worlds'
    BY <1>1, <1>7, <2>1 DEF HandleBackup, GameWrites
  <2> QED BY <2>1, <2>2, OutsideFrame, OutsideKeeps DEF places
<1> QED BY <1>2, <1>3, <1>4, <1>5, <1>6, <1>7

(* A crash of the agent keeps the invariant: the directories in use become *)
(* leftovers, none is removed.                                             *)
LEMMA CrashKeeps ==
    ASSUME IInv, Crash
    PROVE  IInv'
<1>1. /\ leftover' = leftover \cup ({stage, rollback, failed} \ {NoWorld})
      /\ stage' = NoWorld /\ rollback' = NoWorld /\ failed' = NoWorld
      /\ lock' = NoOp /\ crashes' = crashes + 1
      /\ pc' = [o \in Ops |-> IF pc[o] = "idle" THEN "idle" ELSE "done"]
      /\ UNCHANGED <<unit, game, data, saved, worlds, kind, was, result, current,
                     external, stopIgnored, unsavedLoss>>
  BY DEF Crash
<1>2. "idle" \notin Steps /\ "done" \notin Steps /\ NoOp \notin Ops
  BY ConstantsAssumption DEF Steps, NoOp
<1>3. OpType'
  BY <1>1, <1>2 DEF IInv, TypeOK, OpType
<1>4. {stage, rollback, failed} \ {NoWorld} \subseteq 1..worlds /\ NoWorld \in 0..worlds
  BY Facts DEF NoWorld
<1>5. DiskType'
  BY <1>1, <1>4 DEF IInv, TypeOK, DiskType
<1>6. crashes \in Nat /\ crashes' \in Nat /\ crashes' # 0 /\ current # NoWorld
  BY <1>1, Facts DEF IInv, TypeOK, HistoryType, NoWorld
<1>7. HistoryType'
  BY <1>1, <1>6 DEF IInv, TypeOK, HistoryType
<1>8. Where' = "free"
  BY <1>1 DEF Where
<1>9. DiskInv'
  BY <1>1, <1>6, <1>8 DEF DiskInv, Aside, Swapped
<1>10. WorldSurvives'
  BY <1>1, <1>6 DEF IInv, WorldSurvives, OnDisk
<1>11. PlaceInv'
  BY <1>6 DEF PlaceInv
<1> QED BY <1>3, <1>5, <1>7, <1>9, <1>10, <1>11 DEF IInv, TypeOK

(* The inductive invariant holds before the first request. *)
LEMMA InvInit == Init => IInv
<1> SUFFICES ASSUME Init PROVE IInv
  OBVIOUS
<1>1. /\ lock = NoOp /\ Where = "free" /\ NoOp \notin Ops
      /\ "idle" \notin Steps /\ 1 \in Worlds
  BY ConstantsAssumption DEF Init, Where, NoOp, Steps, Worlds
<1>2. DiskType
  <2>1. game \in 0..1
    BY DEF Init, NoWorld
  <2>2. unit \in BOOLEAN
    BY DEF Init
  <2>3. worlds = 1 /\ data = 1 /\ stage = 0 /\ rollback = 0 /\ failed = 0
        /\ leftover = {} /\ saved = {}
    BY DEF Init, NoWorld
  <2>4. /\ data \in 0..1 /\ 0 \in 0..1
    BY <2>3
  <2> QED BY <1>1, <2>1, <2>2, <2>3, <2>4 DEF DiskType
<1>3. OpType
  BY <1>1 DEF Init, OpType
<1>4. HistoryType
  <2>1. current \in 1..worlds /\ external \in Nat /\ crashes \in Nat
    BY DEF Init
  <2> QED BY <2>1 DEF Init, HistoryType
<1>5. DiskInv
  BY <1>1 DEF Init, DiskInv, NoWorld, Aside, Swapped
<1>6. WorldSurvives
  BY DEF Init, WorldSurvives, OnDisk, NoWorld
<1>7. PlaceInv
  BY <1>1 DEF Init, PlaceInv, Aside, Swapped
<1> QED BY <1>2, <1>3, <1>4, <1>5, <1>6, <1>7 DEF IInv, TypeOK

(* Every step keeps the inductive invariant. *)
LEMMA InvStep == IInv /\ [Next]_vars => IInv'
<1> SUFFICES ASSUME IInv, [Next]_vars PROVE IInv'
  OBVIOUS
<1>1. CASE UNCHANGED vars
  <2>1. /\ UNCHANGED <<unit, game, places, saved, worlds, lock, opVars, history>>
    BY <1>1 DEF vars
  <2>2. data' = data /\ saved' \subseteq 1..worlds'
    BY <2>1, OutsideFrame DEF places
  <2> QED BY <2>1, <2>2, OutsideFrame, OutsideKeeps DEF places
<1>2. CASE Next
  BY <1>2, StepKeeps, OtherSteps, CrashKeeps DEF Next
<1> QED BY <1>1, <1>2

(* The inductive invariant holds for every set of requests, every number   *)
(* of worlds, crashes and starts from outside.                             *)
THEOREM Invariance == Spec => []IInv
BY InvInit, InvStep, PTL DEF Spec

(* The variables keep their types, and the mutex works: an operation is    *)
(* past the lock exactly while it holds it.                                *)
THEOREM TypeCorrect == Spec => []TypeOK
<1>1. IInv => TypeOK
  BY DEF IInv
<1> QED BY <1>1, Invariance, PTL

(* No crash, no failed call and no interference from the host destroys the *)
(* server's world (src/cmd/hogs-agent/restore.go:269-355).                 *)
THEOREM Survival == Spec => []WorldSurvives
<1>1. IInv => WorldSurvives
  BY DEF IInv
<1> QED BY <1>1, Invariance, PTL

(* Without a crash, an operation that does not report a broken rollback    *)
(* leaves the server's world in its data directory                         *)
(* (src/cmd/hogs-agent/restore.go:274-323).                                *)
THEOREM Atomicity == Spec => []AllOrNothing
<1>1. IInv => AllOrNothing
  BY DEF IInv, PlaceInv, AllOrNothing, Where, Aside, Swapped, Broken
<1> QED BY <1>1, Invariance, PTL
-----------------------------------------------------------------------------
(* The steps at which the operation knows the unit to be stopped, at which *)
(* the data directory is in a snapshot, at which the directory it moved    *)
(* away is, and the ones after a rollback has stopped the unit.            *)
Still == {"waitStop", "safety", "restart", "stage", "moveAway", "activate", "undo",
          "restartBroken", "start", "verify", "update", "upStart"}
Safe == {"stage", "moveAway", "update"}
Kept == {"activate", "start", "waitStart", "ready", "verify", "cleanup", "rbStop"}
Rolling == {"rbMove", "rbBack", "rbStart", "rbStartBroken"}

(* A game that runs has a world open, and the directories of a restore are *)
(* not the same one.                                                       *)
ApartInv ==
    /\ game = NoWorld <=> ~unit
    /\ Where \in {"moveAway", "activate"} => stage # data /\ stage # rollback
    /\ Where \in Swapped => data # rollback

(* While nothing but the agent starts the unit. *)
QuietInv ==
    external = 0 =>
        /\ ~unsavedLoss
        /\ Where \in Still => ~unit
        /\ Where \in Safe => data \in saved
        /\ Where \in Kept => rollback \in saved /\ (unit => game = data)
        /\ ~stopIgnored => /\ Where \in Rolling => ~unit
                           /\ unit => game = data

GuardInv == ApartInv /\ QuietInv

(* Where the holder stands before and after it goes on or returns. *)
LEMMA Went ==
    ASSUME IInv, NEW o \in Ops, pc[o] \in Steps, NEW m \in Steps, Goto(o, m),
           UNCHANGED lock
    PROVE  Where = pc[o] /\ Where' = m
<1>1. lock = o /\ lock # NoOp /\ Where = pc[o]
  BY Holder DEF IInv
<1> QED BY <1>1 DEF Goto, Where, IInv, TypeOK, OpType

LEMMA Left ==
    ASSUME IInv, NEW o \in Ops, pc[o] \in Steps, NEW r, Return(o, r)
    PROVE  Where = pc[o] /\ Where' = "free"
BY Holder DEF IInv, Return, Where

(* A unit that is started has the data directory open. *)
LEMMA Booted ==
    ASSUME IInv, ApartInv, UnitStarts
    PROVE  /\ unit' = TRUE /\ game' # NoWorld /\ (game' = NoWorld <=> ~unit')
           /\ game' = data' \/ (unit /\ UNCHANGED <<game, data>>)
           /\ data' = data \/ (data = NoWorld /\ data' = worlds + 1)
<1>1. worlds \in Nat
  BY Facts
<1>2. CASE unit
  BY <1>2 DEF UnitStarts, ApartInv
<1>3. CASE ~unit
  BY <1>1, <1>3 DEF UnitStarts, MakeWorld, NoWorld
<1> QED BY <1>2, <1>3

(* The steps that end an operation: nothing is asked of a free server but  *)
(* that a running game has the data directory open.                        *)
LEMMA ReturnGuarded ==
    ASSUME IInv, GuardInv, NEW o \in Ops, pc[o] \in Steps, NEW r, Return(o, r),
           game' = NoWorld <=> ~unit',
           UNCHANGED <<external, stopIgnored>>,
           external = 0 => ~unsavedLoss',
           external = 0 /\ ~stopIgnored /\ unit' => game' = data'
    PROVE  GuardInv'
<1>1. Where' = "free"
  BY Left
<1>2. ApartInv'
  BY <1>1 DEF ApartInv, Swapped
<1>3. QuietInv'
  BY <1>1 DEF QuietInv, Still, Safe, Kept, Rolling
<1> QED BY <1>2, <1>3 DEF GuardInv

LEMMA GuardedStarts ==
    ASSUME IInv, GuardInv, NEW o \in Ops,
           QueryState(o) \/ Stop(o) \/ WaitStop(o) \/ SafetyBackup(o) \/ RunUpdate(o)
    PROVE  GuardInv'
<1> USE DEF GuardInv
<1>1. CASE QueryState(o)
  <2>1. /\ pc[o] = "state" /\ pc[o] \in Steps
        /\ UNCHANGED <<unit, game, data, rollback, saved, history>>
    BY <1>1 DEF QueryState, Steps
  <2>2. CASE Return(o, "error")
    BY <2>1, <2>2, ReturnGuarded DEF ApartInv, QuietInv, history
  <2>3. CASE pc' = [pc EXCEPT ![o] = IF unit THEN "stop" ELSE "safety"] /\ UNCHANGED lock
    <3>1. Where' = IF unit THEN "stop" ELSE "safety"
      BY <2>1, <2>3, Holder DEF IInv, TypeOK, OpType, Where
    <3>2. ApartInv'
      BY <2>1, <3>1 DEF ApartInv, Swapped
    <3>3. QuietInv'
      BY <2>1, <3>1 DEF QuietInv, Still, Safe, Kept, Rolling, history
    <3> QED BY <3>2, <3>3
  <2> QED BY <1>1, <2>2, <2>3 DEF QueryState
<1>2. CASE Stop(o)
  <2>1. pc[o] = "stop" /\ pc[o] \in Steps /\ UNCHANGED <<data, rollback, saved, history>>
    BY <1>2 DEF Stop, Steps
  <2>2. CASE UNCHANGED <<unit, game>> /\ Return(o, "error")
    BY <2>1, <2>2, ReturnGuarded DEF ApartInv, QuietInv, history
  <2>3. CASE UnitStops /\ Goto(o, "waitStop") /\ UNCHANGED <<stage, lock>>
    <3>1. Where' = "waitStop" /\ unit' = FALSE /\ game' = NoWorld
      BY <2>1, <2>3, Went DEF Steps, UnitStops
    <3>2. ApartInv'
      BY <3>1 DEF ApartInv, Swapped
    <3>3. QuietInv'
      BY <2>1, <3>1 DEF QuietInv, Still, Safe, Kept, Rolling, history
    <3> QED BY <3>2, <3>3
  <2> QED BY <1>2, <2>2, <2>3 DEF Stop
<1>3. CASE WaitStop(o) \/ RunUpdate(o)
  <2>1. PICK m \in {"safety", "restart", "upStart"} : Goto(o, m)
    BY <1>3 DEF WaitStop, RunUpdate
  <2>2. /\ pc[o] \in {"waitStop", "update"} /\ pc[o] \in Steps /\ m \in Steps
        /\ UNCHANGED <<unit, game, places, saved, lock, history>>
    BY <1>3 DEF WaitStop, RunUpdate, Steps
  <2>3. Where = pc[o] /\ Where' = m
    BY <2>1, <2>2, Went
  <2>4. ApartInv'
    BY <2>2, <2>3 DEF ApartInv, Swapped, places
  <2>5. QuietInv'
    BY <2>2, <2>3 DEF QuietInv, Still, Safe, Kept, Rolling, history, places
  <2> QED BY <2>4, <2>5
<1>4. CASE SafetyBackup(o)
  <2>1. PICK m \in {"stage", "update", "restart"} :
          /\ Goto(o, m) /\ (m # "restart" => data \in saved')
    BY <1>4 DEF SafetyBackup
  <2>2. /\ pc[o] = "safety" /\ pc[o] \in Steps /\ m \in Steps
        /\ UNCHANGED <<unit, game, places, lock, history>>
    BY <1>4 DEF SafetyBackup, Steps
  <2>3. Where = pc[o] /\ Where' = m
    BY <2>1, <2>2, Went
  <2>4. ApartInv'
    BY <2>2, <2>3 DEF ApartInv, Swapped, places
  <2>5. QuietInv'
    BY <2>1, <2>2, <2>3 DEF QuietInv, Still, Safe, Kept, Rolling, history, places
  <2> QED BY <2>4, <2>5
<1> QED BY <1>1, <1>2, <1>3, <1>4

LEMMA GuardedSwap ==
    ASSUME IInv, GuardInv, NEW o \in Ops,
           StageSnapshot(o) \/ MoveAway(o) \/ Activate(o) \/ Undo(o)
    PROVE  GuardInv'
<1> USE DEF GuardInv
<1>0. worlds \in Nat /\ data \in 0..worlds /\ rollback \in 0..worlds
  BY Facts
<1>1. CASE StageSnapshot(o)
  <2>1. PICK m \in {"moveAway", "restart"} :
          /\ Goto(o, m) /\ saved \subseteq saved' /\ (m = "moveAway" => stage' = worlds + 1)
    BY <1>1 DEF StageSnapshot
  <2>2. /\ pc[o] = "stage" /\ pc[o] \in Steps /\ m \in Steps
        /\ UNCHANGED <<unit, game, data, rollback, lock, history>>
    BY <1>1 DEF StageSnapshot, Steps
  <2>3. Where = pc[o] /\ Where' = m
    BY <2>1, <2>2, Went
  <2>4. ApartInv'
    BY <1>0, <2>1, <2>2, <2>3 DEF ApartInv, Swapped
  <2>5. QuietInv'
    BY <2>1, <2>2, <2>3 DEF QuietInv, Still, Safe, Kept, Rolling, history
  <2> QED BY <2>4, <2>5
<1>2. CASE MoveAway(o)
  <2>1. PICK m \in {"activate", "restart"} :
          /\ Goto(o, m)
          /\ m = "activate" => rollback' = data /\ data' = NoWorld
          /\ m = "restart" => UNCHANGED <<data, rollback>>
    BY <1>2 DEF MoveAway
  <2>2. /\ pc[o] = "moveAway" /\ pc[o] \in Steps /\ m \in Steps
        /\ UNCHANGED <<unit, game, stage, saved, lock, history>>
    BY <1>2 DEF MoveAway, Steps
  <2>3. Where = pc[o] /\ Where' = m
    BY <2>1, <2>2, Went
  <2>4. stage # NoWorld
    BY <2>2, <2>3 DEF IInv, DiskInv
  <2>5. ApartInv'
    BY <2>1, <2>2, <2>3, <2>4 DEF ApartInv, Swapped
  <2>6. QuietInv'
    BY <2>1, <2>2, <2>3 DEF QuietInv, Still, Safe, Kept, Rolling, history
  <2> QED BY <2>5, <2>6
<1>3. CASE Activate(o)
  <2>1. PICK m \in {"start", "verify", "undo"} : Goto(o, m) /\ (m # "undo" => data' = stage)
    BY <1>3 DEF Activate
  <2>2. /\ pc[o] = "activate" /\ pc[o] \in Steps /\ m \in Steps
        /\ UNCHANGED <<unit, game, rollback, saved, lock, history>>
    BY <1>3 DEF Activate, Steps
  <2>3. Where = pc[o] /\ Where' = m
    BY <2>1, <2>2, Went
  <2>4. ApartInv'
    BY <2>1, <2>2, <2>3 DEF ApartInv, Swapped
  <2>5. QuietInv'
    BY <2>1, <2>2, <2>3 DEF QuietInv, Still, Safe, Kept, Rolling, history
  <2> QED BY <2>4, <2>5
<1>4. CASE Undo(o)
  <2>1. PICK m \in {"restart", "restartBroken"} : Goto(o, m)
    BY <1>4 DEF Undo
  <2>2. /\ pc[o] = "undo" /\ pc[o] \in Steps /\ m \in Steps
        /\ UNCHANGED <<unit, game, saved, lock, history>>
    BY <1>4 DEF Undo, Steps
  <2>3. Where = pc[o] /\ Where' = m
    BY <2>1, <2>2, Went
  <2>4. ApartInv'
    BY <2>2, <2>3 DEF ApartInv, Swapped
  <2>5. QuietInv'
    BY <2>2, <2>3 DEF QuietInv, Still, Safe, Kept, Rolling, history
  <2> QED BY <2>4, <2>5
<1> QED BY <1>1, <1>2, <1>3, <1>4

LEMMA GuardedVerify ==
    ASSUME IInv, GuardInv, NEW o \in Ops,
           \/ StartRestored(o) \/ WaitStart(o) \/ AwaitReady(o) \/ VerifyStopped(o)
           \/ RollbackStop(o) \/ RollbackMove(o) \/ RollbackBack(o)
    PROVE  GuardInv'
<1> USE DEF GuardInv
<1>1. CASE StartRestored(o)
  <2>1. PICK m \in {"waitStart", "rbStop"} :
          /\ Goto(o, m) /\ (m = "rbStop" => UNCHANGED <<unit, game, data>>)
          /\ m = "waitStart" => UnitStarts
    BY <1>1 DEF StartRestored
  <2>2. /\ pc[o] = "start" /\ pc[o] \in Steps /\ m \in Steps
        /\ UNCHANGED <<stage, rollback, saved, lock, history>>
    BY <1>1 DEF StartRestored, Steps
  <2>3. Where = pc[o] /\ Where' = m
    BY <2>1, <2>2, Went
  <2>4. data # NoWorld
    BY <2>2, <2>3 DEF IInv, DiskInv, Swapped
  <2>5. /\ data' = data /\ (game' = NoWorld <=> ~unit')
        /\ m = "waitStart" => game' = data' \/ (unit /\ UNCHANGED game)
    <3>1. CASE m = "waitStart"
      BY <2>1, <2>4, <3>1, Booted
    <3>2. CASE m = "rbStop"
      BY <2>1, <3>2 DEF ApartInv
    <3> QED BY <3>1, <3>2
  <2>6. ApartInv'
    BY <2>2, <2>3, <2>5 DEF ApartInv, Swapped
  <2>7. QuietInv'
    BY <2>1, <2>2, <2>3, <2>5 DEF QuietInv, Still, Safe, Kept, Rolling, history
  <2> QED BY <2>6, <2>7
<1>2. CASE WaitStart(o) \/ AwaitReady(o) \/ VerifyStopped(o)
  <2>1. PICK m \in {"ready", "rbStop", "cleanup"} : Goto(o, m)
    BY <1>2 DEF WaitStart, AwaitReady, VerifyStopped
  <2>2. /\ pc[o] \in {"waitStart", "ready", "verify"} /\ pc[o] \in Steps /\ m \in Steps
        /\ UNCHANGED <<unit, game, places, saved, lock, history>>
    BY <1>2 DEF WaitStart, AwaitReady, VerifyStopped, Steps
  <2>3. Where = pc[o] /\ Where' = m
    BY <2>1, <2>2, Went
  <2>4. ApartInv'
    BY <2>2, <2>3 DEF ApartInv, Swapped, places
  <2>5. QuietInv'
    BY <2>2, <2>3 DEF QuietInv, Still, Safe, Kept, Rolling, history, places
  <2> QED BY <2>4, <2>5
<1>3. CASE RollbackStop(o)
  <2>1. /\ pc[o] = "rbStop" /\ pc[o] \in Steps /\ Goto(o, "rbMove") /\ "rbMove" \in Steps
        /\ UNCHANGED <<places, saved, lock, external, unsavedLoss>>
    BY <1>3 DEF RollbackStop, Steps
  <2>2. Where = pc[o] /\ Where' = "rbMove"
    BY <2>1, Went
  <2>3. \/ unit' = FALSE /\ game' = NoWorld /\ stopIgnored' = stopIgnored
        \/ UNCHANGED <<unit, game>> /\ (stopIgnored' <=> stopIgnored \/ unit)
    BY <1>3 DEF RollbackStop, UnitStops
  <2>4. ApartInv'
    BY <2>1, <2>2, <2>3 DEF ApartInv, Swapped, places
  <2>5. QuietInv'
    BY <2>1, <2>2, <2>3 DEF QuietInv, Still, Safe, Kept, Rolling, places
  <2> QED BY <2>4, <2>5
<1>4. CASE RollbackMove(o) \/ RollbackBack(o)
  <2>1. PICK m \in {"rbBack", "rbStart", "rbStartBroken"} : Goto(o, m)
    BY <1>4 DEF RollbackMove, RollbackBack
  <2>2. /\ pc[o] \in {"rbMove", "rbBack"} /\ pc[o] \in Steps /\ m \in Steps
        /\ UNCHANGED <<unit, game, saved, lock, history>>
    BY <1>4 DEF RollbackMove, RollbackBack, Steps
  <2>3. Where = pc[o] /\ Where' = m
    BY <2>1, <2>2, Went
  <2>4. ApartInv'
    BY <2>2, <2>3 DEF ApartInv, Swapped
  <2>5. QuietInv'
    BY <2>2, <2>3 DEF QuietInv, Still, Safe, Kept, Rolling, history
  <2> QED BY <2>4, <2>5
<1> QED BY <1>1, <1>2, <1>3, <1>4

LEMMA GuardedReturns ==
    ASSUME IInv, GuardInv, NEW o \in Ops,
           \/ RestartOriginal(o) \/ RestartBroken(o) \/ RollbackStart(o)
           \/ UpdateStart(o) \/ CleanUp(o)
    PROVE  GuardInv'
<1> USE DEF GuardInv
<1>1. CASE RestartOriginal(o) \/ RestartBroken(o) \/ RollbackStart(o) \/ UpdateStart(o)
  <2>1. /\ \E r : Return(o, r)
        /\ pc[o] \in {"restart", "restartBroken", "rbStart", "rbStartBroken", "upStart"}
        /\ pc[o] \in Steps /\ UNCHANGED history
        /\ UnitStarts \/ UNCHANGED <<unit, game, data>>
    BY <1>1 DEF RestartOriginal, RestartBroken, RollbackStart, UpdateStart, Steps
  <2>2. PICK r : Return(o, r)
    BY <2>1
  <2>3. Where = pc[o]
    BY <2>1, <2>2, Left
  <2>4. external = 0 /\ ~stopIgnored => ~unit
    BY <2>1, <2>3 DEF QuietInv, Still, Rolling
  <2>5. /\ game' = NoWorld <=> ~unit'
        /\ external = 0 /\ ~stopIgnored /\ unit' => game' = data'
    <3>1. CASE UnitStarts
      BY <2>4, <3>1, Booted
    <3>2. CASE UNCHANGED <<unit, game, data>>
      BY <2>4, <3>2 DEF ApartInv
    <3> QED BY <2>1, <3>1, <3>2
  <2>6. external = 0 => ~unsavedLoss'
    BY <2>1 DEF QuietInv, history
  <2> QED BY <2>1, <2>2, <2>5, <2>6, ReturnGuarded DEF history
<1>2. CASE CleanUp(o)
  <2>1. /\ pc[o] = "cleanup" /\ pc[o] \in Steps /\ Return(o, "ok")
        /\ UNCHANGED <<unit, game, data, saved, external, stopIgnored>>
    BY <1>2 DEF CleanUp, Steps
  <2>2. unsavedLoss' => unsavedLoss \/ rollback \notin saved
    BY <1>2, Zenon DEF CleanUp
  <2>3. Where = "cleanup"
    BY <2>1, Left
  <2>4. external = 0 => ~unsavedLoss'
    BY <2>1, <2>2, <2>3 DEF QuietInv, Kept
  <2>5. /\ game' = NoWorld <=> ~unit'
        /\ external = 0 /\ ~stopIgnored /\ unit' => game' = data'
    BY <2>1 DEF ApartInv, QuietInv
  <2> QED BY <2>1, <2>4, <2>5, ReturnGuarded
<1> QED BY <1>1, <1>2

(* The handlers that find the lock free. *)
LEMMA GuardedHandlers ==
    ASSUME IInv, GuardInv, HandleStart \/ HandleStop \/ HandleFiles \/ HandleBackup
    PROVE  GuardInv'
<1> USE DEF GuardInv
<1>1. /\ lock = NoOp /\ lock' = NoOp /\ UNCHANGED history
  BY DEF HandleStart, HandleStop, HandleFiles, HandleBackup
<1>2. Where = "free" /\ Where' = "free"
  BY <1>1 DEF Where
<1>3. /\ game' = NoWorld <=> ~unit'
      /\ external = 0 /\ ~stopIgnored /\ unit' => game' = data'
  <2>1. CASE HandleStart
    BY <2>1, Booted DEF HandleStart
  <2>2. CASE HandleStop
    BY <2>2 DEF HandleStop, UnitStops
  <2>3. CASE HandleFiles
    BY <2>3 DEF HandleFiles, MakeWorld, ApartInv, QuietInv
  <2>4. CASE HandleBackup
    BY <2>4 DEF HandleBackup, places, ApartInv, QuietInv
  <2> QED BY <2>1, <2>2, <2>3, <2>4
<1>4. ApartInv'
  BY <1>2, <1>3 DEF ApartInv, Swapped
<1>5. QuietInv'
  BY <1>1, <1>2, <1>3 DEF QuietInv, Still, Safe, Kept, Rolling, history
<1> QED BY <1>4, <1>5

(* Requests that arrive and take the lock, and the surroundings. *)
LEMMA GuardedOthers ==
    ASSUME IInv, GuardInv,
           \/ \E o \in Ops : Request(o) \/ Acquire(o)
           \/ GameWrites \/ GameDies \/ ExternalStart \/ Crash
    PROVE  GuardInv'
<1> USE DEF GuardInv
<1>0. /\ worlds \in Nat /\ stage \in 0..worlds /\ rollback \in 0..worlds /\ external \in Nat
  BY Facts DEF IInv, TypeOK, HistoryType
<1>1. ASSUME NEW o \in Ops, Request(o) PROVE GuardInv'
  <2>1. /\ pc[o] = "idle" /\ UNCHANGED <<unit, game, places, saved, lock, history>>
        /\ \E m \in {"lock", "done"} : pc' = [pc EXCEPT ![o] = m]
    BY <1>1 DEF Request
  <2>2. Where' = Where
    <3>1. lock # o
      BY <2>1 DEF IInv, TypeOK, OpType, Steps
    <3> QED BY <2>1, <3>1 DEF Where, IInv, TypeOK, OpType
  <2>3. ApartInv'
    BY <2>1, <2>2 DEF ApartInv, places
  <2>4. QuietInv'
    BY <2>1, <2>2 DEF QuietInv, places, history
  <2> QED BY <2>3, <2>4
<1>2. ASSUME NEW o \in Ops, Acquire(o) PROVE GuardInv'
  <2>1. /\ UNCHANGED <<unit, game, places, saved, history>>
        /\ lock' = o /\ pc' = [pc EXCEPT ![o] = "state"]
    BY <1>2 DEF Acquire, Goto
  <2>2. Where' = "state"
    BY <2>1, ConstantsAssumption DEF Where, NoOp, IInv, TypeOK, OpType
  <2>3. ApartInv'
    BY <2>1, <2>2 DEF ApartInv, places, Swapped
  <2>4. QuietInv'
    BY <2>1, <2>2 DEF QuietInv, places, history, Still, Safe, Kept, Rolling
  <2> QED BY <2>3, <2>4
<1>3. CASE GameWrites
  <2>1. /\ unit /\ saved' = saved \ {game}
        /\ UNCHANGED <<unit, game, places, lock, opVars, history>>
    BY <1>3 DEF GameWrites
  <2>2. Where' = Where
    BY <2>1 DEF Where, opVars
  <2>3. ApartInv'
    BY <2>1, <2>2 DEF ApartInv, places
  <2>4. external = 0 => Where \notin Safe
    BY <2>1 DEF QuietInv, Safe, Still
  <2>5. external = 0 /\ Where \in Kept => rollback \in saved'
    <3>1. external = 0 /\ Where \in Kept => Where \in Swapped
      BY <2>1 DEF QuietInv, Kept, Still, Swapped
    <3> QED BY <2>1, <3>1 DEF ApartInv, QuietInv
  <2>6. QuietInv'
    BY <2>1, <2>2, <2>4, <2>5 DEF QuietInv, places, history
  <2> QED BY <2>3, <2>6
<1>4. CASE GameDies
  <2>1. unit' = FALSE /\ game' = NoWorld /\ UNCHANGED <<places, saved, lock, opVars, history>>
    BY <1>4 DEF GameDies, UnitStops
  <2>2. Where' = Where
    BY <2>1 DEF Where, opVars
  <2>3. ApartInv'
    BY <2>1, <2>2 DEF ApartInv, places
  <2>4. QuietInv'
    BY <2>1, <2>2 DEF QuietInv, places, history
  <2> QED BY <2>3, <2>4
<1>5. CASE ExternalStart
  <2>1. /\ UnitStarts /\ external' = external + 1
        /\ UNCHANGED <<stage, rollback, lock, opVars>>
    BY <1>5 DEF ExternalStart
  <2>2. Where' = Where
    BY <2>1 DEF Where, opVars
  <2>3. /\ game' = NoWorld <=> ~unit'
        /\ data' = data \/ (data = NoWorld /\ data' = worlds + 1)
    BY <2>1, Booted
  <2>4. Where \in Swapped => data' = data
    BY <2>3 DEF IInv, DiskInv
  <2>5. ApartInv'
    BY <1>0, <2>1, <2>2, <2>3, <2>4 DEF ApartInv
  <2>6. QuietInv'
    BY <1>0, <2>1 DEF QuietInv
  <2> QED BY <2>5, <2>6
<1>6. CASE Crash
  <2>1. lock' = NoOp /\ UNCHANGED <<unit, game, data, external, stopIgnored, unsavedLoss>>
    BY <1>6 DEF Crash
  <2>2. Where' = "free"
    BY <2>1 DEF Where
  <2>3. ApartInv'
    BY <2>1, <2>2 DEF ApartInv, Swapped
  <2>4. QuietInv'
    BY <2>1, <2>2 DEF QuietInv, Still, Safe, Kept, Rolling
  <2> QED BY <2>3, <2>4
<1> QED BY <1>1, <1>2, <1>3, <1>4, <1>5, <1>6

(* GuardInv holds in every reachable state. *)
THEOREM Guarded == Spec => []GuardInv
<1>1. Init => GuardInv
  <2> SUFFICES ASSUME Init PROVE GuardInv
    OBVIOUS
  <2>1. Where = "free"
    BY DEF Init, Where
  <2>2. ApartInv
    BY <2>1 DEF Init, ApartInv, NoWorld, Swapped
  <2>3. QuietInv
    BY <2>1 DEF Init, QuietInv, Still, Safe, Kept, Rolling
  <2> QED BY <2>2, <2>3 DEF GuardInv
<1>2. IInv /\ GuardInv /\ [Next]_vars => GuardInv'
  <2> SUFFICES ASSUME IInv, GuardInv, [Next]_vars PROVE GuardInv'
    OBVIOUS
  <2>1. CASE UNCHANGED vars
    <3>1. Where' = Where
      BY <2>1 DEF vars, opVars, Where
    <3>2. ApartInv'
      BY <2>1, <3>1 DEF vars, places, GuardInv, ApartInv
    <3>3. QuietInv'
      BY <2>1, <3>1 DEF vars, places, history, GuardInv, QuietInv
    <3> QED BY <3>2, <3>3 DEF GuardInv
  <2>2. ASSUME NEW o \in Ops, Step(o) PROVE GuardInv'
    BY <2>2, GuardedStarts, GuardedSwap, GuardedVerify, GuardedReturns DEF Step
  <2>3. CASE Next
    BY <2>2, <2>3, GuardedHandlers, GuardedOthers DEF Next
  <2> QED BY <2>1, <2>3
<1> QED BY <1>1, <1>2, Invariance, PTL DEF Spec

(* A snapshot comes first: unless something but the agent starts the game, *)
(* a restore removes only what restic holds as the game left it, and the   *)
(* update unit runs on a stopped game whose data is in a snapshot          *)
(* (src/cmd/hogs-agent/restore.go:181-210, 346-347, update.go:74-79).      *)
THEOREM SnapshotsComeFirst == Spec => []SavedFirst
<1>1. IInv /\ GuardInv => SavedFirst
  <2> SUFFICES ASSUME IInv, GuardInv PROVE SavedFirst
    OBVIOUS
  <2>1. external \in Nat
    BY DEF IInv, TypeOK, HistoryType
  <2>2. RemovedIsSaved
    BY <2>1 DEF GuardInv, QuietInv, RemovedIsSaved
  <2>3. ASSUME NEW o \in Ops, pc[o] = "update", external = 0
        PROVE  ~unit /\ data \in saved
    <3>1. Where = "update"
      BY <2>3, Holder DEF IInv, Steps
    <3> QED BY <2>3, <3>1 DEF GuardInv, QuietInv, Still, Safe
  <2>4. UpdateIsGuarded
    BY <2>3 DEF UpdateIsGuarded
  <2> QED BY <2>2, <2>4 DEF SavedFirst
<1> QED BY <1>1, Invariance, Guarded, PTL

(* After every operation and every crash a running game has the data       *)
(* directory open, not one that was moved away under it, unless something  *)
(* else started it or a rollback could not stop it                         *)
(* (src/cmd/hogs-agent/restore.go:274-323).                                *)
THEOREM GamesServeTheirData == Spec => []ServesDataIfStopped
<1>1. GuardInv => ServesDataIfStopped
  BY DEF GuardInv, QuietInv, ServesDataIfStopped, ServesData
<1> QED BY <1>1, Guarded, PTL

-----------------------------------------------------------------------------
(* The second part is about the gateway of the same agent, for any number  *)
(* of clients and goroutines and any bound on the events.                  *)

(* The type of everything but the samples. *)
ControlType ==
    /\ backend \in BOOLEAN /\ listening \in BOOLEAN /\ stopped \in BOOLEAN
    /\ inFlight \in BOOLEAN /\ disturbed \in BOOLEAN /\ unsaved \in BOOLEAN
    /\ cooling \in BOOLEAN
    /\ mutex \in Watchers \cup {"none", "op"}
    /\ watch \in [Watchers -> [pc : {"idle", "lock", "start", "await", "failed",
                                     "ready", "save", "write"}, snap : Samples]]

(* Who is about to start the unit holds its mutex, and who stopped it for  *)
(* an operation does.                                                      *)
MutexInv ==
    /\ \A w \in Watchers : watch[w].pc = "start" => mutex = w
    /\ stopped => mutex = "op"
    /\ ~disturbed

(* The samples that there are, and the one that is being measured.         *)
SampleInv ==
    /\ boots \in Samples /\ file \in Samples
    /\ bootFrom \in {"none", "up", "down"}
    /\ inFlight => bootFrom # "none"

(* The inductive invariant. *)
GatewayInv == ControlType /\ SampleInv /\ MutexInv /\ SharedStart

(* The latest samples (src/cmd/hogs-agent/gateway.go:430-432, 549-551) are *)
(* no more than maxBootSamples.                                            *)
LEMMA LatestIsBounded ==
    ASSUME GatewayAssumption, NEW s \in Seq({"up", "down"})
    PROVE  Latest(s) \in Samples
<1>1. CASE Len(s) <= MaxSamples
  BY <1>1 DEF Latest, Samples
<1>2. CASE ~(Len(s) <= MaxSamples)
  <2>1. Len(s) \in Nat /\ MaxSamples \in Nat \ {0}
    BY DEF GatewayAssumption
  <2> DEFINE t == SubSeq(s, Len(s) - MaxSamples + 1, Len(s))
  <2>2. t \in Seq({"up", "down"}) /\ Len(t) = MaxSamples
    BY <1>2, <2>1
  <2>3. t \in Samples
    BY <2>1, <2>2 DEF Samples
  <2> QED
    BY <1>2, <2>3 DEF Latest
<1> QED
  BY <1>1, <1>2

(* At most one goroutine is starting afterwards if one that was not        *)
(* starting begins while none was.                                         *)
LEMMA LaunchShares ==
    ASSUME GatewayAssumption, GatewayInv, ~inFlight, NEW w \in Watchers,
           NEW step \in {"lock", "await"},
           Launch(w, step)
    PROVE  /\ SharedStart' /\ inFlight' \in BOOLEAN
           /\ bootFrom' \in {"up", "down"}
           /\ watch' \in [Watchers -> [pc : {"idle", "lock", "start", "await",
                                     "failed", "ready", "save", "write"},
                                     snap : Samples]]
           /\ \A v \in Watchers : watch'[v].pc = "start" => watch[v].pc = "start"
<1>1. \A v \in Watchers : watch'[v] = IF v = w THEN [watch[w] EXCEPT !.pc = step]
                                      ELSE watch[v]
  BY DEF Launch, Becomes, GatewayInv, ControlType
<1>2. Starting = {}
  BY DEF GatewayInv, SharedStart
<1>3. Starting' = {w}
  BY <1>1, <1>2 DEF Starting, GatewayInv, ControlType
<1>4. SharedStart'
  BY <1>3 DEF SharedStart, Launch
<1>5. bootFrom' \in {"up", "down"} /\ inFlight' \in BOOLEAN
  BY DEF Launch, Backend
<1>6. watch' \in [Watchers -> [pc : {"idle", "lock", "start", "await", "failed",
                                     "ready", "save", "write"}, snap : Samples]]
  BY DEF Launch, Becomes, GatewayInv, ControlType
<1>7. \A v \in Watchers : watch'[v].pc = "start" => watch[v].pc = "start"
  BY <1>1 DEF GatewayInv, ControlType
<1> QED
  BY <1>4, <1>5, <1>6, <1>7

(* The gateway begins with no start in flight. *)
LEMMA InitGateway ==
  ASSUME GatewayAssumption
  PROVE  GatewayInit => GatewayInv
<1> SUFFICES ASSUME GatewayInit PROVE GatewayInv
  OBVIOUS
<1>1. <<>> \in Samples
  BY DEF Samples, GatewayAssumption
<1>2. ControlType
  BY <1>1 DEF GatewayInit, ControlType, NoWatch
<1>3. SampleInv
  BY <1>1 DEF GatewayInit, SampleInv
<1>4. MutexInv
  BY DEF GatewayInit, MutexInv, NoWatch
<1>5. SharedStart
  BY DEF GatewayInit, SharedStart, Starting, NoWatch
<1> QED
  BY <1>2, <1>3, <1>4, <1>5 DEF GatewayInv

(* A step that leaves the goroutines, the samples and the mutex alone. *)
LEMMA QuietStep ==
    ASSUME GatewayAssumption, GatewayInv,
           UNCHANGED <<mutex, stopped, inFlight, boots, bootFrom, file, watch,
                       disturbed>>,
           backend' \in BOOLEAN, listening' \in BOOLEAN, cooling' \in BOOLEAN,
           unsaved' \in BOOLEAN
    PROVE  GatewayInv'
  BY DEF GatewayInv, ControlType, SampleInv, MutexInv, SharedStart, Starting

(* Every step of a connection keeps the invariant. *)
LEMMA ConnectionGateway ==
    ASSUME GatewayAssumption, GatewayInv, NEW c \in Clients, Connection(c) \/ Unlimit(c)
    PROVE  GatewayInv'
<1>1. CASE ~Wake(c)
  BY <1>1, QuietStep
     DEF Connection, Unlimit, Dial, Proxy, SeeUnit, MarkUnavailable, Disconnect,
         Login, Refuse, host, gateway, GatewayInv, ControlType
<1>2. CASE Wake(c)
  <2>1. CASE inFlight \/ cooling
    BY <1>2, <2>1, QuietStep DEF Wake, host, GatewayInv, ControlType
  <2>2. CASE ~(inFlight \/ cooling)
    <3>1. PICK w \in Watchers : Launch(w, "lock")
      BY <1>2, <2>2 DEF Wake, GatewayInv, ControlType
    <3>2. /\ SharedStart' /\ inFlight' \in BOOLEAN /\ bootFrom' \in {"up", "down"}
          /\ watch' \in [Watchers -> [pc : {"idle", "lock", "start", "await",
                                "failed", "ready", "save", "write"}, snap : Samples]]
          /\ \A v \in Watchers : watch'[v].pc = "start" => watch[v].pc = "start"
      BY <2>2, <3>1, LaunchShares
    <3>3. /\ UNCHANGED <<host, boots, file, disturbed, unsaved>>
          /\ cooling' = TRUE
      BY <1>2, <2>2 DEF Wake
    <3>4. ControlType'
      BY <3>2, <3>3 DEF GatewayInv, ControlType, host
    <3>5. SampleInv'
      BY <3>2, <3>3 DEF GatewayInv, SampleInv
    <3>6. MutexInv'
      BY <3>2, <3>3 DEF GatewayInv, MutexInv, host
    <3> QED
      BY <3>2, <3>4, <3>5, <3>6 DEF GatewayInv
  <2> QED
    BY <2>1, <2>2
<1> QED
  BY <1>1, <1>2

(* Every step of a status request keeps the invariant. *)
LEMMA PollGateway ==
    ASSUME GatewayAssumption, GatewayInv, Poll
    PROVE  GatewayInv'
<1>1. CASE Probe \/ PollReady \/ PollUnit
  BY <1>1, QuietStep
     DEF Probe, PollReady, PollUnit, host, gateway, GatewayInv, ControlType
<1>2. CASE Refresh /\ UNCHANGED <<inFlight, bootFrom, watch>>
  BY <1>2, QuietStep DEF Refresh, host, GatewayInv, ControlType
<1>3. CASE Refresh /\ ~inFlight /\ \E w \in Watchers : Launch(w, "await")
  <2>1. PICK w \in Watchers : Launch(w, "await")
    BY <1>3
  <2>2. /\ SharedStart' /\ inFlight' \in BOOLEAN /\ bootFrom' \in {"up", "down"}
        /\ watch' \in [Watchers -> [pc : {"idle", "lock", "start", "await",
                              "failed", "ready", "save", "write"}, snap : Samples]]
        /\ \A v \in Watchers : watch'[v].pc = "start" => watch[v].pc = "start"
    BY <1>3, <2>1, LaunchShares
  <2>3. UNCHANGED <<host, cooling, boots, file, disturbed, unsaved>>
    BY <1>3 DEF Refresh
  <2>4. ControlType'
    BY <2>2, <2>3 DEF GatewayInv, ControlType, host
  <2>5. SampleInv'
    BY <2>2, <2>3 DEF GatewayInv, SampleInv
  <2>6. MutexInv'
    BY <2>2, <2>3 DEF GatewayInv, MutexInv, host
  <2> QED
    BY <2>2, <2>4, <2>5, <2>6 DEF GatewayInv
<1> QED
  BY <1>1, <1>2, <1>3 DEF Poll, Refresh

(* Every step of the goroutine that starts the unit and waits for it keeps *)
(* the invariant.                                                          *)
LEMMA WatchGateway ==
    ASSUME GatewayAssumption, GatewayInv, NEW w \in Watchers, Watch(w)
    PROVE  GatewayInv'
<1> DEFINE PCs == {"idle", "lock", "start", "await", "failed", "ready", "save",
                   "write"}
<1>0. /\ watch \in [Watchers -> [pc : PCs, snap : Samples]]
      /\ mutex \in Watchers \cup {"none", "op"}
      /\ Watchers \cap {"none", "op"} = {}
  BY DEF GatewayInv, ControlType, GatewayAssumption
<1>1. CASE WakeLock(w)
  <2>1. \A v \in Watchers : watch'[v] = IF v = w THEN [watch[w] EXCEPT !.pc = "start"]
                                        ELSE watch[v]
    BY <1>0, <1>1 DEF WakeLock, Becomes
  <2>2. ControlType' /\ SampleInv'
    BY <1>0, <1>1 DEF WakeLock, Becomes, GatewayInv, ControlType, SampleInv, gateway
  <2>3. MutexInv'
    BY <1>0, <1>1, <2>1 DEF WakeLock, GatewayInv, MutexInv
  <2>4. Starting' = Starting
    BY <1>0, <1>1, <2>1 DEF WakeLock, Starting
  <2> QED
    BY <1>1, <2>2, <2>3, <2>4 DEF WakeLock, GatewayInv, SharedStart, gateway
<1>2. CASE WakeStart(w) \/ WakeStartFails(w)
  <2>1. PICK step \in {"await", "failed"} : Becomes(w, step)
    BY <1>2 DEF WakeStart, WakeStartFails
  <2>2. \A v \in Watchers : watch'[v] = IF v = w THEN [watch[w] EXCEPT !.pc = step]
                                        ELSE watch[v]
    BY <1>0, <2>1 DEF Becomes
  <2>3. /\ watch[w].pc = "start" /\ mutex = w /\ mutex' = "none" /\ ~stopped
        /\ UNCHANGED <<stopped, gateway, file, unsaved, listening>>
        /\ backend' \in BOOLEAN
    BY <1>0, <1>2 DEF WakeStart, WakeStartFails, GatewayInv, MutexInv, ControlType
  <2>4. disturbed' = FALSE
    BY <1>2, <2>3 DEF WakeStart, WakeStartFails, GatewayInv, MutexInv, ControlType
  <2>5. watch' \in [Watchers -> [pc : PCs, snap : Samples]]
    BY <1>0, <2>1 DEF Becomes
  <2>6. ControlType' /\ SampleInv'
    BY <2>3, <2>4, <2>5 DEF GatewayInv, ControlType, SampleInv, gateway
  <2>7. MutexInv'
    BY <1>0, <2>2, <2>3, <2>4 DEF GatewayInv, MutexInv
  <2>8. Starting' = Starting
    BY <1>0, <2>2, <2>3 DEF Starting
  <2> QED
    BY <2>3, <2>6, <2>7, <2>8 DEF GatewayInv, SharedStart, gateway
<1>3. CASE TimeOut(w) \/ SeeReady(w)
  <2>1. PICK step \in {"ready", "failed"} : Becomes(w, step)
    BY <1>3 DEF TimeOut, SeeReady
  <2>2. \A v \in Watchers : watch'[v] = IF v = w THEN [watch[w] EXCEPT !.pc = step]
                                        ELSE watch[v]
    BY <1>0, <2>1 DEF Becomes
  <2>3. /\ watch[w].pc = "await"
        /\ UNCHANGED <<host, gateway, file, disturbed, unsaved>>
    BY <1>3 DEF TimeOut, SeeReady
  <2>5. watch' \in [Watchers -> [pc : PCs, snap : Samples]]
    BY <1>0, <2>1 DEF Becomes
  <2>6. ControlType' /\ SampleInv'
    BY <2>3, <2>5 DEF GatewayInv, ControlType, SampleInv, gateway, host
  <2>7. MutexInv'
    BY <1>0, <2>2, <2>3 DEF GatewayInv, MutexInv, host
  <2>8. Starting' = Starting
    BY <1>0, <2>2, <2>3 DEF Starting
  <2> QED
    BY <2>3, <2>6, <2>7, <2>8 DEF GatewayInv, SharedStart, gateway
<1>4. CASE GiveUp(w) \/ Ready(w)
  <2>1. /\ watch[w].pc \in {"failed", "ready"}
        /\ inFlight' = FALSE /\ bootFrom' = "none"
        /\ UNCHANGED <<host, cooling, file, disturbed>>
        /\ unsaved' \in BOOLEAN
    BY <1>4 DEF GiveUp, Ready, GatewayInv, ControlType
  <2>2. Starting = {w} /\ inFlight
    BY <2>1 DEF GatewayInv, SharedStart, Starting
  <2>3. PICK r \in [pc : {"idle", "save"}, snap : Samples] :
            watch' = [watch EXCEPT ![w] = r]
    <3>1. NoWatch \in [pc : {"idle", "save"}, snap : Samples]
      BY DEF NoWatch, Samples, GatewayAssumption
    <3>2. CASE GiveUp(w)
      BY <3>1, <3>2 DEF GiveUp
    <3>3. CASE Ready(w)
      <4> DEFINE r == [watch[w] EXCEPT !.pc = "save"]
      <4>1. r \in [pc : {"idle", "save"}, snap : Samples]
        BY <1>0
      <4>2. watch' = [watch EXCEPT ![w] = r]
        BY <1>0, <3>3 DEF Ready, Becomes
      <4> QED
        BY <4>1, <4>2
    <3> QED
      BY <1>4, <3>2, <3>3
  <2>4. \A v \in Watchers : watch'[v] = IF v = w THEN r ELSE watch[v]
    BY <1>0, <2>3
  <2>5. watch' \in [Watchers -> [pc : PCs, snap : Samples]]
    BY <1>0, <2>3
  <2>6. Starting' = {}
    BY <1>0, <2>2, <2>4 DEF Starting
  <2>7. boots' \in Samples
    <3>1. CASE GiveUp(w)
      BY <3>1 DEF GiveUp, GatewayInv, SampleInv
    <3>2. CASE Ready(w)
      <4>1. bootFrom \in {"up", "down"} /\ boots \in Seq({"up", "down"})
        BY <2>2 DEF GatewayInv, SampleInv, Samples
      <4>2. Append(boots, bootFrom) \in Seq({"up", "down"})
        BY <4>1
      <4>3. Latest(Append(boots, bootFrom)) \in Samples
        BY <4>2, LatestIsBounded
      <4> QED
        BY <3>2, <4>3 DEF Ready, GatewayInv, SampleInv
    <3> QED
      BY <1>4, <3>1, <3>2
  <2>8. ControlType'
    BY <2>1, <2>5 DEF GatewayInv, ControlType, host
  <2>9. SampleInv'
    BY <2>1, <2>7 DEF GatewayInv, SampleInv
  <2>10. MutexInv'
    BY <1>0, <2>1, <2>4 DEF GatewayInv, MutexInv, host
  <2>11. SharedStart'
    BY <2>1, <2>6 DEF SharedStart
  <2> QED
    BY <2>8, <2>9, <2>10, <2>11 DEF GatewayInv
<1>5. CASE Snapshot(w) \/ Save(w) \/ SaveFails(w)
  <2>1. /\ watch[w].pc \in {"save", "write"}
        /\ UNCHANGED <<host, gateway, disturbed>>
        /\ unsaved' \in BOOLEAN
    BY <1>5 DEF Snapshot, Save, SaveFails, GatewayInv, ControlType
  <2>2. file' \in Samples
    BY <1>0, <1>5 DEF Snapshot, Save, SaveFails, GatewayInv, SampleInv
  <2>3. PICK r \in [pc : {"idle", "write"}, snap : Samples] :
            watch' = [watch EXCEPT ![w] = r]
    <3>1. NoWatch \in [pc : {"idle", "write"}, snap : Samples]
      BY DEF NoWatch, Samples, GatewayAssumption
    <3>2. [pc |-> "write", snap |-> boots] \in [pc : {"idle", "write"}, snap : Samples]
      BY DEF GatewayInv, SampleInv
    <3> QED
      BY <1>5, <3>1, <3>2 DEF Snapshot, Save, SaveFails
  <2>4. \A v \in Watchers : watch'[v] = IF v = w THEN r ELSE watch[v]
    BY <1>0, <2>3
  <2>5. watch' \in [Watchers -> [pc : PCs, snap : Samples]]
    BY <1>0, <2>3
  <2>6. Starting' = Starting
    BY <1>0, <2>1, <2>4 DEF Starting
  <2>7. ControlType'
    BY <2>1, <2>5 DEF GatewayInv, ControlType, host, gateway
  <2>8. SampleInv'
    BY <2>1, <2>2 DEF GatewayInv, SampleInv, gateway
  <2>9. MutexInv'
    BY <1>0, <2>1, <2>4 DEF GatewayInv, MutexInv, host
  <2>10. SharedStart'
    BY <2>1, <2>6 DEF GatewayInv, SharedStart, gateway
  <2> QED
    BY <2>7, <2>8, <2>9, <2>10 DEF GatewayInv
<1> QED
  BY <1>1, <1>2, <1>3, <1>4, <1>5 DEF Watch

(* The surroundings keep the invariant; a restart begins with one start in *)
(* flight or none.                                                         *)
LEMMA SurroundingsGateway ==
    ASSUME GatewayAssumption, GatewayInv,
           CoolDown \/ BackendListens \/ UnitEnds \/ OpBegins \/ OpEnds \/ AgentRestarts
    PROVE  GatewayInv'
<1>1. CASE CoolDown \/ BackendListens \/ UnitEnds
  BY <1>1, QuietStep
     DEF CoolDown, BackendListens, UnitEnds, host, gateway, GatewayInv, ControlType
<1>2. CASE OpBegins \/ OpEnds
  <2>1. /\ UNCHANGED <<gateway, file, watch, disturbed, unsaved>>
        /\ backend' \in BOOLEAN /\ listening' \in BOOLEAN /\ stopped' \in BOOLEAN
        /\ mutex' \in {"none", "op"} /\ (stopped' => mutex' = "op")
        /\ mutex \in {"none", "op"}
    BY <1>2 DEF OpBegins, OpEnds, GatewayInv, ControlType
  <2>2. ControlType' /\ SampleInv'
    BY <2>1 DEF GatewayInv, ControlType, SampleInv, gateway
  <2>3. MutexInv'
    BY <2>1 DEF GatewayInv, MutexInv, GatewayAssumption
  <2>4. SharedStart'
    BY <2>1 DEF GatewayInv, SharedStart, Starting, gateway
  <2> QED
    BY <2>2, <2>3, <2>4 DEF GatewayInv
<1>3. CASE AgentRestarts
  <2>1. /\ mutex' = "none" /\ stopped' = FALSE /\ cooling' = FALSE
        /\ boots' = Latest(file) /\ unsaved' = FALSE
        /\ UNCHANGED <<backend, listening, file, disturbed>>
    BY <1>3 DEF AgentRestarts
  <2>2. boots' \in Samples
    BY <2>1, LatestIsBounded DEF GatewayInv, SampleInv, Samples
  <2>3. NoWatch \in [pc : {"idle"}, snap : Samples]
    BY DEF NoWatch, Samples, GatewayAssumption
  <2>4. CASE backend /\ ~listening
    <3>1. /\ inFlight' = TRUE /\ bootFrom' = "down"
          /\ \E w \in Watchers :
               watch' = [v \in Watchers |->
                    [NoWatch EXCEPT !.pc = IF v = w THEN "await" ELSE "idle"]]
      BY <1>3, <2>4 DEF AgentRestarts
    <3>2. PICK w \in Watchers :
               watch' = [v \in Watchers |->
                    [NoWatch EXCEPT !.pc = IF v = w THEN "await" ELSE "idle"]]
      BY <3>1
    <3>3. \A v \in Watchers : watch'[v].pc = IF v = w THEN "await" ELSE "idle"
      BY <3>2 DEF NoWatch
    <3>4. watch' \in [Watchers -> [pc : {"idle", "await"}, snap : Samples]]
      BY <2>3, <3>2
    <3>5. Starting' = {w}
      BY <3>3 DEF Starting
    <3>6. ControlType' /\ SampleInv'
      BY <2>1, <2>2, <3>1, <3>4 DEF GatewayInv, ControlType, SampleInv
    <3>7. MutexInv'
      BY <2>1, <3>3 DEF GatewayInv, MutexInv
    <3> QED
      BY <3>1, <3>5, <3>6, <3>7 DEF GatewayInv, SharedStart
  <2>5. CASE ~(backend /\ ~listening)
    <3>1. /\ inFlight' = FALSE /\ bootFrom' = "none"
          /\ watch' = [v \in Watchers |-> NoWatch]
      BY <1>3, <2>5 DEF AgentRestarts
    <3>2. \A v \in Watchers : watch'[v].pc = "idle"
      BY <3>1 DEF NoWatch
    <3>3. watch' \in [Watchers -> [pc : {"idle"}, snap : Samples]]
      BY <2>3, <3>1
    <3>4. Starting' = {}
      BY <3>2 DEF Starting
    <3>5. ControlType' /\ SampleInv'
      BY <2>1, <2>2, <3>1, <3>3 DEF GatewayInv, ControlType, SampleInv
    <3>6. MutexInv'
      BY <2>1, <3>2 DEF GatewayInv, MutexInv
    <3> QED
      BY <3>1, <3>4, <3>5, <3>6 DEF GatewayInv, SharedStart
  <2> QED
    BY <2>4, <2>5
<1> QED
  BY <1>1, <1>2, <1>3

(* The invariant holds in every reachable state. *)
THEOREM GatewayInvariant == GatewaySpec => []GatewayInv
<1> GatewayAssumption
  BY GatewayAssumption
<1>1. GatewayInv /\ [GatewayNext]_gatewayVars => GatewayInv'
  <2> SUFFICES ASSUME GatewayInv, [GatewayNext]_gatewayVars PROVE GatewayInv'
    OBVIOUS
  <2>1. CASE UNCHANGED gatewayVars
    BY <2>1, QuietStep DEF gatewayVars, host, gateway, GatewayInv, ControlType
  <2>2. CASE GatewayNext
    BY <2>2, ConnectionGateway, WatchGateway, PollGateway, SurroundingsGateway DEF GatewayNext
  <2> QED
    BY <2>1, <2>2
<1> QED
  BY InitGateway, <1>1, PTL DEF GatewaySpec

(* Concurrent login attempts and status requests share one start, and the  *)
(* flag of the start is never left behind: requestWake, refreshState and   *)
(* awaitReadiness (src/cmd/hogs-agent/gateway.go:217-238, 375-452).        *)
THEOREM StartsAreShared == GatewaySpec => []SharedStart
<1>1. GatewayInv => SharedStart
  BY DEF GatewayInv
<1> QED
  BY GatewayInvariant, <1>1, PTL

(* A wake never starts the unit under an operation that stopped it:        *)
(* requestWake takes serverOperationLock                                   *)
(* (src/cmd/hogs-agent/gateway.go:396-405).                                *)
THEOREM OperationsAreUndisturbed == GatewaySpec => []OperationUndisturbed
<1>1. GatewayInv => OperationUndisturbed
  BY DEF GatewayInv, MutexInv, OperationUndisturbed
<1> QED
  BY GatewayInvariant, <1>1, PTL
-----------------------------------------------------------------------------
(* The types of what is only seen outside the starts. *)
OuterType ==
    /\ state \in {"stopped", "starting", "ready", "failed"}
    /\ limited \subseteq Clients
    /\ conn \in [Clients -> [pc : {"idle", "dialled", "proxied", "down", "seen",
                                   "handshake", "login"}, active : BOOLEAN]]
    /\ poll \in [pc : {"idle", "up", "down", "seen"}, active : BOOLEAN]
    /\ events \in 0..MaxEvents

(* While no save failed or met another: one goroutine saves at most, its   *)
(* snapshot is what the gateway has, and without it the file is.           *)
SaveInv ==
    ~unsaved => /\ \A v, w \in Saving : v = w
                /\ \A w \in Watchers : watch[w].pc = "write" => watch[w].snap = boots
                /\ Saving = {} => file = boots

(* A step that keeps the samples, the file and who saves. *)
LEMMA SameSavers ==
    ASSUME GatewayAssumption, SaveInv, UNCHANGED <<boots, file, unsaved>>,
           \A v \in Watchers : \/ watch'[v] = watch[v]
                               \/ {watch[v].pc, watch'[v].pc} \cap {"save", "write"} = {}
    PROVE  SaveInv'
<1>1. /\ Saving' = Saving
      /\ \A w \in Watchers : watch'[w].pc = "write" => watch'[w] = watch[w]
  BY DEF Saving
<1> QED BY <1>1 DEF SaveInv

(* What Launch does to the goroutines. *)
LEMMA LaunchRows ==
    ASSUME GatewayAssumption, GatewayInv, NEW w \in Watchers,
           NEW step \in {"lock", "await"}, Launch(w, step)
    PROVE  /\ state' = "starting"
           /\ \A v \in Watchers : \/ watch'[v] = watch[v]
                                  \/ {watch[v].pc, watch'[v].pc} \cap {"save", "write"} = {}
BY DEF Launch, Free, Becomes, GatewayInv, ControlType

LEMMA ConnectionSaves ==
    ASSUME GatewayAssumption, GatewayInv, SaveInv, OuterType, NEW c \in Clients,
           Connection(c) \/ Unlimit(c)
    PROVE  SaveInv' /\ OuterType'
<1>1. /\ UNCHANGED <<boots, file, unsaved, poll, events>> /\ limited' \subseteq Clients
  BY DEF Connection, Unlimit, Dial, Proxy, SeeUnit, MarkUnavailable, Disconnect,
         Login, Refuse, Wake, gateway, OuterType
<1>2. conn' \in [Clients -> [pc : {"idle", "dialled", "proxied", "down", "seen",
                                   "handshake", "login"}, active : BOOLEAN]]
  <2>1. CASE UNCHANGED conn
    BY <2>1 DEF OuterType
  <2>2. CASE \E step \in {"idle", "dialled", "proxied", "down", "login"} : At(c, step)
    BY <2>2 DEF At, OuterType
  <2>3. CASE SeeUnit(c) \/ MarkUnavailable(c)
    <3>1. PICK r \in [pc : {"seen", "handshake"}, active : BOOLEAN] :
            conn' = [conn EXCEPT ![c] = r]
      BY <2>3 DEF SeeUnit, MarkUnavailable, Idle, GatewayInv, ControlType
    <3> QED BY <3>1 DEF OuterType
  <2> QED BY <2>1, <2>2, <2>3
          DEF Connection, Unlimit, Dial, Proxy, Disconnect, Login, Refuse, Wake
<1>3. CASE UNCHANGED watch
  <2>1. state' \in {"stopped", "starting", "ready", "failed"}
    BY DEF Connection, Unlimit, Dial, Proxy, SeeUnit, MarkUnavailable, Disconnect,
           Login, Refuse, Wake, Launch, gateway, OuterType
  <2> QED BY <1>1, <1>2, <1>3, <2>1, SameSavers DEF OuterType
<1>4. CASE \E w \in Watchers : Launch(w, "lock")
  BY <1>1, <1>2, <1>4, LaunchRows, SameSavers DEF OuterType
<1> QED BY <1>3, <1>4
        DEF Connection, Unlimit, Dial, Proxy, SeeUnit, MarkUnavailable, Disconnect,
            Login, Refuse, Wake

LEMMA PollSaves ==
    ASSUME GatewayAssumption, GatewayInv, SaveInv, OuterType, Poll
    PROVE  SaveInv' /\ OuterType'
<1>1. UNCHANGED <<boots, file, unsaved, conn, limited, events>>
  BY DEF Poll, Probe, PollReady, PollUnit, Refresh, gateway
<1>2. poll' \in [pc : {"idle", "up", "down", "seen"}, active : BOOLEAN]
  <2>1. CASE Probe
    <3>1. PICK step \in {"up", "down"} : poll' = [poll EXCEPT !.pc = step]
      BY <2>1 DEF Probe
    <3> QED BY <3>1 DEF OuterType
  <2>2. CASE PollUnit
    BY <2>2 DEF PollUnit, GatewayInv, ControlType
  <2>3. CASE PollReady \/ Refresh
    <3>1. poll' = Idle
      BY <2>3 DEF PollReady, Refresh
    <3> QED BY <3>1 DEF Idle
  <2> QED BY <2>1, <2>2, <2>3 DEF Poll
<1>3. CASE UNCHANGED watch
  <2>1. state' \in {"stopped", "starting", "ready", "failed"}
    BY DEF Poll, Probe, PollReady, PollUnit, Refresh, Launch, gateway, OuterType
  <2> QED BY <1>1, <1>2, <1>3, <2>1, SameSavers DEF OuterType
<1>4. CASE \E w \in Watchers : Launch(w, "await")
  BY <1>1, <1>2, <1>4, LaunchRows, SameSavers DEF OuterType
<1> QED BY <1>3, <1>4 DEF Poll, Probe, PollReady, PollUnit, Refresh

LEMMA WatchSaves ==
    ASSUME GatewayAssumption, GatewayInv, SaveInv, OuterType, NEW w \in Watchers, Watch(w)
    PROVE  SaveInv' /\ OuterType'
<1>1. OuterType'
  BY DEF Watch, WakeLock, WakeStart, WakeStartFails, TimeOut, GiveUp, SeeReady,
     Ready,
         Snapshot, Save, SaveFails, gateway, OuterType
<1> SUFFICES SaveInv'
  BY <1>1
<1>2. watch \in [Watchers -> [pc : {"idle", "lock", "start", "await", "failed",
                                    "ready", "save", "write"}, snap : Samples]]
  BY DEF GatewayInv, ControlType
<1>3. CASE \/ WakeLock(w) \/ WakeStart(w) \/ WakeStartFails(w) \/ TimeOut(w)
           \/ GiveUp(w) \/ SeeReady(w)
  <2>1. UNCHANGED <<boots, file, unsaved>>
    BY <1>3 DEF WakeLock, WakeStart, WakeStartFails, TimeOut, GiveUp, SeeReady,
       gateway
  <2>2. \A v \in Watchers : \/ watch'[v] = watch[v]
                            \/ {watch[v].pc, watch'[v].pc} \cap {"save", "write"} = {}
    BY <1>2, <1>3 DEF WakeLock, WakeStart, WakeStartFails, TimeOut, GiveUp,
       SeeReady,
                      Becomes, NoWatch
  <2> QED BY <2>1, <2>2, SameSavers
<1>4. CASE Ready(w)
  <2>1. /\ watch[w].pc = "ready" /\ watch' = [watch EXCEPT ![w].pc = "save"]
        /\ unsaved' = (unsaved \/ Saving # {}) /\ UNCHANGED file
    BY <1>4 DEF Ready, Becomes
  <2>2. CASE unsaved \/ Saving # {}
    BY <2>1, <2>2 DEF SaveInv
  <2>3. CASE Saving = {}
    <3>1. watch'[w].pc = "save" /\ \A v \in Watchers : v # w => watch'[v] = watch[v]
      BY <1>2, <2>1
    <3>2. Saving' = {w}
      BY <2>3, <3>1 DEF Saving
    <3>3. \A v \in Watchers : watch'[v].pc # "write"
      BY <2>3, <3>1 DEF Saving
    <3> QED BY <3>2, <3>3 DEF SaveInv
  <2> QED BY <2>2, <2>3
<1>5. CASE Snapshot(w)
  <2>1. /\ watch[w].pc = "save" /\ watch' = [watch EXCEPT ![w] = [pc |-> "write", snap |-> boots]]
        /\ UNCHANGED <<boots, file, unsaved>>
    BY <1>5 DEF Snapshot, gateway
  <2>2. /\ watch'[w].pc = "write" /\ watch'[w].snap = boots
        /\ \A v \in Watchers : v # w => watch'[v] = watch[v]
    BY <1>2, <2>1
  <2>3. Saving' = Saving
    BY <2>1, <2>2 DEF Saving
  <2> QED BY <2>1, <2>2, <2>3 DEF SaveInv
<1>6. CASE Save(w)
  <2>1. /\ watch[w].pc = "write" /\ watch' = [watch EXCEPT ![w] = NoWatch]
        /\ file' = watch[w].snap /\ UNCHANGED <<boots, unsaved>>
    BY <1>6 DEF Save, gateway
  <2>2. /\ watch'[w].pc = "idle"
        /\ \A v \in Watchers : v # w => watch'[v] = watch[v]
    BY <1>2, <2>1 DEF NoWatch
  <2>3. Saving' \subseteq Saving /\ w \in Saving /\ w \notin Saving'
    BY <2>1, <2>2 DEF Saving
  <2>4. ASSUME ~unsaved
        PROVE  /\ file' = boots /\ \A u, v \in Saving' : u = v
               /\ \A v \in Watchers : watch'[v].pc = "write" => watch'[v].snap = boots
    BY <2>1, <2>2, <2>3, <2>4 DEF SaveInv
  <2> QED BY <2>1, <2>4 DEF SaveInv
<1>7. CASE SaveFails(w)
  BY <1>7 DEF SaveFails, SaveInv
<1> QED BY <1>3, <1>4, <1>5, <1>6, <1>7 DEF Watch

LEMMA SurroundingsSave ==
    ASSUME GatewayAssumption, GatewayInv, SaveInv, OuterType,
           CoolDown \/ BackendListens \/ UnitEnds \/ OpBegins \/ OpEnds \/ AgentRestarts
    PROVE  SaveInv' /\ OuterType'
<1>1. CASE ~AgentRestarts
  <2>1. UNCHANGED <<boots, file, unsaved, watch, state, conn, poll, limited>>
    BY <1>1 DEF CoolDown, BackendListens, UnitEnds, OpBegins, OpEnds, gateway
  <2>2. events' \in 0..MaxEvents
    <3>1. events' = events \/ (events < MaxEvents /\ events' = events + 1)
      BY <1>1 DEF CoolDown, BackendListens, UnitEnds, OpBegins, OpEnds
    <3> QED BY <3>1 DEF OuterType, GatewayAssumption
  <2> QED BY <2>1, <2>2, SameSavers DEF OuterType
<1>2. CASE AgentRestarts
  <2>1. /\ boots' = Latest(file) /\ unsaved' = FALSE /\ limited' = {}
        /\ conn' = [c \in Clients |-> Idle] /\ poll' = Idle /\ UNCHANGED file
        /\ events < MaxEvents /\ events' = events + 1
    BY <1>2 DEF AgentRestarts
  <2>2. \A v \in Watchers : watch'[v].pc \in {"idle", "await"}
    BY <1>2 DEF AgentRestarts, NoWatch
  <2>3. Saving' = {} /\ \A v \in Watchers : watch'[v].pc # "write"
    BY <2>2 DEF Saving
  <2>4. file' = boots'
    BY <2>1 DEF GatewayInv, SampleInv, Samples, Latest
  <2>5. state' \in {"stopped", "starting", "ready", "failed"}
    BY <1>2 DEF AgentRestarts
  <2>6. events' \in 0..MaxEvents
    BY <2>1 DEF OuterType, GatewayAssumption
  <2>7. OuterType'
    BY <2>1, <2>5, <2>6 DEF OuterType, Idle
  <2> QED BY <2>3, <2>4, <2>7 DEF SaveInv
<1> QED BY <1>1, <1>2

(* The saves and the outer types are kept as well. *)
THEOREM SavesInvariant == GatewaySpec => [](SaveInv /\ OuterType)
<1> GatewayAssumption
  BY GatewayAssumption
<1>1. GatewayInit => SaveInv /\ OuterType
  <2> SUFFICES ASSUME GatewayInit PROVE SaveInv /\ OuterType
    OBVIOUS
  <2>1. SaveInv
    BY DEF GatewayInit, SaveInv, Saving, NoWatch
  <2>2. 0 \in 0..MaxEvents
    BY DEF GatewayAssumption
  <2> QED BY <2>1, <2>2 DEF GatewayInit, OuterType, Idle
<1>2. GatewayInv /\ SaveInv /\ OuterType /\ [GatewayNext]_gatewayVars => (SaveInv /\ OuterType)'
  <2> SUFFICES ASSUME GatewayInv, SaveInv, OuterType, [GatewayNext]_gatewayVars
               PROVE  SaveInv' /\ OuterType'
    OBVIOUS
  <2>1. CASE UNCHANGED gatewayVars
    BY <2>1, SameSavers DEF gatewayVars, host, gateway, OuterType
  <2>2. CASE GatewayNext
    BY <2>2, ConnectionSaves, WatchSaves, PollSaves, SurroundingsSave DEF GatewayNext
  <2> QED BY <2>1, <2>2
<1> QED BY <1>1, <1>2, GatewayInvariant, PTL DEF GatewaySpec

(* Every field of the gateway, every connection and every goroutine has    *)
(* its type, and there are never more than maxBootSamples samples          *)
(* (src/cmd/hogs-agent/gateway.go:430-432, 549-551).                       *)
THEOREM SamplesAreBounded == GatewaySpec => []GatewayTypeOK
<1>1. GatewayInv /\ OuterType => GatewayTypeOK
  BY DEF GatewayInv, ControlType, SampleInv, OuterType, GatewayTypeOK
<1> QED BY <1>1, GatewayInvariant, SavesInvariant, PTL

(* saveState leaves the samples of the gateway in the file, whatever       *)
(* starts, ends, operations and restarts come between, unless a write      *)
(* failed or two saves ran at once (src/cmd/hogs-agent/gateway.go:556-572). *)
THEOREM SavesKeepUp == GatewaySpec => []FileKeepsUp
<1>1. SaveInv => FileKeepsUp
  BY DEF SaveInv, FileKeepsUp
<1> QED BY <1>1, SavesInvariant, PTL
=============================================================================
