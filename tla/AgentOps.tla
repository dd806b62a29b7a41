------------------------------ MODULE AgentOps ------------------------------
(***************************************************************************)
(* The operations of the node agent on one managed game server             *)
(* (src/cmd/hogs-agent): transactional restore and update, and the short   *)
(* handlers, serialised by the mutex of the server's systemd unit.         *)
(*                                                                         *)
(* A world is the content of a game-data directory, named by a number: 1   *)
(* is the world at the start, a restore stages a new one, and a game or a  *)
(* file write that finds no data directory makes an empty new one.  The    *)
(* model follows each world through the renames, and the world the running *)
(* game has open, which a rename does not change.                          *)
(*                                                                         *)
(* systemctl and restic are external: each call succeeds or fails.  The    *)
(* game may die, the host may start the unit by itself, and the agent may  *)
(* crash between any two steps; it has no recovery code.                   *)
(***************************************************************************)
EXTENDS Naturals, FiniteSets

CONSTANTS
    Ops,            \* restore and update requests
    MaxWorlds,      \* bound: worlds that ever exist
    MaxExternal,    \* bound: starts of the unit by something but the agent
    MaxCrashes      \* bound: crashes of the agent

ASSUME ConstantsAssumption ==
    /\ MaxWorlds \in Nat \ {0} /\ MaxExternal \in Nat /\ MaxCrashes \in Nat
    /\ "none" \notin Ops

VARIABLES
    unit,           \* serviceRunningState of the unit
    game,           \* the world the running game has open
    data,           \* the world at DataDir
    stage,          \* the world below stagingRoot
    rollback,       \* the world at rollbackPath
    failed,         \* the world at failedPath
    leftover,       \* worlds in temporary directories nothing refers to
    saved,          \* worlds whose present content a restic snapshot holds
    worlds,         \* how many worlds there were so far
    lock,           \* holder of serverOperationLock, NoOp if free
    pc, kind,       \* where an operation stands, and which it is
    was,            \* its wasRunning
    result,         \* what it reported
    \* history
    current,        \* the world that was last put in place for good
    external, crashes,
    stopIgnored,    \* a rollback went on although the unit did not stop
    unsavedLoss     \* a restore removed a world no snapshot held

places == <<data, stage, rollback, failed, leftover>>
opVars == <<pc, kind, was, result>>
history == <<current, external, crashes, stopIgnored, unsavedLoss>>
vars == <<unit, game, places, saved, worlds, lock, opVars, history>>

NoWorld == 0
NoOp == "none"
Worlds == 1..MaxWorlds

Init ==
    /\ unit \in BOOLEAN /\ game = (IF unit THEN 1 ELSE NoWorld)
    /\ data = 1 /\ stage = NoWorld /\ rollback = NoWorld /\ failed = NoWorld
    /\ leftover = {} /\ saved = {} /\ worlds = 1
    /\ lock = NoOp
    /\ pc = [o \in Ops |-> "idle"] /\ kind \in [Ops -> {"restore", "update"}]
    /\ was = [o \in Ops |-> FALSE] /\ result = [o \in Ops |-> "none"]
    /\ current = 1 /\ external = 0 /\ crashes = 0
    /\ stopIgnored = FALSE /\ unsavedLoss = FALSE
-----------------------------------------------------------------------------
(* systemctl (external) *)

(* Something makes an empty data directory: mkdir -p by a file handler, or *)
(* a game that starts without one.                                         *)
MakeWorld ==
    /\ data = NoWorld /\ worlds < MaxWorlds
    /\ worlds' = worlds + 1
    /\ data' = worlds + 1

(* systemctl start succeeds.  On a running unit it does nothing; otherwise *)
(* the game opens the directory it finds.                                  *)
UnitStarts ==
    /\ unit' = TRUE
    /\ \/ /\ unit
          /\ UNCHANGED <<game, data, worlds>>
       \/ /\ ~unit /\ data # NoWorld
          /\ game' = data
          /\ UNCHANGED <<data, worlds>>
       \/ /\ ~unit /\ MakeWorld
          /\ game' = data'

UnitStops == unit' = FALSE /\ game' = NoWorld
-----------------------------------------------------------------------------
(* The start of restoreSnapshot and updateServer *)

(* Mutant of Return: the lock is not released. *)
ReturnLocked(o, r) ==
    /\ pc' = [pc EXCEPT ![o] = "done"]
    /\ result' = [result EXCEPT ![o] = r]
    /\ stage' = NoWorld
    /\ UNCHANGED <<lock, kind, was>>

(* The operation returns: the deferred calls remove the staging directory  *)
(* and release the lock.                                                   *)
Return(o, r) ==
    /\ pc' = [pc EXCEPT ![o] = "done"]
    /\ result' = [result EXCEPT ![o] = r]
    /\ stage' = NoWorld
    /\ lock' = NoOp
    /\ UNCHANGED <<kind, was>>

Goto(o, l) == /\ pc' = [pc EXCEPT ![o] = l]
              /\ UNCHANGED <<kind, was, result>>

(* A request passes the checks made before the lock or is refused: a       *)
(* restore looks for the live directory here, not under the lock.          *)
Request(o) ==
    /\ pc[o] = "idle"
    /\ \/ /\ kind[o] = "restore" => data # NoWorld
          /\ pc' = [pc EXCEPT ![o] = "lock"]
          /\ UNCHANGED result
       \/ /\ pc' = [pc EXCEPT ![o] = "done"]
          /\ result' = [result EXCEPT ![o] = "error"]
    /\ UNCHANGED <<unit, game, places, saved, worlds, lock, kind, was, history>>

(* Mutant of Acquire: the operation does not wait for the lock. *)
AcquireBusy(o) ==
    /\ pc[o] = "lock"
    /\ lock' = o
    /\ Goto(o, "state")
    /\ UNCHANGED <<unit, game, places, saved, worlds, history>>

Acquire(o) ==
    /\ pc[o] = "lock" /\ lock = NoOp
    /\ lock' = o
    /\ Goto(o, "state")
    /\ UNCHANGED <<unit, game, places, saved, worlds, history>>

(* wasRunning, or an error of the query. *)
QueryState(o) ==
    /\ pc[o] = "state"
    /\ \/ /\ was' = [was EXCEPT ![o] = unit]
          /\ pc' = [pc EXCEPT ![o] = IF unit THEN "stop" ELSE "safety"]
          /\ UNCHANGED <<kind, result, stage, lock>>
       \/ Return(o, "error")
    /\ UNCHANGED <<unit, game, data, rollback, failed, leftover, saved, worlds,
                   history>>

(* Mutant of Stop: a failed stop does not end the operation. *)
StopGoesOn(o) ==
    /\ pc[o] = "stop"
    /\ UnitStops \/ UNCHANGED <<unit, game>>
    /\ Goto(o, "safety")
    /\ UNCHANGED <<places, saved, worlds, lock, history>>

(* A stop that fails is reported without a restart. *)
Stop(o) ==
    /\ pc[o] = "stop"
    /\ \/ UnitStops /\ Goto(o, "waitStop") /\ UNCHANGED <<stage, lock>>
       \/ UNCHANGED <<unit, game>> /\ Return(o, "error")
    /\ UNCHANGED <<data, rollback, failed, leftover, saved, worlds, history>>

(* waitForRestoreServiceState(unit, false): inactive, or the deadline or   *)
(* an error of the query.                                                  *)
WaitStop(o) ==
    /\ pc[o] = "waitStop"
    /\ \/ ~unit /\ Goto(o, "safety")
       \/ Goto(o, "restart")
    /\ UNCHANGED <<unit, game, places, saved, worlds, lock, history>>

(* Mutant of SafetyBackup: its failure is ignored. *)
SafetyIgnored(o) ==
    /\ pc[o] = "safety"
    /\ Goto(o, IF kind[o] = "restore" THEN "stage" ELSE "update")
    /\ \/ data # NoWorld /\ saved' = saved \cup {data}
       \/ UNCHANGED saved
    /\ UNCHANGED <<unit, game, places, worlds, lock, history>>

(* backupCreate, tagged as the safety snapshot; an error or a missing ID   *)
(* ends the operation.                                                     *)
SafetyBackup(o) ==
    /\ pc[o] = "safety"
    /\ \/ /\ data # NoWorld
          /\ saved' = saved \cup {data}
          /\ Goto(o, IF kind[o] = "restore" THEN "stage" ELSE "update")
       \/ UNCHANGED saved /\ Goto(o, "restart")
    /\ UNCHANGED <<unit, game, places, worlds, lock, history>>

(* restartOriginal, after which the failure is reported. *)
RestartOriginal(o) ==
    /\ pc[o] = "restart"
    /\ \/ was[o] /\ UnitStarts
       \/ UNCHANGED <<unit, game, data, worlds>>
    /\ Return(o, "error")
    /\ UNCHANGED <<rollback, failed, leftover, saved, history>>
-----------------------------------------------------------------------------
(* restoreSnapshot: staging and the swap *)

(* The snapshot is inspected, sized and restored to the staging directory, *)
(* and the rollback path is reserved.                                      *)
StageSnapshot(o) ==
    /\ pc[o] = "stage"
    /\ \/ /\ worlds < MaxWorlds
          /\ worlds' = worlds + 1
          /\ stage' = worlds + 1
          /\ saved' = saved \cup {worlds + 1}
          /\ Goto(o, "moveAway")
       \/ UNCHANGED <<worlds, stage, saved>> /\ Goto(o, "restart")
    /\ UNCHANGED <<unit, game, data, rollback, failed, leftover, lock, history>>

(* os.Rename(dataDir, rollbackPath) *)
MoveAway(o) ==
    /\ pc[o] = "moveAway"
    /\ \/ /\ data # NoWorld
          /\ rollback' = data /\ data' = NoWorld
          /\ Goto(o, "activate")
       \/ UNCHANGED <<data, rollback>> /\ Goto(o, "restart")
    /\ UNCHANGED <<unit, game, stage, failed, leftover, saved, worlds, lock,
                   history>>

(* Mutant of Activate: the function returns where the second rename fails. *)
ActivateReturns(o) ==
    /\ pc[o] = "activate"
    /\ \/ /\ data = NoWorld
          /\ data' = stage /\ stage' = NoWorld
          /\ Goto(o, IF was[o] THEN "start" ELSE "verify")
          /\ UNCHANGED <<rollback, leftover, lock>>
       \/ /\ Return(o, "error")
          /\ rollback' = NoWorld /\ leftover' = leftover \cup {rollback}
          /\ UNCHANGED data
    /\ UNCHANGED <<unit, game, failed, saved, worlds, history>>

(* os.Rename(restoredData, dataDir); it fails on a directory that is there *)
(* again.                                                                  *)
Activate(o) ==
    /\ pc[o] = "activate"
    /\ \/ /\ data = NoWorld
          /\ data' = stage /\ stage' = NoWorld
          /\ Goto(o, IF was[o] THEN "start" ELSE "verify")
       \/ UNCHANGED <<data, stage>> /\ Goto(o, "undo")
    /\ UNCHANGED <<unit, game, rollback, failed, leftover, saved, worlds, lock,
                   history>>

(* The second rename failed: os.Rename(rollbackPath, dataDir), then        *)
(* restartOriginal and the report, which names a failure of either.        *)
Undo(o) ==
    /\ pc[o] = "undo"
    /\ rollback' = NoWorld
    /\ \/ /\ data = NoWorld
          /\ data' = rollback
          /\ UNCHANGED leftover
          /\ Goto(o, "restart")
       \/ /\ leftover' = leftover \cup {rollback}
          /\ UNCHANGED data
          /\ Goto(o, "restartBroken")
    /\ UNCHANGED <<unit, game, stage, failed, saved, worlds, lock, history>>

RestartBroken(o) ==
    /\ pc[o] = "restartBroken"
    /\ \/ was[o] /\ UnitStarts
       \/ UNCHANGED <<unit, game, data, worlds>>
    /\ Return(o, "broken")
    /\ UNCHANGED <<rollback, failed, leftover, saved, history>>

(* The start of the unit on the restored data, and what verifies it. *)
StartRestored(o) ==
    /\ pc[o] = "start"
    /\ \/ UnitStarts /\ Goto(o, "waitStart")
       \/ UNCHANGED <<unit, game, data, worlds>> /\ Goto(o, "rbStop")
    /\ UNCHANGED <<stage, rollback, failed, leftover, saved, lock, history>>

WaitStart(o) ==
    /\ pc[o] = "waitStart"
    /\ \/ unit /\ Goto(o, "ready")
       \/ Goto(o, "rbStop")
    /\ UNCHANGED <<unit, game, places, saved, worlds, lock, history>>

(* waitForRestoreReadiness; without a game API it returns at once. *)
AwaitReady(o) ==
    /\ pc[o] = "ready"
    /\ Goto(o, "cleanup") \/ Goto(o, "rbStop")
    /\ UNCHANGED <<unit, game, places, saved, worlds, lock, history>>

(* The check of a service that was stopped before the restore. *)
VerifyStopped(o) ==
    /\ pc[o] = "verify"
    /\ \/ ~unit /\ Goto(o, "cleanup")
       \/ Goto(o, "rbStop")
    /\ UNCHANGED <<unit, game, places, saved, worlds, lock, history>>

(* os.RemoveAll(rollbackPath) and the success report; a failed removal is  *)
(* a warning.                                                              *)
CleanUp(o) ==
    /\ pc[o] = "cleanup"
    /\ rollback' = NoWorld
    /\ \/ /\ unsavedLoss' = (unsavedLoss \/ rollback \notin saved)
          /\ UNCHANGED leftover
       \/ /\ leftover' = leftover \cup {rollback}
          /\ UNCHANGED unsavedLoss
    /\ current' = data
    /\ Return(o, "ok")
    /\ UNCHANGED <<unit, game, data, failed, saved, worlds, external, crashes,
                   stopIgnored>>
-----------------------------------------------------------------------------
(* restoreSnapshot: the rollback *)

(* Mutant of RollbackStop: the unit is left running. *)
RollbackWithoutStop(o) ==
    /\ pc[o] = "rbStop"
    /\ Goto(o, "rbMove")
    /\ UNCHANGED <<unit, game, places, saved, worlds, lock, history>>

(* A running unit is stopped; the outcome is not looked at. *)
RollbackStop(o) ==
    /\ pc[o] = "rbStop"
    /\ \/ UnitStops /\ UNCHANGED stopIgnored
       \/ UNCHANGED <<unit, game>> /\ stopIgnored' = (stopIgnored \/ unit)
    /\ Goto(o, "rbMove")
    /\ UNCHANGED <<places, saved, worlds, lock, current, external, crashes,
                   unsavedLoss>>

(* os.Rename(dataDir, failedPath) *)
RollbackMove(o) ==
    /\ pc[o] = "rbMove"
    /\ \/ data # NoWorld /\ failed' = data /\ data' = NoWorld
       \/ UNCHANGED <<data, failed>>
    /\ Goto(o, "rbBack")
    /\ UNCHANGED <<unit, game, stage, rollback, leftover, saved, worlds, lock,
                   history>>

(* Mutant of RollbackBack: the original directory is removed, not renamed, *)
(* when the data directory is still there.                                 *)
RollbackBackRemoves(o) ==
    /\ pc[o] = "rbBack"
    /\ rollback' = NoWorld
    /\ data' = IF data = NoWorld THEN rollback ELSE data
    /\ Goto(o, "rbStart")
    /\ UNCHANGED <<unit, game, stage, failed, leftover, saved, worlds, lock,
                   history>>

(* os.Rename(rollbackPath, dataDir) *)
RollbackBack(o) ==
    /\ pc[o] = "rbBack"
    /\ rollback' = NoWorld
    /\ \/ /\ data = NoWorld
          /\ data' = rollback
          /\ UNCHANGED leftover
          /\ Goto(o, "rbStart")
       \/ /\ leftover' = leftover \cup {rollback}
          /\ UNCHANGED data
          /\ Goto(o, "rbStartBroken")
    /\ UNCHANGED <<unit, game, stage, failed, saved, worlds, lock, history>>

(* restartOriginal; then the failed restore is removed if both renames     *)
(* succeeded, and the report says whether the original data is back.       *)
RollbackStart(o) ==
    /\ pc[o] \in {"rbStart", "rbStartBroken"}
    /\ \/ was[o] /\ UnitStarts
       \/ UNCHANGED <<unit, game, data, worlds>>
    /\ failed' = NoWorld
    /\ \/ pc[o] = "rbStart" /\ UNCHANGED leftover
       \/ leftover' = leftover \cup ({failed} \ {NoWorld})
    /\ Return(o, IF pc[o] = "rbStart" THEN "rolledBack" ELSE "broken")
    /\ UNCHANGED <<rollback, saved, history>>
-----------------------------------------------------------------------------
(* updateServer: the update unit runs to its end, and startOriginal. *)

RunUpdate(o) ==
    /\ pc[o] = "update"
    /\ Goto(o, "upStart") \/ Goto(o, "restart")
    /\ UNCHANGED <<unit, game, places, saved, worlds, lock, history>>

UpdateStart(o) ==
    /\ pc[o] = "upStart"
    /\ \/ /\ IF was[o] THEN UnitStarts ELSE UNCHANGED <<unit, game, data, worlds>>
          /\ Return(o, "ok")
       \/ /\ was[o]
          /\ UnitStarts \/ UNCHANGED <<unit, game, data, worlds>>
          /\ Return(o, "notBack")
    /\ UNCHANGED <<rollback, failed, leftover, saved, history>>
-----------------------------------------------------------------------------
(* Handlers that take the lock for one call *)

(* handleAction start, and the wake of the gateway. *)
HandleStart ==
    /\ lock = NoOp
    /\ ~unit /\ UnitStarts
    /\ UNCHANGED <<stage, rollback, failed, leftover, saved, lock, opVars, history>>

(* handleAction stop; a restart is a stop and a start. *)
HandleStop ==
    /\ lock = NoOp
    /\ unit /\ UnitStops
    /\ UNCHANGED <<places, saved, worlds, lock, opVars, history>>

(* handleFileWrite, handleMkdir (which make the directory they need),      *)
(* handleFileDelete, handleFileOperation, and a command or a whitelist     *)
(* change that reaches the files.                                          *)
HandleFiles ==
    /\ lock = NoOp
    /\ \/ /\ data # NoWorld
          /\ saved' = saved \ {data}
          /\ UNCHANGED <<data, worlds>>
       \/ MakeWorld /\ UNCHANGED saved
    /\ UNCHANGED <<unit, game, stage, rollback, failed, leftover, lock, opVars,
                   history>>

(* handleBackupCreate *)
HandleBackup ==
    /\ lock = NoOp /\ data # NoWorld
    /\ saved' = saved \cup {data}
    /\ UNCHANGED <<unit, game, places, worlds, lock, opVars, history>>
-----------------------------------------------------------------------------
(* The surroundings *)

GameWrites ==
    /\ unit
    /\ saved' = saved \ {game}
    /\ UNCHANGED <<unit, game, places, worlds, lock, opVars, history>>

GameDies ==
    /\ unit /\ UnitStops
    /\ UNCHANGED <<places, saved, worlds, lock, opVars, history>>

(* systemd, a timer or a person at the host starts the unit. *)
ExternalStart ==
    /\ external < MaxExternal
    /\ ~unit /\ UnitStarts
    /\ external' = external + 1
    /\ UNCHANGED <<stage, rollback, failed, leftover, saved, lock, opVars,
                   current, crashes, stopIgnored, unsavedLoss>>

(* The agent dies and starts again: its operations and its lock are gone,  *)
(* what they left on the disk stays.                                       *)
Crash ==
    /\ crashes < MaxCrashes
    /\ crashes' = crashes + 1
    /\ leftover' = leftover \cup ({stage, rollback, failed} \ {NoWorld})
    /\ stage' = NoWorld /\ rollback' = NoWorld /\ failed' = NoWorld
    /\ lock' = NoOp
    /\ pc' = [o \in Ops |-> IF pc[o] = "idle" THEN "idle" ELSE "done"]
    /\ UNCHANGED <<unit, game, data, saved, worlds, kind, was, result, current,
                   external, stopIgnored, unsavedLoss>>

(* The steps of an operation. *)
Step(o) ==
    \/ QueryState(o) \/ Stop(o) \/ WaitStop(o) \/ SafetyBackup(o)
    \/ RestartOriginal(o)
    \/ StageSnapshot(o) \/ MoveAway(o) \/ Activate(o) \/ Undo(o)
    \/ RestartBroken(o)
    \/ StartRestored(o) \/ WaitStart(o) \/ AwaitReady(o) \/ VerifyStopped(o)
    \/ CleanUp(o)
    \/ RollbackStop(o) \/ RollbackMove(o) \/ RollbackBack(o) \/ RollbackStart(o)
    \/ RunUpdate(o) \/ UpdateStart(o)

Next ==
    \/ \E o \in Ops : Request(o) \/ Acquire(o) \/ Step(o)
    \/ HandleStart \/ HandleStop \/ HandleFiles \/ HandleBackup
    \/ GameWrites \/ GameDies \/ ExternalStart \/ Crash

Spec == Init /\ [][Next]_vars

(* A goroutine that holds the lock goes on: every wait has a deadline.  A  *)
(* Go mutex serves a waiter that has waited long enough first.             *)
FairSpec ==
    /\ Spec
    /\ \A o \in Ops : WF_vars(Step(o)) /\ SF_vars(Acquire(o))
-----------------------------------------------------------------------------
(* Properties *)

Steps == {"state", "stop", "waitStop", "safety", "restart", "stage",
          "moveAway", "activate", "undo", "restartBroken", "start",
          "waitStart", "ready", "verify", "cleanup", "rbStop", "rbMove",
          "rbBack", "rbStart", "rbStartBroken", "update", "upStart"}

DiskType ==
    /\ worlds \in Worlds /\ unit \in BOOLEAN /\ game \in 0..worlds
    /\ data \in 0..worlds /\ stage \in 0..worlds
    /\ rollback \in 0..worlds /\ failed \in 0..worlds
    /\ leftover \subseteq 1..worlds /\ saved \subseteq 1..worlds

OpType ==
    /\ lock \in Ops \cup {NoOp}
    /\ pc \in [Ops -> Steps \cup {"idle", "lock", "done"}]
    /\ kind \in [Ops -> {"restore", "update"}]
    /\ was \in [Ops -> BOOLEAN]
    /\ result \in [Ops -> {"none", "ok", "error", "broken", "rolledBack",
                           "notBack"}]
    /\ \A o \in Ops : pc[o] \in Steps <=> lock = o
    /\ \A o \in Ops : pc[o] # "done" => result[o] = "none"

HistoryType ==
    /\ current \in 1..worlds /\ external \in Nat /\ crashes \in Nat
    /\ stopIgnored \in BOOLEAN /\ unsavedLoss \in BOOLEAN

(* Types of the disk, of the operations and of the history; an operation   *)
(* is past the lock exactly while it holds it, and reports at its end.     *)
TypeOK == DiskType /\ OpType /\ HistoryType

OnDisk == ({data, stage, rollback, failed} \ {NoWorld}) \cup leftover

(* The server's world is never destroyed: at every moment, in every crash  *)
(* and after every failed call, the last world put in place for good is on *)
(* the disk (src/cmd/hogs-agent/restore.go:269-355).                       *)
WorldSurvives == current \in OnDisk

(* When no operation runs, the data directory holds that world, unless the *)
(* agent crashed or an operation said that it could not put the world back *)
(* (src/cmd/hogs-agent/restore.go:274-323).                                *)
AllOrNothing ==
    lock = NoOp /\ crashes = 0 /\ (\A o \in Ops : result[o] # "broken")
        => data = current

(* What a restore removes is in a snapshot as it was when the game last    *)
(* wrote it, unless something else started the game during the restore     *)
(* (src/cmd/hogs-agent/restore.go:181-210, 346-347).                       *)
RemovedIsSaved == unsavedLoss => external > 0

(* The update unit runs on a stopped game whose data is in a snapshot, so  *)
(* the snapshot protects what cannot be downgraded                         *)
(* (src/cmd/hogs-agent/update.go:74-79, 117-137).                          *)
UpdateIsGuarded ==
    \A o \in Ops : pc[o] = "update" /\ external = 0 => ~unit /\ data \in saved

(* A snapshot comes first: neither a restore nor an update takes anything  *)
(* away that restic does not hold.                                         *)
SavedFirst == RemovedIsSaved /\ UpdateIsGuarded

(* When no operation runs, a running game has the data directory open, not *)
(* one that was moved away or removed under it (docs/AGENT.md:233-236).    *)
ServesData == lock = NoOp /\ unit /\ external = 0 => game = data

(* The same where every rollback could stop the unit. *)
ServesDataIfStopped == ~stopIgnored => ServesData

(* Every restore and every update is answered, whatever fails and whoever  *)
(* else wants the lock.                                                    *)
EveryRequestReturns == \A o \in Ops : (pc[o] = "lock") ~> (pc[o] = "done")
=============================================================================
