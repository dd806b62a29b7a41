------------------------ MODULE ReconciliationProofs ------------------------
(***************************************************************************)
(* Proofs about the two modules that bring a managed state in line with    *)
(* what is asked for: Reconciler, the lists of the game servers, and       *)
(* Inventory, the tables of HOGS itself.                                   *)
(*                                                                         *)
(* The first part is about Reconciler, for any users, names and bounds.    *)
(* Each step of a run is first reduced to the fields of its record (the    *)
(* lemmas ...Shape).  That a hand-made entry stays then needs only what    *)
(* the runs hold (ManualInv), however they overlap.  That a revoked entry  *)
(* leaves needs an account of the one run there is while nothing disturbs  *)
(* it (JobOK): what is left for it to do, what it knows of the list and    *)
(* which entries of HOGS have a row.                                       *)
(***************************************************************************)
EXTENDS Reconciler, Inventory, TLAPS

Pcs == {"idle", "list", "users", "rows", "next", "swap", "record", "drop"}
Column == [Users -> Names \cup {NoName}]
Job == [pc : Pcs, actual : SUBSET Names, desired : Column, owned : Column,
        todo : SUBSET Users, cur : Users \cup {NoUser}, touched : BOOLEAN]

(* Where a run has a current user. *)
AtCur == {"swap", "record", "drop"}

ListTypes ==
    /\ list \subseteq Names /\ manual \subseteq list /\ ours \subseteq list
    /\ want \in Column /\ rows \in Column
    /\ run \in [Runs -> Job]
    /\ \A r \in Runs : run[r].pc \in AtCur => run[r].cur \in Users
    /\ \A r \in Runs : run[r].pc = "idle" => run[r] = Idle
    /\ \A r \in Runs : \A w \in run[r].todo : run[r].desired[w] \in Names
    /\ faults \in Nat /\ hands \in Nat

(* A step of run r that leaves it at the record v. *)
LEMMA OneRun ==
    ASSUME ListTypes, NEW r \in Runs, NEW v \in Job,
           run' = [run EXCEPT ![r] = v],
           v.pc \in AtCur => v.cur \in Users,
           \A w \in v.todo : v.desired[w] \in Names,
           v.pc = "idle" => v = Idle
    PROVE  /\ run' \in [Runs -> Job]
           /\ \A s \in Runs : run'[s].pc \in AtCur => run'[s].cur \in Users
           /\ \A s \in Runs : run'[s].pc = "idle" => run'[s] = Idle
           /\ \A s \in Runs : \A w \in run'[s].todo : run'[s].desired[w] \in Names
           /\ run'[r] = v
           /\ \A s \in Runs : s # r => run'[s] = run[s]
  BY DEF ListTypes

LEMMA IdleJob ==
    ASSUME ConstantsAssumption
    PROVE  /\ Idle \in Job /\ Nobody \in Column
           /\ Idle.pc = "idle" /\ Idle.actual = {} /\ Idle.desired = Nobody
           /\ Idle.owned = Nobody /\ Idle.todo = {} /\ Idle.cur = NoUser
           /\ Idle.touched = FALSE
           /\ \A u \in Users : Nobody[u] = NoName
  BY DEF Idle, Job, Nobody, Column, Pcs, ConstantsAssumption

LEMMA SetRowType ==
    ASSUME ListTypes, NEW u \in Users, NEW n \in Names \cup {NoName}, SetRow(u, n)
    PROVE  /\ rows' \in Column /\ rows'[u] = n
           /\ \A w \in Users : w # u => rows'[w] = IF rows[w] = n THEN NoName ELSE rows[w]
  BY DEF ListTypes, SetRow, Column

LEMMA DeleteRowType ==
    ASSUME ListTypes, NEW u \in Users, DeleteRow(u)
    PROVE  /\ rows' \in Column /\ rows'[u] = NoName
           /\ \A w \in Users : w # u => rows'[w] = rows[w]
  BY DEF ListTypes, DeleteRow, Column

LEMMA EntriesTypes ==
    ASSUME ListTypes, NEW new \in SUBSET Names, ListBecomes(new)
    PROVE  list' \subseteq Names /\ manual' \subseteq list' /\ ours' \subseteq list'
  BY DEF ListTypes, ListBecomes

(* A run step changes the record of its own run alone. *)
Others(r) ==
    /\ run' \in [Runs -> Job]
    /\ \A s \in Runs : run'[s].pc \in AtCur => run'[s].cur \in Users
    /\ \A s \in Runs : \A w \in run'[s].todo : run'[s].desired[w] \in Names
    /\ \A s \in Runs : run'[s].pc = "idle" => run'[s] = Idle
    /\ \A s \in Runs : s # r => run'[s] = run[s]

(* The fields of a run's record after a step, one parameter for each. *)
Becomes(j, pc, actual, desired, owned, todo, cur, t) ==
    /\ j.pc = pc /\ j.actual = actual /\ j.desired = desired
    /\ j.owned = owned /\ j.todo = todo /\ j.cur = cur /\ j.touched = t

-----------------------------------------------------------------------------
(* The run's record after each of its steps. *)

LEMMA BeginShape ==
    ASSUME ConstantsAssumption, ListTypes, NEW r \in Runs, Begin(r)
    PROVE  /\ Others(r)
           /\ Becomes(run'[r], "list", {}, Nobody, Nobody, {}, NoUser, FALSE)
<1>. DEFINE v == [Idle EXCEPT !.pc = "list"]
<1>1. run' = [run EXCEPT ![r] = v]
  BY Zenon DEF Begin
<1>2. Becomes(v, "list", {}, Nobody, Nobody, {}, NoUser, FALSE)
  BY IdleJob DEF Becomes, Idle
<1>3. v \in Job
  BY IdleJob DEF Job, Pcs
<1>4. (v.pc = "idle" => v = Idle) /\ v.pc \notin AtCur /\ v.todo = {}
  BY IdleJob DEF Idle, AtCur
<1>. HIDE DEF v
<1>. QED
  BY <1>1, <1>2, <1>3, <1>4, OneRun DEF Others

LEMMA FailShape ==
    ASSUME ConstantsAssumption, ListTypes, NEW r \in Runs, Fail(r)
    PROVE  /\ Others(r)
           /\ Becomes(run'[r], "idle", {}, Nobody, Nobody, {}, NoUser, FALSE)
<1>. DEFINE v == Idle
<1>1. run' = [run EXCEPT ![r] = v]
  BY Zenon DEF Fail
<1>2. Becomes(v, "idle", {}, Nobody, Nobody, {}, NoUser, FALSE)
  BY IdleJob DEF Becomes, Idle
<1>3. v \in Job
  BY IdleJob DEF Job, Pcs
<1>4. (v.pc = "idle" => v = Idle) /\ v.pc \notin AtCur /\ v.todo = {}
  BY IdleJob DEF Idle, AtCur
<1>. HIDE DEF v
<1>. QED
  BY <1>1, <1>2, <1>3, <1>4, OneRun DEF Others

LEMMA ReadListShape ==
    ASSUME ConstantsAssumption, ListTypes, NEW r \in Runs, ReadList(r)
    PROVE  /\ Others(r)
           /\ Becomes(run'[r], "users", list, run[r].desired, run[r].owned,
                      run[r].todo, run[r].cur, run[r].touched)
<1>. DEFINE v == [run[r] EXCEPT !.pc = "users", !.actual = list]
<1>1. run[r] \in Job /\ (run[r].pc \in AtCur => run[r].cur \in Users)
      /\ \A w \in run[r].todo : run[r].desired[w] \in Names
  BY DEF ListTypes
<1>2. run' = [run EXCEPT ![r] = v]
  BY Zenon DEF ReadList
<1>3. Becomes(v, "users", list, run[r].desired, run[r].owned, run[r].todo, run[r].cur,
                 run[r].touched)
  BY <1>1 DEF Becomes, Job
<1>4. list \in SUBSET Names
  BY DEF ListTypes
<1>5. v \in Job
  BY <1>1, <1>4 DEF ReadList, Job, Pcs
<1>6. (v.pc \in AtCur => v.cur \in Users) /\ \A w \in v.todo : v.desired[w] \in Names
  BY <1>1, <1>3 DEF ReadList, Becomes, AtCur, ListTypes, Column
<1>7. v.pc # "idle"
  BY <1>3 DEF ReadList, Becomes
<1>. HIDE DEF v
<1>. QED
  BY <1>2, <1>3, <1>5, <1>6, <1>7, OneRun DEF Others

LEMMA ReadUsersShape ==
    ASSUME ConstantsAssumption, ListTypes, NEW r \in Runs, ReadUsers(r)
    PROVE  /\ Others(r)
           /\ Becomes(run'[r], "rows", run[r].actual, want, run[r].owned,
                      {u \in Users : want[u] # NoName}, run[r].cur, run[r].touched)
<1>. DEFINE v == [run[r] EXCEPT !.pc = "rows", !.desired = want,
                              !.todo = {u \in Users : want[u] # NoName}]
<1>1. run[r] \in Job /\ (run[r].pc \in AtCur => run[r].cur \in Users)
      /\ \A w \in run[r].todo : run[r].desired[w] \in Names
  BY DEF ListTypes
<1>2. run' = [run EXCEPT ![r] = v]
  BY Zenon DEF ReadUsers
<1>3. Becomes(v, "rows", run[r].actual, want, run[r].owned,
                 {u \in Users : want[u] # NoName}, run[r].cur, run[r].touched)
  BY <1>1 DEF Becomes, Job
<1>4. want \in Column
  BY DEF ListTypes
<1>5. {u \in Users : want[u] # NoName} \in SUBSET Users
  BY <1>1 DEF ReadUsers, Job
<1>6. v \in Job
  BY <1>1, <1>4, <1>5 DEF ReadUsers, Job, Pcs
<1>7. (v.pc \in AtCur => v.cur \in Users) /\ \A w \in v.todo : v.desired[w] \in Names
  BY <1>1, <1>3 DEF ReadUsers, Becomes, AtCur, ListTypes, Column
<1>8. v.pc # "idle"
  BY <1>3 DEF ReadUsers, Becomes
<1>. HIDE DEF v
<1>. QED
  BY <1>2, <1>3, <1>6, <1>7, <1>8, OneRun DEF Others

LEMMA ReadRowsShape ==
    ASSUME ConstantsAssumption, ListTypes, NEW r \in Runs, ReadRows(r)
    PROVE  /\ Others(r)
           /\ Becomes(run'[r], "next", run[r].actual, run[r].desired, rows,
                      run[r].todo, run[r].cur, run[r].touched)
<1>. DEFINE v == [run[r] EXCEPT !.pc = "next", !.owned = rows]
<1>1. run[r] \in Job /\ (run[r].pc \in AtCur => run[r].cur \in Users)
      /\ \A w \in run[r].todo : run[r].desired[w] \in Names
  BY DEF ListTypes
<1>2. run' = [run EXCEPT ![r] = v]
  BY Zenon DEF ReadRows
<1>3. Becomes(v, "next", run[r].actual, run[r].desired, rows, run[r].todo, run[r].cur,
                 run[r].touched)
  BY <1>1 DEF Becomes, Job
<1>4. rows \in Column
  BY DEF ListTypes
<1>5. v \in Job
  BY <1>1, <1>4 DEF ReadRows, Job, Pcs
<1>6. (v.pc \in AtCur => v.cur \in Users) /\ \A w \in v.todo : v.desired[w] \in Names
  BY <1>1, <1>3 DEF ReadRows, Becomes, AtCur, ListTypes, Column
<1>7. v.pc # "idle"
  BY <1>3 DEF ReadRows, Becomes
<1>. HIDE DEF v
<1>. QED
  BY <1>2, <1>3, <1>5, <1>6, <1>7, OneRun DEF Others

LEMMA AddEntryShape ==
    ASSUME ConstantsAssumption, ListTypes, NEW r \in Runs, NEW u \in Users, AddEntry(r, u)
    PROVE  /\ Others(r)
           /\ Becomes(run'[r], "swap", run[r].actual \cup {run[r].desired[u]},
                      run[r].desired, run[r].owned, run[r].todo, u,
                      run[r].desired[u] \notin run[r].actual)
<1>. DEFINE v == [run[r] EXCEPT !.pc = "swap", !.cur = u, !.actual = @ \cup {run[r].desired[u]},
                              !.touched = run[r].desired[u] \notin run[r].actual]
<1>1. run[r] \in Job /\ (run[r].pc \in AtCur => run[r].cur \in Users)
      /\ \A w \in run[r].todo : run[r].desired[w] \in Names
  BY DEF ListTypes
<1>2. run' = [run EXCEPT ![r] = v]
  BY Zenon DEF AddEntry
<1>3. Becomes(v, "swap", run[r].actual \cup {run[r].desired[u]}, run[r].desired,
                 run[r].owned, run[r].todo, u, run[r].desired[u] \notin run[r].actual)
  BY <1>1 DEF Becomes, Job
<1>4. (run[r].actual \cup {run[r].desired[u]}) \in SUBSET Names
  BY <1>1 DEF AddEntry, Job
<1>5. v \in Job
  BY <1>1, <1>4 DEF AddEntry, Job, Pcs
<1>6. (v.pc \in AtCur => v.cur \in Users) /\ \A w \in v.todo : v.desired[w] \in Names
  BY <1>1, <1>3 DEF AddEntry, Becomes, AtCur, ListTypes, Column
<1>7. v.pc # "idle"
  BY <1>3 DEF AddEntry, Becomes
<1>. HIDE DEF v
<1>. QED
  BY <1>2, <1>3, <1>5, <1>6, <1>7, OneRun DEF Others

LEMMA RemoveOldShape ==
    ASSUME ConstantsAssumption, ListTypes, NEW r \in Runs, RemoveOld(r)
    PROVE  /\ Others(r)
           /\ Becomes(run'[r], "record",
                      IF run[r].owned[run[r].cur] \in run[r].actual \ Wanted(run[r].desired)
                      THEN run[r].actual \ {run[r].owned[run[r].cur]} ELSE run[r].actual,
                      run[r].desired, run[r].owned, run[r].todo, run[r].cur,
                      run[r].touched)
<1>. DEFINE v == [run[r] EXCEPT !.pc = "record",
             !.actual = IF run[r].owned[run[r].cur] \in run[r].actual \ Wanted(run[r].desired)
                        THEN @ \ {run[r].owned[run[r].cur]} ELSE @]
<1>1. run[r] \in Job /\ (run[r].pc \in AtCur => run[r].cur \in Users)
      /\ \A w \in run[r].todo : run[r].desired[w] \in Names
  BY DEF ListTypes
<1>2. run' = [run EXCEPT ![r] = v]
  BY Zenon DEF RemoveOld
<1>3. Becomes(v, "record",
                 IF run[r].owned[run[r].cur] \in run[r].actual \ Wanted(run[r].desired)
                 THEN run[r].actual \ {run[r].owned[run[r].cur]} ELSE run[r].actual,
                 run[r].desired, run[r].owned, run[r].todo, run[r].cur,
                 run[r].touched)
  BY <1>1 DEF Becomes, Job
<1>4. (IF run[r].owned[run[r].cur] \in run[r].actual \ Wanted(run[r].desired)
        THEN run[r].actual \ {run[r].owned[run[r].cur]}
        ELSE run[r].actual) \in SUBSET Names
  BY <1>1 DEF RemoveOld, Job, AtCur
<1>5. v \in Job
  BY <1>1, <1>4 DEF RemoveOld, Job, Pcs
<1>6. (v.pc \in AtCur => v.cur \in Users) /\ \A w \in v.todo : v.desired[w] \in Names
  BY <1>1, <1>3 DEF RemoveOld, Becomes, AtCur, ListTypes, Column
<1>7. v.pc # "idle"
  BY <1>3 DEF RemoveOld, Becomes
<1>. HIDE DEF v
<1>. QED
  BY <1>2, <1>3, <1>5, <1>6, <1>7, OneRun DEF Others

LEMMA RecordShape ==
    ASSUME ConstantsAssumption, ListTypes, NEW r \in Runs, Record(r)
    PROVE  /\ Others(r)
           /\ Becomes(run'[r], "next", run[r].actual, run[r].desired,
                      [run[r].owned EXCEPT ![run[r].cur] = NoName],
                      run[r].todo \ {run[r].cur}, NoUser, FALSE)
<1>. DEFINE v == [run[r] EXCEPT !.pc = "next", !.todo = @ \ {run[r].cur}, !.cur = NoUser,
                              !.owned[run[r].cur] = NoName, !.touched = FALSE]
<1>1. run[r] \in Job /\ (run[r].pc \in AtCur => run[r].cur \in Users)
      /\ \A w \in run[r].todo : run[r].desired[w] \in Names
  BY DEF ListTypes
<1>2. run' = [run EXCEPT ![r] = v]
  BY Zenon DEF Record
<1>3. Becomes(v, "next", run[r].actual, run[r].desired,
                 [run[r].owned EXCEPT ![run[r].cur] = NoName],
                 run[r].todo \ {run[r].cur}, NoUser, FALSE)
  BY <1>1 DEF Becomes, Job
<1>4. [run[r].owned EXCEPT ![run[r].cur] = NoName] \in Column
  BY <1>1, ConstantsAssumption DEF Record, Job, Column, AtCur
<1>5. (run[r].todo \ {run[r].cur}) \in SUBSET Users
  BY <1>1 DEF Record, Job, AtCur
<1>6. v \in Job
  BY <1>1, <1>4, <1>5 DEF Record, Job, Pcs
<1>7. (v.pc \in AtCur => v.cur \in Users) /\ \A w \in v.todo : v.desired[w] \in Names
  BY <1>1, <1>3 DEF Record, Becomes, AtCur, ListTypes, Column
<1>8. v.pc # "idle"
  BY <1>3 DEF Record, Becomes
<1>. HIDE DEF v
<1>. QED
  BY <1>2, <1>3, <1>6, <1>7, <1>8, OneRun DEF Others

LEMMA RevokeShape ==
    ASSUME ConstantsAssumption, ListTypes, NEW r \in Runs, NEW u \in Users, Revoke(r, u)
    PROVE  /\ Others(r)
           /\ Becomes(run'[r], "drop",
                      run[r].actual \ ({run[r].owned[u]} \ Wanted(run[r].desired)),
                      run[r].desired, run[r].owned, run[r].todo, u, run[r].touched)
<1>. DEFINE v == [run[r] EXCEPT !.pc = "drop", !.cur = u,
                              !.actual = @ \ ({run[r].owned[u]} \ Wanted(run[r].desired))]
<1>1. run[r] \in Job /\ (run[r].pc \in AtCur => run[r].cur \in Users)
      /\ \A w \in run[r].todo : run[r].desired[w] \in Names
  BY DEF ListTypes
<1>2. run' = [run EXCEPT ![r] = v]
  BY Zenon DEF Revoke
<1>3. Becomes(v, "drop", run[r].actual \ ({run[r].owned[u]} \ Wanted(run[r].desired)),
                 run[r].desired, run[r].owned, run[r].todo, u, run[r].touched)
  BY <1>1 DEF Becomes, Job
<1>4. (run[r].actual \ ({run[r].owned[u]} \ Wanted(run[r].desired))) \in SUBSET Names
  BY <1>1 DEF Revoke, Job
<1>5. v \in Job
  BY <1>1, <1>4 DEF Revoke, Job, Pcs
<1>6. (v.pc \in AtCur => v.cur \in Users) /\ \A w \in v.todo : v.desired[w] \in Names
  BY <1>1, <1>3 DEF Revoke, Becomes, AtCur, ListTypes, Column
<1>7. v.pc # "idle"
  BY <1>3 DEF Revoke, Becomes
<1>. HIDE DEF v
<1>. QED
  BY <1>2, <1>3, <1>5, <1>6, <1>7, OneRun DEF Others

LEMMA DropShape ==
    ASSUME ConstantsAssumption, ListTypes, NEW r \in Runs, Drop(r)
    PROVE  /\ Others(r)
           /\ Becomes(run'[r], "next", run[r].actual, run[r].desired,
                      [run[r].owned EXCEPT ![run[r].cur] = NoName], run[r].todo,
                      NoUser, run[r].touched)
<1>. DEFINE v == [run[r] EXCEPT !.pc = "next", !.owned[run[r].cur] = NoName, !.cur = NoUser]
<1>1. run[r] \in Job /\ (run[r].pc \in AtCur => run[r].cur \in Users)
      /\ \A w \in run[r].todo : run[r].desired[w] \in Names
  BY DEF ListTypes
<1>2. run' = [run EXCEPT ![r] = v]
  BY Zenon DEF Drop
<1>3. Becomes(v, "next", run[r].actual, run[r].desired,
                 [run[r].owned EXCEPT ![run[r].cur] = NoName], run[r].todo, NoUser,
                 run[r].touched)
  BY <1>1 DEF Becomes, Job
<1>4. [run[r].owned EXCEPT ![run[r].cur] = NoName] \in Column
  BY <1>1, ConstantsAssumption DEF Drop, Job, Column, AtCur
<1>5. v \in Job
  BY <1>1, <1>4 DEF Drop, Job, Pcs
<1>6. (v.pc \in AtCur => v.cur \in Users) /\ \A w \in v.todo : v.desired[w] \in Names
  BY <1>1, <1>3 DEF Drop, Becomes, AtCur, ListTypes, Column
<1>7. v.pc # "idle"
  BY <1>3 DEF Drop, Becomes
<1>. HIDE DEF v
<1>. QED
  BY <1>2, <1>3, <1>5, <1>6, <1>7, OneRun DEF Others

LEMMA WhitelistDoneShape ==
    ASSUME ConstantsAssumption, ListTypes, NEW r \in Runs, WhitelistDone(r)
    PROVE  /\ Others(r)
           /\ Becomes(run'[r], "idle", {}, Nobody, Nobody, {}, NoUser, FALSE)
<1>. DEFINE v == Idle
<1>1. run' = [run EXCEPT ![r] = v]
  BY Zenon DEF WhitelistDone, Finish
<1>2. Becomes(v, "idle", {}, Nobody, Nobody, {}, NoUser, FALSE)
  BY IdleJob DEF Becomes, Idle
<1>3. v \in Job
  BY IdleJob DEF Job, Pcs
<1>4. (v.pc = "idle" => v = Idle) /\ v.pc \notin AtCur /\ v.todo = {}
  BY IdleJob DEF Idle, AtCur
<1>. HIDE DEF v
<1>. QED
  BY <1>1, <1>2, <1>3, <1>4, OneRun DEF Others

LEMMA RevokeAdminShape ==
    ASSUME ConstantsAssumption, ListTypes, NEW r \in Runs, NEW u \in Users, RevokeAdmin(r, u)
    PROVE  /\ Others(r)
           /\ Becomes(run'[r], run[r].pc, run[r].actual \ {run[r].owned[u]},
                      run[r].desired, [run[r].owned EXCEPT ![u] = NoName],
                      run[r].todo, run[r].cur, TRUE)
<1>. DEFINE v == [run[r] EXCEPT !.actual = @ \ {run[r].owned[u]}, !.owned[u] = NoName,
                              !.touched = TRUE]
<1>1. run[r] \in Job /\ (run[r].pc \in AtCur => run[r].cur \in Users)
      /\ \A w \in run[r].todo : run[r].desired[w] \in Names
  BY DEF ListTypes
<1>2. run' = [run EXCEPT ![r] = v]
  BY Zenon DEF RevokeAdmin
<1>3. Becomes(v, run[r].pc, run[r].actual \ {run[r].owned[u]}, run[r].desired,
                 [run[r].owned EXCEPT ![u] = NoName], run[r].todo, run[r].cur, TRUE)
  BY <1>1 DEF Becomes, Job
<1>4. (run[r].actual \ {run[r].owned[u]}) \in SUBSET Names
  BY <1>1 DEF RevokeAdmin, Job, Stale
<1>5. [run[r].owned EXCEPT ![u] = NoName] \in Column
  BY <1>1, ConstantsAssumption DEF RevokeAdmin, Job, Column, Stale
<1>6. v \in Job
  BY <1>1, <1>4, <1>5 DEF RevokeAdmin, Job, Pcs
<1>7. (v.pc \in AtCur => v.cur \in Users) /\ \A w \in v.todo : v.desired[w] \in Names
  BY <1>1, <1>3 DEF RevokeAdmin, Becomes, AtCur, ListTypes, Column
<1>8. v.pc # "idle"
  BY <1>3 DEF RevokeAdmin, Becomes
<1>. HIDE DEF v
<1>. QED
  BY <1>2, <1>3, <1>6, <1>7, <1>8, OneRun DEF Others

LEMMA GrantAdminShape ==
    ASSUME ConstantsAssumption, ListTypes, NEW r \in Runs, NEW u \in Users, GrantAdmin(r, u)
    PROVE  /\ Others(r)
           /\ Becomes(run'[r], run[r].pc, run[r].actual \cup {run[r].desired[u]},
                      run[r].desired, [run[r].owned EXCEPT ![u] = NoName],
                      run[r].todo \ {u}, run[r].cur,
                      (run[r].touched \/ run[r].desired[u] \notin run[r].actual))
<1>. DEFINE v == [run[r] EXCEPT !.todo = @ \ {u}, !.owned[u] = NoName,
                              !.actual = @ \cup {run[r].desired[u]},
                              !.touched = @ \/ run[r].desired[u] \notin run[r].actual]
<1>1. run[r] \in Job /\ (run[r].pc \in AtCur => run[r].cur \in Users)
      /\ \A w \in run[r].todo : run[r].desired[w] \in Names
  BY DEF ListTypes
<1>2. run' = [run EXCEPT ![r] = v]
  BY Zenon DEF GrantAdmin
<1>3. Becomes(v, run[r].pc, run[r].actual \cup {run[r].desired[u]}, run[r].desired,
                 [run[r].owned EXCEPT ![u] = NoName], run[r].todo \ {u}, run[r].cur,
                 (run[r].touched \/ run[r].desired[u] \notin run[r].actual))
  BY <1>1 DEF Becomes, Job
<1>4. (run[r].actual \cup {run[r].desired[u]}) \in SUBSET Names
  BY <1>1 DEF GrantAdmin, Job
<1>5. [run[r].owned EXCEPT ![u] = NoName] \in Column
  BY <1>1, ConstantsAssumption DEF GrantAdmin, Job, Column
<1>6. (run[r].todo \ {u}) \in SUBSET Users
  BY <1>1 DEF GrantAdmin, Job
<1>7. v \in Job
  BY <1>1, <1>4, <1>5, <1>6 DEF GrantAdmin, Job, Pcs
<1>8. (v.pc \in AtCur => v.cur \in Users) /\ \A w \in v.todo : v.desired[w] \in Names
  BY <1>1, <1>3 DEF GrantAdmin, Becomes, AtCur, ListTypes, Column
<1>9. v.pc # "idle"
  BY <1>3 DEF GrantAdmin, Becomes
<1>. HIDE DEF v
<1>. QED
  BY <1>2, <1>3, <1>7, <1>8, <1>9, OneRun DEF Others

LEMMA ForgetAdminShape ==
    ASSUME ConstantsAssumption, ListTypes, NEW r \in Runs, NEW u \in Users, ForgetAdmin(r, u)
    PROVE  /\ Others(r)
           /\ Becomes(run'[r], run[r].pc, run[r].actual, run[r].desired,
                      [run[r].owned EXCEPT ![u] = NoName], run[r].todo, run[r].cur,
                      run[r].touched)
<1>. DEFINE v == [run[r] EXCEPT !.owned[u] = NoName]
<1>1. run[r] \in Job /\ (run[r].pc \in AtCur => run[r].cur \in Users)
      /\ \A w \in run[r].todo : run[r].desired[w] \in Names
  BY DEF ListTypes
<1>2. run' = [run EXCEPT ![r] = v]
  BY Zenon DEF ForgetAdmin
<1>3. Becomes(v, run[r].pc, run[r].actual, run[r].desired,
                 [run[r].owned EXCEPT ![u] = NoName], run[r].todo, run[r].cur,
                 run[r].touched)
  BY <1>1 DEF Becomes, Job
<1>4. [run[r].owned EXCEPT ![u] = NoName] \in Column
  BY <1>1, ConstantsAssumption DEF ForgetAdmin, Job, Column
<1>5. v \in Job
  BY <1>1, <1>4 DEF ForgetAdmin, Job, Pcs
<1>6. (v.pc \in AtCur => v.cur \in Users) /\ \A w \in v.todo : v.desired[w] \in Names
  BY <1>1, <1>3 DEF ForgetAdmin, Becomes, AtCur, ListTypes, Column
<1>7. v.pc # "idle"
  BY <1>3 DEF ForgetAdmin, Becomes
<1>. HIDE DEF v
<1>. QED
  BY <1>2, <1>3, <1>5, <1>6, <1>7, OneRun DEF Others

LEMMA WriteAdminsShape ==
    ASSUME ConstantsAssumption, ListTypes, NEW r \in Runs, WriteAdmins(r)
    PROVE  /\ Others(r)
           /\ Becomes(run'[r], "idle", {}, Nobody, Nobody, {}, NoUser, FALSE)
<1>. DEFINE v == Idle
<1>1. run' = [run EXCEPT ![r] = v]
  BY Zenon DEF WriteAdmins, Finish
<1>2. Becomes(v, "idle", {}, Nobody, Nobody, {}, NoUser, FALSE)
  BY IdleJob DEF Becomes, Idle
<1>3. v \in Job
  BY IdleJob DEF Job, Pcs
<1>4. (v.pc = "idle" => v = Idle) /\ v.pc \notin AtCur /\ v.todo = {}
  BY IdleJob DEF Idle, AtCur
<1>. HIDE DEF v
<1>. QED
  BY <1>1, <1>2, <1>3, <1>4, OneRun DEF Others

-----------------------------------------------------------------------------
(* Types, action by action. *)

LEMMA TriggerTypes ==
    ASSUME ConstantsAssumption, ListTypes, NEW p, TriggerAll(p)
    PROVE  faults' \in Nat /\ (faults' = 0 => faults = 0)
  BY DEF TriggerAll, Trigger, ListTypes

LEMMA WantedNames ==
    ASSUME NEW d \in Column, NEW n
    PROVE  n \in Wanted(d) <=> n # NoName /\ \E u \in Users : d[u] = n
  BY DEF Wanted, Column

LEMMA InitTypes == ASSUME ConstantsAssumption, Init PROVE ListTypes
<1>1. Nobody \in Column /\ Idle \in Job /\ Idle.pc = "idle" /\ Idle.todo = {}
  BY IdleJob
<1>2. run \in [Runs -> Job] /\ \A r \in Runs : run[r] = Idle
  BY <1>1 DEF Init
<1>3. want \in Column
  BY DEF Init, Column, ConstantsAssumption
<1>. QED
  BY <1>1, <1>2, <1>3 DEF Init, ListTypes, AtCur, ConstantsAssumption

LEMMA BeginTypes ==
    ASSUME ConstantsAssumption, ListTypes, NEW r \in Runs, Begin(r)
    PROVE  ListTypes'
<1>1. faults' \in Nat /\ hands' \in Nat
  BY DEF Begin, ListTypes
<1>2. UNCHANGED <<want, rows, list, manual, ours>>
  BY DEF Begin, entries
<1>3. Others(r)
  BY BeginShape
<1>. QED
  BY <1>1, <1>2, <1>3 DEF Others, ListTypes

LEMMA FailTypes ==
    ASSUME ConstantsAssumption, ListTypes, NEW r \in Runs, Fail(r)
    PROVE  ListTypes'
<1>1. faults' \in Nat /\ hands' \in Nat
  BY DEF Fail, ListTypes
<1>2. UNCHANGED <<want, rows, list, manual, ours>>
  BY DEF Fail, entries
<1>3. Others(r)
  BY FailShape
<1>. QED
  BY <1>1, <1>2, <1>3 DEF Others, ListTypes

LEMMA ReadTypes ==
    ASSUME ConstantsAssumption, ListTypes, NEW r \in Runs,
           ReadList(r) \/ ReadUsers(r) \/ ReadRows(r)
    PROVE  ListTypes'
<1>1. CASE ReadList(r)
  BY <1>1, ReadListShape DEF ReadList, Others, ListTypes, entries, bounds
<1>2. CASE ReadUsers(r)
  BY <1>2, ReadUsersShape DEF ReadUsers, Others, ListTypes, entries, bounds
<1>3. CASE ReadRows(r)
  BY <1>3, ReadRowsShape DEF ReadRows, Others, ListTypes, entries, bounds
<1>. QED
  BY <1>1, <1>2, <1>3

LEMMA AddEntryTypes ==
    ASSUME ConstantsAssumption, ListTypes, NEW r \in Runs, NEW u \in Users,
           AddEntry(r, u)
    PROVE  ListTypes'
<1>1. run[r].desired[u] \in Names
  BY DEF AddEntry, ListTypes
<1>2. list' \subseteq Names /\ manual' \subseteq list' /\ ours' \subseteq list'
  BY <1>1, EntriesTypes DEF AddEntry, ListTypes, entries
<1>. QED
  BY <1>2, AddEntryShape DEF AddEntry, Others, ListTypes, bounds

LEMMA RemoveOldTypes ==
    ASSUME ConstantsAssumption, ListTypes, NEW r \in Runs, RemoveOld(r)
    PROVE  ListTypes'
<1>1. list' \subseteq Names /\ manual' \subseteq list' /\ ours' \subseteq list'
  BY EntriesTypes DEF RemoveOld, ListTypes, entries
<1>. QED
  BY <1>1, RemoveOldShape DEF RemoveOld, Others, ListTypes, bounds

LEMMA RecordTypes ==
    ASSUME ConstantsAssumption, ListTypes, NEW r \in Runs, Record(r)
    PROVE  ListTypes'
<1>1. run[r].cur \in Users
  BY DEF Record, ListTypes, AtCur
<1>2. run[r].desired[run[r].cur] \in Names \cup {NoName}
  BY <1>1 DEF ListTypes, Job, Column
<1>3. rows' \in Column
  BY <1>1, <1>2, SetRowType, DeleteRowType DEF Record, ListTypes
<1>. QED
  BY <1>3, RecordShape DEF Record, Others, ListTypes, bounds, entries

LEMMA RevokeTypes ==
    ASSUME ConstantsAssumption, ListTypes, NEW r \in Runs, NEW u \in Users,
           Revoke(r, u)
    PROVE  ListTypes'
<1>1. run[r].owned[u] \in Names \cup {NoName}
  BY DEF ListTypes, Job, Column
<1>2. rows' \in Column
  BY <1>1, SetRowType DEF Revoke, ListTypes
<1>3. list' \subseteq Names /\ manual' \subseteq list' /\ ours' \subseteq list'
  BY EntriesTypes DEF Revoke, ListTypes, entries
<1>. QED
  BY <1>2, <1>3, RevokeShape DEF Revoke, Others, ListTypes, bounds

LEMMA DropTypes ==
    ASSUME ConstantsAssumption, ListTypes, NEW r \in Runs, Drop(r)
    PROVE  ListTypes'
<1>1. run[r].cur \in Users
  BY DEF Drop, ListTypes, AtCur
<1>2. rows' \in Column
  BY <1>1, DeleteRowType DEF Drop, ListTypes
<1>. QED
  BY <1>2, DropShape DEF Drop, Others, ListTypes, bounds, entries

LEMMA AdminTypes ==
    ASSUME ConstantsAssumption, ListTypes, NEW r \in Runs, NEW u \in Users,
           RevokeAdmin(r, u) \/ GrantAdmin(r, u) \/ ForgetAdmin(r, u)
    PROVE  ListTypes'
<1>1. run[r].desired[u] \in Names \cup {NoName}
  BY DEF ListTypes, Job, Column
<1>2. rows' \in Column
  BY <1>1, SetRowType, DeleteRowType
     DEF RevokeAdmin, GrantAdmin, ForgetAdmin, ListTypes
<1>3. Others(r)
  BY RevokeAdminShape, GrantAdminShape, ForgetAdminShape
<1>. QED
  BY <1>2, <1>3 DEF RevokeAdmin, GrantAdmin, ForgetAdmin, Others, ListTypes,
                    bounds, entries

LEMMA DoneTypes ==
    ASSUME ConstantsAssumption, ListTypes, NEW r \in Runs,
           WhitelistDone(r) \/ WriteAdmins(r)
    PROVE  ListTypes'
<1>1. Others(r)
  BY WhitelistDoneShape, WriteAdminsShape
<1>2. run[r].actual \in SUBSET Names
  BY DEF ListTypes, Job
<1>3. list' \subseteq Names /\ manual' \subseteq list' /\ ours' \subseteq list'
  BY <1>2, EntriesTypes DEF WhitelistDone, WriteAdmins, ListTypes, entries
<1>. QED
  BY <1>1, <1>3 DEF WhitelistDone, WriteAdmins, Others, ListTypes, bounds

LEMMA HandTypes ==
    ASSUME ConstantsAssumption, ListTypes, NEW n \in Names,
           HandAdd(n) \/ HandRemove(n)
    PROVE  ListTypes'
<1>1. CASE HandAdd(n)
  BY <1>1 DEF HandAdd, ListTypes
<1>2. CASE HandRemove(n)
  <2>1. rows' \in Column
    BY <1>2 DEF HandRemove, ListTypes, Column
  <2>. QED
    BY <1>2, <2>1 DEF HandRemove, ListTypes
<1>. QED
  BY <1>1, <1>2

LEMMA OutsideTypes ==
    ASSUME ConstantsAssumption, ListTypes,
           \/ \E u \in Users : Change(u)
           \/ Periodic \/ Retry
    PROVE  ListTypes'
<1>1. faults' \in Nat
  BY TriggerTypes DEF Change, Periodic, Retry
<1>2. want' \in Column
  BY DEF Change, Periodic, Retry, ListTypes, Column
<1>. QED
  BY <1>1, <1>2 DEF Change, Periodic, Retry, ListTypes, entries

LEMMA CrashTypes ==
    ASSUME ConstantsAssumption, ListTypes, Crash
    PROVE  ListTypes' /\ \A r \in Runs : run'[r] = Idle
<1>1. run' \in [Runs -> Job] /\ \A r \in Runs : run'[r] = Idle
  BY IdleJob DEF Crash
<1>2. faults' \in Nat /\ UNCHANGED <<want, rows, list, manual, ours, hands>>
  BY DEF Crash, ListTypes, entries
<1>. QED
  BY <1>1, <1>2, IdleJob DEF ListTypes, AtCur

LEMMA SameTypes == ASSUME ListTypes, UNCHANGED vars PROVE ListTypes'
  BY DEF ListTypes, vars, entries, bounds

LEMMA NextTypes ==
    ASSUME ConstantsAssumption, ListTypes, [Next]_vars PROVE ListTypes'
  BY BeginTypes, FailTypes, ReadTypes, AddEntryTypes, RemoveOldTypes,
     RecordTypes, RevokeTypes, DropTypes, AdminTypes, DoneTypes, HandTypes,
     OutsideTypes, CrashTypes, SameTypes
     DEF Next, Step

-----------------------------------------------------------------------------
(* What a run may still do to an entry of m, the names put there by hand:  *)
(* nothing.  It keeps every one of them in the list it will write or does  *)
(* not look at, and none is among its rows or is the entry it just added.  *)
Spares(j, m) ==
    /\ j.pc \notin {"idle", "list"} => m \subseteq j.actual
    /\ \A u \in Users : j.owned[u] \notin m
    /\ j.pc \in {"swap", "record"} /\ j.touched => j.desired[j.cur] \notin m

(* While nobody edits the list during a run: nothing put there by hand was *)
(* lost, HOGS owns none of it, and every run spares it.                    *)
ManualInv ==
    ~edited =>
        /\ ~lost
        /\ \A u \in Users : rows[u] \notin manual
        /\ \A r \in Runs : Spares(run[r], manual)

LEMMA IdleSpares ==
    ASSUME ConstantsAssumption, NEW m \in SUBSET Names
    PROVE  Spares(Idle, m)
  BY IdleJob DEF Spares, ConstantsAssumption

LEMMA SparesLess ==
    ASSUME NEW j, NEW m, NEW l \in SUBSET m, Spares(j, m)
    PROVE  Spares(j, l)
  BY DEF Spares

(* A step of r that takes no manual entry away. *)
LEMMA ManualStep ==
    ASSUME ManualInv, NEW r \in Runs, Others(r), ~edited' => ~edited,
           manual' \subseteq manual,
           ~edited' => ~lost' /\ \A u \in Users : rows'[u] \notin manual',
           ~edited' => Spares(run'[r], manual')
    PROVE  ManualInv'
<1>. SUFFICES ASSUME ~edited', NEW s \in Runs PROVE Spares(run'[s], manual')
  BY DEF ManualInv
<1>1. CASE s = r
  BY <1>1
<1>2. CASE s # r
  BY <1>2, SparesLess DEF Others, ManualInv
<1>. QED
  BY <1>1, <1>2

(* The list loses nothing that was put there by hand. *)
LEMMA ManualList ==
    ASSUME ListTypes, NEW new, ListBecomes(new), manual \subseteq new
    PROVE  manual' = manual /\ (~lost => ~lost')
  BY DEF ListTypes, ListBecomes

LEMMA InitManual == ASSUME ConstantsAssumption, Init PROVE ManualInv
<1>1. \A r \in Runs : run[r] = Idle
  BY DEF Init
<1>2. \A u \in Users : rows[u] = NoName
  BY DEF Init, Nobody
<1>3. manual \in SUBSET Names
  BY DEF Init, ConstantsAssumption
<1>. QED
  BY <1>1, <1>2, <1>3, IdleSpares DEF Init, ManualInv, ConstantsAssumption

LEMMA BeginManual ==
    ASSUME ConstantsAssumption, ListTypes, ManualInv, NEW r \in Runs,
           Begin(r) \/ Fail(r)
    PROVE  ManualInv'
<1>1. UNCHANGED <<edited, lost, rows, manual>>
  BY DEF Begin, Fail, entries, flags
<1>2. Others(r)
  BY BeginShape, FailShape
<1>3. /\ run'[r].pc \in {"idle", "list"} /\ run'[r].owned = Nobody
  BY BeginShape, FailShape DEF Becomes
<1>4. ~edited' => Spares(run'[r], manual')
  BY <1>1, <1>3, IdleJob DEF Spares, ListTypes, ConstantsAssumption
<1>. QED
  BY <1>1, <1>2, <1>4, ManualStep DEF ManualInv

LEMMA ReadManual ==
    ASSUME ConstantsAssumption, ListTypes, ManualInv, NEW r \in Runs,
           ReadList(r) \/ ReadUsers(r) \/ ReadRows(r)
    PROVE  ManualInv'
<1>1. UNCHANGED <<edited, lost, rows, manual>>
  BY DEF ReadList, ReadUsers, ReadRows, entries, flags
<1>2. Others(r)
  BY ReadListShape, ReadUsersShape, ReadRowsShape
<1>3. ASSUME ~edited PROVE Spares(run'[r], manual)
  <2>1. CASE ReadList(r)
    BY <2>1, <1>3, ReadListShape DEF Becomes, Spares, ListTypes, ManualInv
  <2>2. CASE ReadUsers(r)
    BY <2>2, <1>3, ReadUsersShape DEF ReadUsers, Becomes, Spares, ManualInv
  <2>3. CASE ReadRows(r)
    BY <2>3, <1>3, ReadRowsShape DEF ReadRows, Becomes, Spares, ManualInv
  <2>. QED
    BY <2>1, <2>2, <2>3
<1>. QED
  BY <1>1, <1>2, <1>3, ManualStep DEF ManualInv

LEMMA AddEntryManual ==
    ASSUME ConstantsAssumption, ListTypes, ManualInv, NEW r \in Runs,
           NEW u \in Users, AddEntry(r, u)
    PROVE  ManualInv'
<1>1. UNCHANGED <<edited, rows>>
  BY DEF AddEntry, flags
<1>2. manual' = manual /\ (~lost => ~lost')
  BY ManualList DEF AddEntry, entries, ListTypes
<1>3. ASSUME ~edited PROVE Spares(run'[r], manual)
  <2>1. /\ run'[r].pc = "swap" /\ run'[r].cur = u /\ run'[r].owned = run[r].owned
        /\ run'[r].actual = run[r].actual \cup {run[r].desired[u]}
        /\ run'[r].desired = run[r].desired
        /\ run'[r].touched = (run[r].desired[u] \notin run[r].actual)
    BY AddEntryShape DEF Becomes
  <2>2. manual \subseteq run[r].actual /\ \A w \in Users : run[r].owned[w] \notin manual
    BY <1>3 DEF AddEntry, ManualInv, Spares
  <2>. QED
    BY <2>1, <2>2 DEF Spares
<1>. QED
  BY <1>1, <1>2, <1>3, AddEntryShape, ManualStep DEF ManualInv

LEMMA RemoveOldManual ==
    ASSUME ConstantsAssumption, ListTypes, ManualInv, NEW r \in Runs, RemoveOld(r)
    PROVE  ManualInv'
<1>1. UNCHANGED <<edited, rows>> /\ run[r].cur \in Users
  BY DEF RemoveOld, flags, ListTypes, AtCur
<1>2. manual' \subseteq manual
  BY DEF RemoveOld, ListBecomes, entries
<1>3. ASSUME ~edited
      PROVE  manual' = manual /\ ~lost' /\ Spares(run'[r], manual)
  <2>1. run[r].owned[run[r].cur] \notin manual
    BY <1>1, <1>3 DEF ManualInv, Spares
  <2>2. manual' = manual /\ ~lost'
    BY <1>3, <2>1, ManualList DEF RemoveOld, entries, ListTypes, ManualInv
  <2>3. Spares(run'[r], manual)
    <3>1. /\ run'[r].pc = "record" /\ run'[r].cur = run[r].cur
          /\ run'[r].owned = run[r].owned /\ run'[r].desired = run[r].desired
          /\ run[r].actual \ {run[r].owned[run[r].cur]} \subseteq run'[r].actual
          /\ run'[r].touched = run[r].touched
      BY RemoveOldShape DEF Becomes
    <3>2. Spares(run[r], manual) /\ run[r].pc = "swap"
      BY <1>3 DEF RemoveOld, ManualInv
    <3>. QED
      BY <2>1, <3>1, <3>2 DEF Spares
  <2>. QED
    BY <2>2, <2>3
<1>. QED
  BY <1>1, <1>2, <1>3, RemoveOldShape, ManualStep DEF ManualInv

LEMMA RecordManual ==
    ASSUME ConstantsAssumption, ListTypes, ManualInv, NEW r \in Runs, Record(r)
    PROVE  ManualInv'
<1>1. UNCHANGED <<edited, manual, lost>> /\ run[r].cur \in Users
  BY DEF Record, flags, ListTypes, AtCur, entries
<1>. DEFINE n == run[r].desired[run[r].cur]
<1>2. n \in Names \cup {NoName} /\ NoName \notin manual /\ run[r].owned \in Column
  BY <1>1 DEF ListTypes, Job, Column, ConstantsAssumption
<1>3. ASSUME ~edited, NEW w \in Users PROVE rows'[w] \notin manual
  <2>1. CASE (run[r].owned[run[r].cur] = n \/ run[r].touched) /\ SetRow(run[r].cur, n)
    <3>1. n \notin manual
      BY <1>1, <1>3, <2>1 DEF ManualInv, Spares, Record
    <3>. QED
      BY <1>1, <1>2, <1>3, <2>1, <3>1, SetRowType DEF ManualInv
  <2>2. CASE DeleteRow(run[r].cur)
    BY <1>1, <1>2, <1>3, <2>2, DeleteRowType DEF ManualInv
  <2>3. CASE UNCHANGED rows
    BY <1>3, <2>3 DEF ManualInv
  <2>. QED
    BY <2>1, <2>2, <2>3 DEF Record
<1>4. ASSUME ~edited PROVE Spares(run'[r], manual)
  <2>1. /\ run'[r].pc = "next" /\ run'[r].actual = run[r].actual
        /\ run'[r].owned = [run[r].owned EXCEPT ![run[r].cur] = NoName]
    BY RecordShape DEF Becomes
  <2>2. Spares(run[r], manual) /\ run[r].pc = "record"
    BY <1>4 DEF Record, ManualInv
  <2>. QED
    BY <1>1, <1>2, <2>1, <2>2 DEF Spares, Column
<1>. QED
  BY <1>1, <1>3, <1>4, RecordShape, ManualStep DEF ManualInv

LEMMA RevokeManual ==
    ASSUME ConstantsAssumption, ListTypes, ManualInv, NEW r \in Runs,
           NEW u \in Users, Revoke(r, u)
    PROVE  ManualInv'
<1>. DEFINE old == run[r].owned[u]
<1>1. UNCHANGED edited /\ old \in Names \cup {NoName}
  BY DEF Revoke, flags, ListTypes, Job, Column
<1>2. manual' \subseteq manual
  BY DEF Revoke, ListBecomes, entries
<1>3. ASSUME ~edited
      PROVE  /\ manual' = manual /\ ~lost' /\ Spares(run'[r], manual)
             /\ \A w \in Users : rows'[w] \notin manual
  <2>1. old \notin manual /\ NoName \notin manual
    BY <1>3 DEF ManualInv, Spares, ListTypes, ConstantsAssumption
  <2>2. manual' = manual /\ ~lost'
    BY <1>3, <2>1, ManualList DEF Revoke, entries, ListTypes, ManualInv
  <2>3. Spares(run'[r], manual)
    <3>1. /\ run'[r].pc = "drop" /\ run'[r].owned = run[r].owned
          /\ run[r].actual \ {old} \subseteq run'[r].actual
      BY RevokeShape DEF Becomes
    <3>2. Spares(run[r], manual) /\ run[r].pc = "next"
      BY <1>3 DEF Revoke, ManualInv
    <3>. QED
      BY <2>1, <3>1, <3>2 DEF Spares
  <2>4. \A w \in Users : rows'[w] \notin manual
    BY <1>1, <1>3, <2>1, SetRowType DEF Revoke, ManualInv
  <2>. QED
    BY <2>2, <2>3, <2>4
<1>. QED
  BY <1>1, <1>2, <1>3, RevokeShape, ManualStep DEF ManualInv

LEMMA DropManual ==
    ASSUME ConstantsAssumption, ListTypes, ManualInv, NEW r \in Runs, Drop(r)
    PROVE  ManualInv'
<1>1. UNCHANGED <<edited, manual, lost>> /\ run[r].cur \in Users
  BY DEF Drop, flags, ListTypes, AtCur, entries
<1>2. NoName \notin manual /\ run[r].owned \in Column
  BY DEF ListTypes, Job, ConstantsAssumption
<1>3. ASSUME ~edited PROVE \A w \in Users : rows'[w] \notin manual
  BY <1>1, <1>2, <1>3, DeleteRowType DEF Drop, ManualInv
<1>4. ASSUME ~edited PROVE Spares(run'[r], manual)
  <2>1. /\ run'[r].pc = "next" /\ run'[r].actual = run[r].actual
        /\ run'[r].owned = [run[r].owned EXCEPT ![run[r].cur] = NoName]
    BY DropShape DEF Becomes
  <2>2. Spares(run[r], manual) /\ run[r].pc = "drop"
    BY <1>4 DEF Drop, ManualInv
  <2>. QED
    BY <1>1, <1>2, <2>1, <2>2 DEF Spares, Column
<1>. QED
  BY <1>1, <1>3, <1>4, DropShape, ManualStep DEF ManualInv

LEMMA AdminManual ==
    ASSUME ConstantsAssumption, ListTypes, ManualInv, NEW r \in Runs,
           NEW u \in Users,
           RevokeAdmin(r, u) \/ GrantAdmin(r, u) \/ ForgetAdmin(r, u)
    PROVE  ManualInv'
<1>1. UNCHANGED <<edited, manual, lost>>
  BY DEF RevokeAdmin, GrantAdmin, ForgetAdmin, flags, entries
<1>2. /\ NoName \notin manual /\ run[r].owned \in Column
      /\ run[r].desired[u] \in Names \cup {NoName}
  BY DEF ListTypes, Job, ConstantsAssumption, Column
<1>3. ASSUME ~edited, NEW w \in Users PROVE rows'[w] \notin manual
  <2>1. manual \subseteq run[r].actual /\ run[r].owned[u] \notin manual
    BY <1>3 DEF RevokeAdmin, GrantAdmin, ForgetAdmin, ManualInv, Spares
  <2>2. CASE /\ SetRow(u, run[r].desired[u])
             /\ \/ run[r].desired[u] \notin run[r].actual
                \/ run[r].owned[u] = run[r].desired[u]
    <3>1. run[r].desired[u] \notin manual
      BY <2>1, <2>2
    <3>. QED
      BY <1>2, <1>3, <2>2, <3>1, SetRowType DEF ManualInv
  <2>3. CASE DeleteRow(u)
    BY <1>2, <1>3, <2>3, DeleteRowType DEF ManualInv
  <2>4. CASE UNCHANGED rows
    BY <1>3, <2>4 DEF ManualInv
  <2>. QED
    BY <2>2, <2>3, <2>4 DEF RevokeAdmin, GrantAdmin, ForgetAdmin
<1>4. ASSUME ~edited PROVE Spares(run'[r], manual)
  <2>1. /\ run'[r].pc = "next"
        /\ run'[r].owned = [run[r].owned EXCEPT ![u] = NoName]
        /\ run[r].actual \ {run[r].owned[u]} \subseteq run'[r].actual
    <3>1. CASE RevokeAdmin(r, u)
      BY <3>1, RevokeAdminShape DEF Becomes, RevokeAdmin
    <3>2. CASE GrantAdmin(r, u)
      <4>1. /\ run'[r].pc = run[r].pc
            /\ run'[r].owned = [run[r].owned EXCEPT ![u] = NoName]
            /\ run'[r].actual = run[r].actual \cup {run[r].desired[u]}
        BY <3>2, GrantAdminShape DEF Becomes
      <4>. QED
        BY <3>2, <4>1 DEF GrantAdmin
    <3>3. CASE ForgetAdmin(r, u)
      BY <3>3, ForgetAdminShape DEF Becomes, ForgetAdmin
    <3>. QED
      BY <3>1, <3>2, <3>3
  <2>2. Spares(run[r], manual) /\ run[r].pc = "next"
    BY <1>4 DEF RevokeAdmin, GrantAdmin, ForgetAdmin, ManualInv
  <2>. QED
    BY <1>2, <2>1, <2>2 DEF Spares, Column
<1>5. Others(r)
  BY RevokeAdminShape, GrantAdminShape, ForgetAdminShape
<1>. QED
  BY <1>1, <1>3, <1>4, <1>5, ManualStep DEF ManualInv

LEMMA DoneManual ==
    ASSUME ConstantsAssumption, ListTypes, ManualInv, NEW r \in Runs,
           WhitelistDone(r) \/ WriteAdmins(r)
    PROVE  ManualInv'
<1>1. UNCHANGED <<edited, rows>>
  BY DEF WhitelistDone, WriteAdmins, flags
<1>2. manual' \subseteq manual
  BY DEF WhitelistDone, WriteAdmins, ListBecomes, entries
<1>3. ASSUME ~edited PROVE manual' = manual /\ ~lost'
  <2>1. manual \subseteq run[r].actual
    BY <1>3 DEF WhitelistDone, WriteAdmins, ManualInv, Spares
  <2>. QED
    BY <1>3, <2>1, ManualList DEF WhitelistDone, WriteAdmins, entries, ManualInv
<1>4. Others(r) /\ run'[r].pc = "idle" /\ run'[r].owned = Nobody
  BY WhitelistDoneShape, WriteAdminsShape DEF Becomes
<1>5. NoName \notin manual
  BY DEF ListTypes, ConstantsAssumption
<1>6. ASSUME ~edited PROVE Spares(run'[r], manual)
  BY <1>4, <1>5, IdleJob DEF Spares
<1>. QED
  BY <1>1, <1>2, <1>3, <1>4, <1>6, ManualStep DEF ManualInv

LEMMA HandManual ==
    ASSUME ConstantsAssumption, ListTypes, ManualInv, NEW n \in Names,
           HandAdd(n) \/ HandRemove(n)
    PROVE  ManualInv'
<1>. SUFFICES ASSUME ~edited' PROVE ManualInv'
  BY DEF ManualInv
<1>1. ~edited /\ Busy = {} /\ UNCHANGED <<run, lost>>
  BY DEF HandAdd, HandRemove
<1>2. \A r \in Runs : run[r] = Idle
  BY <1>1 DEF Busy, ListTypes
<1>3. ASSUME NEW w \in Users PROVE rows'[w] \notin manual'
  BY <1>1, <1>3 DEF HandAdd, HandRemove, ManualInv, ListTypes, ConstantsAssumption
<1>4. ASSUME NEW r \in Runs PROVE Spares(run[r], manual')
  <2>1. manual' \in SUBSET Names
    BY DEF HandAdd, HandRemove, ListTypes
  <2>. QED
    BY <1>2, <2>1, IdleSpares
<1>. QED
  BY <1>1, <1>3, <1>4 DEF ManualInv

LEMMA OutsideManual ==
    ASSUME ManualInv,
           \/ \E u \in Users : Change(u)
           \/ Periodic \/ Retry \/ UNCHANGED vars
    PROVE  ManualInv'
<1>1. UNCHANGED <<edited, lost, rows, manual, run>>
  BY DEF Change, Periodic, Retry, vars, entries, flags
<1>. QED
  BY <1>1 DEF ManualInv, Spares

LEMMA CrashManual ==
    ASSUME ConstantsAssumption, ListTypes, ManualInv, Crash
    PROVE  ManualInv'
<1>1. UNCHANGED <<edited, lost, rows, manual>>
  BY DEF Crash, entries, flags
<1>2. \A r \in Runs : run'[r] = Idle
  BY CrashTypes
<1>3. manual \in SUBSET Names
  BY DEF ListTypes
<1>. QED
  BY <1>1, <1>2, <1>3, IdleSpares DEF ManualInv

LEMMA NextManual ==
    ASSUME ConstantsAssumption, ListTypes, ManualInv, [Next]_vars
    PROVE  ManualInv'
  BY BeginManual, ReadManual, AddEntryManual, RemoveOldManual, RecordManual,
     RevokeManual, DropManual, AdminManual, DoneManual, HandManual,
     OutsideManual, CrashManual
     DEF Next, Step

(* ManualStays: whatever fails, restarts or overlaps, ReconcileServer and  *)
(* reconcileAdmins never take away an entry that was put on the list by    *)
(* hand (docs/ACCESS_CONTROL.md:55-56, 108-111), unless the list is edited *)
(* while a run is under way.  The run never adopts such an entry: it sets  *)
(* a row only for an entry it added or already owned.                      *)
THEOREM HandMadeEntriesStay == Spec => []ManualStays
<1> ConstantsAssumption
  BY ConstantsAssumption
<1>1. Init => ListTypes /\ ManualInv
  BY InitTypes, InitManual
<1>2. ListTypes /\ ManualInv /\ [Next]_vars => (ListTypes /\ ManualInv)'
  BY NextTypes, NextManual
<1>3. ListTypes /\ ManualInv => ManualStays
  BY DEF ManualInv, ManualStays
<1>. QED
  BY <1>1, <1>2, <1>3, PTL DEF Spec

-----------------------------------------------------------------------------
(* Nothing happened that RevokedIsRemovedUnmoved makes an exception for. *)
Undisturbed == ~moved /\ ~overlapped /\ ~edited /\ faults = 0

(* Where a run has read everything. *)
Past == {"next", "swap", "record", "drop"}

(* Nobody has, had or is about to have an identity of somebody else. *)
Apart(w, rs, d) ==
    \A u, v \in Users : u # v =>
        \A n \in Names : ~(n \in {w[u], rs[u], d[u]} /\ n \in {w[v], rs[v], d[v]})

(* Before it reads the rows a run has none of them. *)
EarlyOK(j) ==
    j.pc \in {"list", "users", "rows"} =>
        /\ j.owned = Nobody /\ ~j.touched
        /\ j.pc # "rows" => j.desired = Nobody
        /\ j.pc = "rows" => \A u \in Users : j.desired[u] # NoName => u \in j.todo

(* After that, the rows of the users it has not dealt with are as it read  *)
(* them, and those it has dealt with have at most the entry they want.     *)
RowsOK(j, rs) ==
    j.pc \in Past =>
        \A u \in Users :
            IF u \in j.todo \/ j.desired[u] = NoName THEN j.owned[u] = rs[u]
            ELSE j.owned[u] = NoName /\ rs[u] \in {NoName, j.desired[u]}

(* Where the run has come to. *)
PlaceOK(j, k, l) ==
    /\ j.pc \in {"swap", "record"} => j.cur \in j.todo /\ k = "whitelist"
    /\ j.pc = "drop" => /\ j.desired[j.cur] = NoName /\ k = "whitelist"
                        /\ j.owned[j.cur] \notin l
    /\ j.pc \in {"next", "drop"} /\ k = "whitelist" => ~j.touched
    /\ j.pc = "record" => \/ j.owned[j.cur] = j.desired[j.cur]
                          \/ j.owned[j.cur] \notin l

(* What it knows of the list l: all of it, until it plans the file of the  *)
(* admins; an entry the plan leaves out has no row left, and one it adds   *)
(* has one.                                                                *)
KnowsOK(j, k, rs, l) ==
    /\ (k = "whitelist" /\ j.pc \in Past) \/ j.pc \in {"users", "rows"} =>
           j.actual = l
    /\ k = "admins" /\ j.pc = "next" =>
           /\ \A n \in l \ j.actual :
                 /\ j.touched /\ n \notin Wanted(j.desired)
                 /\ \A u \in Users : rs[u] # n
           /\ \A n \in j.actual \ l : \E u \in Users : rs[u] = n

(* An entry HOGS added has a row, or is about to get one or to leave. *)
OursOK(j, k, rs, o) ==
    \A n \in o :
        \/ \E u \in Users : rs[u] = n
        \/ j.pc \in {"swap", "record"} /\ j.touched /\ n = j.desired[j.cur]
        \/ k = "admins" /\ j.pc = "next" /\ j.touched /\ n \notin j.actual

(* While nothing changes after a run that had all of want. *)
FreshOK(j, k, w, rs, l, f) ==
    f => /\ \A u \in Users : rs[u] \in {NoName, w[u]}
         /\ j.pc \in Past \cup {"rows"} => j.desired = w
         /\ k = "admins" /\ j.pc = "next" => l \subseteq j.actual

JobOK(j, k, w, rs, l, o, f) ==
    /\ Apart(w, rs, j.desired) /\ EarlyOK(j) /\ RowsOK(j, rs) /\ PlaceOK(j, k, l)
    /\ KnowsOK(j, k, rs, l) /\ OursOK(j, k, rs, o) /\ FreshOK(j, k, w, rs, l, f)

(* While undisturbed, at most one run is under way, and all is well with   *)
(* it, or with any of them if none is.                                     *)
RevokeInv ==
    Undisturbed =>
        /\ \A r, s \in Runs : run[r].pc # "idle" /\ s # r => run[s] = Idle
        /\ \A r \in Runs : (\A s \in Runs : s # r => run[s] = Idle) =>
               JobOK(run[r], kind, want, rows, list, ours, fresh)

LEMMA RevokeGoal ==
    ASSUME ConstantsAssumption, ListTypes, RevokeInv
    PROVE  RevokedIsRemovedUnmoved
<1>. SUFFICES ASSUME Undisturbed, fresh, NEW n \in ours PROVE n \in Wanted(want)
  BY DEF RevokedIsRemovedUnmoved, RevokedIsRemoved, Undisturbed
<1>1. PICK r \in Runs : \A s \in Runs : s # r => run[s] = Idle
  <2>1. CASE \E r \in Runs : run[r].pc # "idle"
    BY <2>1 DEF RevokeInv
  <2>2. CASE \A r \in Runs : run[r].pc = "idle"
    BY <2>2 DEF ListTypes, ConstantsAssumption
  <2>. QED
    BY <2>1, <2>2
<1>2. JobOK(run[r], kind, want, rows, list, ours, fresh)
  BY <1>1 DEF RevokeInv
<1>3. n \in Names /\ n # NoName /\ n \in list /\ want \in Column
  BY DEF ListTypes, ConstantsAssumption
<1>4. \/ \E u \in Users : rows[u] = n
      \/ run[r].pc \in {"swap", "record"} /\ n = run[r].desired[run[r].cur]
      \/ kind = "admins" /\ run[r].pc = "next" /\ n \notin run[r].actual
  BY <1>2 DEF JobOK, OursOK
<1>5. FreshOK(run[r], kind, want, rows, list, fresh)
  BY <1>2 DEF JobOK
<1>6. run[r].pc \in {"swap", "record"} => run[r].cur \in Users
  BY DEF ListTypes, AtCur
<1>7. \E u \in Users : want[u] = n
  BY <1>3, <1>4, <1>5, <1>6 DEF FreshOK, Past
<1>. QED
  BY <1>3, <1>7, WantedNames

(* A step of the run r, alone. *)
LEMMA AloneStep ==
    ASSUME ConstantsAssumption, ListTypes, RevokeInv, NEW r \in Runs, Others(r),
           Undisturbed' => Undisturbed,
           run[r].pc # "idle",
           Undisturbed /\ JobOK(run[r], kind, want, rows, list, ours, fresh) =>
               JobOK(run'[r], kind', want', rows', list', ours', fresh')
    PROVE  RevokeInv'
<1>. SUFFICES ASSUME Undisturbed' PROVE RevokeInv'
  BY DEF RevokeInv
<1>1. \A s \in Runs : s # r => run[s] = Idle /\ run'[s] = Idle
  BY DEF RevokeInv, Others
<1>2. JobOK(run'[r], kind', want', rows', list', ours', fresh')
  BY <1>1 DEF RevokeInv
<1>3. ASSUME NEW s \in Runs, \A t \in Runs : t # s => run'[t] = Idle
      PROVE  run'[s] = run'[r]
  BY <1>1, <1>3
<1>4. Idle.pc = "idle"
  BY IdleJob
<1>. QED
  BY <1>1, <1>2, <1>3, <1>4 DEF RevokeInv

-----------------------------------------------------------------------------
(* The steps of a run, as relations between what it finds and leaves: its  *)
(* record becomes i, the rows rt, the list l2 and the entries of HOGS o2.  *)
Typed(j, w, rs, l, o) ==
    /\ j \in Job /\ w \in Column /\ rs \in Column
    /\ l \in SUBSET Names /\ o \in SUBSET l
    /\ \A x \in j.todo : j.desired[x] \in Names
    /\ j.pc \in AtCur => j.cur \in Users

(* The rows rs without that of u; with n as that of u and of nobody else. *)
Without(rt, rs, u) ==
    /\ rt \in Column /\ rt[u] = NoName
    /\ \A v \in Users : v # u => rt[v] = rs[v]
With(rt, rs, u, n) ==
    /\ rt \in Column /\ rt[u] = n
    /\ \A v \in Users : v # u => rt[v] = IF rs[v] = n THEN NoName ELSE rs[v]

LEMMA ReadListJob ==
    ASSUME ConstantsAssumption, NEW k, NEW w, NEW rs, NEW l, NEW o, NEW f,
           NEW j, Typed(j, w, rs, l, o), JobOK(j, k, w, rs, l, o, f), NEW i,
           j.pc = "list",
           Becomes(i, "users", l, j.desired, j.owned, j.todo, j.cur, j.touched)
    PROVE  JobOK(i, k, w, rs, l, o, f)
<1>1. /\ Apart(w, rs, j.desired) /\ EarlyOK(j) /\ RowsOK(j, rs) /\ PlaceOK(j, k, l)
      /\ KnowsOK(j, k, rs, l) /\ OursOK(j, k, rs, o) /\ FreshOK(j, k, w, rs, l, f)
  BY DEF JobOK
<1>2. /\ j.desired \in Column /\ j.owned \in Column /\ j.todo \in SUBSET Users
      /\ j.actual \in SUBSET Names /\ NoName \notin Names /\ w \in Column
      /\ rs \in Column /\ l \in SUBSET Names /\ o \in SUBSET l
      /\ \A x \in j.todo : j.desired[x] \in Names
      /\ (j.pc \in AtCur => j.cur \in Users)
  BY DEF Typed, Job, ConstantsAssumption
<1>3. /\ i.pc = "users" /\ i.actual = l /\ i.desired = Nobody /\ i.owned = Nobody
      /\ ~i.touched /\ j.desired = Nobody /\ j.pc = "list"
  BY <1>1 DEF Becomes, EarlyOK
<1>4. Apart(w, rs, i.desired)
  BY <1>1, <1>2, <1>3 DEF Apart, Past
<1>5. EarlyOK(i)
  BY <1>1, <1>2, <1>3 DEF EarlyOK, Past
<1>6. RowsOK(i, rs)
  BY <1>1, <1>2, <1>3 DEF RowsOK, Past
<1>7. PlaceOK(i, k, l)
  BY <1>1, <1>2, <1>3 DEF PlaceOK, Past
<1>8. KnowsOK(i, k, rs, l)
  BY <1>1, <1>2, <1>3 DEF KnowsOK, Past
<1>9. OursOK(i, k, rs, o)
  BY <1>1, <1>2, <1>3 DEF OursOK, Past
<1>10. FreshOK(i, k, w, rs, l, f)
  BY <1>1, <1>2, <1>3 DEF FreshOK, Past
<1>. QED
  BY <1>4, <1>5, <1>6, <1>7, <1>8, <1>9, <1>10 DEF JobOK

LEMMA ReadUsersJob ==
    ASSUME ConstantsAssumption, NEW k, NEW w, NEW rs, NEW l, NEW o, NEW f,
           NEW j, Typed(j, w, rs, l, o), JobOK(j, k, w, rs, l, o, f), NEW i,
           j.pc = "users",
           Becomes(i, "rows", j.actual, w, j.owned, {u \in Users : w[u] # NoName},
                   j.cur, j.touched)
    PROVE  JobOK(i, k, w, rs, l, o, f)
<1>1. /\ Apart(w, rs, j.desired) /\ EarlyOK(j) /\ RowsOK(j, rs) /\ PlaceOK(j, k, l)
      /\ KnowsOK(j, k, rs, l) /\ OursOK(j, k, rs, o) /\ FreshOK(j, k, w, rs, l, f)
  BY DEF JobOK
<1>2. /\ j.desired \in Column /\ j.owned \in Column /\ j.todo \in SUBSET Users
      /\ j.actual \in SUBSET Names /\ NoName \notin Names /\ w \in Column
      /\ rs \in Column /\ l \in SUBSET Names /\ o \in SUBSET l
      /\ \A x \in j.todo : j.desired[x] \in Names
      /\ (j.pc \in AtCur => j.cur \in Users)
  BY DEF Typed, Job, ConstantsAssumption
<1>3. /\ i.pc = "rows" /\ i.actual = l /\ i.desired = w /\ i.owned = Nobody
      /\ ~i.touched /\ i.todo = {u \in Users : w[u] # NoName} /\ j.pc = "users"
  BY <1>1 DEF Becomes, EarlyOK, KnowsOK
<1>4. Apart(w, rs, i.desired)
  BY <1>1, <1>2, <1>3 DEF Apart, Past
<1>5. EarlyOK(i)
  BY <1>1, <1>2, <1>3 DEF EarlyOK, Past
<1>6. RowsOK(i, rs)
  BY <1>1, <1>2, <1>3 DEF RowsOK, Past
<1>7. PlaceOK(i, k, l)
  BY <1>1, <1>2, <1>3 DEF PlaceOK, Past
<1>8. KnowsOK(i, k, rs, l)
  BY <1>1, <1>2, <1>3 DEF KnowsOK, Past
<1>9. OursOK(i, k, rs, o)
  BY <1>1, <1>2, <1>3 DEF OursOK, Past
<1>10. FreshOK(i, k, w, rs, l, f)
  BY <1>1, <1>2, <1>3 DEF FreshOK, Past
<1>. QED
  BY <1>4, <1>5, <1>6, <1>7, <1>8, <1>9, <1>10 DEF JobOK

LEMMA ReadRowsJob ==
    ASSUME ConstantsAssumption, NEW k, NEW w, NEW rs, NEW l, NEW o, NEW f,
           NEW j, Typed(j, w, rs, l, o), JobOK(j, k, w, rs, l, o, f), NEW i,
           j.pc = "rows",
           Becomes(i, "next", j.actual, j.desired, rs, j.todo, j.cur, j.touched)
    PROVE  JobOK(i, k, w, rs, l, o, f)
<1>1. /\ Apart(w, rs, j.desired) /\ EarlyOK(j) /\ RowsOK(j, rs) /\ PlaceOK(j, k, l)
      /\ KnowsOK(j, k, rs, l) /\ OursOK(j, k, rs, o) /\ FreshOK(j, k, w, rs, l, f)
  BY DEF JobOK
<1>2. /\ j.desired \in Column /\ j.owned \in Column /\ j.todo \in SUBSET Users
      /\ j.actual \in SUBSET Names /\ NoName \notin Names /\ w \in Column
      /\ rs \in Column /\ l \in SUBSET Names /\ o \in SUBSET l
      /\ \A x \in j.todo : j.desired[x] \in Names
      /\ (j.pc \in AtCur => j.cur \in Users)
  BY DEF Typed, Job, ConstantsAssumption
<1>3. /\ i.pc = "next" /\ i.actual = l /\ i.desired = j.desired /\ i.owned = rs
      /\ ~i.touched /\ i.todo = j.todo /\ j.pc = "rows"
      /\ \A u \in Users : j.desired[u] # NoName => u \in j.todo
  BY <1>1 DEF Becomes, EarlyOK, KnowsOK
<1>4. Apart(w, rs, i.desired)
  BY <1>1, <1>2, <1>3 DEF Apart, Past
<1>5. EarlyOK(i)
  BY <1>1, <1>2, <1>3 DEF EarlyOK, Past
<1>6. RowsOK(i, rs)
  BY <1>1, <1>2, <1>3 DEF RowsOK, Past
<1>7. PlaceOK(i, k, l)
  BY <1>1, <1>2, <1>3 DEF PlaceOK, Past
<1>8. KnowsOK(i, k, rs, l)
  BY <1>1, <1>2, <1>3 DEF KnowsOK, Past
<1>9. OursOK(i, k, rs, o)
  BY <1>1, <1>2, <1>3 DEF OursOK, Past
<1>10. FreshOK(i, k, w, rs, l, f)
  BY <1>1, <1>2, <1>3 DEF FreshOK, Past
<1>. QED
  BY <1>4, <1>5, <1>6, <1>7, <1>8, <1>9, <1>10 DEF JobOK

LEMMA AddEntryJob ==
    ASSUME ConstantsAssumption, NEW k, NEW w, NEW rs, NEW l, NEW o, NEW f,
           NEW j, Typed(j, w, rs, l, o), JobOK(j, k, w, rs, l, o, f), NEW i,
           k = "whitelist", j.pc = "next", NEW u \in j.todo,
           Becomes(i, "swap", j.actual \cup {j.desired[u]}, j.desired, j.owned, j.todo,
                   u, j.desired[u] \notin j.actual),
           NEW l2, NEW o2,
           IF j.desired[u] \in j.actual THEN l2 = l /\ o2 = o
           ELSE l2 = l \cup {j.desired[u]} /\ o2 = o \cup ({j.desired[u]} \ l)
    PROVE  JobOK(i, k, w, rs, l2, o2, f)
<1>1. /\ Apart(w, rs, j.desired) /\ EarlyOK(j) /\ RowsOK(j, rs) /\ PlaceOK(j, k, l)
      /\ KnowsOK(j, k, rs, l) /\ OursOK(j, k, rs, o) /\ FreshOK(j, k, w, rs, l, f)
  BY DEF JobOK
<1>2. /\ j.desired \in Column /\ j.owned \in Column /\ j.todo \in SUBSET Users
      /\ j.actual \in SUBSET Names /\ NoName \notin Names /\ w \in Column
      /\ rs \in Column /\ l \in SUBSET Names /\ o \in SUBSET l
      /\ \A x \in j.todo : j.desired[x] \in Names
      /\ (j.pc \in AtCur => j.cur \in Users)
  BY DEF Typed, Job, ConstantsAssumption
<1>. DEFINE n == j.desired[u]
<1>3. /\ i.pc = "swap" /\ i.actual = j.actual \cup {n} /\ i.desired = j.desired
      /\ i.owned = j.owned /\ i.todo = j.todo /\ i.cur = u
      /\ i.touched = (n \notin j.actual) /\ j.pc = "next" /\ k = "whitelist"
      /\ j.actual = l /\ i.desired[i.cur] = n /\ u \in j.todo
  BY <1>1 DEF Becomes, KnowsOK, Past
<1>4. Apart(w, rs, i.desired)
  BY <1>1, <1>2, <1>3 DEF Apart, Past
<1>5. EarlyOK(i)
  BY <1>1, <1>2, <1>3 DEF EarlyOK, Past
<1>6. RowsOK(i, rs)
  BY <1>1, <1>2, <1>3 DEF RowsOK, Past
<1>7. PlaceOK(i, k, l2)
  BY <1>1, <1>2, <1>3 DEF PlaceOK, Past
<1>8. KnowsOK(i, k, rs, l2)
  BY <1>1, <1>2, <1>3 DEF KnowsOK, Past
<1>9. OursOK(i, k, rs, o2)
  BY <1>1, <1>2, <1>3 DEF OursOK, Past
<1>10. FreshOK(i, k, w, rs, l2, f)
  BY <1>1, <1>2, <1>3 DEF FreshOK, Past
<1>. QED
  BY <1>4, <1>5, <1>6, <1>7, <1>8, <1>9, <1>10 DEF JobOK

LEMMA RemoveOldJob ==
    ASSUME ConstantsAssumption, NEW k, NEW w, NEW rs, NEW l, NEW o, NEW f,
           NEW j, Typed(j, w, rs, l, o), JobOK(j, k, w, rs, l, o, f), NEW i,
           j.pc = "swap", NEW a2, NEW l2, NEW o2,
           IF j.owned[j.cur] \in j.actual \ Wanted(j.desired)
           THEN /\ a2 = j.actual \ {j.owned[j.cur]} /\ l2 = l \ {j.owned[j.cur]}
                /\ o2 = o \ {j.owned[j.cur]}
           ELSE a2 = j.actual /\ l2 = l /\ o2 = o,
           Becomes(i, "record", a2, j.desired, j.owned, j.todo, j.cur, j.touched)
    PROVE  JobOK(i, k, w, rs, l2, o2, f)
<1>1. /\ Apart(w, rs, j.desired) /\ EarlyOK(j) /\ RowsOK(j, rs) /\ PlaceOK(j, k, l)
      /\ KnowsOK(j, k, rs, l) /\ OursOK(j, k, rs, o) /\ FreshOK(j, k, w, rs, l, f)
  BY DEF JobOK
<1>2. /\ j.desired \in Column /\ j.owned \in Column /\ j.todo \in SUBSET Users
      /\ j.actual \in SUBSET Names /\ NoName \notin Names /\ w \in Column
      /\ rs \in Column /\ l \in SUBSET Names /\ o \in SUBSET l
      /\ \A x \in j.todo : j.desired[x] \in Names
      /\ (j.pc \in AtCur => j.cur \in Users)
  BY DEF Typed, Job, ConstantsAssumption
<1>. DEFINE old == j.owned[j.cur]
<1>3. /\ i.pc = "record" /\ i.desired = j.desired /\ i.owned = j.owned
      /\ i.todo = j.todo /\ i.cur = j.cur /\ i.touched = j.touched
      /\ i.actual = a2 /\ j.pc = "swap" /\ k = "whitelist" /\ j.actual = l
      /\ j.cur \in j.todo /\ j.cur \in Users /\ old = rs[j.cur]
  BY <1>1, <1>2 DEF Becomes, KnowsOK, PlaceOK, RowsOK, Past
<1>4. IF old \in l \ Wanted(j.desired)
      THEN a2 = l \ {old} /\ l2 = l \ {old} /\ o2 = o \ {old}
      ELSE a2 = l /\ l2 = l /\ o2 = o
  BY <1>3
<1>5. old \in Wanted(j.desired) => old = j.desired[j.cur]
  BY <1>1, <1>2, <1>3, WantedNames DEF Apart, Column
<1>6. f => old \in {NoName, j.desired[j.cur]}
  BY <1>1, <1>3 DEF FreshOK, Past
<1>. HIDE DEF old
<1>7. old = j.owned[j.cur] /\ i.actual = l2
  BY <1>3, <1>4 DEF old
<1>8. Apart(w, rs, i.desired)
  BY <1>1, <1>2, <1>3 DEF Apart, Past
<1>9. EarlyOK(i)
  BY <1>1, <1>2, <1>3 DEF EarlyOK, Past
<1>10. RowsOK(i, rs)
  BY <1>1, <1>2, <1>3 DEF RowsOK, Past
<1>11. PlaceOK(i, k, l2)
  BY <1>1, <1>2, <1>3, <1>4, <1>5, <1>7 DEF PlaceOK
<1>12. KnowsOK(i, k, rs, l2)
  BY <1>1, <1>2, <1>3, <1>7 DEF KnowsOK, Past
<1>13. OursOK(i, k, rs, o2)
  <2>1. CASE old \in l \ Wanted(j.desired)
    <3>1. \A n \in o2 : n # old /\ n \in o
      BY <1>4, <2>1
    <3>. QED
      BY <1>1, <1>3, <3>1 DEF OursOK
  <2>2. CASE ~(old \in l \ Wanted(j.desired))
    BY <1>1, <1>3, <1>4, <2>2 DEF OursOK
  <2>. QED
    BY <2>1, <2>2
<1>14. FreshOK(i, k, w, rs, l2, f)
  BY <1>1, <1>3 DEF FreshOK, Past
<1>. QED
  BY <1>8, <1>9, <1>10, <1>11, <1>12, <1>13, <1>14 DEF JobOK

LEMMA RecordJob ==
    ASSUME ConstantsAssumption, NEW k, NEW w, NEW rs, NEW l, NEW o, NEW f,
           NEW j, Typed(j, w, rs, l, o), JobOK(j, k, w, rs, l, o, f), NEW i,
           j.pc = "record", NEW rt, NEW ow, Without(ow, j.owned, j.cur),
           Becomes(i, "next", j.actual, j.desired, ow, j.todo \ {j.cur}, NoUser, FALSE),
           \/ /\ j.owned[j.cur] = j.desired[j.cur] \/ j.touched
              /\ With(rt, rs, j.cur, j.desired[j.cur])
           \/ /\ j.owned[j.cur] # j.desired[j.cur] /\ ~j.touched
              /\ j.owned[j.cur] # NoName /\ Without(rt, rs, j.cur)
           \/ j.owned[j.cur] = NoName /\ ~j.touched /\ rt = rs
    PROVE  JobOK(i, k, w, rt, l, o, f)
<1>1. /\ Apart(w, rs, j.desired) /\ EarlyOK(j) /\ RowsOK(j, rs) /\ PlaceOK(j, k, l)
      /\ KnowsOK(j, k, rs, l) /\ OursOK(j, k, rs, o) /\ FreshOK(j, k, w, rs, l, f)
  BY DEF JobOK
<1>2. /\ j.desired \in Column /\ j.owned \in Column /\ j.todo \in SUBSET Users
      /\ j.actual \in SUBSET Names /\ NoName \notin Names /\ w \in Column
      /\ rs \in Column /\ l \in SUBSET Names /\ o \in SUBSET l
      /\ \A x \in j.todo : j.desired[x] \in Names
      /\ (j.pc \in AtCur => j.cur \in Users)
  BY DEF Typed, Job, ConstantsAssumption
<1>. DEFINE old == j.owned[j.cur]
            n == j.desired[j.cur]
<1>3. /\ i.pc = "next" /\ i.actual = l /\ i.desired = j.desired /\ ~i.touched
      /\ i.owned = ow /\ i.todo = j.todo \ {j.cur}
      /\ j.pc = "record" /\ k = "whitelist" /\ j.actual = l
      /\ j.cur \in j.todo /\ j.cur \in Users /\ old = rs[j.cur] /\ n \in Names
      /\ (old = n \/ old \notin l)
  BY <1>1, <1>2 DEF Becomes, KnowsOK, PlaceOK, RowsOK, Past
<1>4. \A v \in Users : v # j.cur => rs[v] # n
  BY <1>1, <1>3 DEF Apart
<1>5. \A v \in Users : v # j.cur => rt[v] = rs[v] /\ i.owned[v] = j.owned[v]
  BY <1>2, <1>3, <1>4 DEF With, Without
<1>6. /\ rt[j.cur] \in {n, NoName} /\ i.owned[j.cur] = NoName
      /\ (old = n \/ j.touched => rt[j.cur] = n)
      /\ (rt[j.cur] = n \/ old \notin l \/ old = NoName)
  BY <1>2, <1>3 DEF With, Without
<1>7. f => n = w[j.cur]
  BY <1>1, <1>3 DEF FreshOK, Past
<1>8. Apart(w, rt, i.desired)
  BY <1>1, <1>2, <1>3, <1>5, <1>6 DEF Apart
<1>9. EarlyOK(i)
  BY <1>1, <1>2, <1>3 DEF EarlyOK, Past
<1>10. RowsOK(i, rt)
  BY <1>1, <1>2, <1>3, <1>5, <1>6 DEF RowsOK, Past
<1>11. PlaceOK(i, k, l)
  BY <1>1, <1>2, <1>3 DEF PlaceOK, Past
<1>12. KnowsOK(i, k, rt, l)
  BY <1>1, <1>2, <1>3 DEF KnowsOK, Past
<1>13. OursOK(i, k, rt, o)
  BY <1>1, <1>2, <1>3, <1>5, <1>6 DEF OursOK
<1>14. FreshOK(i, k, w, rt, l, f)
  BY <1>1, <1>2, <1>3, <1>5, <1>6, <1>7 DEF FreshOK, Past
<1>. QED
  BY <1>8, <1>9, <1>10, <1>11, <1>12, <1>13, <1>14 DEF JobOK

(* Nobody else is to have the entry of a row that is left: it does not change *)
(* hands.                                                                  *)
LEMMA RevokedIsNobodys ==
    ASSUME ConstantsAssumption, NEW k, NEW w, NEW rs, NEW l, NEW o, NEW f,
           NEW j, Typed(j, w, rs, l, o), JobOK(j, k, w, rs, l, o, f),
           k = "whitelist", j.pc = "next", j.todo = {},
           NEW u \in Users, j.owned[u] # NoName
    PROVE  /\ \A v \in Users : j.desired[v] # j.owned[u]
           /\ j.actual = l /\ j.owned[u] = rs[u] /\ j.owned[u] \in Names
           /\ ~j.touched /\ j.desired[u] = NoName
<1>1. Apart(w, rs, j.desired) /\ RowsOK(j, rs) /\ PlaceOK(j, k, l) /\ KnowsOK(j, k, rs, l)
  BY DEF JobOK
<1>2. j.desired \in Column /\ j.owned \in Column /\ rs \in Column
  BY DEF Typed, Job
<1>3. /\ j.actual = l /\ j.owned[u] = rs[u] /\ j.owned[u] \in Names
      /\ ~j.touched /\ j.desired[u] = NoName
  BY <1>1, <1>2 DEF KnowsOK, RowsOK, Past, Column, PlaceOK
<1>. QED
  BY <1>1, <1>3 DEF Apart, ConstantsAssumption

LEMMA RevokeJob ==
    ASSUME ConstantsAssumption, NEW k, NEW w, NEW rs, NEW l, NEW o, NEW f,
           NEW j, Typed(j, w, rs, l, o), JobOK(j, k, w, rs, l, o, f), NEW i,
           k = "whitelist", j.pc = "next", j.todo = {},
           NEW u \in Users, j.owned[u] # NoName,
           Becomes(i, "drop", l \ {j.owned[u]}, j.desired, j.owned, j.todo, u, j.touched)
    PROVE  JobOK(i, k, w, rs, l \ {j.owned[u]}, o \ {j.owned[u]}, f)
<1>1. /\ Apart(w, rs, j.desired) /\ EarlyOK(j) /\ RowsOK(j, rs) /\ PlaceOK(j, k, l)
      /\ KnowsOK(j, k, rs, l) /\ OursOK(j, k, rs, o) /\ FreshOK(j, k, w, rs, l, f)
  BY DEF JobOK
<1>2. /\ j.desired \in Column /\ j.owned \in Column /\ j.todo \in SUBSET Users
      /\ j.actual \in SUBSET Names /\ NoName \notin Names /\ w \in Column
      /\ rs \in Column /\ l \in SUBSET Names /\ o \in SUBSET l
      /\ \A x \in j.todo : j.desired[x] \in Names
      /\ (j.pc \in AtCur => j.cur \in Users)
  BY DEF Typed, Job, ConstantsAssumption
<1>. DEFINE old == j.owned[u]
<1>3. /\ i.pc = "drop" /\ i.actual = l \ {old} /\ i.desired = j.desired /\ ~i.touched
      /\ i.owned = j.owned /\ i.todo = j.todo /\ i.cur = u /\ j.pc = "next"
      /\ k = "whitelist" /\ i.desired[i.cur] = NoName
  BY RevokedIsNobodys DEF Becomes
<1>4. Apart(w, rs, i.desired)
  BY <1>1, <1>2, <1>3 DEF Apart, Past
<1>5. EarlyOK(i)
  BY <1>1, <1>2, <1>3 DEF EarlyOK, Past
<1>6. RowsOK(i, rs)
  BY <1>1, <1>2, <1>3 DEF RowsOK, Past
<1>7. PlaceOK(i, k, l \ {j.owned[u]})
  BY <1>1, <1>2, <1>3 DEF PlaceOK, Past
<1>8. KnowsOK(i, k, rs, l \ {j.owned[u]})
  BY <1>1, <1>2, <1>3 DEF KnowsOK, Past
<1>9. OursOK(i, k, rs, o \ {j.owned[u]})
  BY <1>1, <1>2, <1>3 DEF OursOK, Past
<1>10. FreshOK(i, k, w, rs, l \ {j.owned[u]}, f)
  BY <1>1, <1>2, <1>3 DEF FreshOK, Past
<1>. QED
  BY <1>4, <1>5, <1>6, <1>7, <1>8, <1>9, <1>10 DEF JobOK

LEMMA DropJob ==
    ASSUME ConstantsAssumption, NEW k, NEW w, NEW rs, NEW l, NEW o, NEW f,
           NEW j, Typed(j, w, rs, l, o), JobOK(j, k, w, rs, l, o, f), NEW i,
           j.pc = "drop", NEW rt, NEW ow, Without(ow, j.owned, j.cur),
           Becomes(i, "next", j.actual, j.desired, ow, j.todo, NoUser, j.touched),
           Without(rt, rs, j.cur)
    PROVE  JobOK(i, k, w, rt, l, o, f)
<1>1. /\ Apart(w, rs, j.desired) /\ EarlyOK(j) /\ RowsOK(j, rs) /\ PlaceOK(j, k, l)
      /\ KnowsOK(j, k, rs, l) /\ OursOK(j, k, rs, o) /\ FreshOK(j, k, w, rs, l, f)
  BY DEF JobOK
<1>2. /\ j.desired \in Column /\ j.owned \in Column /\ j.todo \in SUBSET Users
      /\ j.actual \in SUBSET Names /\ NoName \notin Names /\ w \in Column
      /\ rs \in Column /\ l \in SUBSET Names /\ o \in SUBSET l
      /\ \A x \in j.todo : j.desired[x] \in Names
      /\ (j.pc \in AtCur => j.cur \in Users)
  BY DEF Typed, Job, ConstantsAssumption
<1>3. /\ i.pc = "next" /\ i.actual = l /\ i.desired = j.desired /\ ~i.touched
      /\ i.owned = ow /\ i.todo = j.todo
      /\ j.pc = "drop" /\ k = "whitelist" /\ j.actual = l /\ j.cur \in Users
      /\ j.desired[j.cur] = NoName /\ j.owned[j.cur] = rs[j.cur]
      /\ rs[j.cur] \notin l
  BY <1>1, <1>2 DEF Becomes, KnowsOK, PlaceOK, RowsOK, Past, AtCur
<1>4. /\ i.owned[j.cur] = NoName /\ rt[j.cur] = NoName
      /\ \A v \in Users : v # j.cur => i.owned[v] = j.owned[v] /\ rt[v] = rs[v]
  BY <1>3 DEF Without
<1>5. Apart(w, rt, i.desired)
  BY <1>1, <1>2, <1>3, <1>4 DEF Apart
<1>6. EarlyOK(i)
  BY <1>1, <1>2, <1>3 DEF EarlyOK, Past
<1>7. RowsOK(i, rt)
  BY <1>1, <1>2, <1>3, <1>4 DEF RowsOK, Past
<1>8. PlaceOK(i, k, l)
  BY <1>1, <1>2, <1>3 DEF PlaceOK, Past
<1>9. KnowsOK(i, k, rt, l)
  BY <1>1, <1>2, <1>3 DEF KnowsOK, Past
<1>10. OursOK(i, k, rt, o)
  BY <1>1, <1>2, <1>3, <1>4 DEF OursOK
<1>11. FreshOK(i, k, w, rt, l, f)
  BY <1>1, <1>2, <1>3, <1>4 DEF FreshOK, Past
<1>. QED
  BY <1>5, <1>6, <1>7, <1>8, <1>9, <1>10, <1>11 DEF JobOK

LEMMA WhitelistDoneJob ==
    ASSUME ConstantsAssumption, NEW k, NEW w, NEW rs, NEW l, NEW o, NEW f,
           NEW j, Typed(j, w, rs, l, o), JobOK(j, k, w, rs, l, o, f), NEW i,
           k = "whitelist", j.pc = "next", j.todo = {}, j.owned = Nobody,
           Becomes(i, "idle", {}, Nobody, Nobody, {}, NoUser, FALSE),
           NEW g, g => j.desired = w
    PROVE  JobOK(i, k, w, rs, l, o, g)
<1>1. /\ Apart(w, rs, j.desired) /\ EarlyOK(j) /\ RowsOK(j, rs) /\ PlaceOK(j, k, l)
      /\ KnowsOK(j, k, rs, l) /\ OursOK(j, k, rs, o) /\ FreshOK(j, k, w, rs, l, f)
  BY DEF JobOK
<1>2. /\ j.desired \in Column /\ j.owned \in Column /\ j.todo \in SUBSET Users
      /\ j.actual \in SUBSET Names /\ NoName \notin Names /\ w \in Column
      /\ rs \in Column /\ l \in SUBSET Names /\ o \in SUBSET l
      /\ \A x \in j.todo : j.desired[x] \in Names
      /\ (j.pc \in AtCur => j.cur \in Users)
  BY DEF Typed, Job, ConstantsAssumption
<1>3. \A u \in Users : Nobody[u] = NoName
  BY IdleJob
<1>4. /\ i.pc = "idle" /\ i.desired = Nobody /\ ~j.touched /\ j.pc = "next"
      /\ k = "whitelist" /\ \A u \in Users : rs[u] \in {NoName, j.desired[u]}
  BY <1>1, <1>2, <1>3 DEF Becomes, RowsOK, Past, PlaceOK
<1>5. Apart(w, rs, i.desired)
  BY <1>1, <1>2, <1>4, <1>3 DEF Apart
<1>6. EarlyOK(i)
  BY <1>1, <1>2, <1>4 DEF EarlyOK, Past
<1>7. RowsOK(i, rs)
  BY <1>1, <1>2, <1>4 DEF RowsOK, Past
<1>8. PlaceOK(i, k, l)
  BY <1>1, <1>2, <1>4 DEF PlaceOK, Past
<1>9. KnowsOK(i, k, rs, l)
  BY <1>1, <1>2, <1>4 DEF KnowsOK, Past
<1>10. OursOK(i, k, rs, o)
  BY <1>1, <1>2, <1>4 DEF OursOK, Past
<1>11. FreshOK(i, k, w, rs, l, g)
  BY <1>1, <1>2, <1>4 DEF FreshOK, Past
<1>. QED
  BY <1>5, <1>6, <1>7, <1>8, <1>9, <1>10, <1>11 DEF JobOK

LEMMA RevokeAdminJob ==
    ASSUME ConstantsAssumption, NEW k, NEW w, NEW rs, NEW l, NEW o, NEW f,
           NEW j, Typed(j, w, rs, l, o), JobOK(j, k, w, rs, l, o, f), NEW i,
           k = "admins", j.pc = "next", NEW u \in Users,
           j.owned[u] \in j.actual \ Wanted(j.desired),
           NEW rt, NEW ow, Without(ow, j.owned, u),
           Becomes(i, j.pc, j.actual \ {j.owned[u]}, j.desired, ow, j.todo, j.cur, TRUE),
           Without(rt, rs, u)
    PROVE  JobOK(i, k, w, rt, l, o, f)
<1>1. /\ Apart(w, rs, j.desired) /\ EarlyOK(j) /\ RowsOK(j, rs) /\ PlaceOK(j, k, l)
      /\ KnowsOK(j, k, rs, l) /\ OursOK(j, k, rs, o) /\ FreshOK(j, k, w, rs, l, f)
  BY DEF JobOK
<1>2. /\ j.desired \in Column /\ j.owned \in Column /\ j.todo \in SUBSET Users
      /\ j.actual \in SUBSET Names /\ NoName \notin Names /\ w \in Column
      /\ rs \in Column /\ l \in SUBSET Names /\ o \in SUBSET l
      /\ \A x \in j.todo : j.desired[x] \in Names
      /\ (j.pc \in AtCur => j.cur \in Users)
  BY DEF Typed, Job, ConstantsAssumption
<1>. DEFINE old == j.owned[u]
<1>3. /\ i.pc = "next" /\ i.actual = j.actual \ {old} /\ i.desired = j.desired
      /\ i.touched /\ i.owned = ow /\ i.todo = j.todo
      /\ j.pc = "next" /\ k = "admins"
      /\ old \in Names /\ old = rs[u] /\ old \in j.actual /\ old \notin Wanted(j.desired)
  BY <1>1, <1>2 DEF Becomes, RowsOK, Past
<1>4. /\ i.owned[u] = NoName /\ rt[u] = NoName
      /\ \A v \in Users : v # u => i.owned[v] = j.owned[v] /\ rt[v] = rs[v]
  BY <1>3 DEF Without
<1>5. \A v \in Users : rt[v] # old
  BY <1>1, <1>2, <1>3, <1>4 DEF Apart
<1>6. ~f
  BY <1>1, <1>2, <1>3, WantedNames DEF FreshOK, Past
<1>7. Apart(w, rt, i.desired)
  BY <1>1, <1>2, <1>3, <1>4 DEF Apart
<1>8. EarlyOK(i)
  BY <1>1, <1>2, <1>3 DEF EarlyOK, Past
<1>9. RowsOK(i, rt)
  BY <1>1, <1>2, <1>3, <1>4 DEF RowsOK, Past
<1>10. PlaceOK(i, k, l)
  BY <1>1, <1>2, <1>3 DEF PlaceOK, Past
<1>11. KnowsOK(i, k, rt, l)
  <2>1. ASSUME NEW n \in l \ i.actual
        PROVE  n \notin Wanted(i.desired) /\ \A v \in Users : rt[v] # n
    <3>1. CASE n = old
      BY <1>3, <1>5, <3>1
    <3>2. CASE n # old
      BY <1>1, <1>2, <1>3, <1>4, <2>1, <3>2 DEF KnowsOK
    <3>. QED
      BY <3>1, <3>2
  <2>2. ASSUME NEW n \in i.actual \ l PROVE \E v \in Users : rt[v] = n
    BY <1>1, <1>3, <1>4, <2>2 DEF KnowsOK
  <2>. QED
    BY <1>3, <2>1, <2>2 DEF KnowsOK
<1>12. OursOK(i, k, rt, o)
  BY <1>1, <1>2, <1>3, <1>4 DEF OursOK
<1>13. FreshOK(i, k, w, rt, l, f)
  BY <1>6 DEF FreshOK
<1>. QED
  BY <1>7, <1>8, <1>9, <1>10, <1>11, <1>12, <1>13 DEF JobOK

LEMMA GrantAdminJob ==
    ASSUME ConstantsAssumption, NEW k, NEW w, NEW rs, NEW l, NEW o, NEW f,
           NEW j, Typed(j, w, rs, l, o), JobOK(j, k, w, rs, l, o, f), NEW i,
           k = "admins", j.pc = "next", Stale(j) = {}, NEW u \in j.todo,
           NEW rt, NEW ow, Without(ow, j.owned, u),
           Becomes(i, j.pc, j.actual \cup {j.desired[u]}, j.desired, ow, j.todo \ {u},
                   j.cur, (j.touched \/ j.desired[u] \notin j.actual)),
           \/ /\ j.desired[u] \notin j.actual \/ j.owned[u] = j.desired[u]
              /\ With(rt, rs, u, j.desired[u])
           \/ /\ j.desired[u] \in j.actual /\ j.owned[u] \notin {NoName, j.desired[u]}
              /\ Without(rt, rs, u)
           \/ j.desired[u] \in j.actual /\ j.owned[u] = NoName /\ rt = rs
    PROVE  JobOK(i, k, w, rt, l, o, f)
<1>1. /\ Apart(w, rs, j.desired) /\ EarlyOK(j) /\ RowsOK(j, rs) /\ PlaceOK(j, k, l)
      /\ KnowsOK(j, k, rs, l) /\ OursOK(j, k, rs, o) /\ FreshOK(j, k, w, rs, l, f)
  BY DEF JobOK
<1>2. /\ j.desired \in Column /\ j.owned \in Column /\ j.todo \in SUBSET Users
      /\ j.actual \in SUBSET Names /\ NoName \notin Names /\ w \in Column
      /\ rs \in Column /\ l \in SUBSET Names /\ o \in SUBSET l
      /\ \A x \in j.todo : j.desired[x] \in Names
      /\ (j.pc \in AtCur => j.cur \in Users)
  BY DEF Typed, Job, ConstantsAssumption
<1>. DEFINE n == j.desired[u]
<1>3. /\ i.pc = "next" /\ i.actual = j.actual \cup {n} /\ i.desired = j.desired
      /\ (i.touched <=> j.touched \/ n \notin j.actual)
      /\ i.owned = ow /\ i.todo = j.todo \ {u}
      /\ j.pc = "next" /\ k = "admins" /\ u \in j.todo /\ u \in Users
      /\ n \in Names /\ j.owned[u] = rs[u]
  BY <1>1, <1>2 DEF Becomes, RowsOK, Past
<1>4. \A v \in Users : v # u => rs[v] # n
  BY <1>1, <1>3 DEF Apart
<1>5. \A v \in Users : v # u => rt[v] = rs[v] /\ i.owned[v] = j.owned[v]
  BY <1>3, <1>4 DEF With, Without
<1>6. rt[u] \in {n, NoName} /\ i.owned[u] = NoName /\ (rs[u] = n => rt[u] = n)
      /\ (n \notin j.actual => rt[u] = n)
  BY <1>3 DEF With, Without
<1>7. rs[u] \in Wanted(j.desired) => rs[u] = n
  BY <1>1, <1>2, <1>3, WantedNames DEF Apart, Column
<1>8. rs[u] # n => rs[u] \notin j.actual /\ rs[u] \notin l
  <2>. SUFFICES ASSUME rs[u] # n PROVE rs[u] \notin j.actual /\ rs[u] \notin l
    OBVIOUS
  <2>1. rs[u] \notin j.actual \ Wanted(j.desired)
    BY <1>3 DEF Stale
  <2>2. rs[u] \notin j.actual
    BY <1>7, <2>1
  <2>3. rs[u] \notin l
    BY <1>1, <1>3, <2>2 DEF KnowsOK
  <2>. QED
    BY <2>2, <2>3
<1>9. f => n = w[u]
  BY <1>1, <1>3 DEF FreshOK, Past
<1>10. Apart(w, rt, i.desired)
  BY <1>1, <1>2, <1>3, <1>5, <1>6 DEF Apart
<1>11. EarlyOK(i)
  BY <1>1, <1>2, <1>3 DEF EarlyOK, Past
<1>12. RowsOK(i, rt)
  BY <1>1, <1>2, <1>3, <1>5, <1>6 DEF RowsOK, Past
<1>13. PlaceOK(i, k, l)
  BY <1>1, <1>2, <1>3 DEF PlaceOK, Past
<1>14. KnowsOK(i, k, rt, l)
  <2>1. ASSUME NEW m \in l \ i.actual
        PROVE  j.touched /\ m \notin Wanted(i.desired) /\ \A v \in Users : rt[v] # m
    BY <1>1, <1>2, <1>3, <1>5, <1>6, <2>1 DEF KnowsOK
  <2>2. ASSUME NEW m \in i.actual \ l PROVE \E v \in Users : rt[v] = m
    <3>1. CASE m \in j.actual
      BY <1>1, <1>3, <1>5, <1>6, <1>8, <2>2, <3>1 DEF KnowsOK
    <3>2. CASE m \notin j.actual
      BY <1>3, <1>6, <2>2, <3>2
    <3>. QED
      BY <3>1, <3>2
  <2>. QED
    BY <1>3, <2>1, <2>2 DEF KnowsOK
<1>15. OursOK(i, k, rt, o)
  <2>1. ASSUME NEW m \in o
        PROVE  \/ \E v \in Users : rt[v] = m
               \/ i.touched /\ m \notin i.actual
    <3>1. CASE \E v \in Users : rs[v] = m
      BY <1>2, <1>3, <1>5, <1>6, <1>8, <2>1, <3>1
    <3>2. CASE j.touched /\ m \notin j.actual
      BY <1>3, <1>6, <3>2
    <3>. QED
      BY <1>1, <1>3, <2>1, <3>1, <3>2 DEF OursOK
  <2>. QED
    BY <1>3, <2>1 DEF OursOK
<1>16. FreshOK(i, k, w, rt, l, f)
  BY <1>1, <1>2, <1>3, <1>5, <1>6, <1>9 DEF FreshOK, Past
<1>. QED
  BY <1>10, <1>11, <1>12, <1>13, <1>14, <1>15, <1>16 DEF JobOK

LEMMA ForgetAdminJob ==
    ASSUME ConstantsAssumption, NEW k, NEW w, NEW rs, NEW l, NEW o, NEW f,
           NEW j, Typed(j, w, rs, l, o), JobOK(j, k, w, rs, l, o, f), NEW i,
           k = "admins", j.pc = "next", Stale(j) = {},
           j.todo = {}, NEW u \in Users, j.owned[u] # NoName,
           NEW rt, NEW ow, Without(ow, j.owned, u),
           Becomes(i, j.pc, j.actual, j.desired, ow, j.todo, j.cur, j.touched),
           Without(rt, rs, u)
    PROVE  JobOK(i, k, w, rt, l, o, f)
<1>1. /\ Apart(w, rs, j.desired) /\ EarlyOK(j) /\ RowsOK(j, rs) /\ PlaceOK(j, k, l)
      /\ KnowsOK(j, k, rs, l) /\ OursOK(j, k, rs, o) /\ FreshOK(j, k, w, rs, l, f)
  BY DEF JobOK
<1>2. /\ j.desired \in Column /\ j.owned \in Column /\ j.todo \in SUBSET Users
      /\ j.actual \in SUBSET Names /\ NoName \notin Names /\ w \in Column
      /\ rs \in Column /\ l \in SUBSET Names /\ o \in SUBSET l
      /\ \A x \in j.todo : j.desired[x] \in Names
      /\ (j.pc \in AtCur => j.cur \in Users)
  BY DEF Typed, Job, ConstantsAssumption
<1>3. /\ i.pc = "next" /\ i.actual = j.actual /\ i.desired = j.desired
      /\ i.touched = j.touched /\ i.owned = ow
      /\ i.todo = j.todo /\ j.pc = "next" /\ k = "admins"
      /\ j.owned[u] \in Names /\ j.owned[u] = rs[u] /\ j.desired[u] = NoName
  BY <1>1, <1>2 DEF Becomes, RowsOK, Past, Column
<1>4. /\ i.owned[u] = NoName /\ rt[u] = NoName
      /\ \A v \in Users : v # u => i.owned[v] = j.owned[v] /\ rt[v] = rs[v]
  BY <1>3 DEF Without
<1>5. rs[u] \notin j.actual /\ rs[u] \notin l
  <2>1. rs[u] \notin Wanted(j.desired)
    BY <1>1, <1>2, <1>3, WantedNames DEF Apart
  <2>2. rs[u] \notin j.actual
    BY <1>3, <2>1 DEF Stale
  <2>. QED
    BY <1>1, <1>3, <2>2 DEF KnowsOK
<1>6. Apart(w, rt, i.desired)
  BY <1>1, <1>2, <1>3, <1>4 DEF Apart
<1>7. EarlyOK(i)
  BY <1>1, <1>2, <1>3 DEF EarlyOK, Past
<1>8. RowsOK(i, rt)
  BY <1>1, <1>2, <1>3, <1>4 DEF RowsOK, Past
<1>9. PlaceOK(i, k, l)
  BY <1>1, <1>2, <1>3 DEF PlaceOK, Past
<1>10. KnowsOK(i, k, rt, l)
  BY <1>1, <1>2, <1>3, <1>4, <1>5 DEF KnowsOK
<1>11. OursOK(i, k, rt, o)
  BY <1>1, <1>2, <1>3, <1>4, <1>5 DEF OursOK
<1>12. FreshOK(i, k, w, rt, l, f)
  BY <1>1, <1>2, <1>3, <1>4 DEF FreshOK, Past
<1>. QED
  BY <1>6, <1>7, <1>8, <1>9, <1>10, <1>11, <1>12 DEF JobOK

LEMMA WriteAdminsJob ==
    ASSUME ConstantsAssumption, NEW k, NEW w, NEW rs, NEW l, NEW o, NEW f,
           NEW j, Typed(j, w, rs, l, o), JobOK(j, k, w, rs, l, o, f), NEW i,
           k = "admins", j.pc = "next", j.todo = {}, j.owned = Nobody,
           Becomes(i, "idle", {}, Nobody, Nobody, {}, NoUser, FALSE),
           NEW l2, NEW o2,
           IF j.touched THEN l2 = j.actual /\ o2 = (o \cap j.actual) \cup (j.actual \ l)
           ELSE l2 = l /\ o2 = o,
           NEW g, g => j.desired = w
    PROVE  JobOK(i, k, w, rs, l2, o2, g)
<1>1. /\ Apart(w, rs, j.desired) /\ EarlyOK(j) /\ RowsOK(j, rs) /\ PlaceOK(j, k, l)
      /\ KnowsOK(j, k, rs, l) /\ OursOK(j, k, rs, o) /\ FreshOK(j, k, w, rs, l, f)
  BY DEF JobOK
<1>2. /\ j.desired \in Column /\ j.owned \in Column /\ j.todo \in SUBSET Users
      /\ j.actual \in SUBSET Names /\ NoName \notin Names /\ w \in Column
      /\ rs \in Column /\ l \in SUBSET Names /\ o \in SUBSET l
      /\ \A x \in j.todo : j.desired[x] \in Names
      /\ (j.pc \in AtCur => j.cur \in Users)
  BY DEF Typed, Job, ConstantsAssumption
<1>3. \A u \in Users : Nobody[u] = NoName
  BY IdleJob
<1>4. /\ i.pc = "idle" /\ i.desired = Nobody /\ j.pc = "next"
      /\ k = "admins" /\ \A u \in Users : rs[u] \in {NoName, j.desired[u]}
  BY <1>1, <1>2, <1>3 DEF Becomes, RowsOK, Past
<1>5. Apart(w, rs, i.desired)
  BY <1>1, <1>2, <1>4, <1>3 DEF Apart
<1>6. EarlyOK(i)
  BY <1>1, <1>2, <1>4 DEF EarlyOK, Past
<1>7. RowsOK(i, rs)
  BY <1>1, <1>2, <1>4 DEF RowsOK, Past
<1>8. PlaceOK(i, k, l2)
  BY <1>1, <1>2, <1>4 DEF PlaceOK, Past
<1>9. KnowsOK(i, k, rs, l2)
  BY <1>1, <1>2, <1>4 DEF KnowsOK, Past
<1>10. OursOK(i, k, rs, o2)
  <2>1. ASSUME NEW n \in o2 PROVE \E u \in Users : rs[u] = n
    <3>1. CASE n \in o
      BY <1>1, <1>4, <2>1, <3>1 DEF OursOK
    <3>2. CASE n \in j.actual \ l
      BY <1>1, <1>4, <3>2 DEF KnowsOK
    <3>. QED
      BY <2>1, <3>1, <3>2
  <2>. QED
    BY <2>1 DEF OursOK
<1>11. FreshOK(i, k, w, rs, l2, g)
  BY <1>1, <1>2, <1>4 DEF FreshOK, Past
<1>. QED
  BY <1>5, <1>6, <1>7, <1>8, <1>9, <1>10, <1>11 DEF JobOK

-----------------------------------------------------------------------------
LEMMA JobTypes ==
    ASSUME ListTypes, NEW r \in Runs
    PROVE  /\ Typed(run[r], want, rows, list, ours)
           /\ run[r].todo \in SUBSET Users
           /\ run[r].desired \in Column /\ run[r].owned \in Column
  BY DEF Typed, ListTypes, Job

LEMMA Cleared ==
    ASSUME NEW u \in Users, NEW d \in Column
    PROVE  Without([d EXCEPT ![u] = NoName], d, u)
  BY DEF Without, Column

LEMMA ListOurs ==
    ASSUME ListTypes, NEW new, ListBecomes(new)
    PROVE  list' = new /\ ours' = (ours \cap new) \cup (new \ list)
  BY DEF ListBecomes

LEMMA ReadRevoke ==
    ASSUME ConstantsAssumption, ListTypes, RevokeInv, NEW r \in Runs,
           ReadList(r) \/ ReadUsers(r) \/ ReadRows(r)
    PROVE  RevokeInv'
<1>1. /\ UNCHANGED <<kind, want, rows, list, ours, fresh>>
      /\ (Undisturbed' => Undisturbed) /\ run[r].pc # "idle"
  BY DEF ReadList, ReadUsers, ReadRows, entries, flags, bounds, Undisturbed
<1>2. ASSUME JobOK(run[r], kind, want, rows, list, ours, fresh)
      PROVE  JobOK(run'[r], kind, want, rows, list, ours, fresh)
  <2>1. CASE ReadList(r)
    BY <1>2, <2>1, JobTypes, ReadListShape, ReadListJob DEF ReadList
  <2>2. CASE ReadUsers(r)
    BY <1>2, <2>2, JobTypes, ReadUsersShape, ReadUsersJob DEF ReadUsers
  <2>3. CASE ReadRows(r)
    BY <1>2, <2>3, JobTypes, ReadRowsShape, ReadRowsJob DEF ReadRows
  <2>. QED
    BY <2>1, <2>2, <2>3
<1>3. Others(r)
  BY ReadListShape, ReadUsersShape, ReadRowsShape
<1>. QED
  BY <1>1, <1>2, <1>3, AloneStep

LEMMA AddEntryRevoke ==
    ASSUME ConstantsAssumption, ListTypes, RevokeInv, NEW r \in Runs,
           NEW u \in Users, AddEntry(r, u)
    PROVE  RevokeInv'
<1>1. /\ UNCHANGED <<kind, want, rows, fresh>>
      /\ (Undisturbed' => Undisturbed) /\ run[r].pc = "next"
      /\ kind = "whitelist" /\ u \in run[r].todo
  BY DEF AddEntry, flags, bounds, Undisturbed
<1>. DEFINE n == run[r].desired[u]
<1>2. IF n \in run[r].actual THEN list' = list /\ ours' = ours
      ELSE list' = list \cup {n} /\ ours' = ours \cup ({n} \ list)
  <2>1. CASE n \in run[r].actual
    BY <2>1 DEF AddEntry, entries
  <2>2. CASE n \notin run[r].actual
    BY <2>2, ListOurs DEF AddEntry, ListTypes
  <2>. QED
    BY <2>1, <2>2
<1>3. /\ Others(r)
      /\ Becomes(run'[r], "swap", run[r].actual \cup {n}, run[r].desired, run[r].owned,
                 run[r].todo, u, n \notin run[r].actual)
  BY AddEntryShape
<1>4. ASSUME JobOK(run[r], kind, want, rows, list, ours, fresh)
      PROVE  JobOK(run'[r], kind, want, rows, list', ours', fresh)
  BY <1>1, <1>2, <1>3, <1>4, JobTypes, AddEntryJob
<1>. QED
  BY <1>1, <1>3, <1>4, AloneStep

LEMMA RemoveOldRevoke ==
    ASSUME ConstantsAssumption, ListTypes, RevokeInv, NEW r \in Runs, RemoveOld(r)
    PROVE  RevokeInv'
<1>1. /\ UNCHANGED <<kind, want, rows, fresh>>
      /\ (Undisturbed' => Undisturbed) /\ run[r].pc = "swap"
  BY DEF RemoveOld, flags, bounds, Undisturbed
<1>. DEFINE old == run[r].owned[run[r].cur]
            gone == old \in run[r].actual \ Wanted(run[r].desired)
            a2 == IF gone THEN run[r].actual \ {old} ELSE run[r].actual
<1>2. IF gone THEN /\ a2 = run[r].actual \ {old} /\ list' = list \ {old}
                   /\ ours' = ours \ {old}
      ELSE a2 = run[r].actual /\ list' = list /\ ours' = ours
  <2>1. CASE gone
    BY <2>1, ListOurs DEF RemoveOld, ListTypes
  <2>2. CASE ~gone
    BY <2>2 DEF RemoveOld, entries
  <2>. QED
    BY <2>1, <2>2
<1>3. /\ Others(r)
      /\ Becomes(run'[r], "record", a2, run[r].desired, run[r].owned, run[r].todo,
                 run[r].cur, run[r].touched)
  BY RemoveOldShape
<1>. HIDE DEF a2
<1>4. ASSUME JobOK(run[r], kind, want, rows, list, ours, fresh)
      PROVE  JobOK(run'[r], kind, want, rows, list', ours', fresh)
  BY <1>1, <1>2, <1>3, <1>4, JobTypes, RemoveOldJob
<1>. QED
  BY <1>1, <1>3, <1>4, AloneStep

LEMMA RecordRevoke ==
    ASSUME ConstantsAssumption, ListTypes, RevokeInv, NEW r \in Runs, Record(r)
    PROVE  RevokeInv'
<1>1. /\ UNCHANGED <<kind, want, list, ours, fresh>>
      /\ (Undisturbed' => Undisturbed) /\ run[r].pc = "record" /\ run[r].cur \in Users
  BY DEF Record, flags, bounds, Undisturbed, entries, ListTypes, AtCur
<1>. DEFINE old == run[r].owned[run[r].cur]
            n == run[r].desired[run[r].cur]
            c == run[r].cur
            ow == [run[r].owned EXCEPT ![run[r].cur] = NoName]
<1>2. n \in Names \cup {NoName}
  BY <1>1, JobTypes DEF Column
<1>3. \/ (old = n \/ run[r].touched) /\ With(rows', rows, c, n)
      \/ old # n /\ ~run[r].touched /\ old # NoName /\ Without(rows', rows, c)
      \/ old = NoName /\ ~run[r].touched /\ rows' = rows
  <2>1. CASE (old = n \/ run[r].touched) /\ SetRow(c, n)
    BY <1>1, <1>2, <2>1, SetRowType DEF With
  <2>2. CASE old # n /\ ~run[r].touched /\ old # NoName /\ DeleteRow(c)
    BY <1>1, <2>2, DeleteRowType DEF Without
  <2>3. CASE old = NoName /\ ~run[r].touched /\ UNCHANGED rows
    BY <2>3
  <2>. QED
    BY <2>1, <2>2, <2>3 DEF Record
<1>4. /\ Others(r)
      /\ Becomes(run'[r], "next", run[r].actual, run[r].desired, ow, run[r].todo \ {c},
                 NoUser, FALSE)
  BY RecordShape
<1>5. Without(ow, run[r].owned, c)
  BY <1>1, JobTypes, Cleared
<1>. HIDE DEF ow
<1>6. ASSUME JobOK(run[r], kind, want, rows, list, ours, fresh)
      PROVE  JobOK(run'[r], kind, want, rows', list, ours, fresh)
  BY <1>1, <1>2, <1>3, <1>4, <1>6, <1>5, JobTypes, RecordJob
<1>. QED
  BY <1>1, <1>4, <1>6, AloneStep

LEMMA RevokeRevoke ==
    ASSUME ConstantsAssumption, ListTypes, RevokeInv, NEW r \in Runs,
           NEW u \in Users, Revoke(r, u)
    PROVE  RevokeInv'
<1>. DEFINE old == run[r].owned[u]
<1>1. /\ UNCHANGED <<kind, want, fresh>>
      /\ (Undisturbed' => Undisturbed) /\ run[r].pc = "next"
      /\ kind = "whitelist" /\ run[r].todo = {} /\ old # NoName
  BY DEF Revoke, flags, bounds, Undisturbed
<1>2. /\ Others(r)
      /\ Becomes(run'[r], "drop", run[r].actual \ ({old} \ Wanted(run[r].desired)),
                 run[r].desired, run[r].owned, run[r].todo, u, run[r].touched)
  BY RevokeShape
<1>3. ASSUME JobOK(run[r], kind, want, rows, list, ours, fresh)
      PROVE  JobOK(run'[r], kind, want, rows', list', ours', fresh)
  <2>1. (\A v \in Users : run[r].desired[v] # old) /\ run[r].actual = list
    BY <1>1, <1>3, JobTypes, RevokedIsNobodys
  <2>2. old \notin Wanted(run[r].desired)
    BY <2>1 DEF Wanted
  <2>3. list' = list \ {old} /\ ours' = ours \ {old} /\ rows' = rows
    <3>1. CASE ListBecomes(list \ {old}) /\ UNCHANGED rows
      BY <3>1, ListOurs DEF ListTypes
    <3>2. CASE old \notin run[r].actual /\ UNCHANGED <<entries, rows>>
      BY <2>1, <3>2 DEF entries, ListTypes
    <3>. QED
      BY <2>1, <3>1, <3>2 DEF Revoke
  <2>4. run[r].actual \ ({old} \ Wanted(run[r].desired)) = list \ {old}
    BY <2>1, <2>2
  <2>5. Becomes(run'[r], "drop", list \ {old}, run[r].desired, run[r].owned,
                run[r].todo, u, run[r].touched)
    BY <1>2, <2>4
  <2>6. JobOK(run'[r], kind, want, rows, list \ {old}, ours \ {old}, fresh)
    BY <1>1, <1>3, <2>5, JobTypes, RevokeJob
  <2>. QED
    BY <2>3, <2>6
<1>. QED
  BY <1>1, <1>2, <1>3, AloneStep

LEMMA DropRevoke ==
    ASSUME ConstantsAssumption, ListTypes, RevokeInv, NEW r \in Runs, Drop(r)
    PROVE  RevokeInv'
<1>1. /\ UNCHANGED <<kind, want, list, ours, fresh>>
      /\ (Undisturbed' => Undisturbed) /\ run[r].pc = "drop" /\ run[r].cur \in Users
  BY DEF Drop, flags, bounds, Undisturbed, entries, ListTypes, AtCur
<1>. DEFINE ow == [run[r].owned EXCEPT ![run[r].cur] = NoName]
<1>2. Without(rows', rows, run[r].cur) /\ Without(ow, run[r].owned, run[r].cur)
  BY <1>1, DeleteRowType, JobTypes, Cleared DEF Drop, Without
<1>3. /\ Others(r)
      /\ Becomes(run'[r], "next", run[r].actual, run[r].desired, ow,
                 run[r].todo, NoUser, run[r].touched)
  BY DropShape
<1>. HIDE DEF ow
<1>4. ASSUME JobOK(run[r], kind, want, rows, list, ours, fresh)
      PROVE  JobOK(run'[r], kind, want, rows', list, ours, fresh)
  BY <1>1, <1>2, <1>3, <1>4, JobTypes, DropJob
<1>. QED
  BY <1>1, <1>3, <1>4, AloneStep

LEMMA WhitelistDoneRevoke ==
    ASSUME ConstantsAssumption, ListTypes, RevokeInv, NEW r \in Runs,
           WhitelistDone(r)
    PROVE  RevokeInv'
<1>1. /\ UNCHANGED <<kind, want, list, ours, rows>>
      /\ (Undisturbed' => Undisturbed) /\ run[r].pc = "next"
      /\ kind = "whitelist" /\ run[r].todo = {} /\ run[r].owned = Nobody
      /\ (fresh' => run[r].desired = want)
  BY DEF WhitelistDone, Finish, flags, bounds, Undisturbed, entries
<1>2. ASSUME JobOK(run[r], kind, want, rows, list, ours, fresh)
      PROVE  JobOK(run'[r], kind, want, rows, list, ours, fresh')
  BY <1>1, <1>2, JobTypes, WhitelistDoneShape, WhitelistDoneJob
<1>. QED
  BY <1>1, <1>2, WhitelistDoneShape, AloneStep

LEMMA RevokeAdminRevoke ==
    ASSUME ConstantsAssumption, ListTypes, RevokeInv, NEW r \in Runs,
           NEW u \in Users, RevokeAdmin(r, u)
    PROVE  RevokeInv'
<1>1. /\ UNCHANGED <<kind, want, list, ours, fresh>>
      /\ (Undisturbed' => Undisturbed) /\ run[r].pc = "next" /\ kind = "admins"
      /\ run[r].owned[u] \in run[r].actual \ Wanted(run[r].desired)
  BY DEF RevokeAdmin, Stale, flags, bounds, Undisturbed, entries
<1>. DEFINE ow == [run[r].owned EXCEPT ![u] = NoName]
<1>2. Without(rows', rows, u) /\ Without(ow, run[r].owned, u)
  BY <1>1, DeleteRowType, JobTypes, Cleared DEF RevokeAdmin, Without
<1>3. /\ Others(r)
      /\ Becomes(run'[r], run[r].pc, run[r].actual \ {run[r].owned[u]}, run[r].desired, ow,
                 run[r].todo, run[r].cur, TRUE)
  BY RevokeAdminShape
<1>. HIDE DEF ow
<1>4. ASSUME JobOK(run[r], kind, want, rows, list, ours, fresh)
      PROVE  JobOK(run'[r], kind, want, rows', list, ours, fresh)
  BY <1>1, <1>2, <1>3, <1>4, JobTypes, RevokeAdminJob
<1>. QED
  BY <1>1, <1>3, <1>4, AloneStep

LEMMA GrantAdminRevoke ==
    ASSUME ConstantsAssumption, ListTypes, RevokeInv, NEW r \in Runs,
           NEW u \in Users, GrantAdmin(r, u)
    PROVE  RevokeInv'
<1>. DEFINE old == run[r].owned[u]
            n == run[r].desired[u]
            ow == [run[r].owned EXCEPT ![u] = NoName]
<1>1. /\ UNCHANGED <<kind, want, list, ours, fresh>>
      /\ (Undisturbed' => Undisturbed) /\ run[r].pc = "next" /\ kind = "admins"
      /\ u \in run[r].todo
      /\ Stale(run[r]) = {}
  BY DEF GrantAdmin, flags, bounds, Undisturbed, entries
<1>2. n \in Names \cup {NoName}
  BY JobTypes DEF Column
<1>3. \/ (n \notin run[r].actual \/ old = n) /\ With(rows', rows, u, n)
      \/ n \in run[r].actual /\ old \notin {NoName, n} /\ Without(rows', rows, u)
      \/ n \in run[r].actual /\ old = NoName /\ rows' = rows
  <2>1. CASE (n \notin run[r].actual \/ old = n) /\ SetRow(u, n)
    BY <1>2, <2>1, SetRowType DEF With
  <2>2. CASE n \in run[r].actual /\ old \notin {NoName, n} /\ DeleteRow(u)
    BY <2>2, DeleteRowType DEF Without
  <2>3. CASE n \in run[r].actual /\ old = NoName /\ UNCHANGED rows
    BY <2>3
  <2>. QED
    BY <2>1, <2>2, <2>3 DEF GrantAdmin
<1>4. /\ Others(r)
      /\ Becomes(run'[r], run[r].pc, run[r].actual \cup {n}, run[r].desired, ow,
                 run[r].todo \ {u}, run[r].cur, (run[r].touched \/ n \notin run[r].actual))
  BY GrantAdminShape
<1>5. Without(ow, run[r].owned, u)
  BY <1>1, JobTypes, Cleared
<1>. HIDE DEF ow
<1>6. ASSUME JobOK(run[r], kind, want, rows, list, ours, fresh)
      PROVE  JobOK(run'[r], kind, want, rows', list, ours, fresh)
  BY <1>1, <1>2, <1>3, <1>4, <1>6, <1>5, JobTypes, GrantAdminJob
<1>. QED
  BY <1>1, <1>4, <1>6, AloneStep

LEMMA ForgetAdminRevoke ==
    ASSUME ConstantsAssumption, ListTypes, RevokeInv, NEW r \in Runs,
           NEW u \in Users, ForgetAdmin(r, u)
    PROVE  RevokeInv'
<1>1. /\ UNCHANGED <<kind, want, list, ours, fresh>>
      /\ (Undisturbed' => Undisturbed) /\ run[r].pc = "next" /\ kind = "admins"
      /\ run[r].todo = {} /\ run[r].owned[u] # NoName
      /\ Stale(run[r]) = {}
  BY DEF ForgetAdmin, flags, bounds, Undisturbed, entries
<1>. DEFINE ow == [run[r].owned EXCEPT ![u] = NoName]
<1>2. Without(rows', rows, u) /\ Without(ow, run[r].owned, u)
  BY <1>1, DeleteRowType, JobTypes, Cleared DEF ForgetAdmin, Without
<1>3. /\ Others(r)
      /\ Becomes(run'[r], run[r].pc, run[r].actual, run[r].desired, ow,
                 run[r].todo, run[r].cur, run[r].touched)
  BY ForgetAdminShape
<1>. HIDE DEF ow
<1>4. ASSUME JobOK(run[r], kind, want, rows, list, ours, fresh)
      PROVE  JobOK(run'[r], kind, want, rows', list, ours, fresh)
  BY <1>1, <1>2, <1>3, <1>4, JobTypes, ForgetAdminJob
<1>. QED
  BY <1>1, <1>3, <1>4, AloneStep

LEMMA WriteAdminsRevoke ==
    ASSUME ConstantsAssumption, ListTypes, RevokeInv, NEW r \in Runs,
           WriteAdmins(r)
    PROVE  RevokeInv'
<1>1. /\ UNCHANGED <<kind, want, rows>>
      /\ (Undisturbed' => Undisturbed) /\ run[r].pc = "next"
      /\ kind = "admins" /\ run[r].todo = {} /\ run[r].owned = Nobody
      /\ (fresh' => run[r].desired = want)
  BY DEF WriteAdmins, Finish, flags, bounds, Undisturbed
<1>2. IF run[r].touched
      THEN list' = run[r].actual
           /\ ours' = (ours \cap run[r].actual) \cup (run[r].actual \ list)
      ELSE list' = list /\ ours' = ours
  <2>1. CASE run[r].touched
    BY <2>1, ListOurs DEF WriteAdmins
  <2>2. CASE ~run[r].touched
    BY <2>2 DEF WriteAdmins, entries
  <2>. QED
    BY <2>1, <2>2
<1>3. ASSUME JobOK(run[r], kind, want, rows, list, ours, fresh)
      PROVE  JobOK(run'[r], kind, want, rows, list', ours', fresh')
  BY <1>1, <1>2, <1>3, JobTypes, WriteAdminsShape, WriteAdminsJob
<1>. QED
  BY <1>1, <1>3, WriteAdminsShape, AloneStep

LEMMA BeginRevoke ==
    ASSUME ConstantsAssumption, ListTypes, RevokeInv, NEW r \in Runs, Begin(r)
    PROVE  RevokeInv'
<1>. SUFFICES ASSUME Undisturbed' PROVE RevokeInv'
  BY DEF RevokeInv
<1>1. /\ UNCHANGED <<kind, want, rows, list, ours, fresh>>
      /\ Undisturbed /\ Busy = {} /\ run[r].pc = "idle"
  BY DEF Begin, entries, flags, bounds, Undisturbed
<1>2. \A s \in Runs : run[s] = Idle
  BY <1>1 DEF Busy, ListTypes
<1>3. JobOK(Idle, kind, want, rows, list, ours, fresh)
  BY <1>1, <1>2 DEF RevokeInv
<1>4. Others(r) /\ Becomes(run'[r], "list", {}, Nobody, Nobody, {}, NoUser, FALSE)
  BY BeginShape
<1>5. JobOK(run'[r], kind, want, rows, list, ours, fresh)
  <2>1. /\ run'[r].pc = "list" /\ run'[r].desired = Nobody /\ run'[r].owned = Nobody
        /\ run'[r].touched = FALSE /\ run'[r].todo = {}
    BY <1>4 DEF Becomes
  <2>2. Idle.pc = "idle" /\ Idle.desired = Nobody
    BY IdleJob
  <2>. QED
    BY <1>3, <2>1, <2>2
       DEF JobOK, EarlyOK, RowsOK, PlaceOK, KnowsOK, OursOK, FreshOK, Past
<1>6. \A s \in Runs : s # r => run'[s] = Idle
  BY <1>2, <1>4 DEF Others
<1>7. run'[r].pc # "idle" /\ Idle.pc = "idle"
  BY <1>4, IdleJob DEF Becomes
<1>8. ASSUME NEW s \in Runs, \A t \in Runs : t # s => run'[t] = Idle
      PROVE  s = r
  BY <1>7, <1>8
<1>9. ASSUME NEW s \in Runs, NEW t \in Runs, run'[s].pc # "idle", t # s
      PROVE  run'[t] = Idle
  BY <1>6, <1>7, <1>9
<1>. QED
  BY <1>1, <1>5, <1>8, <1>9 DEF RevokeInv

LEMMA UpsetRevoke ==
    ASSUME ConstantsAssumption, ListTypes,
           (\E r \in Runs : Fail(r)) \/ Crash
    PROVE  RevokeInv'
<1>1. faults' = faults + 1 /\ faults \in Nat
  BY DEF Fail, Crash, ListTypes
<1>. QED
  BY <1>1 DEF RevokeInv, Undisturbed

(* An idle run, and a list edited by hand. *)
LEMMA HandRevoke ==
    ASSUME ConstantsAssumption, ListTypes, RevokeInv, NEW n \in Names,
           HandAdd(n) \/ HandRemove(n)
    PROVE  RevokeInv'
<1>. SUFFICES ASSUME Undisturbed' PROVE RevokeInv'
  BY DEF RevokeInv
<1>1. /\ UNCHANGED <<kind, want, run, fresh>> /\ Undisturbed /\ Busy = {}
  <2>1. UNCHANGED <<kind, want, run, fresh, moved, overlapped, faults>>
    BY DEF HandAdd, HandRemove
  <2>2. edited' = (edited \/ Busy # {})
    BY DEF HandAdd, HandRemove
  <2>. QED
    BY <2>1, <2>2 DEF Undisturbed
<1>2. \A s \in Runs : run[s] = Idle
  BY <1>1 DEF Busy, ListTypes
<1>3. ASSUME NEW r \in Runs
      PROVE  JobOK(run[r], kind, want, rows', list', ours', fresh)
  <2>1. JobOK(Idle, kind, want, rows, list, ours, fresh) /\ run[r] = Idle
    BY <1>1, <1>2, <1>3 DEF RevokeInv
  <2>2. Idle.pc = "idle" /\ Idle.desired = Nobody /\ \A u \in Users : Nobody[u] = NoName
    BY IdleJob
  <2>3. \A u \in Users : rows'[u] \in {NoName, rows[u]}
    BY DEF HandAdd, HandRemove
  <2>4. \A m \in ours' : m \in ours /\ \A u \in Users : rows[u] = m => rows'[u] = m
    <3>1. CASE HandAdd(n)
      BY <3>1 DEF HandAdd
    <3>2. CASE HandRemove(n)
      BY <3>2 DEF HandRemove
    <3>. QED
      BY <3>1, <3>2
  <2>5. Apart(want, rows', Idle.desired)
    BY <2>1, <2>2, <2>3 DEF JobOK, Apart, ConstantsAssumption
  <2>6. OursOK(Idle, kind, rows', ours')
    BY <2>1, <2>2, <2>4 DEF JobOK, OursOK
  <2>7. FreshOK(Idle, kind, want, rows', list', fresh)
    BY <2>1, <2>2, <2>3 DEF JobOK, FreshOK, Past
  <2>. QED
    BY <2>1, <2>2, <2>5, <2>6, <2>7
       DEF JobOK, EarlyOK, RowsOK, PlaceOK, KnowsOK, Past
<1>. QED
  BY <1>1, <1>2, <1>3 DEF RevokeInv

(* An identity that changes without moving is nobody's else. *)
LEMMA ChangeRevoke ==
    ASSUME ConstantsAssumption, ListTypes, RevokeInv, NEW u \in Users, Change(u)
    PROVE  RevokeInv'
<1>. SUFFICES ASSUME Undisturbed' PROVE RevokeInv'
  BY DEF RevokeInv
<1>1. faults' \in Nat /\ (faults' = 0 => faults = 0)
  BY TriggerTypes DEF Change
<1>2. /\ UNCHANGED <<kind, rows, list, ours, run>> /\ fresh' = FALSE
      /\ Undisturbed
  BY <1>1 DEF Change, entries, Undisturbed
<1>3. PICK n \in Names \cup {NoName} :
          /\ want' = [want EXCEPT ![u] = n]
          /\ moved' = (moved \/ \E v \in Users \ {u} : n # NoName /\ n \in Ties(v))
  BY DEF Change
<1>4. \A v \in Users : v # u /\ n # NoName => n \notin Ties(v)
  BY <1>3 DEF Undisturbed
<1>5. want \in Column /\ want'[u] = n /\ \A v \in Users : v # u => want'[v] = want[v]
  BY <1>3 DEF ListTypes, Column
<1>6. ASSUME NEW r \in Runs, JobOK(run[r], kind, want, rows, list, ours, fresh)
      PROVE  JobOK(run[r], kind, want', rows, list, ours, FALSE)
  <2>1. \A v \in Users : v # u /\ n # NoName =>
            n # want[v] /\ n # rows[v] /\ n # run[r].desired[v]
    BY <1>4, <1>6 DEF Ties
  <2>2. Apart(want', rows, run[r].desired)
    BY <1>5, <1>6, <2>1 DEF JobOK, Apart, ConstantsAssumption
  <2>3. FreshOK(run[r], kind, want', rows, list, FALSE)
    BY DEF FreshOK
  <2>. QED
    BY <1>6, <2>2, <2>3 DEF JobOK
<1>. QED
  BY <1>2, <1>6 DEF RevokeInv

LEMMA TickRevoke ==
    ASSUME ConstantsAssumption, ListTypes, RevokeInv,
           Periodic \/ Retry \/ UNCHANGED vars
    PROVE  RevokeInv'
<1>1. Undisturbed' => Undisturbed
  <2>1. CASE Periodic \/ Retry
    BY <2>1, TriggerTypes DEF Periodic, Retry, Undisturbed, flags
  <2>2. CASE UNCHANGED vars
    BY <2>2 DEF vars, bounds, flags, Undisturbed
  <2>. QED
    BY <2>1, <2>2
<1>2. UNCHANGED <<kind, want, rows, list, ours, fresh, run>>
  BY DEF Periodic, Retry, vars, entries
<1>. QED
  BY <1>1, <1>2 DEF RevokeInv

LEMMA InitRevoke == ASSUME ConstantsAssumption, Init PROVE RevokeInv
<1>. SUFFICES ASSUME Undisturbed PROVE RevokeInv
  BY DEF RevokeInv
<1>1. \A r \in Runs : run[r] = Idle
  BY DEF Init
<1>2. /\ Idle.pc = "idle" /\ Idle.desired = Nobody /\ \A u \in Users : Nobody[u] = NoName
  BY IdleJob
<1>3. Apart(want, rows, Idle.desired)
  BY <1>2 DEF Init, Apart, Undisturbed, ConstantsAssumption
<1>4. JobOK(Idle, kind, want, rows, list, ours, fresh)
  BY <1>2, <1>3
     DEF Init, JobOK, EarlyOK, RowsOK, PlaceOK, KnowsOK, OursOK, FreshOK, Past
<1>. QED
  BY <1>1, <1>4 DEF RevokeInv

LEMMA NextRevoke ==
    ASSUME ConstantsAssumption, ListTypes, RevokeInv, [Next]_vars
    PROVE  RevokeInv'
  BY BeginRevoke, UpsetRevoke, ReadRevoke, AddEntryRevoke, RemoveOldRevoke,
     RecordRevoke, RevokeRevoke, DropRevoke, WhitelistDoneRevoke,
     RevokeAdminRevoke, GrantAdminRevoke, ForgetAdminRevoke, WriteAdminsRevoke,
     HandRevoke, ChangeRevoke, TickRevoke
     DEF Next, Step

(* RevokedIsRemovedUnmoved: after a run that knew everybody's rights, no   *)
(* entry HOGS added is left of somebody without them                       *)
(* (docs/ACCESS_CONTROL.md:109), on the whitelist as on the admin list, if *)
(* no identity went from one account to another, nothing failed and no run *)
(* was disturbed.  Every row the run read leaves with its entry            *)
(* (whitelist_reconciler.go, the loop over the rows that are left;         *)
(* admin_reconciler.go, the rows of nobody desired).                       *)
THEOREM RevokedEntriesLeave == Spec => []RevokedIsRemovedUnmoved
<1> ConstantsAssumption
  BY ConstantsAssumption
<1>1. Init => ListTypes /\ RevokeInv
  BY InitTypes, InitRevoke
<1>2. ListTypes /\ RevokeInv /\ [Next]_vars => (ListTypes /\ RevokeInv)'
  BY NextTypes, NextRevoke
<1>3. ListTypes /\ RevokeInv => RevokedIsRemovedUnmoved
  BY RevokeGoal
<1>. QED
  BY <1>1, <1>2, <1>3, PTL DEF Spec

-----------------------------------------------------------------------------
(* The second part is about Inventory, for any clients, rows and bounds.   *)

Owned == Nodes \cup Hooks \cup Servers

ClientRow == [pc : {"idle", "planned", "commit", "reload", "answered"},
              man : Manifest, expect : Manifest \cup {None}, confirm : BOOLEAN,
              prev : Manifest, listed : SUBSET (Owned \cup Rules), alone : BOOLEAN,
              commit : Nat]

TableTypes ==
  /\ nodes \subseteq Nodes /\ hooks \subseteq Hooks
  /\ servers \in [Servers -> ServerRow \cup {None}]
  /\ rules \in [Rules -> {"gui", "inventory", None}]
  /\ state \in Manifest \cup {None}
  /\ client \in [Clients -> ClientRow]
  /\ version \in Nat /\ loaded \in Nat
  /\ touched \in BOOLEAN /\ raced \in BOOLEAN
  /\ applies \in 0..MaxApplies /\ edits \in 0..MaxEdits

(* A reload reads what is committed, so it is never behind its own commit. *)
LoadInv ==
  /\ loaded <= version
  /\ \A c \in Clients : client[c].commit <= version

(* Every row is declared by the stored manifest or came later from the     *)
(* GUI; before the first apply no rule is the inventory's.                 *)
TableInv ==
  /\ state # None => AuthRows \subseteq Resources(state) \cup late
  /\ state = None => \A r \in Rules : rules[r] # "inventory"

(* An apply on its way to the transaction has a valid manifest, a          *)
(* confirmation for what it lists, and, while nothing came between, lists   *)
(* whatever it will remove and knows the stored manifest.                  *)
CommitInv ==
  \A c \in Clients :
    LET q == client[c] IN
    /\ q.pc \in {"planned", "commit"} => validateManifest(q.man)
    /\ q.pc = "commit" =>
         /\ q.listed # {} => q.confirm
         /\ q.alone => /\ q.prev = loadState
                       /\ AuthRows \subseteq Resources(q.man) \cup late \cup q.listed

(* The inductive invariant. *)
InventoryInv == TableTypes /\ LoadInv /\ TableInv /\ CommitInv /\ StateMatchesTables /\ AnsweredIsLoaded

-----------------------------------------------------------------------------
(* What manifests and plans are made of. *)
LEMMA ManifestTypes ==
  ASSUME InventoryAssumption, TableTypes
  PROVE  /\ Empty \in Manifest /\ Resources(Empty) = {} /\ Empty.rules = {}
         /\ loadState \in Manifest
         /\ AuthRows \subseteq Owned
         /\ \A m \in Manifest : Resources(m) \subseteq Owned \cup Rules
         /\ \A m \in Manifest : Deletes(m) \subseteq Owned \cup Rules
<1>1. Empty \in Manifest /\ Resources(Empty) = {} /\ Empty.rules = {}
  BY DEF Empty, Manifest, Resources, Declared
<1>2. loadState \in Manifest
  BY <1>1 DEF loadState, TableTypes
<1>3. AuthRows \subseteq Owned
  BY DEF AuthRows, ServerRows, Owned, TableTypes
<1>4. \A m \in Manifest : Resources(m) \subseteq Owned \cup Rules
  BY DEF Manifest, Resources, Declared, Owned
<1>5. \A m \in Manifest : Deletes(m) \subseteq Owned \cup Rules
  <2> SUFFICES ASSUME NEW m \in Manifest PROVE Deletes(m) \subseteq Owned \cup Rules
    OBVIOUS
  <2>1. diffInventory(loadState, m).delete = Resources(loadState) \ Resources(m)
    BY DEF diffInventory
  <2>2. Resources(loadState) \subseteq Owned \cup Rules
    BY <1>2, <1>4
  <2>3. firstAdoptionDeletes(m) \subseteq Owned
    BY <1>3 DEF firstAdoptionDeletes
  <2> QED
    BY <2>1, <2>2, <2>3 DEF Deletes
<1> QED
  BY <1>1, <1>2, <1>3, <1>4, <1>5

LEMMA IdleClient ==
  ASSUME InventoryAssumption
  PROVE  NoRequest \in ClientRow
  BY DEF NoRequest, ClientRow, Empty, Manifest

LEMMA InitInventory ==
  ASSUME InventoryAssumption
  PROVE  InventoryInit => InventoryInv
<1> SUFFICES ASSUME InventoryInit PROVE InventoryInv
  OBVIOUS
<1>1. TableTypes
  <2>1. 0 \in 0..MaxApplies /\ 0 \in 0..MaxEdits
    BY DEF InventoryAssumption
  <2> QED
    BY <2>1, IdleClient DEF InventoryInit, TableTypes
<1>2. \A c \in Clients : client[c] = NoRequest /\ client[c].pc = "idle" /\ client[c].commit = 0
  BY DEF InventoryInit, NoRequest
<1>3. LoadInv /\ AnsweredIsLoaded
  BY <1>2 DEF InventoryInit, LoadInv, AnsweredIsLoaded
<1>4. TableInv /\ StateMatchesTables
  BY DEF InventoryInit, TableInv, StateMatchesTables, InventoryAssumption
<1>5. CommitInv
  BY <1>2 DEF CommitInv
<1> QED
  BY <1>1, <1>3, <1>4, <1>5 DEF InventoryInv

(* A step of one client that leaves the tables and the state alone. *)
LEMMA ClientInventory ==
  ASSUME InventoryAssumption, InventoryInv, NEW c \in Clients, NEW q \in ClientRow, Set(c, q),
         UNCHANGED <<tables, state, version, touched, late, raced, edits>>,
         applies' \in 0..MaxApplies,
         loaded' \in {loaded, version},
         q.commit <= version,
         q.pc = "answered" => loaded' >= q.commit,
         q.pc \in {"planned", "commit"} => validateManifest(q.man),
         q.pc = "commit" =>
           /\ q.listed # {} => q.confirm
           /\ q.alone => /\ q.prev = loadState
                         /\ AuthRows \subseteq Resources(q.man) \cup late \cup q.listed
  PROVE  InventoryInv'
<1> USE DEF InventoryInv
<1>1. client'[c] = q /\ \A d \in Clients \ {c} : client'[d] = client[d]
  BY DEF Set, TableTypes
<1>2. TableTypes'
  BY DEF Set, TableTypes, tables
<1>3. AuthRows' = AuthRows /\ loadState' = loadState
  BY DEF AuthRows, ServerRows, loadState, tables
<1>4. LoadInv'
  BY <1>1 DEF LoadInv, TableTypes
<1>5. TableInv' /\ StateMatchesTables'
  BY <1>3 DEF TableInv, StateMatchesTables, ServerRows, tables
<1>6. CommitInv'
  BY <1>1, <1>3 DEF CommitInv
<1>7. AnsweredIsLoaded'
  <2> SUFFICES ASSUME NEW d \in Clients, client'[d].pc = "answered"
               PROVE  loaded' >= client'[d].commit
    BY DEF AnsweredIsLoaded
  <2>1. CASE d = c
    BY <1>1, <2>1
  <2>2. CASE d # c
    <3>1. loaded >= client[d].commit /\ client[d].commit \in Nat /\ loaded \in Nat
          /\ version \in Nat /\ loaded <= version
      BY <1>1, <2>2 DEF AnsweredIsLoaded, TableTypes, ClientRow, LoadInv
    <3> QED
      BY <1>1, <2>2, <3>1
  <2> QED BY <2>1, <2>2
<1> QED
  BY <1>2, <1>4, <1>5, <1>6, <1>7

(* A plan, and the checks before the transaction (src/api/inventory_handler.go). *)
LEMMA PlanInventory ==
  ASSUME InventoryAssumption, InventoryInv, NEW c \in Clients, Plan(c)
  PROVE  InventoryInv'
<1>1. PICK m \in Manifest, match \in BOOLEAN :
        /\ validateManifest(m)
        /\ Set(c, [NoRequest EXCEPT !.pc = "planned", !.man = m,
                      !.expect = IF match THEN state ELSE None, !.confirm = hasDeletes(m)])
  BY DEF Plan
<1> DEFINE q == [NoRequest EXCEPT !.pc = "planned", !.man = m,
                   !.expect = IF match THEN state ELSE None, !.confirm = hasDeletes(m)]
<1>2. NoRequest \in ClientRow /\ hasDeletes(m) \in BOOLEAN
  BY IdleClient DEF hasDeletes
<1>3. q \in ClientRow
  BY <1>2 DEF ClientRow, InventoryInv, TableTypes
<1>4. q.pc = "planned" /\ q.man = m /\ q.commit = 0
  BY DEF NoRequest
<1>5. applies' \in 0..MaxApplies /\ loaded' = loaded
      /\ UNCHANGED <<tables, state, version, touched, late, raced, edits>>
  BY DEF Plan, InventoryInv, TableTypes, InventoryAssumption
<1>6. q.commit <= version
  BY <1>4 DEF InventoryInv, TableTypes
<1> HIDE DEF q
<1> QED
  BY <1>1, <1>3, <1>4, <1>5, <1>6, ClientInventory DEF q

LEMMA ApplyInventory ==
  ASSUME InventoryAssumption, InventoryInv, NEW c \in Clients, Apply(c)
  PROVE  InventoryInv'
<1> DEFINE p == client[c]
<1>1. p \in ClientRow /\ p.pc = "planned" /\ p.man \in Manifest /\ p.commit <= version
      /\ validateManifest(p.man)
  BY DEF InventoryInv, TableTypes, ClientRow, Apply, LoadInv, CommitInv
<1>2. UNCHANGED <<tables, state, version, loaded, touched, late, raced, applies, edits>>
      /\ applies' \in 0..MaxApplies
  BY DEF Apply, InventoryInv, TableTypes
<1>3. CASE Set(c, NoRequest)
  <2>1. NoRequest \in ClientRow /\ NoRequest.pc = "idle" /\ NoRequest.commit <= version
    BY IdleClient DEF InventoryInv, TableTypes, NoRequest
  <2> QED
    BY <1>2, <1>3, <2>1, ClientInventory
<1>4. CASE /\ ~(hasDeletes(p.man) /\ ~p.confirm)
           /\ Set(c, [p EXCEPT !.pc = "commit", !.prev = loadState, !.listed = Deletes(p.man)])
  <2> DEFINE q == [p EXCEPT !.pc = "commit", !.prev = loadState, !.listed = Deletes(p.man)]
  <2>1. loadState \in Manifest /\ Deletes(p.man) \subseteq Owned \cup Rules
    BY <1>1, ManifestTypes DEF InventoryInv
  <2>2. q \in ClientRow /\ q.pc = "commit" /\ q.prev = loadState /\ q.listed = Deletes(p.man)
        /\ q.man = p.man /\ q.confirm = p.confirm /\ q.commit = p.commit
    BY <1>1, <2>1 DEF ClientRow
  <2>3. q.listed # {} => q.confirm
    BY <1>4, <2>2 DEF hasDeletes
  <2>4. AuthRows \subseteq Resources(p.man) \cup late \cup Deletes(p.man)
    <3>1. diffInventory(loadState, p.man).delete = Resources(loadState) \ Resources(p.man)
      BY DEF diffInventory
    <3> QED
      BY <3>1 DEF Deletes, firstAdoptionDeletes, loadState, InventoryInv, TableInv
  <2> HIDE DEF q
  <2> QED
    BY <1>1, <1>2, <1>4, <2>2, <2>3, <2>4, ClientInventory DEF q
<1> QED
  BY <1>3, <1>4 DEF Apply

(* The end of a request: a failed transaction, or the reload. *)
LEMMA EndInventory ==
  ASSUME InventoryAssumption, InventoryInv, NEW c \in Clients, ApplyFails(c) \/ afterApply(c)
  PROVE  InventoryInv'
<1>1. NoRequest \in ClientRow /\ NoRequest.pc = "idle" /\ NoRequest.commit = 0 /\ 0 <= version
  BY IdleClient DEF InventoryInv, TableTypes, NoRequest
<1>2. /\ UNCHANGED <<tables, state, version, touched, late, raced, applies, edits>>
      /\ applies' \in 0..MaxApplies /\ loaded' \in {loaded, version}
  BY DEF ApplyFails, afterApply, InventoryInv, TableTypes
<1>3. CASE Set(c, NoRequest)
  BY <1>1, <1>2, <1>3, ClientInventory
<1>4. CASE /\ loaded' = version
           /\ Set(c, [NoRequest EXCEPT !.pc = "answered", !.commit = client[c].commit])
  <2> DEFINE q == [NoRequest EXCEPT !.pc = "answered", !.commit = client[c].commit]
  <2>1. client[c].commit \in Nat /\ client[c].commit <= version /\ version \in Nat
    BY DEF InventoryInv, LoadInv, TableTypes, ClientRow
  <2>2. q \in ClientRow /\ q.pc = "answered" /\ q.commit = client[c].commit
    BY <1>1, <2>1 DEF ClientRow
  <2>3. loaded' >= q.commit
    BY <1>4, <2>1, <2>2
  <2> HIDE DEF q
  <2> QED
    BY <1>2, <1>4, <2>1, <2>2, <2>3, ClientInventory DEF q
<1> QED
  BY <1>3, <1>4 DEF ApplyFails, afterApply, HookRuns

(* The transaction (src/api/inventory_handler.go, applyManifest): what it  *)
(* leaves in the tables.                                                   *)
LEMMA ApplyManifestTables ==
  ASSUME InventoryAssumption, InventoryInv, NEW c \in Clients, applyManifest(c)
  PROVE  LET m == client[c].man IN
         /\ m \in Manifest /\ state' = m /\ state' # None
         /\ nodes' = m.nodes /\ hooks' = m.hooks
         /\ servers' \in [Servers -> ServerRow \cup {None}]
         /\ ServerRows' = Declared(m)
         /\ AuthRows' = m.nodes \cup m.hooks \cup Declared(m)
         /\ \A s \in ServerRows' : servers'[s].node \in nodes' \cup {None}
<1> DEFINE m == client[c].man
<1>1. m \in Manifest /\ m.nodes \subseteq Nodes /\ m.hooks \subseteq Hooks
      /\ m.servers \in [Servers -> Nodes \cup {"none", "absent"}] /\ validateManifest(m)
  BY DEF InventoryInv, TableTypes, ClientRow, Manifest, CommitInv, applyManifest
<1>2. nodes' = m.nodes /\ hooks' = m.hooks /\ state' = m
  BY DEF applyManifest, deleteMissing
<1>3. \A s \in Servers : servers'[s] =
        IF m.servers[s] = "absent" THEN None
        ELSE [node |-> IF m.servers[s] = "none" THEN None ELSE m.servers[s],
              gui  |-> IF servers[s] # None THEN servers[s].gui ELSE "seed"]
  BY DEF applyManifest, applyServers
<1>4. \A s \in Servers : m.servers[s] # "absent" =>
        /\ servers'[s] \in ServerRow /\ servers'[s] # None
        /\ servers'[s].node \in m.nodes \cup {None}
  <2> SUFFICES ASSUME NEW s \in Servers, m.servers[s] # "absent"
               PROVE  /\ servers'[s] \in ServerRow /\ servers'[s] # None
                      /\ servers'[s].node \in m.nodes \cup {None}
    OBVIOUS
  <2> DEFINE n == IF m.servers[s] = "none" THEN None ELSE m.servers[s]
             g == IF servers[s] # None THEN servers[s].gui ELSE "seed"
  <2>1. n \in m.nodes \cup {None}
    BY <1>1 DEF validateManifest, Declared
  <2>2. g \in {"seed", "edited"}
    BY DEF InventoryInv, TableTypes, ServerRow
  <2>3. servers'[s] = [node |-> n, gui |-> g]
    BY <1>3
  <2> HIDE DEF n, g
  <2>4. servers'[s] \in ServerRow /\ servers'[s].node = n
    BY <1>1, <2>1, <2>2, <2>3 DEF ServerRow
  <2> QED
    BY <2>1, <2>4 DEF InventoryAssumption
<1>5. \A s \in Servers : m.servers[s] = "absent" => servers'[s] = None
  BY <1>3
<1>6. servers' \in [Servers -> ServerRow \cup {None}]
  <2>1. servers' = [s \in Servers |-> servers'[s]]
    BY DEF applyManifest, applyServers
  <2> QED
    BY <1>4, <1>5, <2>1
<1>7. ServerRows' = Declared(m)
  BY <1>4, <1>5 DEF ServerRows, Declared
<1> QED
  BY <1>1, <1>2, <1>4, <1>6, <1>7 DEF AuthRows, Declared, InventoryAssumption

(* ... and the invariant it keeps. *)
LEMMA ApplyManifestInventory ==
  ASSUME InventoryAssumption, InventoryInv, NEW c \in Clients, applyManifest(c)
  PROVE  InventoryInv'
<1> DEFINE q == client[c]  m == client[c].man
<1>1. /\ m \in Manifest /\ state' = m /\ state' # None
      /\ nodes' = m.nodes /\ hooks' = m.hooks
      /\ servers' \in [Servers -> ServerRow \cup {None}]
      /\ ServerRows' = Declared(m)
      /\ AuthRows' = m.nodes \cup m.hooks \cup Declared(m)
      /\ \A s \in ServerRows' : servers'[s].node \in nodes' \cup {None}
  BY ApplyManifestTables
<1>2. /\ q \in ClientRow /\ q.pc = "commit" /\ version' = version + 1 /\ touched' = FALSE
      /\ raced' = (raced \/ ~q.alone) /\ version \in Nat /\ loaded \in Nat
      /\ UNCHANGED <<loaded, applies, edits>>
  BY DEF applyManifest, InventoryInv, TableTypes
<1>3. /\ client' \in [Clients -> ClientRow]
      /\ client'[c].pc = "reload" /\ client'[c].commit = version + 1
      /\ \A d \in Clients \ {c} :
            client'[d] = [client[d] EXCEPT !.alone = @ /\ client[d].pc # "commit"]
  <2> DEFINE p == [q EXCEPT !.pc = "reload", !.commit = version + 1]
             OthersKept(d) == [client[d] EXCEPT !.alone = @ /\ client[d].pc # "commit"]
  <2>1. client' = [d \in Clients |-> IF d = c THEN p ELSE OthersKept(d)]
    BY DEF applyManifest
  <2>2. p \in ClientRow /\ p.pc = "reload" /\ p.commit = version + 1
    <3> DEFINE v == version + 1
    <3>1. v \in Nat /\ q \in ClientRow
      BY <1>2
    <3> HIDE DEF v, q
    <3> QED
      BY <3>1 DEF ClientRow, v
  <2>3. \A d \in Clients : OthersKept(d) \in ClientRow
    <3> SUFFICES ASSUME NEW d \in Clients PROVE OthersKept(d) \in ClientRow
      OBVIOUS
    <3> DEFINE b == client[d].alone /\ client[d].pc # "commit"
    <3>1. b \in BOOLEAN /\ client[d] \in ClientRow
      BY DEF InventoryInv, TableTypes
    <3>2. OthersKept(d) = [client[d] EXCEPT !.alone = b]
      OBVIOUS
    <3> HIDE DEF b, OthersKept
    <3> QED
      BY <3>1, <3>2 DEF ClientRow
  <2> HIDE DEF p, OthersKept
  <2>4. client' \in [Clients -> ClientRow] /\ client'[c] = p
        /\ \A d \in Clients \ {c} : client'[d] = OthersKept(d)
    BY <2>1, <2>2, <2>3
  <2> QED
    BY <2>2, <2>4 DEF OthersKept
<1>4. \A d \in Clients \ {c} :
        /\ client'[d].pc = client[d].pc /\ client'[d].man = client[d].man
        /\ client'[d].commit = client[d].commit /\ client'[d].listed = client[d].listed
        /\ client'[d].confirm = client[d].confirm
        /\ client[d].pc = "commit" => ~client'[d].alone
  BY <1>3 DEF InventoryInv, TableTypes, ClientRow
<1>5. /\ rules' \in [Rules -> {"gui", "inventory", None}]
      /\ \A r \in Rules : rules'[r] = IF r \in m.rules THEN "inventory"
                                     ELSE IF r \in q.prev.rules THEN None ELSE rules[r]
  BY DEF applyManifest, applyConstraints, InventoryInv, TableTypes
<1>6. TableTypes'
  <2>1. m.nodes \subseteq Nodes /\ m.hooks \subseteq Hooks
    BY <1>1 DEF Manifest
  <2>2. version' \in Nat
    BY <1>2
  <2>3. raced' \in BOOLEAN /\ touched' \in BOOLEAN
    BY <1>2, Zenon
  <2> QED
    BY <1>1, <1>2, <1>3, <1>5, <2>1, <2>2, <2>3 DEF InventoryInv, TableTypes
<1>7. LoadInv'
  <2>1. \A d \in Clients : client[d].commit \in Nat /\ client[d].commit <= version
    BY DEF InventoryInv, LoadInv, TableTypes, ClientRow
  <2>2. loaded <= version
    BY DEF InventoryInv, LoadInv
  <2>3. \A d \in Clients : client'[d].commit <= version + 1
    <3> SUFFICES ASSUME NEW d \in Clients PROVE client'[d].commit <= version + 1
      OBVIOUS
    <3>1. CASE d = c
      BY <1>2, <1>3, <3>1
    <3>2. CASE d # c
      BY <1>2, <1>4, <2>1, <3>2
    <3> QED BY <3>1, <3>2
  <2> QED
    BY <1>2, <2>2, <2>3 DEF LoadInv
<1>8. TableInv'
  BY <1>1 DEF TableInv, Resources
<1>9. CommitInv'
  <2> SUFFICES ASSUME NEW d \in Clients, client'[d].pc \in {"planned", "commit"}
               PROVE  /\ validateManifest(client'[d].man)
                      /\ client'[d].pc = "commit" =>
                           /\ client'[d].listed # {} => client'[d].confirm
                           /\ ~client'[d].alone
    BY DEF CommitInv
  <2>1. d \in Clients \ {c}
    BY <1>3
  <2> QED
    BY <1>4, <2>1 DEF InventoryInv, CommitInv
<1>10. StateMatchesTables'
  <2>1. ASSUME ~raced', NEW r \in Rules, rules'[r] = "inventory" PROVE r \in m.rules
    <3>1. ~raced /\ q.alone /\ q.prev = loadState
      BY <1>2, <2>1 DEF InventoryInv, TableTypes, ClientRow, CommitInv
    <3>2. r \notin m.rules => rules[r] = "inventory" /\ r \notin q.prev.rules
      BY <1>5, <2>1 DEF InventoryAssumption
    <3>3. rules[r] = "inventory" => state # None /\ r \in state.rules
      BY <3>1 DEF InventoryInv, StateMatchesTables, TableInv
    <3> QED
      BY <3>1, <3>2, <3>3 DEF loadState
  <2> QED
    BY <1>1, <2>1 DEF StateMatchesTables
<1>11. AnsweredIsLoaded'
  BY <1>2, <1>3, <1>4 DEF InventoryInv, AnsweredIsLoaded
<1> QED
  BY <1>6, <1>7, <1>8, <1>9, <1>10, <1>11 DEF InventoryInv

-----------------------------------------------------------------------------
(* Edits in the GUI.  A row that goes was not needed by anybody. *)
LEMMA RemovalInventory ==
  ASSUME InventoryAssumption, InventoryInv, Edit, nodes' \subseteq nodes, hooks' \subseteq hooks,
         servers' \in [Servers -> ServerRow \cup {None}], ServerRows' \subseteq ServerRows,
         touched', touched' \in BOOLEAN, UNCHANGED <<rules, late, client>>
  PROVE  InventoryInv'
<1> USE DEF InventoryInv
<1>1. edits' \in 0..MaxEdits /\ UNCHANGED <<state, version, loaded, raced, applies>>
  BY DEF Edit, TableTypes, InventoryAssumption
<1>2. AuthRows' \subseteq AuthRows /\ loadState' = loadState
  BY <1>1 DEF AuthRows, loadState
<1>3. TableTypes'
  BY <1>1 DEF TableTypes
<1>4. LoadInv' /\ AnsweredIsLoaded'
  BY <1>1 DEF LoadInv, AnsweredIsLoaded
<1>5. TableInv' /\ StateMatchesTables'
  BY <1>1, <1>2 DEF TableInv, StateMatchesTables
<1>6. CommitInv'
  BY <1>2 DEF CommitInv
<1> QED
  BY <1>3, <1>4, <1>5, <1>6

(* A row that comes belongs to nobody's plan. *)
LEMMA AdditionInventory ==
  ASSUME InventoryAssumption, InventoryInv, Edit, NEW x, Adds(x), nodes' \subseteq Nodes, hooks' \subseteq Hooks,
         servers' \in [Servers -> ServerRow \cup {None}], AuthRows' = AuthRows \cup {x},
         touched', touched' \in BOOLEAN, UNCHANGED rules
  PROVE  InventoryInv'
<1> USE DEF InventoryInv
<1>1. edits' \in 0..MaxEdits /\ UNCHANGED <<state, version, loaded, raced, applies>>
  BY DEF Edit, TableTypes, InventoryAssumption
<1>2. client' \in [Clients -> ClientRow]
  <2> SUFFICES ASSUME NEW d \in Clients
               PROVE  [client[d] EXCEPT !.alone = @ /\ client[d].pc # "commit"] \in ClientRow
    BY DEF Adds
  <2> DEFINE b == client[d].alone /\ client[d].pc # "commit"
  <2>1. b \in BOOLEAN /\ client[d] \in ClientRow
    BY DEF TableTypes
  <2> HIDE DEF b
  <2>2. [client[d] EXCEPT !.alone = b] \in ClientRow
    BY <2>1 DEF ClientRow
  <2> QED
    BY <2>2 DEF b
<1>3. \A d \in Clients :
        /\ client'[d].pc = client[d].pc /\ client'[d].man = client[d].man
        /\ client'[d].commit = client[d].commit /\ client'[d].listed = client[d].listed
        /\ client'[d].confirm = client[d].confirm
        /\ client[d].pc = "commit" => ~client'[d].alone
  BY DEF Adds, TableTypes, ClientRow
<1>4. TableTypes'
  BY <1>1, <1>2 DEF TableTypes
<1>5. LoadInv' /\ AnsweredIsLoaded'
  BY <1>1, <1>3 DEF LoadInv, AnsweredIsLoaded
<1>6. TableInv' /\ StateMatchesTables'
  BY <1>1 DEF TableInv, StateMatchesTables, Adds
<1>7. CommitInv'
  BY <1>3 DEF CommitInv
<1> QED
  BY <1>4, <1>5, <1>6, <1>7

(* An edit of a server's own part, or of a rule. *)
LEMMA PresentationInventory ==
  ASSUME InventoryAssumption, InventoryInv, \E s \in Servers : EditServer(s)
  PROVE  InventoryInv'
<1> USE DEF InventoryInv
<1>1. PICK s \in Servers : EditServer(s)
  OBVIOUS
<1>2. /\ edits' \in 0..MaxEdits /\ UNCHANGED <<state, version, loaded, raced, applies>>
      /\ UNCHANGED <<nodes, hooks, rules, late, client, touched>>
  BY <1>1 DEF EditServer, Edit, TableTypes, InventoryAssumption
<1>3. /\ servers' \in [Servers -> ServerRow \cup {None}]
      /\ servers'[s] # None /\ servers[s] # None /\ servers'[s].node = servers[s].node
      /\ \A t \in Servers \ {s} : servers'[t] = servers[t]
  <2>1. servers[s] \in ServerRow /\ servers[s] # None
    BY <1>1 DEF EditServer, TableTypes
  <2>2. [servers[s] EXCEPT !.gui = "edited"] \in ServerRow
    BY <2>1 DEF ServerRow
  <2>3. servers' = [servers EXCEPT ![s] = [servers[s] EXCEPT !.gui = "edited"]]
    BY <1>1 DEF EditServer
  <2>4. servers'[s] = [servers[s] EXCEPT !.gui = "edited"]
    BY <2>3 DEF TableTypes
  <2> QED
    BY <2>1, <2>2, <2>3, <2>4 DEF TableTypes, ServerRow, InventoryAssumption
<1>4. ServerRows' = ServerRows /\ AuthRows' = AuthRows /\ loadState' = loadState
  BY <1>2, <1>3 DEF ServerRows, AuthRows, loadState
<1>5. TableTypes'
  BY <1>2, <1>3 DEF TableTypes
<1>6. LoadInv' /\ AnsweredIsLoaded' /\ TableInv' /\ CommitInv'
  BY <1>2, <1>4 DEF LoadInv, AnsweredIsLoaded, TableInv, CommitInv
<1>7. StateMatchesTables'
  <2>1. \A t \in ServerRows : servers'[t].node = servers[t].node
    BY <1>3 DEF ServerRows
  <2> QED
    BY <1>2, <1>4, <2>1 DEF StateMatchesTables
<1> QED
  BY <1>5, <1>6, <1>7

LEMMA RuleInventory ==
  ASSUME InventoryAssumption, InventoryInv, NEW r \in Rules, SetRule(r)
  PROVE  InventoryInv'
<1> USE DEF InventoryInv
<1>1. /\ edits' \in 0..MaxEdits /\ UNCHANGED <<state, version, loaded, raced, applies>>
      /\ UNCHANGED <<nodes, hooks, servers, late, client, touched>>
  BY DEF SetRule, Edit, TableTypes, InventoryAssumption
<1>2. /\ rules' \in [Rules -> {"gui", "inventory", None}]
      /\ \A q \in Rules : rules'[q] = "inventory" => rules[q] = "inventory"
  BY DEF SetRule, TableTypes, InventoryAssumption
<1>3. ServerRows' = ServerRows /\ AuthRows' = AuthRows /\ loadState' = loadState
  BY <1>1 DEF ServerRows, AuthRows, loadState
<1>4. TableTypes'
  BY <1>1, <1>2 DEF TableTypes
<1>5. LoadInv' /\ AnsweredIsLoaded' /\ CommitInv'
  BY <1>1, <1>3 DEF LoadInv, AnsweredIsLoaded, CommitInv
<1>6. TableInv' /\ StateMatchesTables'
  BY <1>1, <1>2, <1>3 DEF TableInv, StateMatchesTables
<1> QED
  BY <1>4, <1>5, <1>6

(* Every step keeps the invariant. *)
LEMMA NextInventory ==
  ASSUME InventoryAssumption
  PROVE  InventoryInv /\ [InventoryNext]_inventoryVars => InventoryInv'
<1> SUFFICES ASSUME InventoryInv, [InventoryNext]_inventoryVars PROVE InventoryInv'
  OBVIOUS
<1>1. ASSUME NEW c \in Clients,
             Plan(c) \/ Apply(c) \/ applyManifest(c) \/ ApplyFails(c) \/ afterApply(c)
      PROVE  InventoryInv'
  BY <1>1, PlanInventory, ApplyInventory, ApplyManifestInventory, EndInventory
<1>2. ASSUME NEW h \in Hooks, CreateHook(h) \/ DeleteHook(h) PROVE InventoryInv'
  <2>1. CASE CreateHook(h)
    <3>1. AuthRows' = AuthRows \cup {h}
      BY <2>1 DEF CreateHook, AuthRows, ServerRows
    <3> QED
      BY <2>1, <3>1, AdditionInventory DEF CreateHook, InventoryInv, TableTypes
  <2>2. CASE DeleteHook(h)
    <3>1. ServerRows' = ServerRows
      BY <2>2 DEF DeleteHook, ServerRows
    <3> QED
      BY <2>2, <3>1, RemovalInventory DEF DeleteHook, InventoryInv, TableTypes
  <2> QED BY <1>2, <2>1, <2>2
<1>3. ASSUME NEW n \in Nodes, CreateAgent(n) \/ DeleteAgent(n) PROVE InventoryInv'
  <2>1. CASE CreateAgent(n)
    <3>1. AuthRows' = AuthRows \cup {n}
      BY <2>1 DEF CreateAgent, AuthRows, ServerRows
    <3> QED
      BY <2>1, <3>1, AdditionInventory DEF CreateAgent, InventoryInv, TableTypes
  <2>2. CASE DeleteAgent(n)
    <3>1. ServerRows' = ServerRows
      BY <2>2 DEF DeleteAgent, ServerRows
    <3> QED
      BY <2>2, <3>1, RemovalInventory DEF DeleteAgent, InventoryInv, TableTypes
  <2> QED BY <1>3, <2>1, <2>2
<1>4. ASSUME NEW s \in Servers, AddServer(s) PROVE InventoryInv'
  <2> DEFINE row == [node |-> None, gui |-> "edited"]
  <2>1. row \in ServerRow
    BY DEF ServerRow
  <2>2. servers' = [servers EXCEPT ![s] = row]
    BY <1>4 DEF AddServer
  <2> HIDE DEF row
  <2>3. row # None
    BY <2>1 DEF InventoryAssumption
  <2>4. servers' \in [Servers -> ServerRow \cup {None}] /\ ServerRows' = ServerRows \cup {s}
    BY <2>1, <2>2, <2>3 DEF InventoryInv, TableTypes, ServerRows
  <2>5. AuthRows' = AuthRows \cup {s}
    BY <1>4, <2>4 DEF AddServer, AuthRows
  <2> QED
    BY <1>4, <2>4, <2>5, AdditionInventory DEF AddServer, InventoryInv, TableTypes
<1>5. ASSUME NEW s \in Servers, EditServer(s) PROVE InventoryInv'
  BY <1>5, PresentationInventory
<1>6. ASSUME NEW s \in Servers, DeleteServer(s) PROVE InventoryInv'
  <2>1. servers' \in [Servers -> ServerRow \cup {None}] /\ ServerRows' \subseteq ServerRows
    BY <1>6 DEF DeleteServer, InventoryInv, TableTypes, ServerRows
  <2> QED
    BY <1>6, <2>1, RemovalInventory DEF DeleteServer
<1>7. ASSUME NEW r \in Rules, SetRule(r) PROVE InventoryInv'
  BY <1>7, RuleInventory
<1>8. CASE UNCHANGED inventoryVars
  BY <1>8 DEF InventoryInv, TableTypes, LoadInv, TableInv, CommitInv, StateMatchesTables, AnsweredIsLoaded,
              AuthRows, ServerRows, loadState, inventoryVars
<1> QED
  BY <1>1, <1>2, <1>3, <1>4, <1>5, <1>6, <1>7, <1>8 DEF InventoryNext

(* The inductive invariant holds: rows are accounted for by the stored     *)
(* manifest or the GUI, and an apply under way knows what it will remove.  *)
THEOREM InventoryInvariance == InventorySpec => []InventoryInv
<1>1. InventoryInit => InventoryInv
  BY InitInventory, InventoryAssumption
<1>2. InventoryInv /\ [InventoryNext]_inventoryVars => InventoryInv'
  BY NextInventory, InventoryAssumption
<1> QED
  BY <1>1, <1>2, PTL DEF InventorySpec

(* After an apply and until the next edit, tables and stored manifest      *)
(* agree, and no declared rule is forgotten (applyManifest,                *)
(* src/api/inventory_handler.go).                                          *)
THEOREM TablesMatch == InventorySpec => []StateMatchesTables
<1>1. InventoryInv => StateMatchesTables
  BY DEF InventoryInv
<1> QED
  BY <1>1, InventoryInvariance, PTL

(* An apply that was answered with success is loaded (afterApply).         *)
THEOREM SuccessIsLoaded == InventorySpec => []AnsweredIsLoaded
<1>1. InventoryInv => AnsweredIsLoaded
  BY DEF InventoryInv
<1> QED
  BY <1>1, InventoryInvariance, PTL

(* The transaction removes only what the plan listed and the client        *)
(* confirmed, unless rows were added since (firstAdoptionDeletes,          *)
(* hasDeletes, deleteMissing).                                             *)
THEOREM PrunesAreConfirmed == InventorySpec => PruneConfirmedAlone
<1> InventoryAssumption
  BY InventoryAssumption
<1>1. InventoryInv /\ [InventoryNext]_inventoryVars =>
        [\A c \in Clients : applyManifest(c) /\ client[c].alone /\ late = {} => ConfirmedBy(c)]_inventoryVars
  <2> SUFFICES ASSUME InventoryInv, NEW c \in Clients, applyManifest(c), client[c].alone, late = {}
               PROVE  ConfirmedBy(c)
    OBVIOUS
  <2> DEFINE m == client[c].man
  <2>1. AuthRows' = m.nodes \cup m.hooks \cup Declared(m) /\ m \in Manifest
    BY ApplyManifestTables
  <2>2. AuthRows \cap m.rules = {}
    BY <2>1, ManifestTypes DEF InventoryInv, Manifest, Owned, InventoryAssumption
  <2>3. AuthRows \subseteq Resources(m) \cup client[c].listed
        /\ (client[c].listed # {} => client[c].confirm)
    BY DEF InventoryInv, CommitInv, applyManifest
  <2>4. Pruned \subseteq client[c].listed
    BY <2>1, <2>2, <2>3 DEF Pruned, Resources
  <2> QED
    BY <2>3, <2>4 DEF ConfirmedBy
<1> QED
  BY <1>1, InventoryInvariance, PTL DEF InventorySpec, PruneConfirmedAlone
=============================================================================
