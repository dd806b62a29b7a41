----------------------------- MODULE Reconciler -----------------------------
(***************************************************************************)
(* The reconcilers of a server's whitelist                                 *)
(* (src/api/whitelist_reconciler.go) and of its native admin list          *)
(* (src/api/admin_reconciler.go): users who hold the capability and have a *)
(* verified identity are to be on the list, entries HOGS added are to      *)
(* leave with the right to them, and other entries stay.                   *)
(*                                                                         *)
(* ReconcileServer goes through the admin list, then the whitelist.  They  *)
(* share no tables, so a behaviour follows one of them (kind).  The list   *)
(* lives at the agent: a whitelist is changed entry by entry, an admin     *)
(* list is read and written as a file.  rows are user_whitelists or        *)
(* user_admins, the entries HOGS owns.  A call may fail, and one that      *)
(* fails may have had its effect: Fail ends a run anywhere.                *)
(***************************************************************************)
EXTENDS Naturals, FiniteSets

CONSTANTS
    Users, Names,   \* panel users and game identities
    NoUser, NoName, \* no user, no identity
    EarlyUsers, EarlyNames, \* those that may have the right, and be on the list,
                    \* when HOGS starts to manage it
    Runs,           \* "worker" (Start) and "request" (HandleReconcile)
    Kinds,          \* the lists to follow: "whitelist", "admins"
    MaxUpsets,      \* bound: failures, restarts and dropped triggers, edits
                    \* of the list by hand and requests to reconcile it
    MaxEvents       \* bound: those and changes of access or identities

ASSUME ConstantsAssumption ==
    /\ Runs \subseteq {"worker", "request"} /\ "worker" \in Runs
    /\ Kinds \subseteq {"whitelist", "admins"}
    /\ NoUser \notin Users /\ NoName \notin Names /\ EarlyNames \subseteq Names
    /\ MaxEvents \in Nat /\ MaxUpsets \in Nat

VARIABLES
    kind,
    want,           \* want[u]: the identity u may use, NoName without the right
    list,           \* the names on the list
    rows,           \* rows[u]: the name HOGS owns for u, or NoName
    queued,         \* the server is in the reconciler's queue
    retry,          \* retryScheduled
    run,            \* run[r]: a ReconcileServer and its locals
    changes, hands, faults,
    \* history
    manual,         \* names on the list that were put there by hand
    ours,           \* names on the list that a reconciliation put there
    fresh,          \* the last run that ended had all of want
    moved,          \* an identity went from one account to another, or two
                    \* accounts had it from the start
    overlapped,     \* two runs were under way at once
    edited,         \* the list was edited by hand during a run
    lost            \* a reconciliation removed a manual entry

bounds == <<changes, hands, faults>>
entries == <<list, manual, ours, lost>>
flags == <<moved, overlapped, edited>>
vars == <<kind, want, entries, rows, queued, retry, run, bounds, fresh, flags>>

Nobody == [u \in Users |-> NoName]
(* actual: the list as the run knows it; owned: the rows not yet dealt     *)
(* with; todo: the users of desired not yet dealt with; touched: an entry  *)
(* was added for cur, or the file has to be written.                       *)
Idle == [pc |-> "idle", actual |-> {}, desired |-> Nobody, owned |-> Nobody,
         todo |-> {}, cur |-> NoUser, touched |-> FALSE]
Wanted(desired) == {desired[u] : u \in Users} \ {NoName}
Busy == {r \in Runs : run[r].pc # "idle"}

(* Start on a list with manual entries: it schedules TriggerAll. *)
Init ==
    /\ kind \in Kinds
    /\ want \in [Users -> EarlyNames \cup {NoName}] /\ rows = Nobody
    /\ \A u \in Users \ EarlyUsers : want[u] = NoName
    /\ list \in SUBSET EarlyNames /\ manual = list /\ ours = {}
    /\ queued = FALSE /\ retry = TRUE
    /\ run = [r \in Runs |-> Idle]
    /\ changes = 0 /\ hands = 0 /\ faults = 0
    /\ fresh = FALSE /\ lost = FALSE /\ overlapped = FALSE /\ edited = FALSE
    /\ moved = (\E u, v \in Users : u # v /\ want[u] = want[v]
                                    /\ want[u] # NoName)
-----------------------------------------------------------------------------
(* Triggers and the worker *)

(* Bounds: there is room for one more upset. *)
MayUpset == hands + faults < MaxUpsets /\ changes + hands + faults < MaxEvents

(* Trigger: a full queue drops the server. *)
Trigger ==
    \/ queued' = TRUE /\ UNCHANGED faults
    \/ /\ MayUpset
       /\ faults' = faults + 1 /\ UNCHANGED queued

(* TriggerAll: if the servers cannot be listed, a timer is to try again.   *)
(* pending: such a timer is there already.                                 *)
TriggerAll(pending) ==
    \/ Trigger /\ retry' = pending
    \/ /\ MayUpset
       /\ faults' = faults + 1 /\ retry' = TRUE /\ UNCHANGED queued

(* The identities a user has, or had when HOGS or a run last looked. *)
Ties(u) == {want[u], rows[u]} \cup {run[r].desired[u] : r \in Runs}

(* A grant, a SCIM group or a verified identity changes for one user;      *)
(* AfterAccessChange is Trigger, SCIM's AfterChange is TriggerAll.         *)
Change(u) ==
    /\ changes + hands + faults < MaxEvents
    /\ changes' = changes + 1
    /\ \E n \in (Names \cup {NoName}) \ {want[u]} :
          /\ want' = [want EXCEPT ![u] = n]
          /\ moved' = (moved \/ \E v \in Users \ {u} :
                                   n # NoName /\ n \in Ties(v))
    /\ fresh' = FALSE
    /\ TriggerAll(retry)
    /\ UNCHANGED <<kind, entries, rows, run, hands, overlapped, edited>>

(* The ticker of the worker. *)
Periodic ==
    /\ run["worker"].pc = "idle" /\ ~queued
    /\ TriggerAll(retry)
    /\ UNCHANGED <<kind, want, entries, rows, run, changes, hands, fresh,
                   flags>>

(* scheduleTriggerAllRetry's timer. *)
Retry ==
    /\ retry
    /\ TriggerAll(FALSE)
    /\ UNCHANGED <<kind, want, entries, rows, run, changes, hands, fresh,
                   flags>>

(* A run begins: the worker takes the server from its queue, a request     *)
(* comes whenever it likes.                                                *)
Begin(r) ==
    /\ run[r].pc = "idle"
    /\ \/ r = "worker" /\ queued /\ queued' = FALSE /\ UNCHANGED hands
       \/ /\ r = "request" /\ MayUpset
          /\ hands' = hands + 1 /\ UNCHANGED queued
    /\ run' = [run EXCEPT ![r] = [Idle EXCEPT !.pc = "list"]]
    /\ overlapped' = (overlapped \/ Busy # {})
    /\ UNCHANGED <<kind, want, entries, rows, retry, changes, faults, fresh,
                   moved, edited>>

(* A call or a statement of the run fails, or its deadline is over. *)
Fail(r) ==
    /\ run[r].pc # "idle" /\ MayUpset
    /\ faults' = faults + 1
    /\ run' = [run EXCEPT ![r] = Idle]
    /\ UNCHANGED <<kind, want, entries, rows, queued, retry, changes, hands,
                   fresh, flags>>

(* HOGS restarts; Start schedules TriggerAll. *)
Crash ==
    /\ MayUpset
    /\ faults' = faults + 1
    /\ run' = [r \in Runs |-> Idle]
    /\ queued' = FALSE /\ retry' = TRUE
    /\ UNCHANGED <<kind, want, entries, rows, changes, hands, fresh, flags>>
-----------------------------------------------------------------------------
(* The steps of a run that the two lists share *)

ReadList(r) ==
    /\ run[r].pc = "list"
    /\ run' = [run EXCEPT ![r] = [run[r] EXCEPT !.pc = "users", !.actual = list]]
    /\ UNCHANGED <<kind, want, entries, rows, queued, retry, bounds, fresh,
                   flags>>

(* The active users with the capability and a verified, valid identity. *)
ReadUsers(r) ==
    /\ run[r].pc = "users"
    /\ run' = [run EXCEPT ![r] = [run[r] EXCEPT !.pc = "rows", !.desired = want,
                                  !.todo = {u \in Users : want[u] # NoName}]]
    /\ UNCHANGED <<kind, want, entries, rows, queued, retry, bounds, fresh,
                   flags>>

ReadRows(r) ==
    /\ run[r].pc = "rows"
    /\ run' = [run EXCEPT ![r] = [run[r] EXCEPT !.pc = "next", !.owned = rows]]
    /\ UNCHANGED <<kind, want, entries, rows, queued, retry, bounds, fresh,
                   flags>>

(* SetUserWhitelistForIdentity, SetUserAdminForIdentity: nobody else keeps *)
(* the name.                                                               *)
SetRow(u, n) ==
    rows' = [v \in Users |-> IF v = u THEN n ELSE IF rows[v] = n THEN NoName
                             ELSE rows[v]]
DeleteRow(u) == rows' = [rows EXCEPT ![u] = NoName]

(* The agent's list becomes new; on a whitelist an add or a remove finds   *)
(* the list as it is then, an admin list is overwritten.                   *)
ListBecomes(new) ==
    /\ list' = new
    /\ lost' = (lost \/ ~(manual \cap list \subseteq new))
    /\ manual' = manual \cap new
    /\ ours' = (ours \cap new) \cup (new \ list)

Finish(r) ==
    /\ run' = [run EXCEPT ![r] = Idle]
    /\ fresh' = (run[r].desired = want)
-----------------------------------------------------------------------------
(* The whitelist: ReconcileServer *)

(* A desired user: the entry is added if the list does not have it. *)
AddEntry(r, u) ==
    LET wanted == run[r].desired[u]
    IN  /\ kind = "whitelist" /\ run[r].pc = "next" /\ u \in run[r].todo
        /\ IF wanted \in run[r].actual THEN UNCHANGED entries
           ELSE ListBecomes(list \cup {wanted})
        /\ run' = [run EXCEPT ![r] =
               [run[r] EXCEPT !.pc = "swap", !.cur = u, !.actual = @ \cup {wanted},
                         !.touched = wanted \notin run[r].actual]]
        /\ UNCHANGED <<kind, want, rows, queued, retry, bounds, fresh, flags>>

(* Mutant of RemoveOld: the entry stays. *)
LeaveOld(r) ==
    /\ run[r].pc = "swap"
    /\ run' = [run EXCEPT ![r].pc = "record"]
    /\ UNCHANGED <<kind, want, entries, rows, queued, retry, bounds, fresh,
                   flags>>

(* The entry of an identity the user had before is removed, unless         *)
(* somebody else is to have it.                                            *)
RemoveOld(r) ==
    LET job == run[r]
        old == job.owned[job.cur]
        stale == old \in job.actual \ Wanted(job.desired)
    IN  /\ job.pc = "swap"
        /\ IF stale THEN ListBecomes(list \ {old})
           ELSE UNCHANGED entries
        /\ run' = [run EXCEPT ![r] =
               [job EXCEPT !.pc = "record",
                         !.actual = IF stale THEN @ \ {old} ELSE @]]
        /\ UNCHANGED <<kind, want, rows, queued, retry, bounds, fresh, flags>>

(* Mutant of Record: what was on the list is adopted. *)
RecordAdopts(r) ==
    LET job == run[r]
    IN  /\ job.pc = "record"
        /\ SetRow(job.cur, job.desired[job.cur])
        /\ run' = [run EXCEPT ![r] =
               [job EXCEPT !.pc = "next", !.todo = @ \ {job.cur}, !.cur = NoUser,
                         !.owned[job.cur] = NoName, !.touched = FALSE]]
        /\ UNCHANGED <<kind, want, entries, queued, retry, bounds, fresh,
                       flags>>

(* The row: an entry that HOGS added, or that was its own, is owned; one   *)
(* that was there is not adopted.                                          *)
Record(r) ==
    LET job == run[r]
        old == job.owned[job.cur]
        wanted == job.desired[job.cur]
    IN  /\ job.pc = "record"
        /\ \/ (old = wanted \/ job.touched) /\ SetRow(job.cur, wanted)
           \/ old # wanted /\ ~job.touched /\ old # NoName /\ DeleteRow(job.cur)
           \/ old = NoName /\ ~job.touched /\ UNCHANGED rows
        /\ run' = [run EXCEPT ![r] =
               [job EXCEPT !.pc = "next", !.todo = @ \ {job.cur}, !.cur = NoUser,
                         !.owned[job.cur] = NoName, !.touched = FALSE]]
        /\ UNCHANGED <<kind, want, entries, queued, retry, bounds, fresh,
                       flags>>

(* A row of somebody who is not desired any more: its entry is removed, or *)
(* its ownership goes to the one who is to have it now.                    *)
Revoke(r, u) ==
    LET job == run[r]
        old == job.owned[u]
    IN  /\ kind = "whitelist" /\ job.pc = "next"
        /\ job.todo = {} /\ old # NoName
        /\ \/ /\ old \notin Wanted(job.desired) /\ old \in job.actual
              /\ ListBecomes(list \ {old}) /\ UNCHANGED rows
           \/ /\ old \notin Wanted(job.desired) \cup job.actual
              /\ UNCHANGED <<entries, rows>>
           \/ \E v \in Users :
                 /\ job.desired[v] = old /\ SetRow(v, old)
                 /\ UNCHANGED entries
        /\ run' = [run EXCEPT ![r] =
               [job EXCEPT !.pc = "drop", !.cur = u,
                         !.actual = @ \ ({old} \ Wanted(job.desired))]]
        /\ UNCHANGED <<kind, want, queued, retry, bounds, fresh, flags>>

(* Mutant of Drop: the row stays. *)
DropNothing(r) ==
    LET job == run[r]
    IN  /\ job.pc = "drop"
        /\ run' = [run EXCEPT ![r] = [job EXCEPT !.pc = "next", !.cur = NoUser,
                                               !.owned[job.cur] = NoName]]
        /\ UNCHANGED <<kind, want, entries, rows, queued, retry, bounds, fresh,
                       flags>>

(* Its row is deleted. *)
Drop(r) ==
    LET job == run[r]
    IN  /\ job.pc = "drop"
        /\ DeleteRow(job.cur)
        /\ run' = [run EXCEPT ![r] = [job EXCEPT !.pc = "next", !.cur = NoUser,
                                               !.owned[job.cur] = NoName]]
        /\ UNCHANGED <<kind, want, entries, queued, retry, bounds, fresh,
                       flags>>

WhitelistDone(r) ==
    /\ kind = "whitelist" /\ run[r].pc = "next"
    /\ run[r].todo = {} /\ run[r].owned = Nobody
    /\ Finish(r)
    /\ UNCHANGED <<kind, want, entries, rows, queued, retry, bounds, flags>>
-----------------------------------------------------------------------------
(* The admin list: reconcileAdmins; actual is what will be written *)

Stale(job) == {u \in Users : job.owned[u] \in job.actual \ Wanted(job.desired)}

(* An owned entry nobody is to have: its row is deleted, it is not kept. *)
RevokeAdmin(r, u) ==
    LET job == run[r]
    IN  /\ kind = "admins" /\ job.pc = "next" /\ u \in Stale(job)
        /\ DeleteRow(u)
        /\ run' = [run EXCEPT ![r] =
               [job EXCEPT !.actual = @ \ {job.owned[u]},
                         !.owned[u] = NoName, !.touched = TRUE]]
        /\ UNCHANGED <<kind, want, entries, queued, retry, bounds, fresh,
                       flags>>

(* A desired user: an entry that is kept keeps its owner, one that is not  *)
(* is added and owned.                                                     *)
GrantAdmin(r, u) ==
    LET job == run[r]
        old == job.owned[u]
        wanted == job.desired[u]
    IN  /\ kind = "admins" /\ job.pc = "next"
        /\ Stale(job) = {} /\ u \in job.todo
        /\ \/ (wanted \notin job.actual \/ old = wanted) /\ SetRow(u, wanted)
           \/ /\ wanted \in job.actual /\ old \notin {NoName, wanted}
              /\ DeleteRow(u)
           \/ wanted \in job.actual /\ old = NoName /\ UNCHANGED rows
        /\ run' = [run EXCEPT ![r] =
               [job EXCEPT !.todo = @ \ {u}, !.owned[u] = NoName,
                         !.actual = @ \cup {wanted},
                         !.touched = @ \/ wanted \notin job.actual]]
        /\ UNCHANGED <<kind, want, entries, queued, retry, bounds, fresh,
                       flags>>

(* What is left of the rows is deleted. *)
ForgetAdmin(r, u) ==
    LET job == run[r]
    IN  /\ kind = "admins" /\ job.pc = "next"
        /\ Stale(job) = {} /\ job.todo = {} /\ job.owned[u] # NoName
        /\ DeleteRow(u)
        /\ run' = [run EXCEPT ![r].owned[u] = NoName]
        /\ UNCHANGED <<kind, want, entries, queued, retry, bounds, fresh,
                       flags>>

(* The file is written if it changes. *)
WriteAdmins(r) ==
    LET job == run[r]
    IN  /\ kind = "admins" /\ job.pc = "next"
        /\ job.todo = {} /\ job.owned = Nobody
        /\ IF job.touched THEN ListBecomes(job.actual)
           ELSE UNCHANGED entries
        /\ Finish(r)
        /\ UNCHANGED <<kind, want, rows, queued, retry, bounds, flags>>
-----------------------------------------------------------------------------
(* Edits by hand: AdminWhitelist, the game's console, its files *)

HandAdd(n) ==
    /\ MayUpset /\ n \notin list
    /\ hands' = hands + 1
    /\ list' = list \cup {n}
    /\ manual' = manual \cup ({n} \ {rows[u] : u \in Users})
    /\ edited' = (edited \/ Busy # {})
    /\ UNCHANGED <<kind, want, ours, lost, rows, queued, retry, run, changes,
                   faults, fresh, moved, overlapped>>

(* AdminWhitelist also deletes the rows of the identity. *)
HandRemove(n) ==
    /\ MayUpset /\ n \in list
    /\ hands' = hands + 1
    /\ list' = list \ {n} /\ manual' = manual \ {n} /\ ours' = ours \ {n}
    /\ \/ UNCHANGED rows
       \/ /\ kind = "whitelist"
          /\ rows' = [u \in Users |-> IF rows[u] = n THEN NoName ELSE rows[u]]
    /\ edited' = (edited \/ Busy # {})
    /\ UNCHANGED <<kind, want, lost, queued, retry, run, changes, faults,
                   fresh, moved, overlapped>>

Step(r) ==
    \/ ReadList(r) \/ ReadUsers(r) \/ ReadRows(r)
    \/ \E u \in Users : AddEntry(r, u) \/ Revoke(r, u)
    \/ RemoveOld(r) \/ Record(r) \/ Drop(r) \/ WhitelistDone(r)
    \/ \E u \in Users :
          RevokeAdmin(r, u) \/ GrantAdmin(r, u) \/ ForgetAdmin(r, u)
    \/ WriteAdmins(r)

Next ==
    \/ \E r \in Runs : Begin(r) \/ Step(r) \/ Fail(r)
    \/ \E u \in Users : Change(u)
    \/ \E n \in Names : HandAdd(n) \/ HandRemove(n)
    \/ Periodic \/ Retry \/ Crash

Spec == Init /\ [][Next]_vars

(* The worker's goroutine and the timers go on; so does a request that     *)
(* was made.                                                               *)
Fairness ==
    /\ WF_vars(Begin("worker")) /\ WF_vars(Periodic) /\ WF_vars(Retry)
    /\ \A r \in Runs : WF_vars(Step(r))

FairSpec == Spec /\ Fairness
-----------------------------------------------------------------------------
(* Properties *)

(* Types of the tables, the list and the runs. *)
TypeOK ==
    /\ kind \in Kinds /\ list \subseteq Names
    /\ {want, rows} \subseteq [Users -> Names \cup {NoName}]
    /\ run \in [Runs -> [pc : {"idle", "list", "users", "rows", "next", "swap",
                               "record", "drop"},
                         actual : SUBSET Names,
                         desired : [Users -> Names \cup {NoName}],
                         owned : [Users -> Names \cup {NoName}],
                         todo : SUBSET Users, cur : Users \cup {NoUser},
                         touched : BOOLEAN]]
    /\ changes \in 0..MaxEvents /\ hands + faults \in 0..MaxUpsets
    /\ manual \subseteq list /\ ours \subseteq list
    /\ {queued, retry, fresh, moved, overlapped, edited, lost} \subseteq BOOLEAN

(* An entry put on the list by hand is never removed by reconciliation,    *)
(* whatever fails and however runs overlap, unless the list was edited     *)
(* while a run was under way (docs/ACCESS_CONTROL.md:55-56, 108-111).      *)
ManualStays == ~edited => ~lost

(* After a run that knew everybody's rights, no entry HOGS added is left   *)
(* of somebody without them (docs/ACCESS_CONTROL.md:109).  A failure       *)
(* between an entry and its row makes the entry a manual one; so may two   *)
(* runs that overlap.                                                      *)
RevokedIsRemoved ==
    fresh /\ ~overlapped /\ ~edited /\ faults = 0 => ours \subseteq Wanted(want)

(* After a run that knew everybody's rights, no entry HOGS added is left   *)
(* of somebody without them, if no identity went from one account to       *)
(* another, nothing failed and no run was disturbed.                       *)
RevokedIsRemovedUnmoved == ~moved => RevokedIsRemoved

(* When changes and failures end, the list has everybody who may be on it, *)
(* HOGS owns entries only for them, and it stays so: what a full queue,    *)
(* a failed run or a restart dropped, the timer repairs.                   *)
Settled ==
    /\ Wanted(want) \subseteq list
    /\ \A u \in Users : rows[u] \in {NoName, want[u]}
Converges == <>[]Settled
=============================================================================
