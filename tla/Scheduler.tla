------------------------------ MODULE Scheduler -----------------------------
(***************************************************************************)
(* The automation scheduler (src/cron/scheduler.go), for one rule, with    *)
(* the handlers that change rules and reload it                            *)
(* (src/api/automation_handler.go, src/main.go).                           *)
(*                                                                         *)
(* The cron library starts a goroutine for every entry that is due, and    *)
(* does not wait for the last one: an action may take three minutes, so    *)
(* ticks of a rule overlap.  A tick works on the copy of the row it read   *)
(* and writes the two timers of the copy back at its end.  Handlers run in *)
(* goroutines of their own and share the scheduler's map without a lock.   *)
(*                                                                         *)
(* The condition, the engine's verdict and the executor's outcome are      *)
(* inputs.  Times are in units the timers count; 0 stands for NULL.        *)
(***************************************************************************)
EXTENDS Naturals, FiniteSets, TLC

CONSTANTS
    Ticks,          \* bound: ticks that may run at a time
    Edits,          \* bound: handlers that may run at a time
    Stability,      \* stability_seconds of the rule
    Cooldown,       \* cooldown_seconds of the rule
    MaxClock,       \* bound: the clock
    MaxEntries,     \* bound: cron entries ever made for the rule
    MaxCrashes      \* bound: restarts of HOGS

ASSUME ConstantsAssumption ==
    /\ Stability \in Nat /\ Cooldown \in Nat /\ MaxClock \in Nat \ {0}
    /\ MaxEntries \in Nat \ {0} /\ MaxCrashes \in Nat

VARIABLES
    row,            \* the rule's row of cron_jobs
    entries,        \* entries of the cron library for the rule
    jobs,           \* Scheduler.jobs[rule], 0 if absent
    made,           \* entries made so far
    tick,           \* tick[t]: a running executeJob and its copy of the row
    edit,           \* edit[e]: a running handler and what it read
    clock, crashes,
    \* history
    recorded,       \* start of the last successful action that was recorded
    unstableAt,     \* the last recorded evaluation that was not true, or change
    overlapped,     \* a tick ran while another tick or a change of the rule did
    spoiled,        \* two reloads ran at once, or one failed
    tooSoon,        \* an action began within the cooldown of a recorded one
    tooEarly        \* an action began before the condition was stable

timers == <<recorded, unstableAt, overlapped, tooSoon, tooEarly>>
vars == <<row, entries, jobs, made, tick, edit, clock, crashes, timers, spoiled>>

Never == 0
IdleTick == [pc |-> "idle", since |-> Never, last |-> Never, now |-> Never]
IdleEdit == [pc |-> "idle", last |-> Never, seen |-> FALSE]
Active == row.present /\ row.enabled

(* NewScheduler and Start on a rule that never ran. *)
Init ==
    /\ row = [present |-> TRUE, enabled |-> TRUE, since |-> Never, last |-> Never]
    /\ entries = {1} /\ jobs = 1 /\ made = 1
    /\ tick = [t \in Ticks |-> IdleTick]
    /\ edit = [e \in Edits |-> IdleEdit]
    /\ clock = 1 /\ crashes = 0
    /\ recorded = Never /\ unstableAt = 1
    /\ overlapped = FALSE /\ spoiled = FALSE
    /\ tooSoon = FALSE /\ tooEarly = FALSE

Running == {t \in Ticks : tick[t].pc # "idle"}
Changing == {e \in Edits : edit[e].pc = "write"}
-----------------------------------------------------------------------------
(* A tick: addJobInternal's closure and executeJob *)

(* The entry is due; the closure reads the row.  The rule may have been    *)
(* deleted; whether it is enabled is not looked at.                        *)
Fire(t) ==
    /\ tick[t].pc = "idle" /\ entries # {} /\ row.present
    /\ tick' = [tick EXCEPT ![t] = [pc |-> "read", since |-> row.since,
                                    last |-> row.last, now |-> Never]]
    /\ overlapped' = (overlapped \/ Running # {} \/ Changing # {})
    /\ UNCHANGED <<row, entries, jobs, made, edit, clock, crashes, recorded,
                   unstableAt, tooSoon, tooEarly, spoiled>>

(* UpdateCronJobRuntime: no row, no effect. *)
Runtime(since, last) ==
    row' = IF row.present THEN [row EXCEPT !.since = since, !.last = last] ELSE row

(* executeJob: the rule's server cannot be read; nothing is recorded. *)
NoServer(t) ==
    /\ tick[t].pc = "read"
    /\ tick' = [tick EXCEPT ![t] = IdleTick]
    /\ UNCHANGED <<row, entries, jobs, made, edit, clock, crashes, timers, spoiled>>

(* Mutant of NotTrue: the timer survives a condition that is not true. *)
NotTrueKeeps(t) ==
    /\ tick[t].pc = "read"
    /\ tick' = [tick EXCEPT ![t].pc = "not true", ![t].now = clock]
    /\ UNCHANGED <<row, entries, jobs, made, edit, clock, crashes, timers, spoiled>>

(* evaluateCondition: the condition is false or in error, or telemetry it  *)
(* needs is stale or unknown.  The timer will be reset.                    *)
NotTrue(t) ==
    /\ tick[t].pc = "read"
    /\ tick' = [tick EXCEPT ![t].pc = "not true", ![t].now = clock,
                            ![t].since = Never]
    /\ UNCHANGED <<row, entries, jobs, made, edit, clock, crashes, timers, spoiled>>

(* evaluateCondition: the condition is true.  The stability timer starts   *)
(* or goes on; when it is over the cooldown is looked at.  A failed write  *)
(* of the timer that starts is ignored.                                    *)
IsTrue(t) ==
    LET job == tick[t]
        starts == Stability > 0 /\ job.since = Never
        since == IF starts THEN clock ELSE job.since
        waiting == Stability > 0 /\ clock - since < Stability
        cooling == Cooldown > 0 /\ job.last # Never /\ clock - job.last < Cooldown
    IN  /\ job.pc = "read"
        /\ \/ starts /\ Runtime(since, job.last)
           \/ UNCHANGED row
        /\ tick' = [tick EXCEPT ![t] =
               [pc |-> IF waiting \/ cooling THEN "finish" ELSE "engine",
                since |-> IF waiting THEN since ELSE Never,
                last |-> job.last, now |-> clock]]
        /\ UNCHANGED <<entries, jobs, made, edit, clock, crashes, timers, spoiled>>

(* Engine.Evaluate does not allow the action. *)
Refused(t) ==
    /\ tick[t].pc = "engine"
    /\ tick' = [tick EXCEPT ![t].pc = "finish"]
    /\ UNCHANGED <<row, entries, jobs, made, edit, clock, crashes, timers, spoiled>>

(* It does, and the executor begins. *)
Act(t) ==
    /\ tick[t].pc = "engine"
    /\ tick' = [tick EXCEPT ![t].pc = "acting"]
    /\ tooSoon' = (tooSoon \/ (recorded # Never /\ clock - recorded < Cooldown))
    /\ tooEarly' = (tooEarly \/ clock - unstableAt < Stability)
    /\ UNCHANGED <<row, entries, jobs, made, edit, clock, crashes, recorded,
                   unstableAt, overlapped, spoiled>>

ActionFails(t) ==
    /\ tick[t].pc = "acting"
    /\ tick' = [tick EXCEPT ![t].pc = "finish"]
    /\ UNCHANGED <<row, entries, jobs, made, edit, clock, crashes, timers, spoiled>>

(* LastActionAt becomes the time the tick began. *)
ActionSucceeds(t) ==
    /\ tick[t].pc = "acting"
    /\ tick' = [tick EXCEPT ![t].pc = "succeeded", ![t].last = tick[t].now]
    /\ UNCHANGED <<row, entries, jobs, made, edit, clock, crashes, timers, spoiled>>

Finishing == {"finish", "not true", "succeeded"}

(* History: what a tick that ends with a write makes known. *)
Record(t) ==
    /\ recorded' = IF tick[t].pc = "succeeded" /\ tick[t].now > recorded
                   THEN tick[t].now ELSE recorded
    /\ unstableAt' = IF tick[t].pc = "not true" /\ tick[t].now > unstableAt
                     THEN tick[t].now ELSE unstableAt

(* Mutant of Finish: only a success keeps the time of the last action. *)
FinishForgets(t) ==
    /\ tick[t].pc \in Finishing
    /\ Runtime(tick[t].since,
               IF tick[t].pc = "succeeded" THEN tick[t].last ELSE Never)
    /\ Record(t)
    /\ tick' = [tick EXCEPT ![t] = IdleTick]
    /\ UNCHANGED <<entries, jobs, made, edit, clock, crashes, overlapped, tooSoon,
                   tooEarly, spoiled>>

(* finishJob writes both timers of the copy back. *)
Finish(t) ==
    /\ tick[t].pc \in Finishing
    /\ Runtime(tick[t].since, tick[t].last)
    /\ Record(t)
    /\ tick' = [tick EXCEPT ![t] = IdleTick]
    /\ UNCHANGED <<entries, jobs, made, edit, clock, crashes, overlapped, tooSoon,
                   tooEarly, spoiled>>

(* The write fails; the error is ignored. *)
FinishLost(t) ==
    /\ tick[t].pc \in Finishing
    /\ tick' = [tick EXCEPT ![t] = IdleTick]
    /\ UNCHANGED <<row, entries, jobs, made, edit, clock, crashes, timers, spoiled>>
-----------------------------------------------------------------------------
(* The handlers: a change of the row, then LoadJobs *)

(* UpdateCronJob reads the row to keep its LastActionAt ... *)
EditRead(e) ==
    /\ edit[e].pc = "idle" /\ row.present
    /\ edit' = [edit EXCEPT ![e] = [pc |-> "write", last |-> row.last, seen |-> FALSE]]
    /\ overlapped' = (overlapped \/ Running # {})
    /\ UNCHANGED <<row, entries, jobs, made, tick, clock, crashes, recorded,
                   unstableAt, tooSoon, tooEarly, spoiled>>

(* ... and writes the form, without a ConditionTrueSince. *)
EditWrite(e) ==
    /\ edit[e].pc = "write"
    /\ \E on \in BOOLEAN :
          row' = IF row.present
                 THEN [present |-> TRUE, enabled |-> on, since |-> Never,
                       last |-> edit[e].last]
                 ELSE row
    /\ edit' = [edit EXCEPT ![e].pc = "list"]
    /\ unstableAt' = clock
    /\ UNCHANGED <<entries, jobs, made, tick, clock, crashes, recorded, overlapped,
                   tooSoon, tooEarly, spoiled>>

(* The form is not valid, or the write fails: nothing is reloaded. *)
EditFails(e) ==
    /\ edit[e].pc = "write"
    /\ edit' = [edit EXCEPT ![e] = IdleEdit]
    /\ UNCHANGED <<row, entries, jobs, made, tick, clock, crashes, timers, spoiled>>

(* The rule's server is deleted, and the row with it.  Nothing is reloaded. *)
DeleteServer ==
    /\ row.present
    /\ row' = [row EXCEPT !.present = FALSE]
    /\ UNCHANGED <<entries, jobs, made, tick, edit, clock, crashes, timers, spoiled>>

(* DeleteCronJob, or a change of other rules (AddCronJob, the inventory's  *)
(* afterApply).                                                            *)
DeleteOrOther(e) ==
    /\ edit[e].pc = "idle"
    /\ \/ row' = [row EXCEPT !.present = FALSE]
       \/ UNCHANGED row
    /\ edit' = [edit EXCEPT ![e].pc = "list"]
    /\ UNCHANGED <<entries, jobs, made, tick, clock, crashes, timers, spoiled>>

(* ListEnabledCronJobs; an error ends the reload and is reported. *)
LoadList(e) ==
    /\ edit[e].pc = "list"
    /\ edit' = [edit EXCEPT ![e] = [@ EXCEPT !.pc = "remove", !.seen = Active]]
    /\ spoiled' = (spoiled \/ \E f \in Edits : edit[f].pc \in {"remove", "add"})
    /\ UNCHANGED <<row, entries, jobs, made, tick, clock, crashes, timers>>

LoadFails(e) ==
    /\ edit[e].pc = "list"
    /\ edit' = [edit EXCEPT ![e] = IdleEdit]
    /\ spoiled' = TRUE
    /\ UNCHANGED <<row, entries, jobs, made, tick, clock, crashes, timers>>

(* Mutant of LoadRemove: the old entries stay. *)
LoadKeeps(e) ==
    /\ edit[e].pc = "remove"
    /\ edit' = [edit EXCEPT ![e].pc = "add"]
    /\ UNCHANGED <<row, entries, jobs, made, tick, clock, crashes, timers, spoiled>>

(* The entries in the map are removed from the library ... *)
LoadRemove(e) ==
    /\ edit[e].pc = "remove"
    /\ entries' = entries \ {jobs}
    /\ edit' = [edit EXCEPT ![e].pc = "add"]
    /\ UNCHANGED <<row, jobs, made, tick, clock, crashes, timers, spoiled>>

(* ... and a new map gets the rules that were enabled when they were       *)
(* listed.                                                                 *)
LoadAdd(e) ==
    /\ edit[e].pc = "add"
    /\ IF edit[e].seen
       THEN /\ made < MaxEntries
            /\ made' = made + 1
            /\ jobs' = made + 1
            /\ entries' = entries \cup {made + 1}
       ELSE jobs' = 0 /\ UNCHANGED <<made, entries>>
    /\ edit' = [edit EXCEPT ![e] = IdleEdit]
    /\ UNCHANGED <<row, tick, clock, crashes, timers, spoiled>>
-----------------------------------------------------------------------------
(* Time passes; HOGS restarts and loads the rules that are enabled. *)

Advance ==
    /\ clock < MaxClock
    /\ clock' = clock + 1
    /\ UNCHANGED <<row, entries, jobs, made, tick, edit, crashes, timers, spoiled>>

Crash ==
    /\ crashes < MaxCrashes /\ made < MaxEntries
    /\ crashes' = crashes + 1
    /\ tick' = [t \in Ticks |-> IdleTick]
    /\ edit' = [e \in Edits |-> IdleEdit]
    /\ made' = made + 1
    /\ jobs' = IF Active THEN made + 1 ELSE 0
    /\ entries' = IF Active THEN {made + 1} ELSE {}
    /\ UNCHANGED <<row, clock, timers, spoiled>>

Next ==
    \/ \E t \in Ticks :
          \/ Fire(t) \/ NoServer(t) \/ NotTrue(t) \/ IsTrue(t) \/ Refused(t) \/ Act(t)
          \/ ActionFails(t) \/ ActionSucceeds(t) \/ Finish(t) \/ FinishLost(t)
    \/ \E e \in Edits :
          \/ EditRead(e) \/ EditWrite(e) \/ EditFails(e) \/ DeleteOrOther(e)
          \/ LoadList(e) \/ LoadFails(e) \/ LoadRemove(e) \/ LoadAdd(e)
    \/ DeleteServer \/ Advance \/ Crash

Spec == Init /\ [][Next]_vars

(* No handler is special. *)
EditSymmetry == Permutations(Edits)
-----------------------------------------------------------------------------
(* Properties *)

Times == 0..MaxClock

(* Types of the row, the ticks and the handlers; a tick's clock reading is *)
(* not in the future.                                                      *)
TypeOK ==
    /\ row \in [present : BOOLEAN, enabled : BOOLEAN, since : Times, last : Times]
    /\ entries \subseteq 1..made /\ jobs \in 0..made /\ made \in 1..MaxEntries
    /\ tick \in [Ticks -> [pc : {"idle", "read", "engine", "acting"}
                                    \cup Finishing,
                           since : Times, last : Times, now : 0..clock]]
    /\ edit \in [Edits -> [pc : {"idle", "write", "list", "remove", "add"},
                           last : Times, seen : BOOLEAN]]
    /\ clock \in 1..MaxClock /\ crashes \in 0..MaxCrashes
    /\ recorded \in Times /\ unstableAt \in Times
    /\ {overlapped, spoiled, tooSoon, tooEarly} \subseteq BOOLEAN

(* No action begins within the cooldown of a successful action that        *)
(* finishJob recorded, restarts included (src/cron/scheduler.go:145-155;   *)
(* docs/AUTOMATION.md:37-38).                                              *)
CooldownHolds == ~tooSoon

(* An action begins only if no evaluation that was recorded in the last    *)
(* stability period found the condition not true, and the rule was not     *)
(* changed in it (src/cron/scheduler.go:251-267, 270-273).                 *)
StabilityHolds == ~tooEarly

(* Both timers are kept while the rule's ticks overlap neither each other  *)
(* nor a change of the rule: the copies that finishJob and the form        *)
(* handlers write back are then not stale.                                 *)
TimersHoldAlone == ~overlapped => CooldownHolds /\ StabilityHolds

(* When no reload is under way the cron library fires a rule that exists   *)
(* if and only if it is enabled, by one entry, unless two reloads ran at   *)
(* once or one failed (src/cron/scheduler.go:84-101).                      *)
ScheduleFollowsRule ==
    /\ ~spoiled /\ row.present
    /\ \A e \in Edits : edit[e].pc \in {"idle", "write"}
    => entries = IF row.enabled THEN {jobs} ELSE {}
=============================================================================
