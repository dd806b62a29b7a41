------------------------------- MODULE Outbox -------------------------------
(***************************************************************************)
(* The event publisher of package events (src/events/events.go): events go *)
(* to the SQLite table event_outbox in the transaction that assigns their  *)
(* producer sequence, and one flusher goroutine appends them to the PicoMQ *)
(* server with the idempotent producer headers (id, epoch, seq).           *)
(*                                                                         *)
(* Callers of Emit run concurrently with the flusher; a request may time   *)
(* out in the client and still reach the server later; the process may     *)
(* crash between any two steps.  Two faults of the surroundings are        *)
(* actions of their own, because flushStream has a branch for them: the    *)
(* server may forget the producer's state, and the database may be         *)
(* replaced by an older backup.                                            *)
(*                                                                         *)
(* Events of a stream are numbered in the order of acceptance; the number  *)
(* stands for the body and for the row's AUTOINCREMENT id.                 *)
(***************************************************************************)
EXTENDS Naturals, Sequences, FiniteSets

CONSTANTS
    Streams,        \* stream names
    Registry,       \* the stream "_registry" of definitions
    NDefs,          \* how many definition records queueDefinitions appends
    BatchLimit,     \* LIMIT of the batch query (200 in the code)
    MaxEvents,      \* bound: events emitted per stream
    MaxCrashes,     \* bound: crashes of the process
    MaxForgets,     \* bound: times the server forgets a producer
    MaxRestores,    \* bound: times the database is replaced by its backup
    MaxClock        \* bound: the wall clock, in units that change an epoch

ASSUME ConstantsAssumption ==
    /\ Registry \in Streams
    /\ NDefs \in Nat /\ BatchLimit \in Nat \ {0} /\ MaxEvents \in Nat
    /\ MaxCrashes \in Nat /\ MaxForgets \in Nat /\ MaxRestores \in Nat
    /\ MaxClock \in Nat \ {0}

VARIABLES
    \* the database
    producers,      \* producers[s]: row of event_producers, NoRow if absent
    outbox,         \* outbox[s]: rows of event_outbox, a set of [ev, seq]
    digest,         \* event_registry holds the digest of the definitions
    \* the process
    made,           \* Publisher.made
    fpc,            \* where the flusher (or New, before it) stands
    defs,           \* definitions queued by this run of queueDefinitions
    todo,           \* streams this Flush still has to visit
    cur, fepoch, batch, item,   \* locals of flushStream
    \* the server and the network
    server,         \* server[s]: epoch and expected sequence of this producer
    log,            \* log[s]: records of the stream
    late,           \* requests the client gave up on that may still arrive
    \* the surroundings
    clock, backup, crashes, forgets, restores,
    \* history
    accepted,       \* accepted[s]: events accepted so far
    floor           \* floor[s]: accepted[s] when the database was last restored

dbVars   == <<producers, outbox, digest>>
procVars == <<made, fpc, defs, todo, cur, fepoch, batch, item>>
srvVars  == <<server, log>>
envVars  == <<clock, backup, crashes, forgets, restores>>
histVars == <<accepted, floor>>
vars == <<dbVars, procVars, srvVars, late, envVars, histVars>>

NoRow == [epoch |-> 0, next |-> 0]          \* no row: clock starts at 1
Unknown == [epoch |-> 0, expected |-> 0]    \* the server never saw the producer
NoItem == [ev |-> 0, seq |-> 0]
NoStream == "none"
NoBackup == [taken |-> FALSE, producers |-> [s \in Streams |-> NoRow],
             outbox |-> [s \in Streams |-> {}], digest |-> FALSE]

Row == [ev : Nat, seq : Nat]
Request == [stream : Streams, epoch : Nat, seq : Nat, ev : Nat]

Init ==
    /\ producers = [s \in Streams |-> NoRow]
    /\ outbox = [s \in Streams |-> {}]
    /\ digest = FALSE
    /\ made = {} /\ fpc = "boot" /\ defs = 0
    /\ todo = {} /\ cur = NoStream /\ fepoch = 0 /\ batch = {} /\ item = NoItem
    /\ server = [s \in Streams |-> Unknown]
    /\ log = [s \in Streams |-> <<>>]
    /\ late = {}
    /\ clock = 1 /\ backup = NoBackup
    /\ crashes = 0 /\ forgets = 0 /\ restores = 0
    /\ accepted = [s \in Streams |-> 0]
    /\ floor = [s \in Streams |-> 0]
-----------------------------------------------------------------------------
(* Accepting events *)

(* enqueue: one transaction creates the producer row if there is none,     *)
(* takes its next sequence and stores the event.  A transaction that fails *)
(* stores nothing (Emit logs it): no step.                                 *)
Enqueue(s) ==
    LET row == producers[s] IN
    /\ producers' = [producers EXCEPT ![s] =
           [epoch |-> IF row = NoRow THEN clock ELSE row.epoch,
            next |-> row.next + 1]]
    /\ outbox' = [outbox EXCEPT ![s] =
           @ \cup {[ev |-> accepted[s] + 1, seq |-> row.next]}]
    /\ accepted' = [accepted EXCEPT ![s] = @ + 1]

(* Emit, by any goroutine once New returned. *)
Emit(s) ==
    /\ fpc # "boot"
    /\ s # Registry /\ accepted[s] < MaxEvents
    /\ Enqueue(s)
    /\ UNCHANGED <<digest, procVars, srvVars, late, envVars, floor>>

(* queueDefinitions: each definition is a transaction of its own ... *)
QueueDefinition ==
    /\ fpc = "boot" /\ ~digest /\ defs < NDefs
    /\ Enqueue(Registry)
    /\ defs' = defs + 1
    /\ UNCHANGED <<digest, made, fpc, todo, cur, fepoch, batch, item,
                   srvVars, late, envVars, floor>>

(* Mutant of StoreDigest: the digest is stored before the definitions. *)
DigestAnyTime ==
    /\ fpc = "boot" /\ ~digest
    /\ digest' = TRUE /\ fpc' = "idle" /\ defs' = 0
    /\ UNCHANGED <<producers, outbox, made, todo, cur, fepoch, batch, item,
                   srvVars, late, envVars, histVars>>

(* ... and the digest is stored after the last one. *)
StoreDigest ==
    /\ fpc = "boot" /\ ~digest /\ defs = NDefs
    /\ digest' = TRUE /\ fpc' = "idle" /\ defs' = 0
    /\ UNCHANGED <<producers, outbox, made, todo, cur, fepoch, batch, item,
                   srvVars, late, envVars, histVars>>

(* An unchanged digest queues nothing. *)
DefinitionsUnchanged ==
    /\ fpc = "boot" /\ digest
    /\ fpc' = "idle"
    /\ UNCHANGED <<dbVars, made, defs, todo, cur, fepoch, batch, item,
                   srvVars, late, envVars, histVars>>
-----------------------------------------------------------------------------
(* The PicoMQ server, as flushStream and the fake of events_test.go use it *)

Expected(sv, e) == IF e = sv.epoch THEN sv.expected ELSE 0

(* "held" and "append" are answered 200; the others 409, "ahead" with a    *)
(* Pico-Expected-Seq above the sequence sent.                              *)
Verdict(sv, e, q) ==
    IF e < sv.epoch THEN "stale"
    ELSE LET x == Expected(sv, e) IN
         IF q + 1 = x THEN "held"
         ELSE IF q = x THEN "append"
         ELSE IF q < x THEN "ahead" ELSE "gap"

Serve(r) ==
    IF Verdict(server[r.stream], r.epoch, r.seq) = "append"
    THEN /\ server' = [server EXCEPT ![r.stream] =
                           [epoch |-> r.epoch, expected |-> r.seq + 1]]
         /\ log' = [log EXCEPT ![r.stream] = Append(@, r.ev)]
    ELSE UNCHANGED srvVars

(* A request its client timed out on reaches the server after all, perhaps *)
(* after a retry.                                                          *)
LateArrival ==
    /\ \E r \in late : Serve(r)
    /\ UNCHANGED <<dbVars, procVars, late, envVars, histVars>>
-----------------------------------------------------------------------------
(* The flusher.  Run starts a Flush on the ticker or a wake-up; the ticker *)
(* alone always allows one, so the wake channel adds no behaviour.         *)

FlushStart ==
    /\ fpc = "idle"
    /\ \E s \in Streams : outbox[s] # {}
    /\ todo' = {s \in Streams : outbox[s] # {}}
    /\ fpc' = "pick"
    /\ UNCHANGED <<dbVars, made, defs, cur, fepoch, batch, item,
                   srvVars, late, envVars, histVars>>

FlushEnd ==
    /\ fpc = "pick" /\ todo = {}
    /\ fpc' = "idle"
    /\ UNCHANGED <<dbVars, made, defs, todo, cur, fepoch, batch, item,
                   srvVars, late, envVars, histVars>>

PickStream ==
    /\ fpc = "pick"
    /\ \E s \in todo :
          /\ cur' = s
          /\ todo' = todo \ {s}
          /\ fpc' = IF s \in made THEN "read" ELSE "create"
    /\ UNCHANGED <<dbVars, made, defs, fepoch, batch, item,
                   srvVars, late, envVars, histVars>>

(* createStream, before the first append of this process to the stream. *)
CreateStream ==
    /\ fpc = "create"
    /\ made' = made \cup {cur}
    /\ fpc' = "read"
    /\ UNCHANGED <<dbVars, defs, todo, cur, fepoch, batch, item,
                   srvVars, late, envVars, histVars>>

(* Mutant of Abandon: flushStream is tried again without its stream. *)
AbandonRetries ==
    /\ fpc' = "read"
    /\ batch' = {} /\ item' = NoItem /\ fepoch' = 0 /\ cur' = NoStream
    /\ UNCHANGED <<made, defs, todo>>

(* flushStream returns an error: Flush goes on with the next stream. *)
Abandon ==
    /\ fpc' = "pick"
    /\ batch' = {} /\ item' = NoItem /\ fepoch' = 0 /\ cur' = NoStream
    /\ UNCHANGED <<made, defs, todo>>

(* createStream fails, or a query for the epoch or the batch does. *)
PrepareFails ==
    /\ fpc \in {"create", "read"}
    /\ Abandon
    /\ UNCHANGED <<dbVars, srvVars, late, envVars, histVars>>

(* The epoch, which only the flusher changes, and                          *)
(* SELECT ... ORDER BY seq LIMIT BatchLimit.                               *)
Batch(rows) ==
    {r \in rows : Cardinality({q \in rows : q.seq < r.seq}) < BatchLimit}

ReadBatch ==
    /\ fpc = "read"
    /\ fepoch' = producers[cur].epoch
    /\ batch' = Batch(outbox[cur])
    /\ fpc' = "send"
    /\ UNCHANGED <<dbVars, made, defs, todo, cur, item,
                   srvVars, late, envVars, histVars>>

IsFirst(r, rows) == r \in rows /\ \A q \in rows : r.seq <= q.seq

AppendOf(r) == [stream |-> cur, epoch |-> fepoch, seq |-> r.seq, ev |-> r.ev]

(* Mutant of Acked: every conflict that carries an expected sequence is    *)
(* taken for an event the server already holds.                            *)
AckedGap(verdict) == verdict \in {"held", "append", "ahead", "gap"}

(* Status 200, or 409 with expectedAfter: the server holds the event. *)
Acked(verdict) == verdict \in {"held", "append", "ahead"}

(* An append that is answered. *)
SendAnswered ==
    /\ fpc = "send"
    /\ \E r \in batch :
          /\ IsFirst(r, batch)
          /\ item' = r
          /\ Serve(AppendOf(r))
          /\ fpc' = IF Acked(Verdict(server[cur], fepoch, r.seq))
                    THEN "delete" ELSE "renumber"
    /\ UNCHANGED <<dbVars, made, defs, todo, cur, fepoch, batch,
                   late, envVars, histVars>>

(* Mutant of SendFails: a transport error is handled like a conflict. *)
SendFailsRenumbering ==
    /\ fpc = "send"
    /\ \E r \in batch :
          /\ IsFirst(r, batch)
          /\ late' = late \cup {AppendOf(r)}
    /\ fpc' = "renumber"
    /\ UNCHANGED <<dbVars, made, defs, todo, cur, fepoch, batch, item,
                   srvVars, envVars, histVars>>

(* Mutant of SendFails: the row is deleted whatever the answer was. *)
SendFailsDropping ==
    /\ fpc = "send"
    /\ \E r \in batch :
          /\ IsFirst(r, batch)
          /\ late' = late \cup {AppendOf(r)}
          /\ outbox' = [outbox EXCEPT ![cur] = @ \ {r}]
    /\ Abandon
    /\ UNCHANGED <<producers, digest, srvVars, envVars, histVars>>

(* An append that fails in the client (timeout, connection, 5xx): the      *)
(* request may be lost, in flight, or already handled.                     *)
SendFails ==
    /\ fpc = "send"
    /\ \E r \in batch :
          /\ IsFirst(r, batch)
          /\ late' = late \cup {AppendOf(r)}
    /\ Abandon
    /\ UNCHANGED <<dbVars, srvVars, envVars, histVars>>

DeleteRow ==
    /\ fpc = "delete"
    /\ outbox' = [outbox EXCEPT ![cur] = {r \in @ : r.ev # item.ev}]
    /\ IF batch = {item} THEN Abandon
       ELSE /\ batch' = batch \ {item}
            /\ item' = NoItem
            /\ fpc' = "send"
            /\ UNCHANGED <<made, defs, todo, cur, fepoch>>
    /\ UNCHANGED <<producers, digest, srvVars, late, envVars, histVars>>

DeleteFails ==
    /\ fpc = "delete"
    /\ Abandon
    /\ UNCHANGED <<dbVars, srvVars, late, envVars, histVars>>

(* renumber fails and its transaction is rolled back.  As a mutant of      *)
(* Renumber: the commit is missing.                                        *)
RenumberFails ==
    /\ fpc = "renumber"
    /\ Abandon
    /\ UNCHANGED <<dbVars, srvVars, late, envVars, histVars>>

(* Mutant of Rank: the rows are read newest first. *)
RankReversed(r, rows) == Cardinality({q \in rows : q.seq > r.seq})

Rank(r, rows) == Cardinality({q \in rows : q.seq < r.seq})

(* renumber: the queued rows become 0, 1, ... of a newer epoch, in one     *)
(* transaction.                                                            *)
Renumber ==
    /\ fpc = "renumber"
    /\ LET rows == outbox[cur]
           old == producers[cur].epoch
       IN  /\ outbox' = [outbox EXCEPT ![cur] =
                             {[ev |-> r.ev, seq |-> Rank(r, rows)] : r \in rows}]
           /\ producers' = [producers EXCEPT ![cur] =
                  [epoch |-> IF clock <= old THEN old + 1 ELSE clock,
                   next |-> Cardinality(rows)]]
    /\ Abandon
    /\ UNCHANGED <<digest, srvVars, late, envVars, histVars>>
-----------------------------------------------------------------------------
(* The surroundings *)

(* Seconds pass.  Only whether a later epoch is newer counts, and only     *)
(* renumber compares: it is enough that time passes before it reads the    *)
(* clock.                                                                  *)
Tick ==
    /\ fpc = "renumber"
    /\ clock < MaxClock
    /\ clock' = clock + 1
    /\ UNCHANGED <<dbVars, procVars, srvVars, late, backup, crashes, forgets,
                   restores, histVars>>

(* The process dies and New runs again: all but the database is lost. *)
Restart ==
    /\ made' = {} /\ fpc' = "boot" /\ defs' = 0
    /\ todo' = {} /\ cur' = NoStream /\ fepoch' = 0 /\ batch' = {}
    /\ item' = NoItem

Crash ==
    /\ crashes < MaxCrashes
    /\ crashes' = crashes + 1
    /\ Restart
    /\ UNCHANGED <<dbVars, srvVars, late, clock, backup, forgets, restores,
                   histVars>>

Forget(s) ==
    /\ forgets < MaxForgets
    /\ server[s] # Unknown
    /\ forgets' = forgets + 1
    /\ server' = [server EXCEPT ![s] = Unknown]
    /\ UNCHANGED <<dbVars, procVars, log, late, clock, backup, crashes,
                   restores, histVars>>

TakeBackup ==
    /\ restores < MaxRestores /\ ~backup.taken
    /\ backup' = [taken |-> TRUE, producers |-> producers, outbox |-> outbox,
                  digest |-> digest]
    /\ UNCHANGED <<dbVars, procVars, srvVars, late, clock, crashes, forgets,
                   restores, histVars>>

(* Putting a backup back takes longer than the second an epoch counts. *)
RestoreDatabase ==
    /\ restores < MaxRestores /\ backup.taken
    /\ clock' = clock + 1
    /\ restores' = restores + 1
    /\ producers' = backup.producers
    /\ outbox' = backup.outbox
    /\ digest' = backup.digest
    /\ backup' = NoBackup
    /\ floor' = accepted
    /\ Restart
    /\ UNCHANGED <<srvVars, late, crashes, forgets, accepted>>

(* Everything the code does, with callers, crashes and an unreliable       *)
(* network.                                                                *)
CoreNext ==
    \/ \E s \in Streams : Emit(s)
    \/ QueueDefinition \/ StoreDigest \/ DefinitionsUnchanged
    \/ FlushStart \/ FlushEnd \/ PickStream \/ CreateStream \/ PrepareFails
    \/ ReadBatch \/ SendAnswered \/ SendFails \/ DeleteRow \/ DeleteFails
    \/ Renumber \/ RenumberFails
    \/ LateArrival \/ Tick \/ Crash

(* The same with a forgetful server and a database put back from a backup. *)
Next ==
    \/ CoreNext
    \/ \E s \in Streams : Forget(s)
    \/ TakeBackup \/ RestoreDatabase

(* The goroutines New and Run make progress; a call that can fail          *)
(* succeeds if it is tried again and again.                                *)
Progress ==
    /\ WF_vars(QueueDefinition \/ StoreDigest \/ DefinitionsUnchanged)
    /\ WF_vars(FlushStart) /\ WF_vars(FlushEnd) /\ WF_vars(PickStream)
    /\ \A s \in Streams : /\ SF_vars((CreateStream \/ ReadBatch) /\ cur = s)
                          /\ SF_vars(SendAnswered /\ cur = s)
                          /\ SF_vars(DeleteRow /\ cur = s)
                          /\ SF_vars(Renumber /\ cur = s)

CoreSpec == Init /\ [][CoreNext]_vars
FairCoreSpec == CoreSpec /\ Progress
Spec == Init /\ [][Next]_vars
FairSpec == Spec /\ Progress
-----------------------------------------------------------------------------
(* Properties *)

FlusherPC == {"boot", "idle", "pick", "create", "read", "send", "delete",
              "renumber"}

DatabaseType ==
    /\ producers \in [Streams -> [epoch : Nat, next : Nat]]
    /\ outbox \in [Streams -> SUBSET Row]
    /\ \A s \in Streams : IsFiniteSet(outbox[s])
    /\ digest \in BOOLEAN

FlusherType ==
    /\ made \subseteq Streams /\ fpc \in FlusherPC /\ defs \in 0..NDefs
    /\ todo \subseteq Streams /\ cur \in Streams \cup {NoStream}
    /\ fepoch \in Nat /\ batch \subseteq Row /\ item \in Row
    /\ fpc \in {"create", "read", "send", "delete", "renumber"} =>
           cur \in Streams

NetworkType ==
    /\ server \in [Streams -> [epoch : Nat, expected : Nat]]
    /\ log \in [Streams -> Seq(Nat)]
    /\ late \subseteq Request

HistoryType ==
    /\ clock \in Nat \ {0}
    /\ accepted \in [Streams -> Nat]
    /\ floor \in [Streams -> Nat]

(* Types of the tables, of the flusher's locals, of the server and of the  *)
(* history; a stream is in hand wherever flushStream uses one.             *)
TypeOK == DatabaseType /\ FlusherType /\ NetworkType /\ HistoryType

(* Events are delivered exactly once and in order: a stream is a prefix of *)
(* the events accepted for it, whatever crashes, retries and late requests *)
(* did (src/events/events.go:5-9).                                         *)
PublishedInOrder ==
    \A s \in Streams :
        /\ Len(log[s]) <= accepted[s]
        /\ \A i \in 1..Len(log[s]) : log[s][i] = i

(* An accepted event is in the outbox until the stream holds it; restoring *)
(* the database can lose what was accepted before it, never what is        *)
(* accepted after it (src/events/events.go:262-263).                       *)
NoEventLost ==
    \A s \in Streams : \A e \in (floor[s] + 1)..accepted[s] :
        \/ \E r \in outbox[s] : r.ev = e
        \/ \E i \in 1..Len(log[s]) : log[s][i] = e

(* The same for a database that was never restored. *)
NoEventLostUnrestored == restores = 0 => NoEventLost

(* The sequence numbers of a stream's queue are distinct, below next_seq   *)
(* and in the order of acceptance, across renumbering, so that ORDER BY    *)
(* seq delivers in that order (src/events/events.go:238, 285-324).         *)
QueueOrdered ==
    \A s \in Streams : \A r \in outbox[s] :
        /\ r.seq < producers[s].next
        /\ \A q \in outbox[s] : r.ev < q.ev => r.seq < q.seq

(* The digest is stored only after every definition is queued, so that a   *)
(* crash during registration registers again rather than never             *)
(* (src/events/events.go:367-407).                                         *)
DefinitionsQueued == digest => accepted[Registry] >= NDefs

(* Flushing does not get stuck: once the callers are silent every queue    *)
(* empties, whatever the server has forgotten and however often the queue  *)
(* was renumbered (src/events/events.go:199-277, 283-324).                 *)
OutboxDrains == []<>(\A s \in Streams : outbox[s] = {})

(* The publisher implements the ordered exactly-once log: a consumer sees   *)
(* the streams, and what was accepted is the rows that Emit committed.     *)
Promise == INSTANCE EventLog
    WITH Streams <- Streams, accepted <- accepted, log <- log
ImplementsEventLog == Promise!FairSpec
=============================================================================
