------------------------------- MODULE Gateway ------------------------------
(***************************************************************************)
(* The on-demand Minecraft gateway of the node agent                       *)
(* (src/cmd/hogs-agent/gateway.go): connections, wake requests, the        *)
(* goroutine that starts the unit and waits for it, the status handler     *)
(* that refreshes the state, and the file of boot samples.                 *)
(*                                                                         *)
(* Every probe of the backend and every query of the unit happens outside  *)
(* g.mu, so what it found may be stale when it is used.  The wake takes    *)
(* the unit's mutex, which the operations of module AgentOps hold.         *)
(*                                                                         *)
(* Durations are flags that expire at any time: the cooldown of the wake,  *)
(* the rate limit of a source address, the deadline of the readiness loop. *)
(* A boot sample is what the backend was when its measurement began.       *)
(***************************************************************************)
EXTENDS Naturals, Sequences, FiniteSets

CONSTANTS
    Clients,        \* source addresses
    Watchers,       \* bound: goroutines of awaitReadiness and saveState at a time
    MaxSamples,     \* maxBootSamples (20 in the code)
    MaxEvents       \* bound: ends of the unit, operations on it and restarts
                    \* of the agent

ASSUME GatewayAssumption ==
    /\ MaxSamples \in Nat \ {0}
    /\ MaxEvents \in Nat
    /\ Watchers \cap {"none", "op"} = {}

VARIABLES
    backend,        \* the unit is active
    listening,      \* the backend accepts connections
    mutex,          \* holder of the unit's mutex: "none", "op" or a watcher
    stopped,        \* the operation that holds the mutex stopped the unit
    state, inFlight, cooling, limited, boots,   \* the gateway's fields
    bootFrom,       \* the backend when bootStartedAt was set, during a start
    file,           \* the samples in the state file
    conn,           \* conn[c]: a connection, and the unit as it last saw it
    poll,           \* a status request, likewise
    watch,          \* watch[w]: a goroutine and its snapshot of the samples
    events,
    \* history
    disturbed,      \* the gateway started the unit during an operation
    unsaved         \* a save failed, or two ran at once

gateway == <<state, inFlight, cooling, limited, boots, bootFrom>>
host == <<backend, listening, mutex, stopped>>
gatewayVars == <<host, gateway, file, conn, poll, watch, events, disturbed, unsaved>>

Idle == [pc |-> "idle", active |-> FALSE]
NoWatch == [pc |-> "idle", snap |-> <<>>]
Backend == IF listening THEN "up" ELSE "down"

(* newMinecraftGateway on a server that is stopped, and an empty file. *)
GatewayInit ==
    /\ backend = FALSE /\ listening = FALSE /\ mutex = "none" /\ stopped = FALSE
    /\ state = "stopped" /\ inFlight = FALSE /\ cooling = FALSE
    /\ limited = {} /\ boots = <<>> /\ bootFrom = "none" /\ file = <<>>
    /\ conn = [c \in Clients |-> Idle] /\ poll = Idle
    /\ watch = [w \in Watchers |-> NoWatch]
    /\ events = 0
    /\ disturbed = FALSE /\ unsaved = FALSE

Free(w) == watch[w].pc = "idle"
Saving == {w \in Watchers : watch[w].pc \in {"save", "write"}}
At(c, pc) == conn' = [conn EXCEPT ![c].pc = pc]
Becomes(w, pc) == watch' = [watch EXCEPT ![w].pc = pc]
-----------------------------------------------------------------------------
(* A connection: handleConnection *)

(* The first dial, before anything is read. *)
Dial(c) ==
    /\ conn[c].pc = "idle"
    /\ At(c, IF listening THEN "dialled" ELSE "down")
    /\ UNCHANGED <<host, gateway, file, poll, watch, events, disturbed, unsaved>>

(* markReadyWithoutBoot, then proxy. *)
Proxy(c) ==
    /\ conn[c].pc = "dialled"
    /\ state' = "ready"
    /\ At(c, "proxied")
    /\ UNCHANGED <<host, inFlight, cooling, limited, boots, bootFrom, file, poll,
                   watch, events, disturbed, unsaved>>

(* markBackendUnavailable queries the unit ... *)
SeeUnit(c) ==
    /\ conn[c].pc = "down"
    /\ conn' = [conn EXCEPT ![c] = [pc |-> "seen", active |-> backend]]
    /\ UNCHANGED <<host, gateway, file, poll, watch, events, disturbed, unsaved>>

(* ... and tells unless a start is in flight. *)
MarkUnavailable(c) ==
    /\ conn[c].pc = "seen"
    /\ state' = IF inFlight THEN state
                ELSE IF conn[c].active THEN "starting" ELSE "stopped"
    /\ conn' = [conn EXCEPT ![c] = [Idle EXCEPT !.pc = "handshake"]]
    /\ UNCHANGED <<host, inFlight, cooling, limited, boots, bootFrom, file, poll,
                   watch, events, disturbed, unsaved>>

(* A status ping, or packets that cannot be read, end the connection; so   *)
(* does a client that leaves.                                              *)
Disconnect(c) ==
    /\ conn[c].pc \in {"handshake", "proxied"}
    /\ At(c, "idle")
    /\ UNCHANGED <<host, gateway, file, poll, watch, events, disturbed, unsaved>>

(* A login; the second dial. *)
Login(c) ==
    /\ conn[c].pc = "handshake"
    /\ At(c, IF listening THEN "dialled" ELSE "login")
    /\ UNCHANGED <<host, gateway, file, poll, watch, events, disturbed, unsaved>>

(* allowOfflineLogin refuses the address. *)
Refuse(c) ==
    /\ conn[c].pc = "login" /\ c \in limited
    /\ At(c, "idle")
    /\ UNCHANGED <<host, gateway, file, poll, watch, events, disturbed, unsaved>>

(* A start is in flight from here on, and w takes care of it. *)
Launch(w, pc) ==
    /\ Free(w) /\ w = CHOOSE v \in Watchers : Free(v)
    /\ inFlight' = TRUE /\ state' = "starting" /\ bootFrom' = Backend
    /\ Becomes(w, pc)

(* allowOfflineLogin lets the address pass; requestWake joins the start in *)
(* flight, or one of late, or starts one.  Each takes g.mu for itself, but *)
(* only connections of the same address see what the first one changes.    *)
Wake(c) ==
    /\ conn[c].pc = "login" /\ c \notin limited
    /\ limited' = limited \cup {c}
    /\ At(c, "idle")
    /\ \/ /\ inFlight \/ cooling
          /\ UNCHANGED <<inFlight, state, bootFrom, cooling, watch>>
       \/ /\ ~inFlight /\ ~cooling
          /\ cooling' = TRUE
          /\ \E w \in Watchers : Launch(w, "lock")
    /\ UNCHANGED <<host, boots, file, poll, events, disturbed, unsaved>>
-----------------------------------------------------------------------------
(* The goroutine of a wake, and awaitReadiness *)

(* Mutant of WakeLock: the unit's mutex is not taken. *)
WakeNoLock(w) ==
    /\ watch[w].pc = "lock"
    /\ Becomes(w, "start")
    /\ UNCHANGED <<host, gateway, file, conn, poll, events, disturbed, unsaved>>

WakeLock(w) ==
    /\ watch[w].pc = "lock" /\ mutex = "none"
    /\ mutex' = w
    /\ Becomes(w, "start")
    /\ UNCHANGED <<backend, listening, stopped, gateway, file, conn, poll, events,
                   disturbed, unsaved>>

(* An active unit is left alone, another one is started. *)
WakeStart(w) ==
    /\ watch[w].pc = "start"
    /\ backend' = TRUE
    /\ disturbed' = (disturbed \/ (~backend /\ stopped))
    /\ mutex' = IF mutex = w THEN "none" ELSE mutex
    /\ Becomes(w, "await")
    /\ UNCHANGED <<listening, stopped, gateway, file, conn, poll, events, unsaved>>

(* systemctl start fails: the unit was not active, or its state could not  *)
(* be queried; it may come up nevertheless.                                *)
WakeStartFails(w) ==
    /\ watch[w].pc = "start"
    /\ backend' \in {backend, TRUE}
    /\ disturbed' = (disturbed \/ (~backend /\ backend' /\ stopped))
    /\ mutex' = IF mutex = w THEN "none" ELSE mutex
    /\ Becomes(w, "failed")
    /\ UNCHANGED <<listening, stopped, gateway, file, conn, poll, events, unsaved>>

(* The backend does not answer, and the deadline is over. *)
TimeOut(w) ==
    /\ watch[w].pc = "await" /\ ~listening
    /\ Becomes(w, "failed")
    /\ UNCHANGED <<host, gateway, file, conn, poll, events, disturbed, unsaved>>

(* Mutant of GiveUp: the start stays in flight. *)
GiveUpInFlight(w) ==
    /\ watch[w].pc = "failed"
    /\ state' = "failed"
    /\ watch' = [watch EXCEPT ![w] = NoWatch]
    /\ UNCHANGED <<host, inFlight, cooling, limited, boots, bootFrom, file, conn,
                   poll, events, disturbed, unsaved>>

(* What a failed start and a timeout leave. *)
GiveUp(w) ==
    /\ watch[w].pc = "failed"
    /\ state' = "failed" /\ inFlight' = FALSE /\ bootFrom' = "none"
    /\ watch' = [watch EXCEPT ![w] = NoWatch]
    /\ UNCHANGED <<host, cooling, limited, boots, file, conn, poll, events,
                   disturbed, unsaved>>

SeeReady(w) ==
    /\ watch[w].pc = "await" /\ listening
    /\ Becomes(w, "ready")
    /\ UNCHANGED <<host, gateway, file, conn, poll, events, disturbed, unsaved>>

(* Mutant of Latest: one sample too many is kept. *)
LatestAndOne(samples) ==
    IF Len(samples) <= MaxSamples + 1 THEN samples
    ELSE SubSeq(samples, Len(samples) - MaxSamples, Len(samples))

(* The latest MaxSamples samples; a duration of zero is not recorded. *)
Latest(samples) ==
    IF Len(samples) <= MaxSamples THEN samples
    ELSE SubSeq(samples, Len(samples) - MaxSamples + 1, Len(samples))

Ready(w) ==
    /\ watch[w].pc = "ready"
    /\ state' = "ready" /\ inFlight' = FALSE /\ bootFrom' = "none"
    /\ boots' = Latest(Append(boots, bootFrom)) \/ UNCHANGED boots
    /\ Becomes(w, "save")
    /\ unsaved' = (unsaved \/ Saving # {})
    /\ UNCHANGED <<host, cooling, limited, file, conn, poll, events,
                   disturbed>>

(* saveState: a snapshot under the lock ... *)
Snapshot(w) ==
    /\ watch[w].pc = "save"
    /\ watch' = [watch EXCEPT ![w] = [pc |-> "write", snap |-> boots]]
    /\ UNCHANGED <<host, gateway, file, conn, poll, events, disturbed, unsaved>>

(* Mutant of Save: the temporary file is not renamed. *)
SaveNothing(w) ==
    /\ watch[w].pc = "write"
    /\ watch' = [watch EXCEPT ![w] = NoWatch]
    /\ UNCHANGED <<host, gateway, file, conn, poll, events, disturbed, unsaved>>

(* ... that replaces the file by a rename ... *)
Save(w) ==
    /\ watch[w].pc = "write"
    /\ file' = watch[w].snap
    /\ watch' = [watch EXCEPT ![w] = NoWatch]
    /\ UNCHANGED <<host, gateway, conn, poll, events, disturbed, unsaved>>

(* ... or not, which nobody notices. *)
SaveFails(w) ==
    /\ watch[w].pc = "write"
    /\ unsaved' = TRUE
    /\ watch' = [watch EXCEPT ![w] = NoWatch]
    /\ UNCHANGED <<host, gateway, file, conn, poll, events, disturbed>>
-----------------------------------------------------------------------------
(* A status request: gatewayStatusFor and refreshState *)

Probe ==
    /\ poll.pc = "idle"
    /\ poll' = [poll EXCEPT !.pc = IF listening THEN "up" ELSE "down"]
    /\ UNCHANGED <<host, gateway, file, conn, watch, events, disturbed, unsaved>>

PollReady ==
    /\ poll.pc = "up"
    /\ state' = "ready"
    /\ poll' = Idle
    /\ UNCHANGED <<host, inFlight, cooling, limited, boots, bootFrom, file, conn,
                   watch, events, disturbed, unsaved>>

PollUnit ==
    /\ poll.pc = "down"
    /\ poll' = [pc |-> "seen", active |-> backend]
    /\ UNCHANGED <<host, gateway, file, conn, watch, events, disturbed, unsaved>>

(* A unit that something else started is waited for like a wake. *)
Refresh ==
    /\ poll.pc = "seen"
    /\ poll' = Idle
    /\ \/ /\ inFlight
          /\ UNCHANGED <<inFlight, state, bootFrom, watch>>
       \/ /\ ~inFlight /\ ~poll.active
          /\ state' = "stopped"
          /\ UNCHANGED <<inFlight, bootFrom, watch>>
       \/ /\ ~inFlight /\ poll.active
          /\ \E w \in Watchers : Launch(w, "await")
    /\ UNCHANGED <<host, cooling, limited, boots, file, conn, events, disturbed,
                   unsaved>>
-----------------------------------------------------------------------------
(* The surroundings *)

(* The cooldown and the rate limits end. *)
CoolDown ==
    /\ cooling
    /\ cooling' = FALSE
    /\ UNCHANGED <<host, state, inFlight, limited, boots, bootFrom, file, conn, poll,
                   watch, events, disturbed, unsaved>>

Unlimit(c) ==
    /\ c \in limited
    /\ limited' = limited \ {c}
    /\ UNCHANGED <<host, state, inFlight, cooling, boots, bootFrom, file, conn, poll,
                   watch, events, disturbed, unsaved>>

BackendListens ==
    /\ backend /\ ~listening
    /\ listening' = TRUE
    /\ UNCHANGED <<backend, mutex, stopped, gateway, file, conn, poll, watch, events,
                   disturbed, unsaved>>

(* The game ends by itself or is stopped by an automation. *)
UnitEnds ==
    /\ backend /\ events < MaxEvents
    /\ events' = events + 1
    /\ backend' = FALSE /\ listening' = FALSE
    /\ UNCHANGED <<mutex, stopped, gateway, file, conn, poll, watch, disturbed,
                   unsaved>>

(* An operation of AgentOps: it holds the mutex, stops the unit, works on  *)
(* the data and starts the unit again or leaves it.                        *)
OpBegins ==
    /\ mutex = "none" /\ events < MaxEvents
    /\ events' = events + 1
    /\ mutex' = "op" /\ stopped' = TRUE
    /\ backend' = FALSE /\ listening' = FALSE
    /\ UNCHANGED <<gateway, file, conn, poll, watch, disturbed, unsaved>>

OpEnds ==
    /\ mutex = "op"
    /\ mutex' = "none" /\ stopped' = FALSE
    /\ backend' \in {backend, TRUE}
    /\ UNCHANGED <<listening, gateway, file, conn, poll, watch, events, disturbed,
                   unsaved>>

(* The agent dies, and newMinecraftGateway runs again: the samples are     *)
(* those of the file, and a unit that is active is waited for.             *)
AgentRestarts ==
    /\ events < MaxEvents
    /\ events' = events + 1
    /\ mutex' = "none" /\ stopped' = FALSE
    /\ cooling' = FALSE /\ limited' = {} /\ boots' = Latest(file)
    /\ conn' = [c \in Clients |-> Idle] /\ poll' = Idle
    /\ IF backend /\ ~listening
       THEN /\ state' = "starting" /\ inFlight' = TRUE /\ bootFrom' = "down"
            /\ \E w \in Watchers :
                  watch' = [v \in Watchers |->
                    [NoWatch EXCEPT !.pc = IF v = w THEN "await" ELSE "idle"]]
       ELSE /\ state' = IF listening THEN "ready" ELSE "stopped"
            /\ inFlight' = FALSE /\ bootFrom' = "none"
            /\ watch' = [w \in Watchers |-> NoWatch]
    /\ unsaved' = FALSE
    /\ UNCHANGED <<backend, listening, file, disturbed>>

Connection(c) ==
    \/ Dial(c) \/ Proxy(c) \/ SeeUnit(c) \/ MarkUnavailable(c) \/ Disconnect(c)
    \/ Login(c) \/ Refuse(c) \/ Wake(c)

Watch(w) ==
    \/ WakeLock(w) \/ WakeStart(w) \/ WakeStartFails(w) \/ TimeOut(w)
    \/ GiveUp(w) \/ SeeReady(w) \/ Ready(w) \/ Snapshot(w) \/ Save(w) \/ SaveFails(w)

Poll == Probe \/ PollReady \/ PollUnit \/ Refresh

GatewayNext ==
    \/ \E c \in Clients : Connection(c) \/ Unlimit(c)
    \/ \E w \in Watchers : Watch(w)
    \/ Poll \/ CoolDown \/ BackendListens \/ UnitEnds
    \/ OpBegins \/ OpEnds \/ AgentRestarts

GatewaySpec == GatewayInit /\ [][GatewayNext]_gatewayVars
-----------------------------------------------------------------------------
(* Properties *)

Samples == {s \in Seq({"up", "down"}) : Len(s) <= MaxSamples}

(* Types of the gateway's fields, of the connections and of the            *)
(* goroutines; there are never more than maxBootSamples samples.           *)
GatewayTypeOK ==
    /\ {backend, listening, stopped, inFlight, cooling, disturbed, unsaved}
           \subseteq BOOLEAN
    /\ mutex \in Watchers \cup {"none", "op"}
    /\ state \in {"stopped", "starting", "ready", "failed"}
    /\ limited \subseteq Clients /\ bootFrom \in {"none", "up", "down"}
    /\ boots \in Samples /\ file \in Samples
    /\ conn \in [Clients -> [pc : {"idle", "dialled", "proxied", "down", "seen",
                                   "handshake", "login"}, active : BOOLEAN]]
    /\ poll \in [pc : {"idle", "up", "down", "seen"}, active : BOOLEAN]
    /\ watch \in [Watchers -> [pc : {"idle", "lock", "start", "await", "failed",
                                     "ready", "save", "write"}, snap : Samples]]
    /\ events \in 0..MaxEvents

Starting == {w \in Watchers : watch[w].pc \in {"lock", "start", "await", "failed",
                                               "ready"}}

(* Concurrent attempts share one start, and startInFlight is set exactly   *)
(* while a goroutine takes care of it: a flag left behind would refuse     *)
(* every later wake (src/cmd/hogs-agent/gateway.go:224, 378).              *)
SharedStart ==
    /\ inFlight <=> Starting # {}
    /\ \A v, w \in Starting : v = w

(* The gateway never starts the unit under a restore or an update that     *)
(* stopped it (src/cmd/hogs-agent/gateway.go:396-405).                     *)
OperationUndisturbed == ~disturbed

(* When no goroutine saves, the state file holds the samples the gateway   *)
(* has, unless a write failed or two saves ran at once                     *)
(* (src/cmd/hogs-agent/gateway.go:556-572).                                *)
FileKeepsUp == ~unsaved /\ Saving = {} => file = boots
=============================================================================
