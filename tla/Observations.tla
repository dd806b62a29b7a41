--------------------------- MODULE Observations ---------------------------
(***************************************************************************)
(* What HOGS believes of one game server and what it tells others of it.   *)
(*                                                                         *)
(* Two kinds of observers write the status cache (query/cache.go): the     *)
(* poll of the node agent, every 15 seconds (agent/manager.go), and the    *)
(* status page, which asks the game itself when the cache cannot answer    *)
(* (api/server_handler.go).  A write replaces the entry under the cache's  *)
(* lock and then, OUTSIDE it, calls the observer of main.go, which puts an *)
(* event in the outbox and sends notifications.  An observer reads, asks   *)
(* over the network and writes much later; the others go on meanwhile.     *)
(*                                                                         *)
(* Abstracted: the names of the players (a change of names at an equal     *)
(* count is a free choice to announce), the limits and resource figures,   *)
(* the text of errors, and the clock (an entry expires at any time).       *)
(***************************************************************************)
EXTENDS Naturals, TLC

CONSTANTS
    Polls,          \* polls of the agent that can be under way at a time
    Pages,          \* requests of the status page at a time
    MaxPlayers,     \* the largest number of players
    Protocols,      \* status protocols of the drivers considered
    NoStatus        \* no entry, nothing seen

Observers == Polls \cup Pages

\* A status as the cache keeps it.  "players" is 0 where "known" is FALSE, and
\* "details" says that the game's own message is there.
Status == [online : BOOLEAN, known : BOOLEAN, players : 0..MaxPlayers,
           details : BOOLEAN]

Offline == [online |-> FALSE, known |-> FALSE, players |-> 0,
            details |-> FALSE]

Online(known, n, details) ==
    [online |-> TRUE, known |-> known, players |-> IF known THEN n ELSE 0,
     details |-> details]

ASSUME ObservationsAssumption ==
    /\ Polls \cap Pages = {} /\ MaxPlayers \in Nat
    /\ NoStatus \notin Status

VARIABLES
    protocol,   \* driver.StatusProtocol of the server
    game,       \* the game: is it up, how many are on
    cache,      \* the entry of ServerStatusCache, or NoStatus
    fresh,      \* the entry has not expired
    at,         \* where each observer stands
    seen,       \* the cached status a page found, or NoStatus
    got,        \* the status an observer has, to store or to announce
    told,       \* what a listener knows: the first status, then every change
    \* Histories, for the properties:
    last,       \* the newest count that the agent or the game gave
    passed,     \* pages that a poll has overtaken since they read the cache
    outrun,     \* the entry was stored by such a page
    overlapped, \* the newest change was stored with another one unannounced
    gap         \* the count was unknown at the newest change or since

observationsVars == <<protocol, game, cache, fresh, at, seen, got, told, last,
          passed, outrun, overlapped, gap>>

outside == <<protocol, game>>
histories == <<last, passed, outrun, overlapped, gap>>

----------------------------------------------------------------------------
\* The queriers: the statuses that each can return, for the game as it is.  An
\* error returns a status that is offline, and a page stores that too.

\* The modern status of Minecraft: up with its message, the count never marked
\* as known (the agent's is taken for that).
MinecraftAnswers ==
    {Offline} \cup (IF game.up THEN {Online(FALSE, 0, TRUE)} ELSE {})

\* The HTTPS API of Satisfactory: a health check, then the state of the game
\* when a token is configured and the state can be had.
SatisfactoryAnswers ==
    {Offline} \cup
    (IF game.up THEN {Online(FALSE, 0, FALSE), Online(TRUE, game.players, FALSE)}
     ELSE {})

\* RCON of Factorio, or a mere connection without a password.
FactorioAnswers ==
    {Offline} \cup (IF game.up THEN {Online(FALSE, 0, FALSE)} ELSE {})

\* The A2S query of Valheim.
ValheimAnswers ==
    {Offline} \cup (IF game.up THEN {Online(FALSE, 0, TRUE)} ELSE {})

\* NewQuerierForDriver: a driver without a protocol gets the querier that says
\* offline.
Answers ==
    CASE protocol = "minecraft"    -> MinecraftAnswers
      [] protocol = "satisfactory" -> SatisfactoryAnswers
      [] protocol = "factorio"     -> FactorioAnswers
      [] protocol = "valheim"      -> ValheimAnswers
      [] OTHER                     -> {Offline}

----------------------------------------------------------------------------
ObservationsInit ==
    /\ protocol \in Protocols
    /\ game \in [up : BOOLEAN, players : {0}]
    /\ cache = NoStatus /\ fresh = FALSE
    /\ at = [o \in Observers |-> "idle"]
    /\ seen = [o \in Pages |-> NoStatus]
    /\ got = [o \in Observers |-> Offline]
    /\ told = NoStatus
    /\ last = 0 /\ passed = {}
    /\ outrun = FALSE /\ overlapped = FALSE /\ gap = FALSE

\* Mutant of observationChanged: only counts are compared.
observationChangedMutCounts(old, new) ==
    new.online /\ old.known /\ new.known /\ old.players # new.players

\* observationChanged: what is announced.  Unknown counts are never compared.
observationChanged(old, new) ==
    \/ old.online # new.online
    \/ /\ new.online /\ old.known /\ new.known
       /\ old.players # new.players

\* The counts are equal and known, so the names of the players decide.
NamesDecide(old, new) ==
    /\ old.online /\ new.online
    /\ old.known /\ new.known /\ old.players = new.players

Unannounced == {o \in Observers : at[o] = "announce"}

\* Set: the part under the lock, and the decision that follows from it.  The
\* first status is compared with nothing and announced to nobody.
Set(o, status) ==
    /\ cache' = status /\ fresh' = TRUE
    /\ \E announce \in BOOLEAN :
          /\ announce =>
                /\ cache # NoStatus
                /\ observationChanged(cache, status) \/ NamesDecide(cache, status)
          /\ (cache # NoStatus /\ observationChanged(cache, status)) => announce
          /\ at' = [at EXCEPT ![o] = IF announce THEN "announce" ELSE "idle"]
          /\ got' = [got EXCEPT ![o] = IF announce THEN status ELSE Offline]
          /\ overlapped' = IF announce THEN Unannounced # {} ELSE overlapped
          /\ gap' = (~status.known \/ (gap /\ ~announce))
    /\ told' = IF cache = NoStatus THEN status ELSE told

\* Mutant of Merged: the count of the entry is kept as well.
MergedMutCount(status) ==
    IF status.online /\ cache # NoStatus
    THEN Online(cache.known, cache.players, cache.details)
    ELSE status

\* SetAgentObservation: an observation that is online is merged into the entry,
\* whose details it keeps.
Merged(status) ==
    IF status.online /\ cache # NoStatus
    THEN Online(status.known, status.players, cache.details)
    ELSE status

SetAgentObservation(o, status) ==
    /\ Set(o, Merged(status))
    /\ last' = IF status.known THEN status.players ELSE last
    /\ passed' = {p \in Pages : at[p] # "idle"}
    /\ outrun' = FALSE

\* The callback of SetOnChange: the event and the notification carry the status
\* that was stored, whatever the cache holds by now.
Announce(o) ==
    /\ at[o] = "announce"
    /\ told' = got[o]
    /\ at' = [at EXCEPT ![o] = "idle"]
    /\ got' = [got EXCEPT ![o] = Offline]
    /\ UNCHANGED <<outside, cache, fresh, seen, histories>>

----------------------------------------------------------------------------
\* A poll.  The agent looks at the unit first and asks the game afterwards.
pollStatuses(o) ==
    /\ at[o] = "idle"
    /\ at' = [at EXCEPT ![o] = "asked"]
    /\ UNCHANGED <<outside, cache, fresh, seen, got, told, histories>>

\* handleStatus: the unit is not active.
UnitInactive(o) ==
    /\ at[o] = "asked" /\ ~game.up
    /\ at' = [at EXCEPT ![o] = "answered"]
    /\ got' = [got EXCEPT ![o] = Offline]
    /\ UNCHANGED <<outside, cache, fresh, seen, told, histories>>

\* handleStatus: the unit is active.
UnitActive(o) ==
    /\ at[o] = "asked" /\ game.up
    /\ at' = [at EXCEPT ![o] = "active"]
    /\ UNCHANGED <<outside, cache, fresh, seen, got, told, histories>>

\* playerStatus: the count is there if the game still answers.
playerStatus(o) ==
    /\ at[o] = "active"
    /\ \E known \in BOOLEAN :
          /\ known => game.up
          /\ got' = [got EXCEPT ![o] = Online(known, game.players, FALSE)]
    /\ at' = [at EXCEPT ![o] = "answered"]
    /\ UNCHANGED <<outside, cache, fresh, seen, told, histories>>

\* The answer is stored.
Observed(o) ==
    /\ at[o] = "answered"
    /\ SetAgentObservation(o, got[o])
    /\ UNCHANGED <<outside, seen>>

\* The agent cannot be reached, or did not answer in 8 seconds: offline.
Unreachable(o) ==
    /\ at[o] \in {"asked", "active", "answered"}
    /\ SetAgentObservation(o, Offline)
    /\ UNCHANGED <<outside, seen>>

\* Another status than 200, or a body that does not decode: nothing is stored.
Rejected(o) ==
    /\ at[o] \in {"asked", "active", "answered"}
    /\ at' = [at EXCEPT ![o] = "idle"]
    /\ got' = [got EXCEPT ![o] = Offline]
    /\ UNCHANGED <<outside, cache, fresh, seen, told, histories>>

----------------------------------------------------------------------------
\* Get: the entry while it is fresh.
Get == IF fresh THEN cache ELSE NoStatus

NeedsMinecraftDetails(status) ==
    /\ status # NoStatus /\ protocol = "minecraft"
    /\ status.online /\ ~status.details

\* GetServerStatus: the cache does not answer, or lacks the game's message.  An
\* administrator may have changed the server's state (online or auto are queried)
\* and its address at any time.
GetServerStatus(o) ==
    /\ at[o] = "idle"
    /\ Get = NoStatus \/ NeedsMinecraftDetails(Get)
    /\ seen' = [seen EXCEPT ![o] = Get]
    /\ passed' = passed \ {o}
    /\ \E step \in {"query", "hidden"} : at' = [at EXCEPT ![o] = step]
    /\ UNCHANGED <<outside, cache, fresh, got, told, last, outrun, overlapped,
                   gap>>

\* A state that is not shown, or no address: offline is stored.
StoreHidden(o) ==
    /\ at[o] = "hidden"
    /\ Set(o, Offline)
    /\ seen' = [seen EXCEPT ![o] = NoStatus]
    /\ outrun' = FALSE
    /\ UNCHANGED <<outside, last, passed>>

\* The game answers or fails; a count that was known to the cache when the page
\* looked is put over the answer's.
Query(o) ==
    /\ at[o] = "query"
    /\ \E status \in Answers :
          got' = [got EXCEPT ![o] =
                    IF seen[o] # NoStatus /\ seen[o].known /\ status.online
                    THEN Online(TRUE, seen[o].players, status.details)
                    ELSE status]
    /\ at' = [at EXCEPT ![o] = "store"]
    /\ UNCHANGED <<outside, cache, fresh, seen, told, histories>>

\* The answer is stored.
StoreAnswer(o) ==
    /\ at[o] = "store"
    /\ Set(o, got[o])
    /\ LET carries == seen[o] # NoStatus /\ seen[o].known
       IN  /\ last' = IF got[o].known /\ ~carries THEN got[o].players ELSE last
           /\ outrun' = (carries /\ o \in passed)
    /\ seen' = [seen EXCEPT ![o] = NoStatus]
    /\ UNCHANGED <<outside, passed>>

----------------------------------------------------------------------------
\* CacheExpiration, ErrorCacheExpiration.
Expire ==
    /\ fresh
    /\ fresh' = FALSE
    /\ UNCHANGED <<outside, cache, at, seen, got, told, histories>>

\* The game goes up or down; players come and go.
Play ==
    /\ game' \in [up : BOOLEAN, players : 0..MaxPlayers]
    /\ game' # game
    /\ ~game'.up => game'.players = 0
    /\ UNCHANGED <<protocol, cache, fresh, at, seen, got, told, histories>>

\* HOGS restarts: cache and observers are gone, and listeners know what they
\* will read as the first status.
Restart ==
    /\ cache' = NoStatus /\ fresh' = FALSE
    /\ at' = [o \in Observers |-> "idle"]
    /\ seen' = [o \in Pages |-> NoStatus]
    /\ got' = [o \in Observers |-> Offline]
    /\ told' = NoStatus
    /\ passed' = {} /\ outrun' = FALSE /\ overlapped' = FALSE /\ gap' = FALSE
    /\ last' = 0
    /\ UNCHANGED outside

ObservationsNext ==
    \/ \E o \in Observers : Announce(o)
    \/ \E o \in Polls :
          \/ pollStatuses(o) \/ UnitInactive(o) \/ UnitActive(o)
          \/ playerStatus(o) \/ Observed(o) \/ Unreachable(o) \/ Rejected(o)
    \/ \E o \in Pages :
          \/ GetServerStatus(o) \/ StoreHidden(o) \/ Query(o) \/ StoreAnswer(o)
    \/ Expire \/ Play \/ Restart

ObservationsSpec == ObservationsInit /\ [][ObservationsNext]_observationsVars

PageSymmetry == Permutations(Pages)

----------------------------------------------------------------------------
\* What listeners know is what the cache holds, as soon as every change has been
\* announced: whether the server is online, and how many are on it where the
\* count is known.  Two limits of query/cache.go are conditions: the callbacks
\* of two changes run in any order (overlapped), and a count that was unknown is
\* known again in silence (gap).
ToldIsCached ==
    (cache # NoStatus /\ Unannounced = {} /\ ~overlapped) =>
        /\ told.online = cache.online
        /\ (cache.online /\ cache.known /\ ~gap) => told.players = cache.players

\* A known count is the newest that the agent or the game gave: the merge of a
\* poll takes its count, and a page, which puts the count it read before it asked
\* over the game's answer, brings back an older one only if a poll went by while
\* it waited (outrun).
CountIsNewest ==
    (cache # NoStatus /\ cache.known /\ ~outrun) => cache.players = last
============================================================================
