------------------------------ MODULE MapCache ------------------------------
(***************************************************************************)
(* The cache of map responses (api/map_cache.go) and the handler that       *)
(* serves from it (api/server_handler.go, MapProxy and serveCachedMap), for *)
(* one target URL.  An entry is two files, the body and its metadata,       *)
(* renamed into place one after the other.  Requests look entries up        *)
(* without a lock, again with the key's lock, which is counted and dropped  *)
(* with its last user, and then ask the map's origin, with the validators   *)
(* of the entry or with the client's own.  Removals and the pruner take no  *)
(* lock.                                                                    *)
(*                                                                          *)
(* A response is followed by the version of the map it shows, which has a   *)
(* size and an ETag.  Time is the age of the metadata.                      *)
(***************************************************************************)
EXTENDS Naturals, FiniteSets, TLC

CONSTANTS
  Reqs,        \* requests that run at a time
  Versions,    \* versions of the map, 1 the first
  None,
  MaxReqs,     \* bound: requests
  MaxChanges,  \* bound: changes of the map at its origin
  MaxUpsets    \* bound: crashes and runs of the pruner

VARIABLES
  origin,     \* the version the origin shows
  body,       \* the key's .body file: a version or None
  meta,       \* the key's .json file, or None
  locks,      \* mapCache.locks: the lock object of the key, 0 for none
  refs,       \* by lock object: its users
  holder,     \* by lock object: who has the mutex
  req,        \* requests under way
  pruner,     \* where the pruner is
  torn,       \* history: a crash fell between the two renames
  crossed,    \* history: a 304 about a version of the client's was taken for the entry's
  asked, changes, upsets

vars == <<origin, body, meta, locks, refs, holder, req, pruner, torn, crossed, asked, changes, upsets>>
disk == <<body, meta>>
mutex == <<locks, refs, holder>>
history == <<torn, crossed>>
bounds == <<asked, changes, upsets>>

\* Two versions may have the same length
Size(v) == v % 2

\* mapCacheMetadata: the version whose size and headers these are, its ETag, its age
Metadata == [of: Versions, tag: Versions, age: {"fresh", "stale", "expired"}]
Objects == 1..MaxReqs

ASSUME MapCacheAssumption ==
  /\ 1 \in Versions /\ Versions \subseteq Nat \ {0}
  /\ IsFiniteSet(Reqs) /\ MaxReqs \in Nat
  /\ None \notin Reqs \cup Versions \cup Metadata

\* Where a request can be: without the lock, and with it
Free == {"idle", "meta", "stat", "rmbody", "rmmeta", "open", "acquire", "wait", "unref"}
Inside == {"meta", "stat", "rmbody", "rmmeta", "open", "fetch", "refresh", "receive", "body", "json", "unlock"}

\* phase: the lookup before the lock (1), with it (2), the one for a stale entry (3)
Idle == [pc |-> "idle", phase |-> 1, entry |-> None, own |-> 0, got |-> 0, state |-> "HIT", lock |-> 0]

Init ==
  /\ origin = 1 /\ body = None /\ meta = None
  /\ locks = 0 /\ refs = [l \in Objects |-> 0] /\ holder = [l \in Objects |-> None]
  /\ req = [r \in Reqs |-> Idle] /\ pruner = "idle"
  /\ torn = FALSE /\ crossed = FALSE
  /\ asked = 0 /\ changes = 0 /\ upsets = 0

Goes(r, pc) == req' = [req EXCEPT ![r].pc = pc]

\* A lookup without a result: on to the lock, the next lookup or the origin
Missed(r) ==
  req' = [req EXCEPT ![r].entry = None,
                     ![r].pc = CASE req[r].phase = 1 -> "acquire" [] req[r].phase = 2 -> "meta"
                                 [] OTHER -> "fetch",
                     ![r].phase = IF req[r].phase = 2 THEN 3 ELSE req[r].phase]

-----------------------------------------------------------------------------
(* The origin and time *)

\* The map is rendered again
Render(v) ==
  /\ changes < MaxChanges /\ changes' = changes + 1 /\ v # origin
  /\ origin' = v
  /\ UNCHANGED <<disk, mutex, req, pruner, history, asked, upsets>>

\* FreshUntil, and staleTTL after it, pass
Age ==
  /\ meta # None /\ meta.age # "expired"
  /\ meta' = [meta EXCEPT !.age = IF @ = "fresh" THEN "stale" ELSE "expired"]
  /\ UNCHANGED <<origin, body, mutex, req, pruner, history, bounds>>

-----------------------------------------------------------------------------
(* serveCachedMap *)

\* MapProxy: GET, without or with the ETag of a version the client got elsewhere
MapProxy(r) ==
  /\ req[r].pc = "idle" /\ asked < MaxReqs /\ asked' = asked + 1
  /\ \E own \in {0, origin} : req' = [req EXCEPT ![r] = [Idle EXCEPT !.pc = "meta", !.own = own]]
  /\ UNCHANGED <<origin, disk, mutex, pruner, history, changes, upsets>>

\* lookup: the metadata is read ...
LookupMeta(r) ==
  /\ req[r].pc = "meta"
  /\ IF meta = None THEN Missed(r)
     ELSE req' = [req EXCEPT ![r].pc = "stat", ![r].entry = meta]
  /\ UNCHANGED <<origin, disk, mutex, pruner, history, bounds>>

\* ... and compared with the body; what does not fit or is too old is removed
LookupBody(r) ==
  LET q == req[r] IN
  /\ q.pc = "stat"
  /\ IF body = None \/ Size(body) # Size(q.entry.of) \/ q.entry.age = "expired"
     THEN Goes(r, "rmbody")
     ELSE IF q.phase < 3
          THEN IF q.entry.age = "fresh" THEN Goes(r, "open") ELSE Missed(r)
          ELSE Goes(r, "fetch")
  /\ UNCHANGED <<origin, disk, mutex, pruner, history, bounds>>

\* remove: the body, then the metadata
RemoveBody(r) ==
  /\ req[r].pc = "rmbody" /\ body' = None /\ Goes(r, "rmmeta")
  /\ UNCHANGED <<origin, meta, mutex, pruner, history, bounds>>

RemoveMeta(r) ==
  /\ req[r].pc = "rmmeta" /\ meta' = None /\ Missed(r)
  /\ UNCHANGED <<origin, body, mutex, pruner, history, bounds>>

\* serve opens the body that is there now; without one the entry is removed (HIT),
\* the error page is shown (STALE) or the 304 goes to the client (REVALIDATED)
Serve(r) ==
  /\ req[r].pc = "open"
  /\ Goes(r, IF req[r].state = "HIT"
             THEN IF body = None THEN "rmbody" ELSE IF req[r].phase = 1 THEN "idle" ELSE "unlock"
             ELSE "unlock")
  /\ UNCHANGED <<origin, disk, mutex, pruner, history, bounds>>

\* acquire: the lock object of the key, or a new one, has one more user ...
Acquire(r) ==
  LET l == IF locks # 0 THEN locks ELSE CHOOSE n \in Objects : refs[n] = 0 /\ holder[n] = None IN
  /\ req[r].pc = "acquire"
  /\ locks' = l /\ refs' = [refs EXCEPT ![l] = @ + 1]
  /\ req' = [req EXCEPT ![r].pc = "wait", ![r].lock = l]
  /\ UNCHANGED <<origin, disk, holder, pruner, history, bounds>>

\* ... and its mutex is waited for
Lock(r) ==
  LET l == req[r].lock IN
  /\ req[r].pc = "wait" /\ holder[l] = None
  /\ holder' = [holder EXCEPT ![l] = r]
  /\ req' = [req EXCEPT ![r].pc = "meta", ![r].phase = 2]
  /\ UNCHANGED <<origin, disk, locks, refs, pruner, history, bounds>>

\* The validator the origin is asked with: the client's own goes first
Validator(q) == IF q.own # 0 THEN q.own ELSE IF q.entry # None THEN q.entry.tag ELSE 0

\* RoundTrip: no answer, or 5xx: the stale entry is served ...
ServeStale(r) ==
  /\ req[r].pc = "fetch" /\ req[r].entry # None
  /\ req' = [req EXCEPT ![r].pc = "open", ![r].state = "STALE"]
  /\ UNCHANGED <<origin, disk, mutex, pruner, history, bounds>>

\* ... or the error page, which is never stored
writeMapUnavailable(r) ==
  /\ req[r].pc = "fetch" /\ req[r].entry = None
  /\ Goes(r, "unlock")
  /\ UNCHANGED <<origin, disk, mutex, pruner, history, bounds>>

\* 304: about the entry, if there is one, whoever's validator it was
NotModified(r) ==
  LET q == req[r] IN
  /\ q.pc = "fetch" /\ Validator(q) = origin
  /\ IF q.entry = None THEN Goes(r, "unlock") /\ UNCHANGED crossed
     ELSE /\ req' = [req EXCEPT ![r].pc = "refresh", ![r].got = origin]
          /\ crossed' = (crossed \/ q.entry.tag # origin)
  /\ UNCHANGED <<origin, disk, mutex, pruner, torn, bounds>>

\* cacheableMapResponse, mapCacheTTL: passed on without being stored
Bypass(r) ==
  /\ req[r].pc = "fetch" /\ Validator(req[r]) # origin /\ Goes(r, "unlock")
  /\ UNCHANGED <<origin, disk, mutex, pruner, history, bounds>>

\* begin: a temporary file for a response that is stored
Begin(r) ==
  /\ req[r].pc = "fetch" /\ Validator(req[r]) # origin
  /\ req' = [req EXCEPT ![r].pc = "receive", ![r].got = origin]
  /\ UNCHANGED <<origin, disk, mutex, pruner, history, bounds>>

\* 304: the stale metadata is stored again, fresh and with the ETag of the answer,
\* if it gives one; a response that must not be stored, or a failed write, changes nothing
Revalidate(r) ==
  LET q == req[r] IN
  /\ q.pc = "refresh"
  /\ \/ \E tag \in {q.got, q.entry.tag} : meta' = [q.entry EXCEPT !.age = "fresh", !.tag = tag]
     \/ UNCHANGED meta
  /\ req' = [req EXCEPT ![r].pc = "open", ![r].state = "REVALIDATED"]
  /\ UNCHANGED <<origin, body, mutex, pruner, history, bounds>>

\* copyMapBody: the response passes whole into the temporary file
Receive(r) ==
  /\ req[r].pc = "receive" /\ Goes(r, "body")
  /\ UNCHANGED <<origin, disk, mutex, pruner, history, bounds>>

\* Write, abort: the transfer breaks off or exceeds the item limit
Abort(r) ==
  /\ req[r].pc = "receive" /\ Goes(r, "unlock")
  /\ UNCHANGED <<origin, disk, mutex, pruner, history, bounds>>

\* commit: the body is renamed into place ...
CommitBody(r) ==
  /\ req[r].pc = "body"
  /\ body' = req[r].got /\ Goes(r, "json")
  /\ UNCHANGED <<origin, meta, mutex, pruner, history, bounds>>

\* mutant: metadata that cannot be written leaves the old one
CommitMetaMutKeeps(r) ==
  LET v == req[r].got IN
  /\ req[r].pc = "json"
  /\ (meta' = [of |-> v, tag |-> v, age |-> "fresh"]) \/ UNCHANGED meta
  /\ Goes(r, "unlock")
  /\ UNCHANGED <<origin, body, mutex, pruner, history, bounds>>

\* ... then its metadata; when that fails the entry is removed
CommitMeta(r) ==
  LET v == req[r].got IN
  /\ req[r].pc = "json"
  /\ \/ meta' = [of |-> v, tag |-> v, age |-> "fresh"] /\ UNCHANGED body
     \/ meta' = None /\ body' = None
  /\ Goes(r, "unlock")
  /\ UNCHANGED <<origin, mutex, pruner, history, bounds>>

\* release: the mutex ...
Unlock(r) ==
  /\ req[r].pc = "unlock"
  /\ holder' = [holder EXCEPT ![req[r].lock] = None] /\ Goes(r, "unref")
  /\ UNCHANGED <<origin, disk, locks, refs, pruner, history, bounds>>

\* mutant: whoever releases drops the object
UnrefMutDrops(r) ==
  LET l == req[r].lock IN
  /\ req[r].pc = "unref"
  /\ refs' = [refs EXCEPT ![l] = @ - 1]
  /\ locks' = 0
  /\ req' = [req EXCEPT ![r] = Idle]
  /\ UNCHANGED <<origin, disk, holder, pruner, history, bounds>>

\* ... then the use of the object, which the last user takes from the map
Unref(r) ==
  LET l == req[r].lock IN
  /\ req[r].pc = "unref"
  /\ refs' = [refs EXCEPT ![l] = @ - 1]
  /\ locks' = IF refs[l] = 1 THEN 0 ELSE locks
  /\ req' = [req EXCEPT ![r] = Idle]
  /\ UNCHANGED <<origin, disk, holder, pruner, history, bounds>>

-----------------------------------------------------------------------------
(* The pruner and the end of the process *)

\* prune: the cache is over its limit and this key is the oldest
PruneBody ==
  /\ pruner = "idle" /\ upsets < MaxUpsets /\ upsets' = upsets + 1 /\ body # None
  /\ pruner' = "meta" /\ body' = None
  /\ UNCHANGED <<origin, meta, mutex, req, history, asked, changes>>

PruneMeta ==
  /\ pruner = "meta"
  /\ pruner' = "idle" /\ meta' = None
  /\ UNCHANGED <<origin, body, mutex, req, history, bounds>>

\* The files stay, requests and locks go
Crash ==
  /\ upsets < MaxUpsets /\ upsets' = upsets + 1
  /\ req' = [r \in Reqs |-> Idle] /\ pruner' = "idle"
  /\ locks' = 0 /\ refs' = [l \in Objects |-> 0] /\ holder' = [l \in Objects |-> None]
  /\ torn' = (torn \/ \E r \in Reqs : req[r].pc = "json")
  /\ UNCHANGED <<origin, disk, crossed, asked, changes>>

Next ==
  \/ \E r \in Reqs :
       \/ MapProxy(r) \/ LookupMeta(r) \/ LookupBody(r) \/ RemoveBody(r) \/ RemoveMeta(r)
       \/ Serve(r) \/ Acquire(r) \/ Lock(r)
       \/ ServeStale(r) \/ writeMapUnavailable(r) \/ NotModified(r) \/ Bypass(r) \/ Begin(r) \/ Revalidate(r)
       \/ Receive(r) \/ Abort(r) \/ CommitBody(r) \/ CommitMeta(r) \/ Unlock(r) \/ Unref(r)
  \/ \E v \in Versions : Render(v)
  \/ Age \/ PruneBody \/ PruneMeta \/ Crash

Spec == Init /\ [][Next]_vars

\* No request is special
ReqSymmetry == Permutations(Reqs)

-----------------------------------------------------------------------------
(* Type invariant, with the structure of the counted locks: the requests    *)
(* that use an object are counted, an object with users is the one in the   *)
(* map, and only its holder is past it.  So the origin is asked by one      *)
(* request of a key at a time.                                              *)
TypeOK ==
  /\ origin \in Versions /\ body \in {None} \cup Versions /\ meta \in {None} \cup Metadata
  /\ locks \in 0..MaxReqs
  /\ \A l \in Objects : /\ refs[l] = Cardinality({r \in Reqs : req[r].lock = l})
                        /\ refs[l] > 0 => locks = l
  /\ \A r \in Reqs :
       /\ req[r].pc \in Free \cup Inside
       /\ req[r].phase > 1 /\ req[r].pc \in Inside => holder[req[r].lock] = r

(* StoredTogether: while nobody is between the two renames, a body and a    *)
(* metadata file belong to one version of the map, ETag included, whatever  *)
(* lookups, removals, the pruner, failed writes and waiting requests do     *)
(* between them: only a pair that a crash tore needs the test of the size.  *)
(* A crash between the renames, and a 304 that answers the validator of a   *)
(* client instead of the entry's, leave a body under another version's      *)
(* metadata.                                                                *)
StoredTogether ==
  \/ torn \/ crossed \/ body = None \/ meta = None
  \/ \E r \in Reqs : req[r].pc = "json"
  \/ body = meta.of /\ body = meta.tag
=============================================================================
