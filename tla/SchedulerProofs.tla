-------------------------- MODULE SchedulerProofs --------------------------
(***************************************************************************)
(* Proofs about module Scheduler, for any number of ticks and handlers and *)
(* any stability period, cooldown and bounds.                              *)
(***************************************************************************)
EXTENDS Scheduler, TLAPS

RowType == [present : BOOLEAN, enabled : BOOLEAN, since : Times, last : Times]
TickRow == [pc : {"idle", "read", "engine", "acting"} \cup Finishing,
            since : Times, last : Times, now : 0..clock]
EditRow == [pc : {"idle", "write", "list", "remove", "add"}, last : Times, seen : BOOLEAN]

(* Nothing that is recorded lies in the future. *)
PastInv == recorded <= clock /\ unstableAt <= clock

(* What the copy of a running tick knows, as long as nothing overlapped:   *)
(* the last action that was recorded, a stability timer that began after   *)
(* the last change, and from the engine on that both are over.             *)
TickOK(j, rec, unstable) ==
    /\ j.pc # "succeeded" => j.last = rec
    /\ j.pc = "succeeded" => j.last = j.now
    /\ j.since # Never => j.since >= unstable
    /\ j.pc \in {"not true", "engine", "acting", "succeeded"} => j.since = Never
    /\ j.pc \in {"engine", "acting", "succeeded"} =>
          /\ rec <= j.now
          /\ Cooldown > 0 /\ rec # Never => j.now - rec >= Cooldown
          /\ j.now - unstable >= Stability

TimerInv ==
    ~overlapped =>
       /\ Running = {} \/ Changing = {}
       /\ \A t, u \in Running : t = u
       /\ row.present => /\ row.last = recorded
                         /\ row.since # Never => row.since >= unstableAt
       /\ \A t \in Running : TickOK(tick[t], recorded, unstableAt)
       /\ \A e \in Changing : edit[e].last = recorded
       /\ CooldownHolds /\ StabilityHolds

(* The reloads that stand between their list and their new map, and what   *)
(* the cron library then has, as long as they were alone.                  *)
Loading == {e \in Edits : edit[e].pc \in {"remove", "add"}}
Listing == {e \in Edits : edit[e].pc = "list"}

LoadInv ==
    ~spoiled =>
       /\ \A e, f \in Loading : e = f
       /\ entries = IF jobs = 0 \/ \E e \in Edits : edit[e].pc = "add" THEN {} ELSE {jobs}
       /\ row.present /\ Listing = {} =>
             /\ \A e \in Loading : edit[e].seen = row.enabled
             /\ Loading = {} => (jobs # 0 <=> row.enabled)

(* The inductive invariant. *)
IInv == TypeOK /\ PastInv /\ TimerInv /\ LoadInv

-----------------------------------------------------------------------------
(* Types and frames *)

(* The types, by part. *)
LEMMA TypeParts ==
    TypeOK <=> /\ row \in RowType
               /\ entries \subseteq 1..made /\ jobs \in 0..made /\ made \in 1..MaxEntries
               /\ tick \in [Ticks -> TickRow] /\ edit \in [Edits -> EditRow]
               /\ clock \in 1..MaxClock /\ crashes \in 0..MaxCrashes
               /\ recorded \in Times /\ unstableAt \in Times
               /\ overlapped \in BOOLEAN /\ spoiled \in BOOLEAN
               /\ tooSoon \in BOOLEAN /\ tooEarly \in BOOLEAN
BY DEF TypeOK, RowType, TickRow, EditRow

LEMMA NumberFacts ==
    ASSUME TypeOK
    PROVE  /\ clock \in Nat /\ clock \in Times /\ recorded \in Nat /\ unstableAt \in Nat
           /\ made \in Nat /\ 0 \in Times /\ 0 \in 0..clock /\ clock \in 0..clock
           /\ \A x \in Times : x \in Nat
           /\ Stability \in Nat /\ Cooldown \in Nat
<1>1. MaxClock \in Nat /\ MaxEntries \in Nat
  BY ConstantsAssumption
<1>2. clock \in 1..MaxClock /\ made \in 1..MaxEntries /\ recorded \in Times /\ unstableAt \in Times
  BY TypeParts
<1>3. \A x \in Times : x \in Nat
  BY <1>1 DEF Times
<1>4. clock \in Nat /\ clock \in Times /\ made \in Nat /\ 0 \in Times
  BY <1>1, <1>2 DEF Times
<1>5. 0 \in 0..clock /\ clock \in 0..clock
  BY <1>4
<1> QED BY <1>2, <1>3, <1>4, <1>5, ConstantsAssumption

(* The row of a tick, of a handler and of the rule, field by field. *)
LEMMA RowFacts ==
    ASSUME TypeOK
    PROVE  /\ row.present \in BOOLEAN /\ row.enabled \in BOOLEAN
           /\ row.since \in Times /\ row.last \in Times
           /\ \A t \in Ticks :
                 /\ tick[t] \in TickRow /\ tick[t].since \in Times /\ tick[t].last \in Times
                 /\ tick[t].now \in 0..clock /\ tick[t].now \in Nat /\ tick[t].now <= clock
           /\ \A e \in Edits :
                 /\ edit[e] \in EditRow /\ edit[e].last \in Times /\ edit[e].seen \in BOOLEAN
<1>1. row \in RowType /\ tick \in [Ticks -> TickRow] /\ edit \in [Edits -> EditRow]
  BY TypeParts
<1>2. clock \in Nat
  BY NumberFacts
<1> QED BY <1>1, <1>2 DEF RowType, TickRow, EditRow

(* What a reload left behind is not touched by a step of something else.   *)
LEMMA LoadKept ==
    ASSUME LoadInv, UNCHANGED <<entries, jobs, spoiled>>,
           \A e \in Edits : /\ edit'[e].seen = edit[e].seen
                            /\ edit'[e].pc \in {"remove", "add", "list"} =>
                                  edit'[e].pc = edit[e].pc
                            /\ edit[e].pc \in {"remove", "add", "list"} =>
                                  edit'[e].pc = edit[e].pc,
           row'.present => row.present /\ row'.enabled = row.enabled
    PROVE  LoadInv'
<1>1. Loading' = Loading /\ Listing' = Listing
  BY DEF Loading, Listing
<1>2. (\E e \in Edits : edit'[e].pc = "add") <=> (\E e \in Edits : edit[e].pc = "add")
  OBVIOUS
<1>3. \A e \in Loading : edit'[e].seen = edit[e].seen
  BY DEF Loading
<1> QED BY <1>1, <1>2, <1>3 DEF LoadInv

(* A step of one tick: it runs alone if nothing overlapped, so what it     *)
(* leaves in the row and in its copy is all there is to show.              *)
LEMMA TickStep ==
    ASSUME IInv, NEW t \in Ticks, tick[t].pc # "idle", NEW w \in TickRow,
           tick' = [tick EXCEPT ![t] = w],
           UNCHANGED <<entries, jobs, made, edit, clock, crashes, overlapped, spoiled>>,
           row' \in RowType, row'.present = row.present, row'.enabled = row.enabled,
           recorded' \in Times, unstableAt' \in Times,
           recorded' <= clock, unstableAt' <= clock,
           tooSoon' \in BOOLEAN, tooEarly' \in BOOLEAN,
           ~overlapped => /\ ~tooSoon' /\ ~tooEarly'
                          /\ w.pc # "idle" => TickOK(w, recorded', unstableAt')
                          /\ row'.present => /\ row'.last = recorded'
                                             /\ row'.since # Never => row'.since >= unstableAt'
    PROVE  IInv'
<1>1. tick'[t] = w /\ \A u \in Ticks : u # t => tick'[u] = tick[u]
  BY TypeParts DEF IInv
<1>2. TypeOK'
  <2>1. tick' \in [Ticks -> TickRow']
    <3>1. tick' \in [Ticks -> TickRow]
      BY TypeParts DEF IInv
    <3> QED BY <3>1 DEF TickRow
  <2>2. edit' \in [Edits -> EditRow'] /\ row' \in RowType'
    BY TypeParts DEF IInv, EditRow, RowType
  <2> QED BY <2>1, <2>2, TypeParts DEF IInv, TypeOK, RowType, TickRow, EditRow
<1>3. PastInv'
  BY DEF PastInv
<1>4. TimerInv'
  <2> SUFFICES ASSUME ~overlapped
               PROVE  /\ Running' = {} \/ Changing' = {}
                      /\ \A u, v \in Running' : u = v
                      /\ \A u \in Running' : TickOK(tick'[u], recorded', unstableAt')
                      /\ \A e \in Changing' : edit'[e].last = recorded'
    BY DEF TimerInv, CooldownHolds, StabilityHolds
  <2>1. t \in Running
    BY DEF Running
  <2>2. Changing = {} /\ \A u \in Running : u = t
    BY <2>1 DEF IInv, TimerInv
  <2>3. Changing' = {}
    BY <2>2 DEF Changing
  <2>4. \A u \in Running' : u = t /\ w.pc # "idle"
    BY <1>1, <2>2 DEF Running
  <2>5. Running' \subseteq Ticks
    BY DEF Running
  <2> QED BY <1>1, <2>3, <2>4, <2>5
<1>5. LoadInv'
  BY LoadKept, RowFacts DEF IInv
<1> QED BY <1>2, <1>3, <1>4, <1>5 DEF IInv

(* A tick alone: what the invariant says of it and of the row.             *)
LEMMA AloneFacts ==
    ASSUME IInv, ~overlapped, NEW t \in Ticks, tick[t].pc # "idle"
    PROVE  /\ TickOK(tick[t], recorded, unstableAt)
           /\ row.present => row.last = recorded /\ (row.since # Never => row.since >= unstableAt)
           /\ ~tooSoon /\ ~tooEarly
<1>1. t \in Running
  BY DEF Running
<1> QED BY <1>1 DEF IInv, TimerInv, CooldownHolds, StabilityHolds

(* A step of a tick that writes nothing. *)
LEMMA QuietTick ==
    ASSUME IInv, NEW t \in Ticks, tick[t].pc # "idle", NEW w \in TickRow,
           tick' = [tick EXCEPT ![t] = w],
           UNCHANGED <<row, entries, jobs, made, edit, clock, crashes, timers, spoiled>>,
           ~overlapped /\ w.pc # "idle" => TickOK(w, recorded, unstableAt)
    PROVE  IInv'
<1>1. UNCHANGED <<entries, jobs, made, edit, clock, crashes, overlapped, spoiled>>
      /\ recorded' = recorded /\ unstableAt' = unstableAt /\ row' = row
      /\ tooSoon' = tooSoon /\ tooEarly' = tooEarly
  BY DEF timers
<1>2. row' \in RowType /\ recorded' \in Times /\ unstableAt' \in Times
      /\ recorded' <= clock /\ unstableAt' <= clock
      /\ tooSoon' \in BOOLEAN /\ tooEarly' \in BOOLEAN
      /\ row'.present = row.present /\ row'.enabled = row.enabled
  BY <1>1, TypeParts DEF IInv, PastInv
<1>3. ~overlapped => /\ ~tooSoon' /\ ~tooEarly'
                     /\ w.pc # "idle" => TickOK(w, recorded', unstableAt')
                     /\ row'.present => /\ row'.last = recorded'
                                        /\ row'.since # Never => row'.since >= unstableAt'
  BY <1>1, AloneFacts
<1> QED BY <1>1, <1>2, <1>3, TickStep

-----------------------------------------------------------------------------
(* One lemma for each step of a tick. *)
LEMMA IdleTickType == TypeOK => IdleTick \in TickRow /\ IdleTick.pc = "idle"
BY NumberFacts DEF IdleTick, TickRow, Never

(* A tick that ends without a write. *)
LEMMA EndStep ==
    ASSUME IInv, NEW t \in Ticks, NoServer(t) \/ FinishLost(t)
    PROVE  IInv'
<1>1. /\ tick[t].pc # "idle" /\ tick' = [tick EXCEPT ![t] = IdleTick]
      /\ UNCHANGED <<row, entries, jobs, made, edit, clock, crashes, timers, spoiled>>
  BY DEF NoServer, FinishLost, Finishing
<1> QED BY <1>1, IdleTickType, QuietTick DEF IInv

LEMMA NotTrueStep ==
    ASSUME IInv, NEW t \in Ticks, NotTrue(t)
    PROVE  IInv'
<1> DEFINE w == [tick[t] EXCEPT !.pc = "not true", !.now = clock, !.since = Never]
<1>1. /\ tick[t].pc = "read"
      /\ UNCHANGED <<row, entries, jobs, made, edit, clock, crashes, timers, spoiled>>
  BY DEF NotTrue
<1>2. tick' = [tick EXCEPT ![t] = w]
  <2>1. tick = [u \in Ticks |-> tick[u]]
    BY TypeParts DEF IInv
  <2> QED BY <2>1 DEF NotTrue
<1>3. w \in TickRow /\ w.pc = "not true" /\ w.since = Never /\ w.last = tick[t].last
  BY RowFacts, NumberFacts DEF IInv, TickRow, Finishing, Never
<1> HIDE DEF w
<1>4. ~overlapped => TickOK(w, recorded, unstableAt)
  BY <1>1, <1>3, AloneFacts DEF TickOK
<1> QED BY <1>1, <1>2, <1>3, <1>4, QuietTick

(* The engine refuses, or the action fails. *)
LEMMA FinishSoon ==
    ASSUME IInv, NEW t \in Ticks, Refused(t) \/ ActionFails(t)
    PROVE  IInv'
<1> DEFINE w == [tick[t] EXCEPT !.pc = "finish"]
<1>1. /\ tick[t].pc \in {"engine", "acting"} /\ tick' = [tick EXCEPT ![t] = w]
      /\ UNCHANGED <<row, entries, jobs, made, edit, clock, crashes, timers, spoiled>>
  BY DEF Refused, ActionFails
<1>2. w \in TickRow /\ w.pc = "finish" /\ w.since = tick[t].since /\ w.last = tick[t].last
  BY RowFacts DEF IInv, TickRow, Finishing
<1> HIDE DEF w
<1>3. ~overlapped => TickOK(w, recorded, unstableAt)
  BY <1>1, <1>2, AloneFacts DEF TickOK
<1> QED BY <1>1, <1>2, <1>3, QuietTick

LEMMA SucceedsStep ==
    ASSUME IInv, NEW t \in Ticks, ActionSucceeds(t)
    PROVE  IInv'
<1> DEFINE w == [tick[t] EXCEPT !.pc = "succeeded", !.last = tick[t].now]
<1>1. /\ tick[t].pc = "acting"
      /\ UNCHANGED <<row, entries, jobs, made, edit, clock, crashes, timers, spoiled>>
  BY DEF ActionSucceeds
<1>2. tick' = [tick EXCEPT ![t] = w]
  <2>1. tick = [u \in Ticks |-> tick[u]]
    BY TypeParts DEF IInv
  <2> QED BY <2>1 DEF ActionSucceeds
<1>3. tick[t].now \in Times
  <2>1. clock \in 1..MaxClock /\ MaxClock \in Nat
    BY TypeParts, ConstantsAssumption DEF IInv
  <2> QED BY <2>1, RowFacts DEF IInv, Times
<1>4. /\ w \in TickRow /\ w.pc = "succeeded" /\ w.since = tick[t].since
      /\ w.last = tick[t].now /\ w.now = tick[t].now
  BY <1>3, RowFacts DEF IInv, TickRow, Finishing
<1> HIDE DEF w
<1>5. ~overlapped => TickOK(w, recorded, unstableAt)
  BY <1>1, <1>4, AloneFacts DEF TickOK
<1> QED BY <1>1, <1>2, <1>4, <1>5, QuietTick

(* The action begins: both timers are over, so neither history is marked.  *)
LEMMA ActStep ==
    ASSUME IInv, NEW t \in Ticks, Act(t)
    PROVE  IInv'
<1> DEFINE w == [tick[t] EXCEPT !.pc = "acting"]
<1>1. /\ tick[t].pc = "engine" /\ tick' = [tick EXCEPT ![t] = w]
      /\ UNCHANGED <<entries, jobs, made, edit, clock, crashes, overlapped, spoiled>>
      /\ row' = row /\ recorded' = recorded /\ unstableAt' = unstableAt
      /\ tooSoon' = (tooSoon \/ (recorded # Never /\ clock - recorded < Cooldown))
      /\ tooEarly' = (tooEarly \/ clock - unstableAt < Stability)
  BY DEF Act
<1>2. /\ w \in TickRow /\ w.pc = "acting" /\ w.since = tick[t].since
      /\ w.last = tick[t].last /\ w.now = tick[t].now
  BY RowFacts DEF IInv, TickRow
<1> HIDE DEF w
<1>3. tooSoon' \in BOOLEAN /\ tooEarly' \in BOOLEAN
  BY <1>1, Zenon
<1>4. row' \in RowType /\ recorded' \in Times /\ unstableAt' \in Times
      /\ recorded' <= clock /\ unstableAt' <= clock
      /\ row'.present = row.present /\ row'.enabled = row.enabled
  BY <1>1, TypeParts DEF IInv, PastInv
<1>5. ASSUME ~overlapped
      PROVE  /\ ~tooSoon' /\ ~tooEarly' /\ TickOK(w, recorded', unstableAt')
             /\ row'.present => /\ row'.last = recorded'
                                /\ row'.since # Never => row'.since >= unstableAt'
  <2>1. TickOK(tick[t], recorded, unstableAt) /\ ~tooSoon /\ ~tooEarly
    BY <1>1, <1>5, AloneFacts
  <2>2. /\ tick[t].now \in Nat /\ tick[t].now <= clock /\ clock \in Nat /\ recorded \in Nat
        /\ unstableAt \in Nat /\ Cooldown \in Nat /\ Stability \in Nat
    BY RowFacts, NumberFacts DEF IInv
  <2>3. /\ recorded <= tick[t].now
        /\ Cooldown > 0 /\ recorded # Never => tick[t].now - recorded >= Cooldown
        /\ tick[t].now - unstableAt >= Stability
    BY <1>1, <2>1 DEF TickOK
  <2>4. clock - unstableAt >= Stability
    BY <2>2, <2>3
  <2>5. recorded # Never => clock - recorded >= Cooldown
    BY <2>2, <2>3
  <2>6. ~tooSoon' /\ ~tooEarly'
    <3>1. ~(clock - unstableAt < Stability) /\ ~(recorded # Never /\ clock - recorded < Cooldown)
      BY <2>2, <2>4, <2>5
    <3> QED BY <1>1, <2>1, <3>1, Zenon
  <2>7. TickOK(w, recorded', unstableAt')
    BY <1>1, <1>2, <2>1 DEF TickOK
  <2> QED BY <1>1, <1>5, <2>6, <2>7, AloneFacts
<1> QED BY <1>1, <1>2, <1>3, <1>4, <1>5, TickStep

(* The condition is true: the timer that is written or goes on began after *)
(* the last change, and the engine is reached only when both are over.     *)
LEMMA IsTrueStep ==
    ASSUME IInv, NEW t \in Ticks, IsTrue(t)
    PROVE  IInv'
<1> DEFINE job == tick[t]
           starts == Stability > 0 /\ job.since = Never
           since == IF starts THEN clock ELSE job.since
           waiting == Stability > 0 /\ clock - since < Stability
           cooling == Cooldown > 0 /\ job.last # Never /\ clock - job.last < Cooldown
           pc == IF waiting \/ cooling THEN "finish" ELSE "engine"
           keeps == IF waiting THEN since ELSE Never
           w == [pc |-> pc, since |-> keeps, last |-> job.last, now |-> clock]
<1>1. /\ job.pc = "read" /\ tick' = [tick EXCEPT ![t] = w]
      /\ UNCHANGED <<entries, jobs, made, edit, clock, crashes, timers, spoiled>>
      /\ (starts /\ Runtime(since, job.last)) \/ row' = row
  BY DEF IsTrue
<1>2. /\ recorded' = recorded /\ unstableAt' = unstableAt /\ overlapped' = overlapped
      /\ tooSoon' = tooSoon /\ tooEarly' = tooEarly
  BY <1>1 DEF timers
<1>3. /\ clock \in Nat /\ clock \in Times /\ clock \in 0..clock /\ recorded \in Nat
      /\ unstableAt \in Nat /\ 0 \in Times /\ Stability \in Nat /\ Cooldown \in Nat
      /\ job.since \in Times /\ job.since \in Nat /\ job.last \in Times /\ job.last \in Nat
      /\ recorded <= clock /\ unstableAt <= clock
  BY RowFacts, NumberFacts DEF IInv, PastInv
<1>4. since \in Times /\ since \in Nat /\ keeps \in {since, Never} /\ pc \in {"finish", "engine"}
  BY <1>3
<1>5. pc = "engine" => ~waiting /\ ~cooling
  OBVIOUS
<1>6. w.pc = pc /\ w.since = keeps /\ w.last = job.last /\ w.now = clock
  OBVIOUS
<1>7. w \in TickRow
  BY <1>3, <1>4 DEF TickRow, Finishing, Never
<1>8. /\ row' \in RowType /\ row'.present = row.present /\ row'.enabled = row.enabled
      /\ \/ row' = row
         \/ row'.since = since /\ row'.last = job.last
  <2>1. row \in RowType
    BY TypeParts DEF IInv
  <2>2. CASE row' = row
    BY <2>1, <2>2
  <2>3. CASE Runtime(since, job.last) /\ row' # row
    <3> HIDE DEF since
    <3>1. row' = [row EXCEPT !.since = since, !.last = job.last]
      BY <2>3 DEF Runtime
    <3> QED BY <2>1, <1>3, <1>4, <3>1 DEF RowType
  <2> QED BY <1>1, <2>2, <2>3
<1>9. ASSUME ~overlapped
      PROVE  /\ TickOK(w, recorded, unstableAt) /\ ~tooSoon' /\ ~tooEarly'
             /\ row'.present => /\ row'.last = recorded
                                /\ row'.since # Never => row'.since >= unstableAt
  <2>1. /\ TickOK(job, recorded, unstableAt) /\ ~tooSoon /\ ~tooEarly
        /\ row.present => row.last = recorded /\ (row.since # Never => row.since >= unstableAt)
    BY <1>1, <1>9, AloneFacts
  <2>2. job.last = recorded /\ (job.since # Never => job.since >= unstableAt)
    BY <1>1, <2>1 DEF TickOK
  <2>3. since # Never => since >= unstableAt
    BY <1>3, <2>2
  <2>4. keeps # Never => keeps >= unstableAt
    BY <1>4, <2>3
  <2>5. ASSUME pc = "engine"
        PROVE  /\ keeps = Never /\ recorded <= clock
               /\ Cooldown > 0 /\ recorded # Never => clock - recorded >= Cooldown
               /\ clock - unstableAt >= Stability
    <3>1. ~waiting /\ ~cooling
      BY <1>5, <2>5
    <3>2. keeps = Never
      BY <3>1
    <3>3. Cooldown > 0 /\ recorded # Never => clock - recorded >= Cooldown
      BY <3>1, <1>3, <2>2
    <3>4. CASE Stability = 0
      BY <3>4, <3>2, <3>3, <1>3
    <3>5. CASE Stability > 0
      <4>1. clock - since >= Stability
        BY <3>1, <3>5, <1>3, <1>4
      <4>2. since # Never
        <5>1. clock \in 1..MaxClock
          BY TypeParts DEF IInv
        <5>2. clock # 0
          BY <5>1, ConstantsAssumption
        <5> QED BY <3>5, <5>2 DEF Never
      <4> HIDE DEF since
      <4>3. clock - unstableAt >= Stability
        BY <4>1, <4>2, <2>3, <1>3, <1>4
      <4> QED BY <4>3, <3>2, <3>3, <1>3
    <3> QED BY <3>4, <3>5, <1>3
  <2> HIDE DEF w, pc, keeps
  <2>6. TickOK(w, recorded, unstableAt)
    BY <1>4, <1>6, <2>2, <2>4, <2>5 DEF TickOK
  <2>7. row'.present => /\ row'.last = recorded
                        /\ row'.since # Never => row'.since >= unstableAt
    BY <1>8, <2>1, <2>2, <2>3
  <2> QED BY <1>2, <2>1, <2>6, <2>7
<1> HIDE DEF w
<1>10. recorded' \in Times /\ unstableAt' \in Times /\ tooSoon' \in BOOLEAN /\ tooEarly' \in BOOLEAN
       /\ recorded' <= clock /\ unstableAt' <= clock
  BY <1>2, <1>3, TypeParts DEF IInv
<1> QED BY <1>1, <1>2, <1>7, <1>8, <1>9, <1>10, TickStep

(* The end of a tick: what is recorded is what the row then says.          *)
LEMMA FinishStep ==
    ASSUME IInv, NEW t \in Ticks, Finish(t)
    PROVE  IInv'
<1> DEFINE job == tick[t]
<1>1. /\ job.pc \in Finishing /\ Runtime(job.since, job.last) /\ Record(t)
      /\ tick' = [tick EXCEPT ![t] = IdleTick]
      /\ UNCHANGED <<entries, jobs, made, edit, clock, crashes, overlapped, spoiled>>
      /\ tooSoon' = tooSoon /\ tooEarly' = tooEarly
  BY DEF Finish
<1>2. job.pc # "idle"
  BY <1>1 DEF Finishing
<1>3. /\ clock \in Nat /\ recorded \in Nat /\ unstableAt \in Nat
      /\ job.since \in Times /\ job.last \in Times /\ job.now \in Nat /\ job.now <= clock
      /\ recorded <= clock /\ unstableAt <= clock /\ recorded \in Times /\ unstableAt \in Times
      /\ job.last \in Nat /\ job.since \in Nat
  BY RowFacts, NumberFacts, TypeParts DEF IInv, PastInv
<1>4. job.now \in Times
  <2>1. clock \in 1..MaxClock /\ MaxClock \in Nat
    BY TypeParts, ConstantsAssumption DEF IInv
  <2> QED BY <2>1, <1>3 DEF Times
<1>5. /\ recorded' \in {recorded, job.now} /\ unstableAt' \in {unstableAt, job.now}
      /\ recorded' \in Times /\ unstableAt' \in Times /\ recorded' <= clock /\ unstableAt' <= clock
  BY <1>1, <1>3, <1>4 DEF Record
<1>6. /\ row' \in RowType /\ row'.present = row.present /\ row'.enabled = row.enabled
      /\ row.present => row'.since = job.since /\ row'.last = job.last
  <2>1. row \in RowType
    BY TypeParts DEF IInv
  <2>2. CASE row.present
    <3>1. row' = [row EXCEPT !.since = job.since, !.last = job.last]
      BY <1>1, <2>2 DEF Runtime
    <3> QED BY <2>1, <1>3, <3>1 DEF RowType
  <2>3. CASE ~row.present
    BY <1>1, <2>1, <2>3 DEF Runtime
  <2> QED BY <2>2, <2>3
<1>7. ASSUME ~overlapped
      PROVE  /\ ~tooSoon' /\ ~tooEarly'
             /\ job.last = recorded' /\ (job.since # Never => job.since >= unstableAt')
  <2>1. TickOK(job, recorded, unstableAt) /\ ~tooSoon /\ ~tooEarly
    BY <1>2, <1>7, AloneFacts
  <2>2. CASE job.pc = "succeeded"
    <3>1. job.last = job.now /\ recorded <= job.now /\ job.since = Never
      BY <2>1, <2>2 DEF TickOK
    <3>2. recorded' = job.now
      BY <1>1, <1>3, <2>2, <3>1 DEF Record
    <3> QED BY <1>1, <2>1, <3>1, <3>2
  <2>3. CASE job.pc = "not true"
    BY <1>1, <2>1, <2>3 DEF TickOK, Record
  <2>4. CASE job.pc = "finish"
    BY <1>1, <2>1, <2>4 DEF TickOK, Record
  <2> QED BY <1>1, <2>2, <2>3, <2>4 DEF Finishing
<1>8. tooSoon' \in BOOLEAN /\ tooEarly' \in BOOLEAN
  BY <1>1, TypeParts DEF IInv
<1>9. IdleTick \in TickRow /\ IdleTick.pc = "idle"
  BY IdleTickType DEF IInv
<1> QED BY <1>1, <1>2, <1>5, <1>6, <1>7, <1>8, <1>9, TickStep

(* The start of a tick, alone or marked as overlapping.                    *)
LEMMA FireStep ==
    ASSUME IInv, NEW t \in Ticks, Fire(t)
    PROVE  IInv'
<1> DEFINE w == [pc |-> "read", since |-> row.since, last |-> row.last, now |-> Never]
<1>1. /\ tick[t].pc = "idle" /\ row.present /\ tick' = [tick EXCEPT ![t] = w]
      /\ overlapped' = (overlapped \/ Running # {} \/ Changing # {})
      /\ UNCHANGED <<row, entries, jobs, made, edit, clock, crashes, recorded, unstableAt,
                     tooSoon, tooEarly, spoiled>>
  BY DEF Fire
<1>2. w \in TickRow /\ w.pc = "read" /\ w.since = row.since /\ w.last = row.last
  BY RowFacts, NumberFacts DEF IInv, TickRow, Never
<1> HIDE DEF w
<1>3. tick'[t] = w /\ \A u \in Ticks : u # t => tick'[u] = tick[u]
  BY <1>1, TypeParts DEF IInv
<1>4. overlapped' \in BOOLEAN
  BY <1>1, Zenon
<1>5. TypeOK'
  <2>1. tick' \in [Ticks -> TickRow]
    BY <1>1, <1>2, TypeParts DEF IInv
  <2>2. tick' \in [Ticks -> TickRow']
    BY <1>1, <2>1 DEF TickRow
  <2> QED BY <1>1, <1>4, <2>2, TypeParts DEF IInv, TypeOK, TickRow
<1>6. PastInv'
  BY <1>1 DEF IInv, PastInv
<1>7. TimerInv'
  <2> SUFFICES ASSUME ~overlapped' PROVE TimerInv'
    BY DEF TimerInv
  <2>1. ~overlapped /\ Running = {} /\ Changing = {}
    BY <1>1
  <2>2. Changing' = {}
    BY <1>1, <2>1 DEF Changing
  <2>3. \A u \in Running' : u = t
    BY <1>3, <2>1 DEF Running
  <2>4. row.last = recorded /\ (row.since # Never => row.since >= unstableAt)
    BY <1>1, <2>1 DEF IInv, TimerInv
  <2>5. TickOK(w, recorded', unstableAt')
    BY <1>1, <1>2, <2>4 DEF TickOK
  <2>6. (\A u \in Running : TickOK(tick[u], recorded, unstableAt))'
    BY <1>3, <2>3, <2>5 DEF Running
  <2>7. CooldownHolds' /\ StabilityHolds'
    BY <1>1, <2>1 DEF IInv, TimerInv, CooldownHolds, StabilityHolds
  <2> QED BY <1>1, <2>2, <2>3, <2>4, <2>6, <2>7 DEF TimerInv
<1>8. LoadInv'
  BY <1>1, LoadKept DEF IInv
<1> QED BY <1>5, <1>6, <1>7, <1>8 DEF IInv

-----------------------------------------------------------------------------
(* The handlers *)

(* A step of a handler that changes neither the timers nor the ticks, and  *)
(* of the row at most that it is gone.                                     *)
LEMMA TimerKept ==
    ASSUME TimerInv, UNCHANGED <<tick, timers>>,
           \A e \in Edits : edit'[e].pc = "write" => edit'[e] = edit[e],
           row'.present => row.present /\ row'.last = row.last /\ row'.since = row.since
    PROVE  TimerInv'
<1>1. /\ recorded' = recorded /\ unstableAt' = unstableAt /\ overlapped' = overlapped
      /\ tooSoon' = tooSoon /\ tooEarly' = tooEarly /\ Running' = Running /\ tick' = tick
  BY DEF timers, Running
<1>2. Changing' \subseteq Changing /\ \A e \in Changing' : edit'[e] = edit[e]
  BY DEF Changing
<1> SUFFICES ASSUME ~overlapped'
             PROVE  TimerInv'
  BY DEF TimerInv
<1>3. (\A t \in Running : TickOK(tick[t], recorded, unstableAt))'
  BY <1>1 DEF TimerInv, TickOK
<1>4. CooldownHolds' /\ StabilityHolds'
  BY <1>1 DEF TimerInv, CooldownHolds, StabilityHolds
<1>5. (Running = {} \/ Changing = {})' /\ (\A t, u \in Running : t = u)'
  BY <1>1, <1>2 DEF TimerInv
<1>6. row'.present => row'.last = recorded' /\ (row'.since # Never => row'.since >= unstableAt')
  BY <1>1 DEF TimerInv
<1>7. \A e \in Changing' : edit'[e].last = recorded'
  BY <1>1, <1>2 DEF TimerInv
<1> QED BY <1>3, <1>4, <1>5, <1>6, <1>7 DEF TimerInv

(* The frame of such a step: the types, the timers and the past.           *)
LEMMA HandlerStep ==
    ASSUME IInv, NEW e \in Edits, NEW w \in EditRow, edit' = [edit EXCEPT ![e] = w],
           UNCHANGED <<tick, clock, crashes, timers>>, w.pc # "write",
           row' \in RowType, spoiled' \in BOOLEAN,
           entries' \subseteq 1..made', jobs' \in 0..made', made' \in 1..MaxEntries,
           row'.present => row.present /\ row'.last = row.last /\ row'.since = row.since
    PROVE  /\ TypeOK' /\ PastInv' /\ TimerInv'
           /\ edit'[e] = w /\ \A f \in Edits : f # e => edit'[f] = edit[f]
<1>1. /\ edit'[e] = w /\ \A f \in Edits : f # e => edit'[f] = edit[f]
      /\ edit' \in [Edits -> EditRow]
  BY TypeParts DEF IInv
<1>2. TypeOK'
  BY <1>1, TypeParts DEF IInv, TypeOK, EditRow, RowType, timers
<1>3. PastInv'
  BY DEF IInv, PastInv, timers
<1>4. \A f \in Edits : edit'[f].pc = "write" => edit'[f] = edit[f]
  BY <1>1
<1>5. TimerInv'
  BY <1>4, TimerKept DEF IInv
<1> QED BY <1>1, <1>2, <1>3, <1>5

LEMMA EditReadStep ==
    ASSUME IInv, NEW e \in Edits, EditRead(e)
    PROVE  IInv'
<1> DEFINE w == [pc |-> "write", last |-> row.last, seen |-> FALSE]
<1>1. /\ edit[e].pc = "idle" /\ row.present /\ edit' = [edit EXCEPT ![e] = w]
      /\ overlapped' = (overlapped \/ Running # {})
      /\ UNCHANGED <<row, entries, jobs, made, tick, clock, crashes, recorded, unstableAt,
                     tooSoon, tooEarly, spoiled>>
  BY DEF EditRead
<1>2. w \in EditRow /\ w.pc = "write" /\ w.last = row.last
  BY RowFacts DEF IInv, EditRow
<1> HIDE DEF w
<1>3. /\ edit'[e] = w /\ \A f \in Edits : f # e => edit'[f] = edit[f]
      /\ edit' \in [Edits -> EditRow]
  BY <1>1, <1>2, TypeParts DEF IInv
<1>4. overlapped' \in BOOLEAN
  BY <1>1, Zenon
<1>5. TypeOK'
  BY <1>1, <1>3, <1>4, TypeParts DEF IInv, TypeOK, EditRow
<1>6. PastInv'
  BY <1>1 DEF IInv, PastInv
<1>7. TimerInv'
  <2> SUFFICES ASSUME ~overlapped' PROVE TimerInv'
    BY DEF TimerInv
  <2>1. ~overlapped /\ Running = {}
    BY <1>1
  <2>2. Running' = {}
    BY <1>1, <2>1 DEF Running
  <2>3. row.last = recorded /\ (row.since # Never => row.since >= unstableAt)
    BY <1>1, <2>1 DEF IInv, TimerInv
  <2>4. \A f \in Changing' : edit'[f].last = recorded'
    <3> SUFFICES ASSUME NEW f \in Changing' PROVE edit'[f].last = recorded'
      OBVIOUS
    <3>1. CASE f = e
      BY <3>1, <1>1, <1>2, <1>3, <2>3
    <3>2. CASE f # e
      <4>1. f \in Changing /\ edit'[f] = edit[f]
        BY <3>2, <1>3 DEF Changing
      <4> QED BY <4>1, <1>1, <2>1 DEF IInv, TimerInv
    <3> QED BY <3>1, <3>2
  <2>5. CooldownHolds' /\ StabilityHolds'
    BY <1>1, <2>1 DEF IInv, TimerInv, CooldownHolds, StabilityHolds
  <2> QED BY <1>1, <2>2, <2>3, <2>4, <2>5 DEF TimerInv
<1>8. LoadInv'
  <2>1. Loading' = Loading /\ Listing' = Listing
        /\ ((\E f \in Edits : edit'[f].pc = "add") <=> (\E f \in Edits : edit[f].pc = "add"))
    BY <1>1, <1>2, <1>3 DEF Loading, Listing
  <2>2. \A f \in Loading : edit'[f] = edit[f]
    BY <1>1, <1>3 DEF Loading
  <2> QED BY <1>1, <2>1, <2>2 DEF IInv, LoadInv
<1> QED BY <1>5, <1>6, <1>7, <1>8 DEF IInv

(* The form is written: the handlers that also read it know the same last  *)
(* action, and no tick runs unless one overlapped.                         *)
LEMMA EditWriteStep ==
    ASSUME IInv, NEW e \in Edits, EditWrite(e)
    PROVE  IInv'
<1> DEFINE w == [edit[e] EXCEPT !.pc = "list"]
<1>1. /\ edit[e].pc = "write" /\ edit' = [edit EXCEPT ![e] = w] /\ unstableAt' = clock
      /\ UNCHANGED <<entries, jobs, made, tick, clock, crashes, recorded, overlapped,
                     tooSoon, tooEarly, spoiled>>
  BY DEF EditWrite
<1>2. PICK on \in BOOLEAN :
         row' = IF row.present
                THEN [present |-> TRUE, enabled |-> on, since |-> Never, last |-> edit[e].last]
                ELSE row
  BY DEF EditWrite
<1>3. w \in EditRow /\ w.pc = "list"
  BY RowFacts DEF IInv, EditRow
<1> HIDE DEF w
<1>4. /\ edit'[e] = w /\ \A f \in Edits : f # e => edit'[f] = edit[f]
      /\ edit' \in [Edits -> EditRow]
  BY <1>1, <1>3, TypeParts DEF IInv
<1>5. /\ row' \in RowType /\ row'.present = row.present
      /\ row.present => row'.since = Never /\ row'.last = edit[e].last
  <2>1. row \in RowType /\ edit[e].last \in Times /\ Never \in Times
    BY TypeParts, RowFacts, NumberFacts DEF IInv, Never
  <2>2. CASE row.present
    <3>1. row' = [present |-> TRUE, enabled |-> on, since |-> Never, last |-> edit[e].last]
      BY <1>2, <2>2
    <3>2. row' \in RowType
      BY <2>1, <3>1 DEF RowType
    <3> QED BY <2>1, <2>2, <3>1, <3>2 DEF RowType
  <2>3. CASE ~row.present
    BY <1>2, <2>1, <2>3
  <2> QED BY <2>2, <2>3
<1>6. TypeOK'
  <2>1. unstableAt' \in Times
    BY <1>1, NumberFacts DEF IInv
  <2> QED BY <1>1, <1>4, <1>5, <2>1, TypeParts DEF IInv, TypeOK, EditRow, RowType
<1>7. PastInv'
  <2>1. clock \in Nat
    BY NumberFacts DEF IInv
  <2> QED BY <1>1, <2>1 DEF IInv, PastInv
<1>8. TimerInv'
  <2> SUFFICES ASSUME ~overlapped' PROVE TimerInv'
    BY DEF TimerInv
  <2>1. ~overlapped /\ e \in Changing
    BY <1>1 DEF Changing
  <2>2. Running' = {} /\ edit[e].last = recorded
    BY <1>1, <2>1 DEF IInv, TimerInv, Running
  <2>3. \A f \in Changing' : edit'[f].last = recorded'
    <3> SUFFICES ASSUME NEW f \in Changing' PROVE edit'[f].last = recorded'
      OBVIOUS
    <3>1. f # e /\ f \in Changing /\ edit'[f] = edit[f]
      BY <1>3, <1>4 DEF Changing
    <3> QED BY <3>1, <1>1, <2>1 DEF IInv, TimerInv
  <2>4. CooldownHolds' /\ StabilityHolds'
    BY <1>1, <2>1 DEF IInv, TimerInv, CooldownHolds, StabilityHolds
  <2>5. row'.present => row'.last = recorded' /\ row'.since = Never
    BY <1>1, <1>5, <2>2
  <2> QED BY <2>2, <2>3, <2>4, <2>5 DEF TimerInv
<1>9. LoadInv'
  <2>1. Loading' = Loading /\ e \in Listing'
        /\ ((\E f \in Edits : edit'[f].pc = "add") <=> (\E f \in Edits : edit[f].pc = "add"))
    BY <1>1, <1>3, <1>4 DEF Loading, Listing
  <2>2. Listing' # {}
    BY <2>1
  <2> QED BY <1>1, <2>1, <2>2 DEF IInv, LoadInv
<1> QED BY <1>6, <1>7, <1>8, <1>9 DEF IInv

LEMMA EditFailsStep ==
    ASSUME IInv, NEW e \in Edits, EditFails(e)
    PROVE  IInv'
<1>1. /\ edit[e].pc = "write" /\ edit' = [edit EXCEPT ![e] = IdleEdit]
      /\ UNCHANGED <<row, entries, jobs, made, tick, clock, crashes, timers, spoiled>>
  BY DEF EditFails
<1>2. IdleEdit \in EditRow /\ IdleEdit.pc = "idle"
  BY NumberFacts DEF IInv, IdleEdit, EditRow, Never
<1>3. /\ TypeOK' /\ PastInv' /\ TimerInv'
      /\ edit'[e] = IdleEdit /\ \A f \in Edits : f # e => edit'[f] = edit[f]
  BY <1>1, <1>2, TypeParts, HandlerStep DEF IInv
<1>4. LoadInv'
  <2>1. Loading' = Loading /\ Listing' = Listing
        /\ ((\E f \in Edits : edit'[f].pc = "add") <=> (\E f \in Edits : edit[f].pc = "add"))
    BY <1>1, <1>2, <1>3 DEF Loading, Listing
  <2>2. \A f \in Loading : edit'[f] = edit[f]
    BY <1>1, <1>3 DEF Loading
  <2> QED BY <1>1, <2>1, <2>2 DEF IInv, LoadInv
<1> QED BY <1>3, <1>4 DEF IInv

(* The row without the rule. *)
LEMMA GoneRow ==
    ASSUME TypeOK
    PROVE  LET gone == [row EXCEPT !.present = FALSE] IN
           gone \in RowType /\ ~gone.present
BY TypeParts DEF RowType

LEMMA DeleteServerStep ==
    ASSUME IInv, DeleteServer
    PROVE  IInv'
<1>1. /\ row' \in RowType /\ ~row'.present
      /\ UNCHANGED <<entries, jobs, made, tick, edit, clock, crashes, timers, spoiled>>
  BY GoneRow DEF IInv, DeleteServer
<1>2. TypeOK'
  BY <1>1, TypeParts DEF IInv, TypeOK, RowType, timers
<1>3. PastInv'
  BY <1>1 DEF IInv, PastInv, timers
<1>4. TimerInv'
  BY <1>1, TimerKept DEF IInv
<1>5. LoadInv'
  BY <1>1, LoadKept DEF IInv
<1> QED BY <1>2, <1>3, <1>4, <1>5 DEF IInv

LEMMA DeleteOrOtherStep ==
    ASSUME IInv, NEW e \in Edits, DeleteOrOther(e)
    PROVE  IInv'
<1> DEFINE w == [edit[e] EXCEPT !.pc = "list"]
<1>1. /\ edit[e].pc = "idle" /\ edit' = [edit EXCEPT ![e] = w]
      /\ UNCHANGED <<entries, jobs, made, tick, clock, crashes, timers, spoiled>>
      /\ row' = [row EXCEPT !.present = FALSE] \/ row' = row
  BY DEF DeleteOrOther
<1>2. row' \in RowType /\ (row'.present => row' = row)
  BY <1>1, GoneRow, TypeParts DEF IInv
<1>3. w \in EditRow /\ w.pc = "list"
  BY RowFacts DEF IInv, EditRow
<1> HIDE DEF w
<1>4. /\ TypeOK' /\ PastInv' /\ TimerInv'
      /\ edit'[e] = w /\ \A f \in Edits : f # e => edit'[f] = edit[f]
  BY <1>1, <1>2, <1>3, TypeParts, HandlerStep DEF IInv
<1>5. LoadInv'
  <2>1. Loading' = Loading /\ e \in Listing'
        /\ ((\E f \in Edits : edit'[f].pc = "add") <=> (\E f \in Edits : edit[f].pc = "add"))
    BY <1>1, <1>3, <1>4 DEF Loading, Listing
  <2>2. Listing' # {}
    BY <2>1
  <2> QED BY <1>1, <2>1, <2>2 DEF IInv, LoadInv
<1> QED BY <1>4, <1>5 DEF IInv

(* The list of a reload is the state of the rule, and no other reload is   *)
(* past its list unless the run is marked.                                 *)
LEMMA LoadListStep ==
    ASSUME IInv, NEW e \in Edits, LoadList(e)
    PROVE  IInv'
<1> DEFINE w == [edit[e] EXCEPT !.pc = "remove", !.seen = Active]
<1>1. /\ edit[e].pc = "list" /\ edit' = [edit EXCEPT ![e] = w]
      /\ spoiled' = (spoiled \/ \E f \in Edits : edit[f].pc \in {"remove", "add"})
      /\ UNCHANGED <<row, entries, jobs, made, tick, clock, crashes, timers>>
  BY DEF LoadList
<1>2. Active \in BOOLEAN
  BY Zenon DEF Active
<1>3. w \in EditRow /\ w.pc = "remove" /\ w.seen = Active
  <2> HIDE DEF Active
  <2> QED BY <1>2, RowFacts DEF IInv, EditRow
<1> HIDE DEF w
<1>4. spoiled' \in BOOLEAN
  BY <1>1, Zenon
<1>5. /\ TypeOK' /\ PastInv' /\ TimerInv'
      /\ edit'[e] = w /\ \A f \in Edits : f # e => edit'[f] = edit[f]
  BY <1>1, <1>3, <1>4, TypeParts, HandlerStep DEF IInv
<1>6. LoadInv'
  <2> SUFFICES ASSUME ~spoiled' PROVE LoadInv'
    BY DEF LoadInv
  <2>1. ~spoiled /\ Loading = {}
    BY <1>1 DEF Loading
  <2>2. \A f \in Loading' : f = e
    BY <1>5, <2>1 DEF Loading
  <2>3. ~(\E f \in Edits : edit'[f].pc = "add") /\ ~(\E f \in Edits : edit[f].pc = "add")
    BY <1>3, <1>5, <2>1 DEF Loading
  <2>4. row'.present => edit'[e].seen = row'.enabled
    BY <1>1, <1>3, <1>5, RowFacts DEF IInv, Active
  <2>5. e \in Loading'
    BY <1>3, <1>5 DEF Loading
  <2> QED BY <1>1, <2>1, <2>2, <2>3, <2>4, <2>5 DEF IInv, LoadInv
<1> QED BY <1>5, <1>6 DEF IInv

LEMMA LoadFailsStep ==
    ASSUME IInv, NEW e \in Edits, LoadFails(e)
    PROVE  IInv'
<1>1. /\ edit' = [edit EXCEPT ![e] = IdleEdit] /\ spoiled' = TRUE
      /\ UNCHANGED <<row, entries, jobs, made, tick, clock, crashes, timers>>
  BY DEF LoadFails
<1>2. IdleEdit \in EditRow /\ IdleEdit.pc = "idle"
  BY NumberFacts DEF IInv, IdleEdit, EditRow, Never
<1>3. TypeOK' /\ PastInv' /\ TimerInv'
  BY <1>1, <1>2, TypeParts, HandlerStep DEF IInv
<1>4. LoadInv'
  BY <1>1 DEF LoadInv
<1> QED BY <1>3, <1>4 DEF IInv

LEMMA LoadRemoveStep ==
    ASSUME IInv, NEW e \in Edits, LoadRemove(e)
    PROVE  IInv'
<1> DEFINE w == [edit[e] EXCEPT !.pc = "add"]
<1>1. /\ edit[e].pc = "remove" /\ edit' = [edit EXCEPT ![e] = w] /\ entries' = entries \ {jobs}
      /\ UNCHANGED <<row, jobs, made, tick, clock, crashes, timers, spoiled>>
  BY DEF LoadRemove
<1>2. w \in EditRow /\ w.pc = "add" /\ w.seen = edit[e].seen
  BY RowFacts DEF IInv, EditRow
<1> HIDE DEF w
<1>3. entries' \subseteq 1..made' /\ jobs' \in 0..made' /\ made' \in 1..MaxEntries
      /\ row' \in RowType /\ spoiled' \in BOOLEAN
  BY <1>1, TypeParts DEF IInv
<1>4. /\ TypeOK' /\ PastInv' /\ TimerInv'
      /\ edit'[e] = w /\ \A f \in Edits : f # e => edit'[f] = edit[f]
  BY <1>1, <1>2, <1>3, HandlerStep
<1>5. LoadInv'
  <2> SUFFICES ASSUME ~spoiled PROVE LoadInv'
    BY <1>1 DEF LoadInv
  <2>1. Loading' = Loading /\ Listing' = Listing /\ e \in Loading
        /\ (\E f \in Edits : edit'[f].pc = "add")
    BY <1>1, <1>2, <1>4 DEF Loading, Listing
  <2>2. \A f \in Loading : edit'[f].seen = edit[f].seen
    BY <1>2, <1>4 DEF Loading
  <2>3. entries' = {}
    BY <1>1 DEF IInv, LoadInv
  <2> QED BY <1>1, <2>1, <2>2, <2>3 DEF IInv, LoadInv
<1> QED BY <1>4, <1>5 DEF IInv

LEMMA LoadAddStep ==
    ASSUME IInv, NEW e \in Edits, LoadAdd(e)
    PROVE  IInv'
<1>1. /\ edit[e].pc = "add" /\ edit' = [edit EXCEPT ![e] = IdleEdit]
      /\ UNCHANGED <<row, tick, clock, crashes, timers, spoiled>>
      /\ IF edit[e].seen
         THEN /\ made < MaxEntries /\ made' = made + 1 /\ jobs' = made + 1
              /\ entries' = entries \cup {made + 1}
         ELSE jobs' = 0 /\ made' = made /\ entries' = entries
  BY DEF LoadAdd
<1>2. IdleEdit \in EditRow /\ IdleEdit.pc = "idle"
  BY NumberFacts DEF IInv, IdleEdit, EditRow, Never
<1>3. entries' \subseteq 1..made' /\ jobs' \in 0..made' /\ made' \in 1..MaxEntries
  <2>1. /\ made \in Nat /\ MaxEntries \in Nat /\ made \in 1..MaxEntries /\ entries \subseteq 1..made
    BY TypeParts, NumberFacts, ConstantsAssumption DEF IInv
  <2>2. CASE edit[e].seen
    <3>1. /\ made < MaxEntries /\ made' = made + 1 /\ jobs' = made + 1
          /\ entries' = entries \cup {made + 1}
      BY <1>1, <2>2
    <3>2. 1..made \subseteq 1..made' /\ made + 1 \in 1..made' /\ jobs' \in 0..made'
          /\ made' \in 1..MaxEntries
      BY <2>1, <3>1
    <3> QED BY <2>1, <3>1, <3>2
  <2>3. CASE ~edit[e].seen
    <3>1. jobs' = 0 /\ made' = made /\ entries' = entries
      BY <1>1, <2>3
    <3>2. 0 \in 0..made
      BY <2>1
    <3> QED BY <2>1, <3>1, <3>2
  <2> QED BY <2>2, <2>3
<1>4. row' \in RowType /\ spoiled' \in BOOLEAN
  BY <1>1, TypeParts DEF IInv
<1>5. /\ TypeOK' /\ PastInv' /\ TimerInv'
      /\ edit'[e] = IdleEdit /\ \A f \in Edits : f # e => edit'[f] = edit[f]
  BY <1>1, <1>2, <1>3, <1>4, HandlerStep
<1>6. LoadInv'
  <2> SUFFICES ASSUME ~spoiled PROVE LoadInv'
    BY <1>1 DEF LoadInv
  <2>1. e \in Loading
    BY <1>1 DEF Loading
  <2>2. entries = {} /\ \A f \in Loading : f = e
    BY <1>1, <2>1 DEF IInv, LoadInv
  <2>3. Loading' = {} /\ Listing' = Listing /\ ~(\E f \in Edits : edit'[f].pc = "add")
    BY <1>1, <1>2, <1>5, <2>2 DEF Loading, Listing
  <2>4. made + 1 # 0
    BY NumberFacts DEF IInv
  <2>5. entries' = (IF jobs' = 0 THEN {} ELSE {jobs'}) /\ (jobs' # 0 <=> edit[e].seen)
    BY <1>1, <2>2, <2>4
  <2>6. row.present /\ Listing = {} => edit[e].seen = row.enabled
    BY <2>1 DEF IInv, LoadInv
  <2> QED BY <1>1, <2>3, <2>5, <2>6 DEF LoadInv
<1> QED BY <1>5, <1>6 DEF IInv

-----------------------------------------------------------------------------
(* Time, the restart and the theorems *)

LEMMA AdvanceStep ==
    ASSUME IInv, Advance
    PROVE  IInv'
<1>1. /\ clock < MaxClock /\ clock' = clock + 1
      /\ UNCHANGED <<row, entries, jobs, made, tick, edit, crashes, timers, spoiled>>
  BY DEF Advance
<1>2. clock \in Nat /\ MaxClock \in Nat
  BY NumberFacts, ConstantsAssumption DEF IInv
<1>3. tick' \in [Ticks -> TickRow']
  <2>1. 0..clock \subseteq 0..clock'
    BY <1>1, <1>2
  <2>2. \A t \in Ticks : tick[t] \in TickRow'
    <3> SUFFICES ASSUME NEW t \in Ticks PROVE tick[t] \in TickRow'
      OBVIOUS
    <3>1. tick[t] \in TickRow
      BY RowFacts DEF IInv
    <3> QED BY <2>1, <3>1 DEF TickRow
  <2> QED BY <1>1, <2>2, TypeParts DEF IInv
<1>4. TypeOK'
  <2>1. clock' \in 1..MaxClock
    BY <1>1, <1>2
  <2> QED BY <1>1, <1>3, <2>1, TypeParts DEF IInv, TypeOK, TickRow, timers
<1>5. PastInv'
  BY <1>1, <1>2, NumberFacts DEF IInv, PastInv, timers
<1>6. TimerInv'
  BY <1>1, TimerKept DEF IInv
<1>7. LoadInv'
  BY <1>1, LoadKept DEF IInv
<1> QED BY <1>4, <1>5, <1>6, <1>7 DEF IInv

LEMMA CrashStep ==
    ASSUME IInv, Crash
    PROVE  IInv'
<1>1. /\ crashes < MaxCrashes /\ made < MaxEntries /\ crashes' = crashes + 1
      /\ tick' = [t \in Ticks |-> IdleTick] /\ edit' = [e \in Edits |-> IdleEdit]
      /\ made' = made + 1 /\ jobs' = (IF Active THEN made + 1 ELSE 0)
      /\ entries' = (IF Active THEN {made + 1} ELSE {})
      /\ UNCHANGED <<row, clock, timers, spoiled>>
  BY DEF Crash
<1>2. made \in Nat /\ MaxEntries \in Nat /\ MaxCrashes \in Nat /\ crashes \in Nat
  BY NumberFacts, ConstantsAssumption, TypeParts DEF IInv
<1>3. /\ IdleTick \in TickRow /\ IdleTick.pc = "idle"
      /\ IdleEdit \in EditRow /\ IdleEdit.pc = "idle"
  BY IdleTickType, NumberFacts DEF IInv, IdleEdit, EditRow, Never
<1>4. TypeOK'
  <2>1. tick' \in [Ticks -> TickRow'] /\ edit' \in [Edits -> EditRow]
    BY <1>1, <1>3 DEF TickRow
  <2>2. crashes' \in 0..MaxCrashes /\ made' \in 1..MaxEntries
    BY <1>1, <1>2
  <2>3. entries' \subseteq 1..made' /\ jobs' \in 0..made'
    <3> HIDE DEF Active
    <3>1. CASE Active
      BY <1>1, <1>2, <3>1
    <3>2. CASE ~Active
      BY <1>1, <1>2, <3>2
    <3> QED BY <3>1, <3>2
  <2> QED BY <1>1, <2>1, <2>2, <2>3, TypeParts DEF IInv, TypeOK, TickRow, EditRow, timers
<1>5. PastInv'
  BY <1>1 DEF IInv, PastInv, timers
<1>6. Running' = {} /\ Changing' = {} /\ Loading' = {} /\ Listing' = {}
      /\ ~(\E e \in Edits : edit'[e].pc = "add")
  BY <1>1, <1>3 DEF Running, Changing, Loading, Listing
<1>7. TimerInv'
  BY <1>1, <1>6 DEF IInv, TimerInv, timers, CooldownHolds, StabilityHolds
<1>8. LoadInv'
  <2>1. made + 1 # 0
    BY <1>2
  <2>2. entries' = (IF jobs' = 0 THEN {} ELSE {jobs'}) /\ (jobs' # 0 <=> Active)
    BY <1>1, <2>1
  <2>3. row'.present => (jobs' # 0 <=> row'.enabled)
    BY <1>1, <2>2 DEF Active
  <2> QED BY <1>6, <2>2, <2>3 DEF LoadInv
<1> QED BY <1>4, <1>5, <1>7, <1>8 DEF IInv

LEMMA InitIInv == Init => IInv
<1> SUFFICES ASSUME Init PROVE IInv
  OBVIOUS
<1>1. 0 \in Times /\ 1 \in Times /\ 1 \in 1..MaxClock /\ 1 \in 1..MaxEntries
      /\ 0 \in 0..MaxCrashes /\ 1 \in 0..1 /\ 0 \in 0..1 /\ {1} \subseteq 1..1
  BY ConstantsAssumption DEF Times
<1>2. IdleTick \in TickRow /\ IdleTick.pc = "idle"
  BY <1>1 DEF Init, IdleTick, TickRow, Never
<1>3. IdleEdit \in EditRow /\ IdleEdit.pc = "idle"
  BY <1>1 DEF IdleEdit, EditRow, Never
<1>4. row \in RowType /\ row.present /\ row.enabled /\ row.last = Never /\ row.since = Never
  BY <1>1 DEF Init, RowType, Never
<1>5. TypeOK
  BY <1>1, <1>2, <1>3, <1>4, TypeParts DEF Init, Never
<1>6. PastInv
  BY DEF Init, PastInv, Never
<1>7. Running = {} /\ Changing = {} /\ Loading = {} /\ Listing = {}
      /\ ~(\E e \in Edits : edit[e].pc = "add")
  BY <1>2, <1>3 DEF Init, Running, Changing, Loading, Listing
<1>8. TimerInv
  BY <1>4, <1>7 DEF Init, TimerInv, CooldownHolds, StabilityHolds
<1>9. LoadInv
  BY <1>4, <1>7 DEF Init, LoadInv
<1> QED BY <1>5, <1>6, <1>8, <1>9 DEF IInv

(* The inductive invariant: nothing recorded lies in the future, a tick    *)
(* that runs alone knows what is recorded, and a reload that runs alone    *)
(* knows the rule it lists.                                                *)
THEOREM Invariance == Spec => []IInv
<1>1. IInv /\ [Next]_vars => IInv'
  <2> SUFFICES ASSUME IInv, [Next]_vars PROVE IInv'
    OBVIOUS
  <2>1. CASE UNCHANGED vars
    <3>1. UNCHANGED <<row, entries, jobs, made, tick, edit, clock, crashes, timers, spoiled>>
      BY <2>1 DEF vars
    <3>2. TypeOK' /\ PastInv'
      BY <3>1 DEF IInv, TypeOK, PastInv, timers
    <3>3. TimerInv' /\ LoadInv'
      BY <3>1, TimerKept, LoadKept DEF IInv
    <3> QED BY <3>2, <3>3 DEF IInv
  <2>2. ASSUME NEW t \in Ticks,
               \/ Fire(t) \/ NoServer(t) \/ NotTrue(t) \/ IsTrue(t) \/ Refused(t) \/ Act(t)
               \/ ActionFails(t) \/ ActionSucceeds(t) \/ Finish(t) \/ FinishLost(t)
        PROVE  IInv'
    BY <2>2, FireStep, EndStep, NotTrueStep, IsTrueStep, FinishSoon, ActStep, SucceedsStep,
       FinishStep
  <2>3. ASSUME NEW e \in Edits,
               \/ EditRead(e) \/ EditWrite(e) \/ EditFails(e) \/ DeleteOrOther(e)
               \/ LoadList(e) \/ LoadFails(e) \/ LoadRemove(e) \/ LoadAdd(e)
        PROVE  IInv'
    BY <2>3, EditReadStep, EditWriteStep, EditFailsStep, DeleteOrOtherStep, LoadListStep,
       LoadFailsStep, LoadRemoveStep, LoadAddStep
  <2>4. CASE DeleteServer \/ Advance \/ Crash
    BY <2>4, DeleteServerStep, AdvanceStep, CrashStep
  <2> QED BY <2>1, <2>2, <2>3, <2>4 DEF Next
<1> QED BY <1>1, InitIInv, PTL DEF Spec

(* For every stability period and cooldown and any number of ticks and     *)
(* handlers: while ticks overlap neither each other nor a change of the    *)
(* rule, no action of executeJob begins within the cooldown of a recorded  *)
(* one or before the condition was stable, restarts and lost writes        *)
(* included.                                                               *)
THEOREM TimersHold == Spec => []TimersHoldAlone
<1>1. IInv => TimersHoldAlone
  BY DEF IInv, TimerInv, TimersHoldAlone
<1> QED BY <1>1, Invariance, PTL

(* For any number of handlers: when no LoadJobs is under way, and none     *)
(* failed or ran beside another, a rule that exists has one entry of the   *)
(* cron library if it is enabled and none if it is not.                    *)
THEOREM LibraryFollowsRule == Spec => []ScheduleFollowsRule
<1>1. IInv => ScheduleFollowsRule
  <2> SUFFICES ASSUME IInv, ~spoiled, row.present,
                      \A e \in Edits : edit[e].pc \in {"idle", "write"}
               PROVE  entries = IF row.enabled THEN {jobs} ELSE {}
    BY DEF ScheduleFollowsRule
  <2>1. Loading = {} /\ Listing = {} /\ ~(\E e \in Edits : edit[e].pc = "add")
    BY DEF Loading, Listing
  <2> QED BY <2>1 DEF IInv, LoadInv
<1> QED BY <1>1, Invariance, PTL

=============================================================================
